---------------------------- MODULE MCSchemaInit ----------------------------
EXTENDS SchemaInit

CONSTANTS uhf, vhf

Receivers  == {uhf, vhf}

(* No database yet, or one of any version up to the code's. *)
KnownVersions == {None} \cup Versions

(* The same, and one a later version of the code has been at. *)
AnyVersion == KnownVersions \cup {Target + 1}
=============================================================================

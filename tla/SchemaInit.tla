----------------------------- MODULE SchemaInit -----------------------------
(***************************************************************************)
(* init_schema(): every capture process brings the shared database to the  *)
(* schema the code expects before it opens a run.  The steps are separate  *)
(* commits -- read the version, run the baseline script (which stamps      *)
(* version 2 on whatever is there), write the version back, one            *)
(* transaction per migration, check -- under a lock file the processes     *)
(* share.  The kernel drops the lock of a process that dies.               *)
(*                                                                         *)
(* The baseline's tables are created IF NOT EXISTS and are left out: its   *)
(* only lasting effect on a database that has them is the stamp.           *)
(***************************************************************************)
EXTENDS Integers, FiniteSets

CONSTANTS
  Procs,        \* the processes that share the database
  Target,       \* SCHEMA_VERSION, also the last migration
  Repeatable,   \* migrations that succeed on a database that has them
  Initial,      \* versions the database may have at first; None: no database
  Kinds,        \* what may happen: "crash" (a process is killed), "power" (is lost)
  MaxStarts     \* bound: starts of one process in one behaviour

None     == -1
Baseline == 2
Versions == Baseline .. Target

ASSUME SchemaConstants ==
  /\ None \notin Procs
  /\ Target \in Nat /\ Target > Baseline
  /\ Repeatable \subseteq Nat
  /\ Initial \subseteq {None} \cup {v \in Nat : v >= Baseline}
  /\ Kinds \subseteq SUBSET {"crash", "power"}
  /\ MaxStarts \in Nat

VARIABLES
  may,     \* the failures of this behaviour, one of Kinds
  db,      \* schema_meta's version and the migrations the tables contain
  disk,    \* the states of db a loss of power now may leave
  lock,    \* holder of the lock file, or None
  pc,      \* per process: the next step of init_schema()
  prior,   \* per process: the version read before the baseline
  have,    \* per process: the version apply() has reached
  starts   \* per process: starts so far (bounds the model)

vars == <<may, db, disk, lock, pc, prior, have, starts>>

At(v) == [version |-> v, applied |-> IF v = None THEN {} ELSE Baseline + 1 .. v]

(* Write-ahead log with synchronous = NORMAL: a commit is not yet synced,  *)
(* and a loss of power takes the database back to some earlier commit.     *)
Commit(d) == /\ db' = d
             /\ disk' = IF "power" \in may THEN disk \cup {d} ELSE disk

Sync == /\ disk' = {db}
        /\ UNCHANGED <<db, lock, pc, prior, have, starts>>

Goes(p, from, to) == pc[p] = from /\ pc' = [pc EXCEPT ![p] = to]

-----------------------------------------------------------------------------
(* Mutant: the lock file is not taken. *)
AcquireNothing(p) ==
  /\ Goes(p, "start", "read")
  /\ UNCHANGED <<db, disk, lock, prior, have, starts>>

Acquire(p) ==
  /\ Goes(p, "start", "read")
  /\ lock = None
  /\ lock' = p
  /\ UNCHANGED <<db, disk, prior, have, starts>>

ReadVersion(p) ==
  /\ Goes(p, "read", "baseline")
  /\ prior' = [prior EXCEPT ![p] = db.version]
  /\ UNCHANGED <<db, disk, lock, have, starts>>

RunBaseline(p) ==
  /\ Goes(p, "baseline", "restore")
  /\ Commit([db EXCEPT !.version = Baseline])
  /\ UNCHANGED <<lock, prior, have, starts>>

(* Mutant: the version the code expects is written back. *)
RestoreTarget(p) ==
  /\ Goes(p, "restore", "have")
  /\ IF prior[p] = None THEN UNCHANGED <<db, disk>>
                        ELSE Commit([db EXCEPT !.version = Target])
  /\ UNCHANGED <<lock, prior, have, starts>>

(* Mutant: the version read before is not written back. *)
RestoreNothing(p) ==
  /\ Goes(p, "restore", "have")
  /\ UNCHANGED <<db, disk, lock, prior, have, starts>>

Restore(p) ==
  /\ Goes(p, "restore", "have")
  /\ IF prior[p] = None THEN UNCHANGED <<db, disk>>
                        ELSE Commit([db EXCEPT !.version = prior[p]])
  /\ UNCHANGED <<lock, prior, have, starts>>

Releases(p) == lock' = IF lock = p THEN None ELSE lock

(* apply(): what is pending is decided once, from the version read here. *)
ReadHave(p) ==
  /\ have' = [have EXCEPT ![p] = db.version]
  /\ IF db.version > Target
       THEN Goes(p, "have", "failed") /\ Releases(p)
       ELSE Goes(p, "have", "apply") /\ UNCHANGED lock
  /\ UNCHANGED <<db, disk, prior, starts>>

(* One migration is one transaction: its statements and the new stamp.     *)
(* Run again on a database that has it, most fail: duplicate column name.  *)
Migrate(p) ==
  /\ have[p] < Target
  /\ LET v == have[p] + 1
     IN IF v \in db.applied /\ v \notin Repeatable
          THEN /\ Goes(p, "apply", "failed")
               /\ Releases(p)
               /\ UNCHANGED <<db, disk, have>>
          ELSE /\ Goes(p, "apply", "apply")
               /\ Commit([version |-> v, applied |-> db.applied \cup {v}])
               /\ have' = [have EXCEPT ![p] = v]
               /\ UNCHANGED lock
  /\ UNCHANGED <<prior, starts>>

(* Mutant: the lock outlives init_schema(). *)
CheckKeepsLock(p) ==
  /\ have[p] >= Target
  /\ Goes(p, "apply", IF db.version = Target THEN "done" ELSE "failed")
  /\ UNCHANGED <<db, disk, lock, prior, have, starts>>

Check(p) ==
  /\ have[p] >= Target
  /\ Goes(p, "apply", IF db.version = Target THEN "done" ELSE "failed")
  /\ Releases(p)
  /\ UNCHANGED <<db, disk, prior, have, starts>>

-----------------------------------------------------------------------------
(* The supervisor starts it again, after a failure or at the next boot. *)
Restart(p) ==
  /\ pc[p] \in {"done", "failed"}
  /\ starts[p] < MaxStarts
  /\ starts' = [starts EXCEPT ![p] = @ + 1]
  /\ pc' = [pc EXCEPT ![p] = "start"]
  /\ UNCHANGED <<db, disk, lock, prior, have>>

Crash(p) ==
  /\ "crash" \in may
  /\ pc[p] \notin {"start", "done", "failed"}
  /\ starts[p] < MaxStarts
  /\ starts' = [starts EXCEPT ![p] = @ + 1]
  /\ pc' = [pc EXCEPT ![p] = "start"]
  /\ Releases(p)
  /\ UNCHANGED <<db, disk, prior, have>>

PowerCut ==
  /\ "power" \in may
  /\ \A p \in Procs : starts[p] < MaxStarts
  /\ starts' = [p \in Procs |-> starts[p] + 1]
  /\ pc' = [p \in Procs |-> "start"]
  /\ lock' = None
  /\ db' \in disk
  /\ disk' = {db'}
  /\ UNCHANGED <<prior, have>>

Init ==
  /\ may \in Kinds
  /\ \E v \in Initial : db = At(v)
  /\ disk = {db}
  /\ lock = None
  /\ pc = [p \in Procs |-> "start"]
  /\ prior = [p \in Procs |-> None]
  /\ have = [p \in Procs |-> None]
  /\ starts = [p \in Procs |-> 0]

Step(p) == \/ Acquire(p) \/ ReadVersion(p) \/ RunBaseline(p) \/ Restore(p)
           \/ ReadHave(p) \/ Migrate(p) \/ Check(p)

Next ==
  /\ UNCHANGED may
  /\ \/ \E p \in Procs : Step(p) \/ Restart(p) \/ Crash(p)
     \/ PowerCut
     \/ "power" \in may /\ Sync

Spec == Init /\ [][Next]_vars

(* A process that is running goes on; nobody has to restart it. *)
FairSpec == Spec /\ \A p \in Procs : WF_vars(UNCHANGED may /\ Step(p))

-----------------------------------------------------------------------------
(* Properties. *)

Db == [version : {None} \cup Nat, applied : SUBSET Nat]

TypeOK ==
  /\ db \in Db
  /\ disk \subseteq Db
  /\ lock \in Procs \cup {None}
  /\ pc \in [Procs -> {"start", "read", "baseline", "restore", "have", "apply", "done",
                       "failed"}]
  /\ prior \in [Procs -> {None} \cup Nat]
  /\ have \in [Procs -> {None} \cup Nat]
  /\ starts \in [Procs -> Nat]

Honest(d) == d = At(d.version)

Unharmed == may = {}

(* Unless a process is killed or power lost: whenever no process is inside *)
(* init_schema(), the version stamped on the database is the version of    *)
(* its tables, and no process wrote a stale one over another's migrations. *)
VersionAgrees == Unharmed /\ lock = None => Honest(db)

(* No start fails on a database the code is not too old for. *)
FailsOnlyIfNewer ==
  \A p \in Procs : pc[p] = "failed" => \E v \in db.applied : v > Target

(* Receivers that start at once do not make each other fail. *)
StartsSucceed == Unharmed => FailsOnlyIfNewer

(* The stamp never claims a migration the tables do not contain, processes *)
(* killed and power lost included: what a later start takes for done has   *)
(* been done.                                                              *)
NeverOverstamped ==
  db.version # None => Baseline + 1 .. db.version \subseteq db.applied

(* Every process that starts gets through init_schema(), and is turned     *)
(* away only by a newer database.                                          *)
EveryStartFinishes ==
  \A p \in Procs :
    Unharmed /\ pc[p] = "start"
      ~> pc[p] = "done" \/ (pc[p] = "failed" /\ \E v \in db.applied : v > Target)
=============================================================================

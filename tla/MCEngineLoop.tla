---------------------------- MODULE MCEngineLoop ----------------------------
EXTENDS EngineLoop

OneHarmonic == {<<2, 1>>}
TwoWindows  == <<1, 2>>
=============================================================================

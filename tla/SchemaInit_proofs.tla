------------------------- MODULE SchemaInit_proofs -------------------------
(***************************************************************************)
(* Proofs about SchemaInit, for any set of processes and any number of     *)
(* migrations.                                                             *)
(***************************************************************************)
EXTENDS SchemaInit, TLAPS

-----------------------------------------------------------------------------
(* Types. *)

LEMMA AtType == ASSUME NEW v \in {None} \cup Nat PROVE At(v) \in Db
BY DEF At, Db, None, Baseline

LEMMA InitType == Init => TypeOK
<1> SUFFICES ASSUME Init PROVE TypeOK
  OBVIOUS
<1>1. PICK v \in Initial : db = At(v)
  BY DEF Init
<1>2. db \in Db
  BY <1>1, AtType, SchemaConstants
<1> QED
  BY <1>2, SchemaConstants DEF Init, TypeOK

LEMMA CommitType ==
  ASSUME TypeOK, NEW d \in Db, Commit(d)
  PROVE  db' \in Db /\ disk' \subseteq Db
BY DEF TypeOK, Commit

(* A step of one process keeps the types. *)
LEMMA StepType ==
  ASSUME TypeOK, NEW p \in Procs, Step(p)
  PROVE  TypeOK'
<1> USE DEF TypeOK
<1>1. CASE Acquire(p)
  BY <1>1 DEF Acquire, Goes
<1>2. CASE ReadVersion(p)
  <2>1. db.version \in {None} \cup Nat
    BY DEF Db
  <2> QED
    BY <1>2, <2>1 DEF ReadVersion, Goes
<1>3. CASE RunBaseline(p)
  <2>1. [db EXCEPT !.version = Baseline] \in Db
    BY DEF Db, Baseline
  <2>2. db' \in Db /\ disk' \subseteq Db
    BY <1>3, <2>1, CommitType DEF RunBaseline
  <2> QED
    BY <1>3, <2>2 DEF RunBaseline, Goes
<1>4. CASE Restore(p)
  <2>1. [db EXCEPT !.version = prior[p]] \in Db
    BY DEF Db
  <2>2. db' \in Db /\ disk' \subseteq Db
    BY <1>4, <2>1, CommitType DEF Restore
  <2> QED
    BY <1>4, <2>2 DEF Restore, Goes
<1>5. CASE ReadHave(p)
  <2>1. db.version \in {None} \cup Nat
    BY DEF Db
  <2> QED
    BY <1>5, <2>1 DEF ReadHave, Goes, Releases
<1>6. CASE Migrate(p)
  <2>1. have[p] + 1 \in Nat
    BY DEF None
  <2>2. [version |-> have[p] + 1, applied |-> db.applied \cup {have[p] + 1}] \in Db
    BY <2>1 DEF Db
  <2>3. db' \in Db /\ disk' \subseteq Db
    BY <1>6, <2>2, CommitType DEF Migrate
  <2> QED
    BY <1>6, <2>1, <2>3 DEF Migrate, Goes, Releases
<1>7. CASE Check(p)
  BY <1>7 DEF Check, Goes, Releases
<1> QED
  BY <1>1, <1>2, <1>3, <1>4, <1>5, <1>6, <1>7 DEF Step

LEMMA NextType == TypeOK /\ [Next]_vars => TypeOK'
<1> SUFFICES ASSUME TypeOK, [Next]_vars PROVE TypeOK'
  OBVIOUS
<1>1. ASSUME NEW p \in Procs, Step(p) PROVE TypeOK'
  BY <1>1, StepType
<1>2. ASSUME NEW p \in Procs, Restart(p) PROVE TypeOK'
  BY <1>2 DEF TypeOK, Restart
<1>3. ASSUME NEW p \in Procs, Crash(p) PROVE TypeOK'
  BY <1>3 DEF TypeOK, Crash, Releases
<1>4. CASE PowerCut
  BY <1>4 DEF TypeOK, PowerCut
<1>5. CASE Sync
  BY <1>5 DEF TypeOK, Sync
<1>6. CASE UNCHANGED vars
  BY <1>6 DEF TypeOK, vars
<1> QED
  BY <1>1, <1>2, <1>3, <1>4, <1>5, <1>6 DEF Next

(* Types are kept: TypeOK, for any processes, versions and faults. *)
THEOREM TypeCorrect == Spec => []TypeOK
BY InitType, NextType, PTL DEF Spec

-----------------------------------------------------------------------------
(* The stamp.  By itself NeverOverstamped is not inductive: a process      *)
(* writes back what it read, and stamps the successor of what it reached,  *)
(* so both must be covered by the tables; and a loss of power takes the    *)
(* database back, so every state it may come back in must be sound too.    *)

Sound(d) == d.version # None => Baseline + 1 .. d.version \subseteq d.applied

StampInv ==
  /\ TypeOK
  /\ Sound(db)
  /\ \A d \in disk : Sound(d)
  /\ \A p \in Procs :
       /\ pc[p] \in {"baseline", "restore"} => Baseline + 1 .. prior[p] \subseteq db.applied
       /\ pc[p] = "apply" => Baseline + 1 .. have[p] \subseteq db.applied

LEMMA StampInit == Init => StampInv
<1> SUFFICES ASSUME Init PROVE StampInv
  OBVIOUS
<1>1. PICK v \in Initial : db = At(v)
  BY DEF Init
<1>2. Sound(db)
  BY <1>1 DEF Sound, At
<1> QED
  BY <1>2, InitType DEF Init, StampInv

(* What a commit of a sound state that loses no migration preserves. *)
LEMMA CommitSound ==
  ASSUME StampInv, NEW d \in Db, Sound(d), Commit(d), db.applied \subseteq d.applied
  PROVE  /\ Sound(db')
         /\ \A e \in disk' : Sound(e)
         /\ db.applied \subseteq db'.applied
BY DEF StampInv, Commit

LEMMA StampStep ==
  ASSUME StampInv, NEW p \in Procs, Step(p)
  PROVE  StampInv'
<1>1. TypeOK /\ TypeOK'
  BY StepType DEF StampInv
<1>2. CASE Acquire(p)
  BY <1>1, <1>2 DEF StampInv, Acquire, Goes, TypeOK
<1>3. CASE ReadVersion(p)
  <2>1. Baseline + 1 .. db.version \subseteq db.applied
    BY <1>1 DEF StampInv, Sound, TypeOK, Db, None, Baseline
  <2> QED
    BY <1>1, <1>3, <2>1 DEF StampInv, ReadVersion, Goes, TypeOK
<1>4. CASE RunBaseline(p)
  <2> DEFINE d == [db EXCEPT !.version = Baseline]
  <2>1. d \in Db /\ Sound(d) /\ d.applied = db.applied
    BY <1>1 DEF Db, Baseline, Sound, TypeOK
  <2>2. /\ Sound(db') /\ \A e \in disk' : Sound(e)
        /\ db.applied \subseteq db'.applied
    BY <1>4, <2>1, CommitSound DEF RunBaseline
  <2> QED
    BY <1>1, <1>4, <2>2 DEF StampInv, RunBaseline, Goes, TypeOK
<1>5. CASE Restore(p)
  <2> DEFINE d == [db EXCEPT !.version = prior[p]]
  <2>1. d \in Db /\ Sound(d) /\ d.applied = db.applied
    BY <1>1, <1>5 DEF Db, Sound, TypeOK, StampInv, Restore, Goes
  <2>2. /\ Sound(db') /\ \A e \in disk' : Sound(e)
        /\ db.applied \subseteq db'.applied
    BY <1>5, <2>1, CommitSound DEF Restore, StampInv
  <2> QED
    BY <1>1, <1>5, <2>2 DEF StampInv, Restore, Goes, TypeOK
<1>6. CASE ReadHave(p)
  <2>1. Baseline + 1 .. db.version \subseteq db.applied
    BY <1>1 DEF StampInv, Sound, TypeOK, Db, None, Baseline
  <2> QED
    BY <1>1, <1>6, <2>1 DEF StampInv, ReadHave, Goes, TypeOK
<1>7. CASE Migrate(p)
  <2> DEFINE v == have[p] + 1
             d == [version |-> v, applied |-> db.applied \cup {v}]
  <2>1. have[p] \in Int /\ v \in Nat /\ pc[p] = "apply"
    BY <1>1, <1>7 DEF TypeOK, None, Migrate, Goes
  <2>2. Baseline + 1 .. have[p] \subseteq db.applied
    BY <2>1 DEF StampInv
  <2>3. Baseline + 1 .. v \subseteq db.applied \cup {v}
    BY <2>1, <2>2 DEF Baseline
  <2>4. d \in Db /\ Sound(d) /\ db.applied \subseteq d.applied
    BY <1>1, <2>1, <2>3 DEF Db, Sound, TypeOK
  <2>5. CASE Commit(d) /\ have' = [have EXCEPT ![p] = v] /\ Goes(p, "apply", "apply")
    <3>1. /\ Sound(db') /\ \A e \in disk' : Sound(e)
          /\ db.applied \subseteq db'.applied
      BY <2>4, <2>5, CommitSound
    <3>2. Baseline + 1 .. v \subseteq db'.applied
      BY <2>3, <2>5 DEF Commit
    <3>3. have'[p] = v /\ \A q \in Procs : q # p => have'[q] = have[q]
      BY <1>1, <2>5 DEF TypeOK
    <3>4. prior' = prior /\ pc' = pc
      BY <1>1, <1>7, <2>5 DEF Migrate, Goes, TypeOK
    <3> HIDE DEF v
    <3> QED
      BY <1>1, <3>1, <3>2, <3>3, <3>4 DEF StampInv
  <2>6. CASE UNCHANGED <<db, disk, have>> /\ Goes(p, "apply", "failed")
    BY <1>1, <1>7, <2>6 DEF StampInv, Migrate, Goes, TypeOK
  <2> QED
    BY <1>7, <2>5, <2>6 DEF Migrate
<1>8. CASE Check(p)
  BY <1>1, <1>8 DEF StampInv, Check, Goes, TypeOK
<1> QED
  BY <1>2, <1>3, <1>4, <1>5, <1>6, <1>7, <1>8 DEF Step

LEMMA StampNext == StampInv /\ [Next]_vars => StampInv'
<1> SUFFICES ASSUME StampInv, [Next]_vars PROVE StampInv'
  OBVIOUS
<1>1. TypeOK /\ TypeOK'
  BY NextType DEF StampInv
<1>2. ASSUME NEW p \in Procs, Step(p) PROVE StampInv'
  BY <1>2, StampStep
<1>3. ASSUME NEW p \in Procs, Restart(p) \/ Crash(p) PROVE StampInv'
  BY <1>1, <1>3 DEF StampInv, Restart, Crash, TypeOK
<1>4. CASE PowerCut
  BY <1>1, <1>4 DEF StampInv, PowerCut
<1>5. CASE Sync
  BY <1>1, <1>5 DEF StampInv, Sync
<1>6. CASE UNCHANGED vars
  BY <1>1, <1>6 DEF StampInv, vars
<1> QED
  BY <1>2, <1>3, <1>4, <1>5, <1>6 DEF Next

(* The stamp never claims a migration the tables lack, whatever processes  *)
(* die or however often the power goes.                                    *)
THEOREM StampSound == Spec => []NeverOverstamped
<1>1. StampInv => NeverOverstamped
  BY DEF StampInv, Sound, NeverOverstamped
<1> QED
  BY <1>1, StampInit, StampNext, PTL DEF Spec

-----------------------------------------------------------------------------
(* The lock.  Where nobody is killed, a process between taking the lock    *)
(* and leaving holds it, so what it read is what it will find: LockInv     *)
(* says, step by step, how far the stamp is from the tables.               *)

Inside(p) == pc[p] \in {"read", "baseline", "restore", "have", "apply"}

Known(v) == v = None \/ v >= Baseline

Progress(p) ==
  /\ pc[p] = "read" => Honest(db) /\ Known(db.version)
  /\ pc[p] = "baseline" => Honest(db) /\ prior[p] = db.version /\ Known(prior[p])
  /\ pc[p] = "restore" => /\ db.version = Baseline
                          /\ db.applied = At(prior[p]).applied /\ Known(prior[p])
  /\ pc[p] = "have" => Honest(db) /\ db.version >= Baseline
  /\ pc[p] = "apply" => /\ Honest(db) /\ have[p] = db.version
                        /\ Baseline <= have[p] /\ have[p] <= Target

LockInv ==
  /\ TypeOK
  /\ \A p \in Procs : Inside(p) => lock = p
  /\ lock # None => Inside(lock)
  /\ lock = None => Honest(db) /\ Known(db.version)
  /\ \A p \in Procs : Progress(p)
  /\ FailsOnlyIfNewer

LEMMA LockInit == Init => LockInv
<1> SUFFICES ASSUME Init PROVE LockInv
  OBVIOUS
<1>1. PICK v \in Initial : db = At(v)
  BY DEF Init
<1>2. Honest(db) /\ Known(db.version)
  BY <1>1, SchemaConstants DEF Honest, Known, At
<1> QED
  BY <1>2, InitType DEF Init, LockInv, Inside, Progress, FailsOnlyIfNewer

(* Others are outside, so a step of the holder disturbs nobody. *)
LEMMA OthersOutside ==
  ASSUME LockInv, NEW p \in Procs, Inside(p), NEW q \in Procs, q # p
  PROVE  ~Inside(q)
BY DEF LockInv

LEMMA AtVersion ==
  ASSUME NEW v \in Nat, v >= Baseline
  PROVE  /\ At(v).version = v /\ At(v).applied = Baseline + 1 .. v
         /\ At(v + 1) = [version |-> v + 1, applied |-> (Baseline + 1 .. v) \cup {v + 1}]
         /\ v + 1 \notin Baseline + 1 .. v
<1>1. v # None /\ v + 1 # None
  BY DEF None
<1>2. Baseline + 1 .. v + 1 = (Baseline + 1 .. v) \cup {v + 1}
  BY DEF Baseline
<1>3. v + 1 \notin Baseline + 1 .. v
  BY DEF Baseline
<1>4. At(v) = [version |-> v, applied |-> Baseline + 1 .. v]
  BY <1>1 DEF At
<1>5. At(v + 1) = [version |-> v + 1, applied |-> (Baseline + 1 .. v) \cup {v + 1}]
  BY <1>1, <1>2, Zenon DEF At
<1> QED
  BY <1>3, <1>4, <1>5

LEMMA LockStep ==
  ASSUME LockInv, NEW p \in Procs, Step(p)
  PROVE  LockInv'
<1>1. TypeOK /\ TypeOK'
  BY StepType DEF LockInv
<1>2. lock \in Procs \cup {None} /\ None \notin Procs
  BY <1>1, SchemaConstants DEF TypeOK
<1>3. CASE Acquire(p)
  <2>1. Honest(db) /\ Known(db.version) /\ \A q \in Procs : ~Inside(q)
    BY <1>2, <1>3 DEF Acquire, LockInv
  <2>2. pc' = [pc EXCEPT ![p] = "read"] /\ lock' = p /\ UNCHANGED <<db, prior, have>>
    BY <1>3 DEF Acquire, Goes
  <2>3. Inside(p)' /\ \A q \in Procs : q # p => ~Inside(q)'
    BY <1>1, <2>1, <2>2 DEF Inside, TypeOK
  <2>4. \A q \in Procs : Progress(q)'
    BY <1>1, <2>1, <2>2, <2>3 DEF Inside, TypeOK, Progress, Honest
  <2>5. FailsOnlyIfNewer'
    BY <1>1, <2>2 DEF LockInv, FailsOnlyIfNewer, TypeOK
  <2> QED
    BY <1>1, <1>2, <2>2, <2>3, <2>4, <2>5 DEF LockInv
<1>4. ASSUME NEW next \in {"baseline", "restore", "have", "apply"},
             Inside(p), pc' = [pc EXCEPT ![p] = next], lock' = lock,
             \A q \in Procs : q # p => prior'[q] = prior[q] /\ have'[q] = have[q],
             db.applied \subseteq db'.applied,
             Progress(p)'
      PROVE  LockInv'
  <2>1. lock = p /\ \A q \in Procs : q # p => ~Inside(q)
    BY <1>4, OthersOutside DEF LockInv
  <2>2. Inside(p)' /\ \A q \in Procs : q # p => ~Inside(q)'
    BY <1>1, <1>4, <2>1 DEF Inside, TypeOK
  <2>3. \A q \in Procs : Progress(q)'
    BY <1>4, <2>2 DEF Inside, Progress
  <2>4. FailsOnlyIfNewer'
    BY <1>1, <1>4 DEF LockInv, FailsOnlyIfNewer, TypeOK
  <2> QED
    BY <1>1, <1>2, <1>4, <2>1, <2>2, <2>3, <2>4 DEF LockInv
<1>5. ASSUME NEW end \in {"done", "failed"},
             Inside(p), pc' = [pc EXCEPT ![p] = end], Releases(p),
             UNCHANGED db, Honest(db) /\ Known(db.version),
             end = "failed" => \E v \in db.applied : v > Target
      PROVE  LockInv'
  <2>1. lock = p /\ \A q \in Procs : q # p => ~Inside(q)
    BY <1>5, OthersOutside DEF LockInv
  <2>2. lock' = None /\ \A q \in Procs : ~Inside(q)'
    BY <1>1, <1>5, <2>1 DEF Inside, TypeOK, Releases
  <2>3. \A q \in Procs : Progress(q)'
    BY <2>2 DEF Inside, Progress
  <2>4. FailsOnlyIfNewer'
    BY <1>1, <1>5 DEF LockInv, FailsOnlyIfNewer, TypeOK
  <2> QED
    BY <1>1, <1>5, <2>2, <2>3, <2>4 DEF LockInv, Honest
<1>6. CASE ReadVersion(p)
  <2>1. pc[p] = "read" /\ Inside(p) /\ pc' = [pc EXCEPT ![p] = "baseline"]
    BY <1>6 DEF ReadVersion, Goes, Inside
  <2>2. Progress(p)'
    BY <1>1, <1>6, <2>1 DEF ReadVersion, Progress, LockInv, TypeOK, Honest
  <2> QED
    BY <1>1, <1>4, <1>6, <2>1, <2>2 DEF ReadVersion, TypeOK
<1>7. CASE RunBaseline(p)
  <2>1. pc[p] = "baseline" /\ Inside(p) /\ pc' = [pc EXCEPT ![p] = "restore"]
    BY <1>7 DEF RunBaseline, Goes, Inside
  <2>2. db'.version = Baseline /\ db'.applied = db.applied
    BY <1>1, <1>7 DEF RunBaseline, Commit, TypeOK, Db
  <2>3. db.applied = At(prior[p]).applied /\ Known(prior[p])
    BY <2>1 DEF LockInv, Progress, Honest
  <2>4. Progress(p)'
    BY <1>1, <1>7, <2>1, <2>2, <2>3 DEF RunBaseline, Progress, TypeOK
  <2> QED
    BY <1>4, <1>7, <2>1, <2>2, <2>4 DEF RunBaseline
<1>8. CASE Restore(p)
  <2>1. pc[p] = "restore" /\ Inside(p) /\ pc' = [pc EXCEPT ![p] = "have"]
    BY <1>8 DEF Restore, Goes, Inside
  <2>2. /\ db.version = Baseline /\ db.applied = At(prior[p]).applied
        /\ Known(prior[p]) /\ db = [version |-> db.version, applied |-> db.applied]
    BY <1>1, <2>1 DEF LockInv, Progress, TypeOK, Db
  <2>3. db' = [version |-> IF prior[p] = None THEN Baseline ELSE prior[p],
               applied |-> db.applied]
    BY <1>8, <2>2 DEF Restore, Commit
  <2>4. Honest(db') /\ db'.version >= Baseline
    <3>1. CASE prior[p] = None
      <4>1. Baseline + 1 .. Baseline = {}
        BY DEF Baseline
      <4> QED
        BY <2>2, <2>3, <3>1, <4>1 DEF Honest, At, None, Baseline
    <3>2. CASE prior[p] # None
      BY <2>2, <2>3, <3>2 DEF Honest, At, Known
    <3> QED
      BY <3>1, <3>2
  <2>5. Progress(p)'
    BY <1>1, <2>1, <2>4 DEF Progress, TypeOK, Honest
  <2> QED
    BY <1>4, <1>8, <2>1, <2>3, <2>5 DEF Restore
<1>9. CASE ReadHave(p)
  <2>1. pc[p] = "have" /\ Inside(p)
    BY <1>9 DEF ReadHave, Goes, Inside
  <2>2. Honest(db) /\ db.version \in Nat /\ db.version >= Baseline /\ Known(db.version)
    BY <1>1, <2>1 DEF LockInv, Progress, TypeOK, Db, None, Baseline, Known
  <2>3. CASE db.version > Target
    <3>1. db.version \in db.applied
      <4>1. db.applied = Baseline + 1 .. db.version
        BY <2>2, AtVersion DEF Honest
      <4> QED
        BY <2>2, <2>3, <4>1, SchemaConstants DEF Baseline
    <3> QED
      BY <1>5, <1>9, <2>1, <2>2, <2>3, <3>1 DEF ReadHave, Goes
  <2>4. CASE ~(db.version > Target)
    <3>1. /\ pc' = [pc EXCEPT ![p] = "apply"] /\ lock' = lock /\ UNCHANGED <<db, prior>>
          /\ have' = [have EXCEPT ![p] = db.version]
      BY <1>9, <2>4 DEF ReadHave, Goes
    <3>2. Progress(p)'
      BY <1>1, <2>2, <2>4, <3>1, SchemaConstants DEF Progress, TypeOK, Honest
    <3> QED
      BY <1>1, <1>4, <2>1, <3>1, <3>2 DEF TypeOK
  <2> QED
    BY <2>3, <2>4
<1>10. CASE Migrate(p)
  <2>1. pc[p] = "apply" /\ Inside(p) /\ have[p] < Target
    BY <1>10 DEF Migrate, Goes, Inside
  <2>2. /\ db = At(have[p]) /\ have[p] = db.version /\ have[p] \in Nat
        /\ have[p] >= Baseline
    BY <1>1, <2>1 DEF LockInv, Progress, TypeOK, Honest, None, Baseline
  <2>3. have[p] + 1 \notin db.applied
    BY <2>2, AtVersion
  <2>4. /\ db' = At(have[p] + 1) /\ db.applied \subseteq db'.applied
        /\ pc' = [pc EXCEPT ![p] = "apply"] /\ lock' = lock /\ prior' = prior
        /\ have' = [have EXCEPT ![p] = have[p] + 1]
    <3>1. At(have[p] + 1) = [version |-> have[p] + 1, applied |-> db.applied \cup {have[p] + 1}]
      BY <2>2, AtVersion
    <3>2. db.applied \subseteq At(have[p] + 1).applied
      BY <3>1
    <3> QED
      BY <1>10, <2>3, <3>1, <3>2 DEF Migrate, Goes, Commit
  <2>5. have'[p] = have[p] + 1 /\ db'.version = have[p] + 1 /\ Honest(db')
    BY <1>1, <2>2, <2>4 DEF TypeOK, At, Honest
  <2>6. pc'[p] = "apply" /\ Baseline <= have[p] + 1 /\ have[p] + 1 <= Target
    BY <1>1, <2>1, <2>2, <2>4, SchemaConstants DEF TypeOK, Baseline
  <2>7. Progress(p)'
    BY <2>5, <2>6 DEF Progress, Honest
  <2> QED
    BY <1>1, <1>4, <2>1, <2>4, <2>7 DEF TypeOK
<1>11. CASE Check(p)
  <2>1. pc[p] = "apply" /\ Inside(p) /\ have[p] >= Target
    BY <1>11 DEF Check, Goes, Inside
  <2>2. /\ Honest(db) /\ Known(db.version) /\ db.version = Target
    BY <1>1, <2>1, SchemaConstants DEF LockInv, Progress, TypeOK, Known, None, Baseline
  <2> QED
    BY <1>5, <1>11, <2>1, <2>2 DEF Check, Goes
<1> QED
  BY <1>3, <1>6, <1>7, <1>8, <1>9, <1>10, <1>11 DEF Step

LEMMA LockNext == (Unharmed => LockInv) /\ [Next]_vars => (Unharmed => LockInv)'
<1> SUFFICES ASSUME LockInv, [Next]_vars, may = {} PROVE LockInv'
  BY DEF Next, vars, Unharmed
<1>1. TypeOK /\ TypeOK'
  BY NextType DEF LockInv
<1>2. ASSUME NEW p \in Procs, Step(p) PROVE LockInv'
  BY <1>2, LockStep
<1>3. ASSUME NEW p \in Procs, Restart(p) PROVE LockInv'
  <2>1. /\ ~Inside(p) /\ pc' = [pc EXCEPT ![p] = "start"]
        /\ UNCHANGED <<db, lock, prior, have>>
    BY <1>3 DEF Restart, Inside
  <2>2. \A q \in Procs : Inside(q)' <=> Inside(q)
    BY <1>1, <2>1 DEF Inside, TypeOK
  <2>3. \A q \in Procs : Progress(q)'
    BY <1>1, <2>1 DEF LockInv, Progress, TypeOK, Honest
  <2>4. FailsOnlyIfNewer'
    BY <1>1, <2>1 DEF LockInv, FailsOnlyIfNewer, TypeOK
  <2> QED
    BY <1>1, <2>1, <2>2, <2>3, <2>4, SchemaConstants DEF LockInv, Honest, TypeOK
<1>4. CASE UNCHANGED vars
  BY <1>1, <1>4 DEF LockInv, vars, Inside, Progress, Honest, FailsOnlyIfNewer
<1> QED
  BY <1>2, <1>3, <1>4 DEF Next, Crash, PowerCut

(* Unless something is killed, the stamp outside init_schema() is the      *)
(* version of the tables, for any number of processes starting at once.    *)
THEOREM LockSuffices == Spec => []VersionAgrees
<1>1. (Unharmed => LockInv) => VersionAgrees
  BY DEF LockInv, VersionAgrees
<1> QED
  BY <1>1, LockInit, LockNext, PTL DEF Spec

(* Unless something is killed, init_schema() refuses a process only        *)
(* because the database is newer than the code: no start loses the race    *)
(* for the lock to another that has the schema half way.                   *)
THEOREM StartsDoNotFail == Spec => []StartsSucceed
<1>1. (Unharmed => LockInv) => StartsSucceed
  BY DEF LockInv, StartsSucceed
<1> QED
  BY <1>1, LockInit, LockNext, PTL DEF Spec
=============================================================================

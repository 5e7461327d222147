---------------------- MODULE ReviewedCaseIndexProofs -----------------------
(***************************************************************************)
(* Proofs about ReviewedCaseIndex, for any number of callers, cases and    *)
(* kinds of evidence.                                                      *)
(*                                                                         *)
(* None of the invariants is inductive by itself: that the files can be    *)
(* recovered at every moment depends on what the caller that holds the     *)
(* lock has done so far.  IInv adds, for every point of a call, what the   *)
(* files and the pending transition look like there (CallInv), that only   *)
(* the holder of the lock is past Acquire (LockInv), and that the index is *)
(* empty until it is initialized (RootInv).                                *)
(***************************************************************************)
EXTENDS ReviewedCaseIndex, TLAPS

-----------------------------------------------------------------------------
(* The inductive invariant.                                                *)

LockInv == \A p \in Procs : pc[p] \in Holding <=> lock = p

RootInv ==
  /\ ~rootExists => /\ transition = NoTransition
                    /\ database = EmptySnapshot
                    /\ vectors = EmptySnapshot
                    /\ manifest = EmptySnapshot
  /\ \A p \in Procs : pc[p] \in Holding \ {"ready"} => rootExists

\* The request that p is appending, entered into snapshot s.
With(s, p) == [s EXCEPT ![request[p].case] = request[p].evidence]

BeforePublish(p) ==
  /\ pc[p] \in {"readySweep", "apply"} \cup StagingSteps =>
       transition = NoTransition
  /\ pc[p] \in {"apply", "copyDatabase", "repairUnlink"} => StagingIsEmpty
  /\ pc[p] \in StagingSteps =>
       request[p] # Query /\ database[request[p].case] = Absent
  /\ pc[p] = "insertRecord" =>
       stagedDatabase = database /\ stagedVectors = EmptySnapshot
  /\ pc[p] = "stageVector" =>
       stagedDatabase = With(database, p) /\ stagedVectors = EmptySnapshot
  /\ pc[p] = "publish" =>
       /\ stagedDatabase = With(database, p)
       /\ stagedVectors = With(EmptySnapshot, p)

AfterPublish(p) ==
  /\ pc[p] \in CommitSteps =>
       /\ transition # NoTransition
       /\ ExactAppend(transition)
       /\ request[p] # Query
       /\ transition.case = request[p].case
       /\ transition.following[request[p].case] = request[p].evidence
  /\ pc[p] = "moveVector" =>
       /\ Describes(transition.previous)
       /\ stagedDatabase = transition.following
       /\ stagedVectors = With(EmptySnapshot, p)
  /\ pc[p] = "moveDatabase" =>
       /\ database = transition.previous
       /\ manifest = transition.previous
       /\ vectors = transition.following
       /\ stagedDatabase = transition.following
       /\ stagedVectors = EmptySnapshot
  /\ pc[p] = "writeManifest" =>
       /\ database = transition.following
       /\ manifest = transition.previous
       /\ vectors = transition.following
       /\ StagingIsEmpty
  /\ pc[p] \in {"verify", "sweep", "unlink"} =>
       Describes(transition.following) /\ StagingIsEmpty

DuringRepair(p) ==
  /\ pc[p] \in RepairSteps =>
       transition # NoTransition /\ ExactAppend(transition)
  /\ pc[p] = "undoVector" => CanUndo(transition)
  /\ pc[p] = "redoManifest" => CanRedo(transition)
  /\ pc[p] \in {"repairSweep", "repairUnlink"} => Describes(manifest)

CallInv ==
  \A p \in Procs : BeforePublish(p) /\ AfterPublish(p) /\ DuringRepair(p)

IInv == TypeOK /\ LockInv /\ RootInv /\ AlwaysRecoverable /\ CallInv

-----------------------------------------------------------------------------
(* Type correctness.                                                       *)

LEMMA EmptySnapshotType == EmptySnapshot \in Snapshots
BY DEF EmptySnapshot, Snapshots

\* A record entered into a snapshot gives a snapshot.
LEMMA WithType ==
  ASSUME TypeOK, NEW p \in Procs, request[p] # Query, NEW s \in Snapshots
  PROVE  /\ request[p].case \in Cases
         /\ request[p].evidence \in Evidence
         /\ With(s, p) \in Snapshots
BY DEF TypeOK, Requests, Snapshots, With

LEMMA TypeInit == Init => TypeOK
<1> SUFFICES ASSUME Init PROVE TypeOK
  OBVIOUS
<1>1. rootExists \in BOOLEAN
  BY DEF Init
<1>2. reply \in [Procs -> [outcome : Outcomes, records : Snapshots]]
  BY EmptySnapshotType DEF Init, Reply, Outcomes
<1>3. request \in [Procs -> Requests] /\ pc \in [Procs -> {"idle", "waiting"}]
  BY DEF Init, Requests
<1>4. QED
  BY <1>1, <1>2, <1>3, EmptySnapshotType DEF Init, TypeOK

\* Goto and Return keep the types of the callers' variables.
LEMMA CallersType ==
  ASSUME TypeOK, NEW p \in Procs,
         \/ \E step \in {"idle", "waiting"} \cup Holding : Goto(p, step)
         \/ \E o \in Outcomes, s \in Snapshots : Return(p, o, s)
  PROVE  /\ lock' \in Procs \cup {NoProc}
         /\ pc' \in [Procs -> {"idle", "waiting"} \cup Holding]
         /\ request' \in [Procs -> Requests]
         /\ reply' \in [Procs -> [outcome : Outcomes, records : Snapshots]]
BY DEF TypeOK, Goto, Return, Reply

LEMMA TypeStep == IInv /\ [Next]_vars => TypeOK'
<1> SUFFICES ASSUME IInv, [Next]_vars PROVE TypeOK'
  OBVIOUS
<1> USE EmptySnapshotType DEF IInv
<1>1. CASE UNCHANGED vars
  BY <1>1 DEF vars, files, callers, TypeOK
<1>2. ASSUME NEW p \in Procs, Call(p) PROVE TypeOK'
  BY <1>2 DEF Call, files, TypeOK
<1>3. ASSUME NEW p \in Procs, Acquire(p) PROVE TypeOK'
  BY <1>3 DEF Acquire, files, TypeOK, Holding
<1>4. ASSUME NEW p \in Procs, Initialize(p) PROVE TypeOK'
  BY <1>4 DEF Initialize, callers, TypeOK
<1>5. ASSUME NEW p \in Procs, ReadyVerified(p) PROVE TypeOK'
  BY <1>5, CallersType DEF ReadyVerified, files, TypeOK, Holding, Outcomes
<1>6. ASSUME NEW p \in Procs, Sweep(p) PROVE TypeOK'
  BY <1>6 DEF Sweep, DropStaged, callers, TypeOK, Snapshots
<1>7. ASSUME NEW p \in Procs, Swept(p) PROVE TypeOK'
  BY <1>7, CallersType DEF Swept, files, TypeOK, Holding, RepairSteps, CommitSteps
<1>8. ASSUME NEW p \in Procs, Recover(p) PROVE TypeOK'
  BY <1>8, CallersType DEF Recover, files, TypeOK, Holding, RepairSteps, Outcomes
<1>9. ASSUME NEW p \in Procs, UndoVector(p) PROVE TypeOK'
  <2>1. vectors' \in Snapshots
    BY <1>9 DEF UndoVector, TypeOK, Snapshots
  <2>2. QED
    BY <1>9, <2>1, CallersType DEF UndoVector, TypeOK, Holding, RepairSteps
<1>10. ASSUME NEW p \in Procs, RedoManifest(p) PROVE TypeOK'
  <2>1. transition \in Transitions
    BY <1>10 DEF RedoManifest, TypeOK, CallInv, DuringRepair, RepairSteps
  <2>2. manifest' \in Snapshots
    BY <1>10, <2>1 DEF RedoManifest, Transitions
  <2>3. QED
    BY <1>10, <2>2, CallersType DEF RedoManifest, TypeOK, Holding, RepairSteps
<1>11. ASSUME NEW p \in Procs, RepairUnlink(p) PROVE TypeOK'
  BY <1>11, CallersType DEF RepairUnlink, TypeOK, Holding, Outcomes
<1>12. ASSUME NEW p \in Procs, AnswerQuery(p) PROVE TypeOK'
  <2>1. database \in Snapshots /\ "answered" \in Outcomes
    BY DEF TypeOK, Outcomes
  <2>2. QED
    BY <1>12, <2>1, CallersType DEF AnswerQuery, files, TypeOK
<1>13. ASSUME NEW p \in Procs, AnswerExisting(p) PROVE TypeOK'
  <2>1. database \in Snapshots /\ {"already", "conflict"} \subseteq Outcomes
    BY DEF TypeOK, Outcomes
  <2>2. QED
    BY <1>13, <2>1, CallersType DEF AnswerExisting, files, TypeOK
<1>14. ASSUME NEW p \in Procs, Append(p) PROVE TypeOK'
  <2>1. CASE BeginAppend(p)
    BY <2>1, CallersType DEF BeginAppend, files, TypeOK, Holding, StagingSteps
  <2>2. CASE CopyDatabase(p)
    BY <2>2, CallersType DEF CopyDatabase, TypeOK, Holding, StagingSteps
  <2>3. CASE InsertRecord(p)
    <3>1. stagedDatabase' = With(database, p) /\ request[p] # Query
      BY <2>3 DEF InsertRecord, CallInv, BeforePublish, StagingSteps, With
    <3>2. stagedDatabase' \in Snapshots
      BY <3>1, WithType DEF TypeOK
    <3>3. QED
      BY <2>3, <3>2, CallersType DEF InsertRecord, TypeOK, Holding, StagingSteps
  <2>4. CASE StageVector(p)
    <3>1. stagedVectors' = With(EmptySnapshot, p) /\ request[p] # Query
      BY <2>4 DEF StageVector, CallInv, BeforePublish, StagingSteps, With
    <3>2. stagedVectors' \in Snapshots
      BY <3>1, WithType
    <3>3. QED
      BY <2>4, <3>2, CallersType DEF StageVector, TypeOK, Holding, StagingSteps
  <2>5. CASE PublishTransition(p)
    <3>1. stagedDatabase = With(database, p) /\ request[p] # Query
      BY <2>5 DEF PublishTransition, CallInv, BeforePublish, StagingSteps
    <3>2. transition' \in Transitions
      BY <2>5, <3>1, WithType DEF PublishTransition, TypeOK, Transitions
    <3>3. QED
      BY <2>5, <3>2, CallersType DEF PublishTransition, TypeOK, Holding, CommitSteps
  <2>6. CASE MoveVector(p)
    <3>1. request[p] # Query
      BY <2>6 DEF MoveVector, CallInv, AfterPublish, CommitSteps
    <3>2. vectors' \in Snapshots /\ stagedVectors' \in Snapshots
      BY <2>6, <3>1, WithType DEF MoveVector, TypeOK, Snapshots
    <3>3. QED
      BY <2>6, <3>2, CallersType DEF MoveVector, TypeOK, Holding, CommitSteps
  <2>7. CASE MoveDatabase(p)
    <3>1. transition # NoTransition /\ stagedDatabase = transition.following
      BY <2>7 DEF MoveDatabase, CallInv, AfterPublish, CommitSteps
    <3>2. database' \in Snapshots
      BY <2>7, <3>1 DEF MoveDatabase, TypeOK, Transitions
    <3>3. QED
      BY <2>7, <3>2, CallersType DEF MoveDatabase, TypeOK, Holding, CommitSteps
  <2>8. CASE WriteManifest(p)
    <3>1. transition \in Transitions
      BY <2>8 DEF WriteManifest, TypeOK, CallInv, AfterPublish, CommitSteps
    <3>2. manifest' \in Snapshots
      BY <2>8, <3>1 DEF WriteManifest, Transitions
    <3>3. QED
      BY <2>8, <3>2, CallersType DEF WriteManifest, TypeOK, Holding, CommitSteps
  <2>9. CASE VerifyAppended(p)
    BY <2>9, CallersType DEF VerifyAppended, files, TypeOK, Holding, CommitSteps,
                             Outcomes
  <2>10. CASE UnlinkTransition(p)
    <3>1. database \in Snapshots /\ "indexed" \in Outcomes
      BY DEF TypeOK, Outcomes
    <3>2. QED
      BY <2>10, <3>1, CallersType DEF UnlinkTransition, TypeOK
  <2>11. QED
    BY <1>14, <2>1, <2>2, <2>3, <2>4, <2>5, <2>6, <2>7, <2>8, <2>9, <2>10
       DEF Append
<1>15. ASSUME NEW p \in Procs, Raise(p) PROVE TypeOK'
  BY <1>15, CallersType DEF Raise, TypeOK, Outcomes
<1>16. ASSUME NEW p \in Procs, Crash(p) PROVE TypeOK'
  BY <1>16 DEF Crash, files, TypeOK, Reply, Outcomes
<1>17. QED
  BY <1>1, <1>2, <1>3, <1>4, <1>5, <1>6, <1>7, <1>8, <1>9, <1>10, <1>11,
     <1>12, <1>13, <1>14, <1>15, <1>16 DEF Next, Step, Interrupt

-----------------------------------------------------------------------------
(* The lock.                                                               *)

\* Only the holder of the lock is inside a call.
LEMMA OthersOutside ==
  ASSUME TypeOK, LockInv, NEW p \in Procs, pc[p] \in Holding,
         NEW q \in Procs, q # p
  PROVE  lock = p /\ pc[q] \notin Holding
BY DEF LockInv

LEMMA LockStep == IInv /\ [Next]_vars => LockInv'
<1> SUFFICES ASSUME IInv, [Next]_vars, NEW q \in Procs
             PROVE  (pc[q] \in Holding <=> lock = q)'
  BY DEF LockInv
<1> USE IndexAssumption DEF IInv, TypeOK, LockInv
<1>0. {"idle", "waiting"} \cap Holding = {}
  BY DEF Holding, RepairSteps, StagingSteps, CommitSteps
<1>1. CASE UNCHANGED vars
  BY <1>1 DEF vars, callers
<1>2. ASSUME NEW p \in Procs, Call(p) \/ Acquire(p)
      PROVE  (pc[q] \in Holding <=> lock = q)'
  BY <1>0, <1>2 DEF Call, Acquire, Holding
<1>3. ASSUME NEW p \in Procs, pc[p] \in Holding,
             \/ \E step \in Holding : Goto(p, step)
             \/ \E o \in Outcomes, s \in Snapshots : Return(p, o, s)
             \/ UNCHANGED callers
      PROVE  (pc[q] \in Holding <=> lock = q)'
  BY <1>0, <1>3 DEF Goto, Return, callers
<1>4. ASSUME NEW p \in Procs, Initialize(p) \/ Sweep(p)
      PROVE  pc[p] \in Holding /\ UNCHANGED callers
  BY <1>4 DEF Initialize, Sweep, Holding, RepairSteps, CommitSteps
<1>5. ASSUME NEW p \in Procs,
             \/ ReadyVerified(p) \/ Swept(p) \/ Recover(p) \/ UndoVector(p)
             \/ RedoManifest(p) \/ RepairUnlink(p)
      PROVE  /\ pc[p] \in Holding
             /\ \/ \E step \in Holding : Goto(p, step)
                \/ \E o \in Outcomes, s \in Snapshots : Return(p, o, s)
  BY <1>5, EmptySnapshotType
     DEF ReadyVerified, Swept, Recover, UndoVector, RedoManifest, RepairUnlink,
         Holding, RepairSteps, CommitSteps, Outcomes
<1>6. ASSUME NEW p \in Procs, AnswerQuery(p) \/ AnswerExisting(p) \/ Raise(p)
      PROVE  /\ pc[p] \in Holding
             /\ \E o \in Outcomes, s \in Snapshots : Return(p, o, s)
  BY <1>6, EmptySnapshotType
     DEF AnswerQuery, AnswerExisting, Raise, Holding, Outcomes
<1>7. ASSUME NEW p \in Procs, Append(p)
      PROVE  /\ pc[p] \in Holding
             /\ \/ \E step \in Holding : Goto(p, step)
                \/ \E o \in Outcomes, s \in Snapshots : Return(p, o, s)
  BY <1>7, EmptySnapshotType
     DEF Append, BeginAppend, CopyDatabase, InsertRecord, StageVector,
         PublishTransition, MoveVector, MoveDatabase, WriteManifest,
         VerifyAppended, UnlinkTransition, Holding, StagingSteps, CommitSteps,
         Outcomes
<1>8. ASSUME NEW p \in Procs, Crash(p)
      PROVE  (pc[q] \in Holding <=> lock = q)'
  BY <1>0, <1>8 DEF Crash
<1>9. QED
  BY <1>1, <1>2, <1>3, <1>4, <1>5, <1>6, <1>7, <1>8 DEF Next, Step, Interrupt

-----------------------------------------------------------------------------
(* The files and the pending transition.                                   *)

PlaceInv(p) == BeforePublish(p) /\ AfterPublish(p) /\ DuringRepair(p)

\* CallInv has to be shown for the caller that moves: the others are outside
\* the lock, or that caller is and does not touch the files.
LEMMA CallByMover ==
  ASSUME IInv, NEW p \in Procs,
         pc' \in [Procs -> {"idle", "waiting"} \cup Holding],
         \A q \in Procs \ {p} : pc'[q] = pc[q] /\ request'[q] = request[q],
         pc[p] \in Holding \/ UNCHANGED files,
         PlaceInv(p)'
  PROVE  CallInv'
<1>1. ASSUME NEW q \in Procs PROVE PlaceInv(q)'
  <2>1. CASE pc'[q] \notin Holding
    BY <2>1 DEF PlaceInv, BeforePublish, AfterPublish, DuringRepair, Holding,
                RepairSteps, StagingSteps, CommitSteps
  <2>2. CASE q # p /\ pc[q] \in Holding
    <3>1. pc[p] \notin Holding
      BY <2>2, OthersOutside DEF IInv
    <3>2. UNCHANGED files /\ pc'[q] = pc[q] /\ request'[q] = request[q]
      BY <2>2, <3>1
    <3>3. PlaceInv(q)
      BY DEF IInv, CallInv, PlaceInv
    <3>4. QED
      BY <3>2, <3>3 DEF PlaceInv, BeforePublish, AfterPublish, DuringRepair,
             files, StagingIsEmpty, Describes, With, CanUndo, CanRedo
  <2>3. QED
    BY <2>1, <2>2
<1>2. QED
  BY <1>1 DEF CallInv, PlaceInv

\* A step of the holder that changes no file keeps the files recoverable.
LEMMA FilesKept ==
  ASSUME AlwaysRecoverable, UNCHANGED files
  PROVE  AlwaysRecoverable'
BY DEF AlwaysRecoverable, files, Describes, CanUndo, CanRedo, StagingIsEmpty

\* The actions that only look at the files.
LEMMA LookStep ==
  ASSUME IInv, NEW p \in Procs,
         \/ ReadyVerified(p) \/ Swept(p) \/ Recover(p) \/ AnswerQuery(p)
         \/ AnswerExisting(p) \/ BeginAppend(p) \/ VerifyAppended(p)
  PROVE  PlaceInv(p)'
<1> USE DEF IInv, PlaceInv, CallInv, BeforePublish, AfterPublish, DuringRepair,
            files, StagingIsEmpty, Describes
<1> USE DEF Holding, RepairSteps, StagingSteps, CommitSteps, Goto, Return, TypeOK
<1>1. CASE ReadyVerified(p)
  BY <1>1 DEF ReadyVerified
<1>2. CASE Swept(p)
  BY <1>2 DEF Swept
<1>3. CASE Recover(p)
  BY <1>3 DEF Recover, CanUndo, CanRedo
<1>4. CASE AnswerQuery(p) \/ AnswerExisting(p)
  BY <1>4 DEF AnswerQuery, AnswerExisting
<1>5. CASE BeginAppend(p)
  BY <1>5 DEF BeginAppend
<1>6. CASE VerifyAppended(p)
  BY <1>6 DEF VerifyAppended, With
<1>7. QED
  BY <1>1, <1>2, <1>3, <1>4, <1>5, <1>6

\* The actions that stage an append, before its document is published.
LEMMA StagingStep ==
  ASSUME IInv, NEW p \in Procs,
         \/ CopyDatabase(p) \/ InsertRecord(p) \/ StageVector(p)
         \/ PublishTransition(p)
  PROVE  AlwaysRecoverable' /\ PlaceInv(p)'
<1> USE DEF IInv, PlaceInv, CallInv, BeforePublish, AfterPublish, DuringRepair,
            StagingIsEmpty, AlwaysRecoverable, Describes, With
<1> USE DEF Holding, RepairSteps, StagingSteps, CommitSteps, Goto, TypeOK
<1>1. CASE CopyDatabase(p)
  BY <1>1 DEF CopyDatabase
<1>2. CASE InsertRecord(p)
  BY <1>2 DEF InsertRecord
<1>3. CASE StageVector(p)
  BY <1>3 DEF StageVector
<1>4. CASE PublishTransition(p)
  <2> DEFINE t == transition'
             c == request[p].case
             e == request[p].evidence
  <2>1. /\ request[p] # Query
        /\ database[c] = Absent
        /\ stagedDatabase = With(database, p)
        /\ stagedVectors = With(EmptySnapshot, p)
        /\ Describes(manifest)
    BY <1>4 DEF PublishTransition
  <2>2. c \in Cases /\ e \in Evidence /\ e # Absent
    BY <2>1, WithType, EmptySnapshotType, IndexAssumption
  <2>3. t = [previous |-> database, following |-> stagedDatabase, case |-> c]
    BY <1>4, <2>1 DEF PublishTransition
  <2>4. /\ t.previous = database /\ t.following = stagedDatabase /\ t.case = c
        /\ t \in Transitions
    BY <2>1, <2>2, <2>3, WithType DEF Transitions
  <2>5. t # NoTransition
    BY <2>4, IndexAssumption DEF Transitions, Snapshots
  <2>6. t.following[c] = e
    BY <2>1, <2>2, <2>4 DEF Snapshots
  <2>7. ExactAppend(t)
    BY <2>1, <2>2, <2>4, <2>6 DEF ExactAppend
  <2>8. /\ \A d \in Cases : stagedVectors[d] # Absent => d = c
        /\ stagedVectors[c] = e
        /\ database # stagedDatabase
    BY <2>1, <2>2, <2>4, <2>6 DEF EmptySnapshot
  <2>9. CanUndo(transition)'
    BY <1>4, <2>1, <2>4, <2>6, <2>8 DEF CanUndo, PublishTransition
  <2>10. AlwaysRecoverable'
    BY <2>5, <2>7, <2>9 DEF ExactAppend
  <2>11. PlaceInv(p)'
    BY <1>4, <2>1, <2>4, <2>5, <2>6, <2>7 DEF PublishTransition, ExactAppend
  <2>12. QED
    BY <2>10, <2>11
<1>5. QED
  BY <1>1, <1>2, <1>3, <1>4

\* The actions that move a published append into place.
LEMMA CommitStep ==
  ASSUME IInv, NEW p \in Procs,
         \/ MoveVector(p) \/ MoveDatabase(p) \/ WriteManifest(p)
         \/ UnlinkTransition(p)
  PROVE  AlwaysRecoverable' /\ PlaceInv(p)'
<1> USE DEF IInv, PlaceInv, CallInv, BeforePublish, AfterPublish, DuringRepair,
            StagingIsEmpty, AlwaysRecoverable, Describes
<1> USE DEF Holding, RepairSteps, StagingSteps, CommitSteps, Goto, Return
<1> DEFINE t == transition
           c == request[p].case
           e == request[p].evidence
<1>1. /\ t # NoTransition /\ ExactAppend(t)
      /\ request[p] # Query
      /\ t.case = c /\ t.following[c] = e
  BY DEF MoveVector, MoveDatabase, WriteManifest, UnlinkTransition
<1>2. /\ c \in Cases /\ e \in Evidence /\ e # Absent
      /\ t \in Transitions
      /\ t.previous \in Snapshots /\ t.following \in Snapshots
  BY <1>1, WithType, EmptySnapshotType, IndexAssumption DEF TypeOK, Transitions
<1>3. /\ t.following = [t.previous EXCEPT ![c] = e]
      /\ t.previous # t.following
  BY <1>1, <1>2 DEF ExactAppend, Snapshots
<1>4. CASE MoveVector(p)
  <2>1. stagedVectors = With(EmptySnapshot, p)
    BY <1>4 DEF MoveVector
  <2>2. stagedVectors[c] = e /\ [stagedVectors EXCEPT ![c] = Absent] = EmptySnapshot
    BY <1>2, <2>1 DEF With, EmptySnapshot
  <2>3. vectors' = t.following /\ stagedVectors' = EmptySnapshot
    BY <1>3, <1>4, <2>2 DEF MoveVector
  <2>4. CanUndo(transition)'
    BY <1>1, <1>2, <1>4, <2>3 DEF MoveVector, CanUndo, EmptySnapshot
  <2>5. QED
    BY <1>1, <1>4, <2>3, <2>4 DEF MoveVector, TypeOK, ExactAppend
<1>5. CASE MoveDatabase(p)
  <2>1. CanRedo(transition)'
    BY <1>5 DEF MoveDatabase, CanRedo
  <2>2. QED
    BY <1>1, <1>5, <2>1 DEF MoveDatabase, TypeOK, ExactAppend
<1>6. CASE WriteManifest(p)
  <2>1. CanRedo(transition)'
    BY <1>6 DEF WriteManifest, CanRedo
  <2>2. QED
    BY <1>1, <1>6, <2>1 DEF WriteManifest, TypeOK, ExactAppend
<1>7. CASE UnlinkTransition(p)
  BY <1>7 DEF UnlinkTransition, TypeOK
<1>8. QED
  BY <1>4, <1>5, <1>6, <1>7

\* The actions of a recovery, and the removal of staged files.
LEMMA RepairStep ==
  ASSUME IInv, NEW p \in Procs,
         Sweep(p) \/ UndoVector(p) \/ RedoManifest(p) \/ RepairUnlink(p)
  PROVE  AlwaysRecoverable' /\ PlaceInv(p)'
<1> USE DEF IInv, PlaceInv, CallInv, BeforePublish, AfterPublish, DuringRepair,
            StagingIsEmpty, AlwaysRecoverable, Describes
<1> USE DEF Holding, RepairSteps, StagingSteps, CommitSteps, Goto, Return
<1> DEFINE t == transition
<1>1. CASE Sweep(p)
  <2>1. CASE pc[p] = "readySweep"
    BY <1>1, <2>1 DEF Sweep, DropStaged, callers
  <2>2. CASE pc[p] = "sweep"
    BY <1>1, <2>2 DEF Sweep, DropStaged, EmptySnapshot
  <2>3. CASE pc[p] = "repairSweep"
    <3>1. /\ t # NoTransition /\ ExactAppend(t) /\ Describes(manifest)
          /\ t \in Transitions
      BY <2>3 DEF TypeOK
    <3>2. CASE CanRedo(t)
      BY <1>1, <3>2 DEF Sweep, DropStaged, CanRedo, EmptySnapshot
    <3>3. CASE CanUndo(t)
      <4>1. t.previous # t.following /\ t.case \in Cases
        BY <3>1 DEF ExactAppend, Transitions
      <4>2. vectors = t.previous
        BY <3>1, <3>3 DEF CanUndo
      <4>3. \A d \in Cases : stagedVectors'[d] \in {stagedVectors[d], Absent}
        BY <1>1 DEF Sweep, DropStaged, TypeOK, Snapshots
      <4>4. stagedDatabase' \in {stagedDatabase, NoFile}
        BY <1>1 DEF Sweep, DropStaged
      <4>5. CanUndo(transition)'
        BY <1>1, <3>3, <4>1, <4>2, <4>3, <4>4 DEF Sweep, DropStaged, CanUndo
      <4>6. QED
        BY <1>1, <2>3, <3>1, <4>5 DEF Sweep, DropStaged, callers, ExactAppend
    <3>4. QED
      BY <3>1, <3>2, <3>3
  <2>4. QED
    BY <1>1, <2>1, <2>2, <2>3 DEF Sweep
<1>2. CASE UndoVector(p)
  <2>1. t # NoTransition /\ ExactAppend(t) /\ CanUndo(t) /\ t \in Transitions
    BY <1>2 DEF UndoVector, TypeOK
  <2>2. vectors' = t.previous
    BY <1>2, <2>1 DEF UndoVector, CanUndo, ExactAppend, Transitions, Snapshots
  <2>3. t.previous # t.following
    BY <2>1 DEF ExactAppend
  <2>4. CanUndo(transition)'
    BY <1>2, <2>1, <2>2, <2>3 DEF UndoVector, CanUndo
  <2>5. QED
    BY <1>2, <2>1, <2>2, <2>4 DEF UndoVector, CanUndo, ExactAppend, TypeOK
<1>3. CASE RedoManifest(p)
  BY <1>3 DEF RedoManifest, CanRedo, ExactAppend, TypeOK
<1>4. CASE RepairUnlink(p)
  BY <1>4 DEF RepairUnlink, TypeOK
<1>5. QED
  BY <1>1, <1>2, <1>3, <1>4

\* The actions of a caller that does not keep the lock, or has just got it.
LEMMA BoundaryStep ==
  ASSUME IInv, NEW p \in Procs,
         Call(p) \/ Acquire(p) \/ Initialize(p) \/ Raise(p) \/ Crash(p)
  PROVE  AlwaysRecoverable' /\ PlaceInv(p)'
<1> USE DEF IInv, AlwaysRecoverable, Describes, StagingIsEmpty
<1> USE DEF PlaceInv, BeforePublish, AfterPublish, DuringRepair, Holding,
            RepairSteps, StagingSteps, CommitSteps, TypeOK
<1>1. CASE Call(p) \/ Acquire(p)
  BY <1>1, FilesKept DEF Call, Acquire
<1>2. CASE Initialize(p)
  BY <1>2 DEF Initialize, callers, RootInv
<1>3. CASE Raise(p)
  <2>1. AlwaysRecoverable'
    BY <1>3 DEF Raise, CallInv, CanUndo, CanRedo
  <2>2. QED
    BY <1>3, <2>1 DEF Raise, Return
<1>4. CASE Crash(p)
  <2>1. AlwaysRecoverable'
    BY <1>4, FilesKept DEF Crash
  <2>2. QED
    BY <1>4, <2>1 DEF Crash
<1>5. QED
  BY <1>1, <1>2, <1>3, <1>4

LEMMA RootStep == IInv /\ [Next]_vars => RootInv'
<1> SUFFICES ASSUME IInv, [Next]_vars PROVE RootInv'
  OBVIOUS
<1> USE DEF IInv, RootInv, Holding, RepairSteps, StagingSteps, CommitSteps, TypeOK
<1>1. CASE UNCHANGED vars
  BY <1>1 DEF vars, files, callers
<1>2. ASSUME NEW p \in Procs, Call(p) \/ Acquire(p) \/ Crash(p) PROVE RootInv'
  BY <1>2 DEF Call, Acquire, Crash, files
<1>3. ASSUME NEW p \in Procs, Initialize(p) PROVE RootInv'
  BY <1>3 DEF Initialize, callers
<1>4. ASSUME NEW p \in Procs, rootExists, rootExists' = rootExists,
             UNCHANGED callers \/ \E step \in Holding : Goto(p, step)
      PROVE  RootInv'
  BY <1>4 DEF Goto, callers
<1>5. ASSUME NEW p \in Procs, rootExists' = rootExists,
             \/ rootExists
             \/ UNCHANGED <<database, vectors, manifest, transition>>,
             \E o \in Outcomes, s \in Snapshots : Return(p, o, s)
      PROVE  RootInv'
  BY <1>5 DEF Return
<1>6. ASSUME NEW p \in Procs,
             \/ Sweep(p) \/ Swept(p) \/ UndoVector(p) \/ RedoManifest(p)
             \/ BeginAppend(p) \/ CopyDatabase(p) \/ InsertRecord(p)
             \/ StageVector(p) \/ PublishTransition(p) \/ MoveVector(p)
             \/ MoveDatabase(p) \/ WriteManifest(p)
      PROVE  RootInv'
  <2>1. rootExists /\ rootExists' = rootExists
    BY <1>6 DEF Sweep, Swept, UndoVector, RedoManifest, BeginAppend,
                CopyDatabase, InsertRecord, StageVector, PublishTransition,
                MoveVector, MoveDatabase, WriteManifest, DropStaged, files
  <2>2. UNCHANGED callers \/ \E step \in Holding : Goto(p, step)
    BY <1>6 DEF Sweep, Swept, UndoVector, RedoManifest, BeginAppend,
                CopyDatabase, InsertRecord, StageVector, PublishTransition,
                MoveVector, MoveDatabase, WriteManifest
  <2>3. QED
    BY <1>4, <2>1, <2>2
<1>7. ASSUME NEW p \in Procs,
             \/ ReadyVerified(p) \/ Recover(p) \/ RepairUnlink(p)
             \/ AnswerQuery(p) \/ AnswerExisting(p) \/ VerifyAppended(p)
             \/ UnlinkTransition(p) \/ Raise(p)
      PROVE  RootInv'
  <2>1. /\ rootExists' = rootExists
        /\ \/ rootExists
           \/ UNCHANGED <<database, vectors, manifest, transition>>
    BY <1>7 DEF ReadyVerified, Recover, RepairUnlink, AnswerQuery,
                AnswerExisting, VerifyAppended, UnlinkTransition, Raise, files
  <2>2. \/ rootExists /\ \E step \in Holding : Goto(p, step)
        \/ \E o \in Outcomes, s \in Snapshots : Return(p, o, s)
    BY <1>7, EmptySnapshotType
       DEF ReadyVerified, Recover, RepairUnlink, AnswerQuery, AnswerExisting,
           VerifyAppended, UnlinkTransition, Raise, Outcomes
  <2>3. QED
    BY <1>4, <1>5, <2>1, <2>2
<1>8. QED
  BY <1>1, <1>2, <1>3, <1>6, <1>7 DEF Next, Step, Append, Interrupt

LEMMA FilesStep == IInv /\ [Next]_vars => AlwaysRecoverable' /\ CallInv'
<1> SUFFICES ASSUME IInv, [Next]_vars PROVE AlwaysRecoverable' /\ CallInv'
  OBVIOUS
<1>1. CASE UNCHANGED vars
  <2>1. AlwaysRecoverable'
    BY <1>1, FilesKept DEF vars, IInv
  <2>2. CallInv'
    BY <1>1 DEF vars, files, callers, IInv, CallInv, BeforePublish,
                AfterPublish, DuringRepair, StagingIsEmpty, Describes, With,
                CanUndo, CanRedo
  <2>3. QED
    BY <2>1, <2>2
<1>2. ASSUME NEW p \in Procs, Call(p) \/ Acquire(p) \/ Step(p) \/ Interrupt(p)
      PROVE  /\ \A q \in Procs \ {p} : pc'[q] = pc[q] /\ request'[q] = request[q]
             /\ pc[p] \in Holding \/ UNCHANGED files
  <2>1. CASE Call(p) \/ Acquire(p) \/ Crash(p)
    BY <2>1 DEF Call, Acquire, Crash, IInv, TypeOK
  <2>2. CASE Append(p)
    BY <2>2 DEF Append, BeginAppend, CopyDatabase, InsertRecord, StageVector,
                PublishTransition, MoveVector, MoveDatabase, WriteManifest,
                VerifyAppended, UnlinkTransition, Goto, Return, Holding,
                StagingSteps, CommitSteps, IInv, TypeOK
  <2>3. CASE \/ Initialize(p) \/ Sweep(p) \/ ReadyVerified(p) \/ Swept(p)
             \/ Recover(p) \/ UndoVector(p) \/ RedoManifest(p)
             \/ RepairUnlink(p)
    BY <2>3 DEF Initialize, Sweep, ReadyVerified, Swept, Recover, UndoVector,
                RedoManifest, RepairUnlink, Goto, Return, Holding, callers,
                RepairSteps, CommitSteps, IInv, TypeOK
  <2>4. CASE AnswerQuery(p) \/ AnswerExisting(p) \/ Raise(p)
    BY <2>4 DEF AnswerQuery, AnswerExisting, Raise, Return, Holding, IInv, TypeOK
  <2>5. QED
    BY <1>2, <2>1, <2>2, <2>3, <2>4 DEF Step, Interrupt
<1>3. ASSUME NEW p \in Procs, Call(p) \/ Acquire(p) \/ Step(p) \/ Interrupt(p)
      PROVE  AlwaysRecoverable' /\ PlaceInv(p)'
  <2>1. CASE \/ ReadyVerified(p) \/ Swept(p) \/ Recover(p) \/ AnswerQuery(p)
             \/ AnswerExisting(p) \/ BeginAppend(p) \/ VerifyAppended(p)
    <3>1. UNCHANGED files
      BY <2>1 DEF ReadyVerified, Swept, Recover, AnswerQuery, AnswerExisting,
                  BeginAppend, VerifyAppended
    <3>2. QED
      BY <2>1, <3>1, FilesKept, LookStep DEF IInv
  <2>2. QED
    BY <1>3, <2>1, StagingStep, CommitStep, RepairStep, BoundaryStep
       DEF Step, Append, Interrupt
<1>4. ASSUME NEW p \in Procs, Call(p) \/ Acquire(p) \/ Step(p) \/ Interrupt(p)
      PROVE  CallInv'
  <2>1. pc' \in [Procs -> {"idle", "waiting"} \cup Holding]
    BY TypeStep DEF TypeOK
  <2>2. QED
    BY <1>2, <1>3, <1>4, <2>1, CallByMover
<1>5. QED
  BY <1>1, <1>3, <1>4 DEF Next

-----------------------------------------------------------------------------
(* The theorems.                                                           *)

LEMMA InvInit == Init => IInv
<1> SUFFICES ASSUME Init PROVE IInv
  OBVIOUS
<1>1. \A p \in Procs : pc[p] \notin Holding
  BY DEF Init, Holding, RepairSteps, StagingSteps, CommitSteps
<1>2. LockInv /\ RootInv
  BY <1>1, IndexAssumption DEF Init, LockInv, RootInv
<1>3. AlwaysRecoverable
  BY DEF Init, AlwaysRecoverable, Describes
<1>4. CallInv
  BY <1>1 DEF CallInv, BeforePublish, AfterPublish, DuringRepair, Holding,
              RepairSteps, StagingSteps, CommitSteps
<1>5. QED
  BY <1>2, <1>3, <1>4, TypeInit DEF IInv

\* IInv is an inductive invariant of the index.
THEOREM Inductive == Spec => []IInv
<1>1. IInv /\ [Next]_vars => IInv'
  BY TypeStep, LockStep, RootStep, FilesStep DEF IInv
<1>2. QED
  BY InvInit, <1>1, PTL DEF Spec

\* Every variable keeps its type (TypeOK of ReviewedCaseIndex).
THEOREM TypeCorrect == Spec => []TypeOK
BY Inductive, PTL DEF IInv

\* At every moment, wherever calls and recoveries have been interrupted, the
\* next _ready_records accepts the files: it verifies them, undoes the
\* pending transition or completes it.
THEOREM Recoverable == Spec => []AlwaysRecoverable
BY Inductive, PTL DEF IInv

\* The database changes at the commit point of an append only.
LEMMA OnlyCommitWrites ==
  ASSUME IInv, [Next]_vars
  PROVE  \/ database' = database
         \/ \E p \in Procs :
              /\ MoveDatabase(p)
              /\ request[p] # Query
              /\ request[p].case \in Cases
              /\ request[p].evidence \in Evidence
              /\ database[request[p].case] = Absent
              /\ database' = With(database, p)
<1>1. ASSUME NEW p \in Procs, Initialize(p) PROVE database' = database
  BY <1>1 DEF Initialize, IInv, RootInv
<1>2. ASSUME NEW p \in Procs, MoveDatabase(p)
      PROVE  /\ request[p] # Query
             /\ request[p].case \in Cases
             /\ request[p].evidence \in Evidence
             /\ database[request[p].case] = Absent
             /\ database' = With(database, p)
  <2>1. AfterPublish(p)
    BY DEF IInv, CallInv
  <2>2. /\ request[p] # Query
        /\ ExactAppend(transition)
        /\ transition.case = request[p].case
        /\ transition.following[request[p].case] = request[p].evidence
        /\ database = transition.previous
        /\ stagedDatabase = transition.following
    BY <1>2, <2>1 DEF MoveDatabase, AfterPublish, CommitSteps
  <2>3. QED
    BY <1>2, <2>2, WithType, EmptySnapshotType
       DEF MoveDatabase, ExactAppend, With, IInv
<1>3. ASSUME NEW p \in Procs,
             \/ Call(p) \/ Acquire(p) \/ Raise(p) \/ Crash(p)
             \/ ReadyVerified(p) \/ Sweep(p) \/ Swept(p) \/ Recover(p)
             \/ UndoVector(p) \/ RedoManifest(p) \/ RepairUnlink(p)
             \/ AnswerQuery(p) \/ AnswerExisting(p)
      PROVE  database' = database
  BY <1>3 DEF Call, Acquire, Raise, Crash, ReadyVerified, Sweep, DropStaged,
              Swept, Recover, UndoVector, RedoManifest, RepairUnlink,
              AnswerQuery, AnswerExisting, files
<1>4. ASSUME NEW p \in Procs, Append(p), ~MoveDatabase(p)
      PROVE  database' = database
  BY <1>4 DEF Append, BeginAppend, CopyDatabase, InsertRecord, StageVector,
              PublishTransition, MoveVector, WriteManifest, VerifyAppended,
              UnlinkTransition, files
<1>5. QED
  BY <1>1, <1>2, <1>3, <1>4 DEF Next, Step, Interrupt, vars, files

LEMMA AppendOnlyStep ==
  ASSUME IInv, [Next]_vars, NEW c \in Cases, database[c] # Absent
  PROVE  database'[c] = database[c]
BY OnlyCommitWrites DEF IInv, TypeOK, Snapshots, With

\* A committed record is never changed or removed, whoever is interrupted or
\* recovers.
THEOREM RecordsAreKept == Spec => AppendOnly
<1>1. IInv /\ [Next]_vars =>
        [\A c \in Cases : database[c] # Absent => database'[c] = database[c]]_vars
  BY AppendOnlyStep
<1>2. QED
  BY Inductive, <1>1, PTL DEF Spec, AppendOnly

\* How a step of a caller changes the replies: not at all, or it ends the
\* call with a reply that the files justify.
LEMMA RepliesAreJustified ==
  ASSUME IInv, [Next]_vars
  PROVE  \/ /\ UNCHANGED reply
            /\ \A q \in Procs : pc'[q] = "idle" =>
                 pc[q] = "idle" /\ request'[q] = request[q]
         \/ \E p \in Procs, o \in Outcomes \ {"none", "refused"}, s \in Snapshots :
              /\ pc[p] # "idle"
              /\ UNCHANGED <<request, database>>
              /\ pc' = [pc EXCEPT ![p] = "idle"]
              /\ reply' = [reply EXCEPT ![p] = Reply(o, s)]
              /\ o \in {"indexed", "already"} =>
                   /\ request[p] # Query
                   /\ database[request[p].case] = request[p].evidence
<1> DEFINE Kept == /\ UNCHANGED reply
                   /\ \A q \in Procs : pc'[q] = "idle" =>
                        pc[q] = "idle" /\ request'[q] = request[q]
<1> DEFINE Justified ==
             \E p \in Procs, o \in Outcomes \ {"none", "refused"}, s \in Snapshots :
               /\ pc[p] # "idle"
               /\ UNCHANGED <<request, database>>
               /\ pc' = [pc EXCEPT ![p] = "idle"]
               /\ reply' = [reply EXCEPT ![p] = Reply(o, s)]
               /\ o \in {"indexed", "already"} =>
                    /\ request[p] # Query
                    /\ database[request[p].case] = request[p].evidence
<1>0. {"answered", "indexed", "already", "conflict", "failed"}
        \subseteq Outcomes \ {"none", "refused"}
  BY DEF Outcomes
<1>1. ASSUME NEW p \in Procs,
             \/ Call(p) \/ Acquire(p) \/ Initialize(p) \/ Sweep(p) \/ Swept(p)
             \/ UndoVector(p) \/ RedoManifest(p)
      PROVE  Kept
  BY <1>1 DEF Call, Acquire, Initialize, Sweep, Swept, UndoVector, RedoManifest,
              callers, Goto, IInv, TypeOK
<1>2. ASSUME NEW p \in Procs,
             \/ BeginAppend(p) \/ CopyDatabase(p) \/ InsertRecord(p)
             \/ StageVector(p) \/ PublishTransition(p) \/ MoveVector(p)
             \/ MoveDatabase(p) \/ WriteManifest(p)
      PROVE  Kept
  BY <1>2 DEF BeginAppend, CopyDatabase, InsertRecord, StageVector,
              PublishTransition, MoveVector, MoveDatabase, WriteManifest, Goto,
              IInv, TypeOK
<1>3. ASSUME NEW p \in Procs,
             ReadyVerified(p) \/ Recover(p) \/ RepairUnlink(p) \/ VerifyAppended(p)
      PROVE  Kept
  <2>1. CASE ReadyVerified(p)
    BY <2>1 DEF ReadyVerified, IInv, AlwaysRecoverable, Goto, TypeOK
  <2>2. CASE Recover(p)
    BY <2>2 DEF Recover, IInv, AlwaysRecoverable, Goto, TypeOK
  <2>3. CASE RepairUnlink(p)
    BY <2>3 DEF RepairUnlink, IInv, CallInv, DuringRepair, Goto, TypeOK
  <2>4. CASE VerifyAppended(p)
    BY <2>4 DEF VerifyAppended, IInv, CallInv, AfterPublish, Goto, TypeOK
  <2>5. QED
    BY <1>3, <2>1, <2>2, <2>3, <2>4
<1>4. ASSUME NEW p \in Procs, AnswerQuery(p) PROVE Justified
  BY <1>0, <1>4 DEF AnswerQuery, Return, files, IInv, TypeOK
<1>5. ASSUME NEW p \in Procs, AnswerExisting(p) PROVE Justified
  <2>1. CASE database[request[p].case] = request[p].evidence
    BY <1>0, <1>5, <2>1 DEF AnswerExisting, Return, files, IInv, TypeOK
  <2>2. CASE database[request[p].case] # request[p].evidence
    BY <1>0, <1>5, <2>2, EmptySnapshotType DEF AnswerExisting, Return, files
  <2>3. QED
    BY <2>1, <2>2
<1>6. ASSUME NEW p \in Procs, UnlinkTransition(p) PROVE Justified
  <2>1. AfterPublish(p) /\ database \in Snapshots
    BY DEF IInv, CallInv, TypeOK
  <2>2. request[p] # Query /\ database[request[p].case] = request[p].evidence
    BY <1>6, <2>1 DEF UnlinkTransition, AfterPublish, CommitSteps, Describes
  <2>3. QED
    BY <1>0, <1>6, <2>1, <2>2 DEF UnlinkTransition, Return
<1>7. ASSUME NEW p \in Procs, Raise(p) \/ Crash(p) PROVE Justified
  <2>1. pc[p] # "idle"
    BY <1>7 DEF Raise, Crash, Holding, RepairSteps, StagingSteps, CommitSteps
  <2>2. QED
    BY <1>0, <1>7, <2>1, EmptySnapshotType DEF Raise, Crash, Return, files
<1>8. ASSUME UNCHANGED vars PROVE Kept
  BY <1>8 DEF vars, callers
<1>9. QED
  BY <1>1, <1>2, <1>3, <1>4, <1>5, <1>6, <1>7, <1>8
     DEF Next, Step, Append, Interrupt

\* The fail-closed branches are never taken: no call is refused because of
\* what an earlier, interrupted call left in the files.
THEOREM Accepted == Spec => []NeverRefused
<1>1. Init => NeverRefused
  <2> SUFFICES ASSUME Init, NEW p \in Procs PROVE reply[p].outcome # "refused"
    BY DEF NeverRefused
  <2>1. reply[p] = Reply("none", EmptySnapshot)
    BY DEF Init
  <2>2. reply[p].outcome = "none"
    BY <2>1 DEF Reply
  <2>3. QED
    BY <2>2
<1>2. IInv /\ NeverRefused /\ [Next]_vars => NeverRefused'
  <2> SUFFICES ASSUME IInv, NeverRefused, [Next]_vars, NEW q \in Procs
               PROVE  reply'[q].outcome # "refused"
    BY DEF NeverRefused
  <2>1. CASE UNCHANGED reply
    BY <2>1 DEF NeverRefused
  <2>2. ASSUME NEW p \in Procs, NEW o \in Outcomes \ {"none", "refused"},
               NEW s \in Snapshots, reply' = [reply EXCEPT ![p] = Reply(o, s)]
        PROVE  reply'[q].outcome # "refused"
    BY <2>2 DEF NeverRefused, Reply, IInv, TypeOK
  <2>3. QED
    BY <2>1, <2>2, RepliesAreJustified
<1>3. QED
  BY <1>1, <1>2, Inductive, PTL DEF Spec

\* A case that was reported as indexed is in the database, with the evidence
\* of the call, and stays there through later interruptions and recoveries.
THEOREM Durable == Spec => []IndexedIsDurable
<1> DEFINE Inv == \A p \in Procs :
             pc[p] = "idle" /\ reply[p].outcome \in {"indexed", "already"} =>
               /\ request[p] # Query
               /\ database[request[p].case] = request[p].evidence
<1>1. Init => Inv
  <2>1. Init => \A p \in Procs : reply[p] = Reply("none", EmptySnapshot)
    BY DEF Init
  <2>2. QED
    BY <2>1 DEF Reply
<1>2. IInv /\ Inv /\ [Next]_vars => Inv'
  <2> SUFFICES ASSUME IInv, Inv, [Next]_vars,
                      NEW q \in Procs, pc'[q] = "idle",
                      reply'[q].outcome \in {"indexed", "already"}
               PROVE  /\ request'[q] # Query
                      /\ database'[request'[q].case] = request'[q].evidence
    OBVIOUS
  <2>1. CASE /\ UNCHANGED reply
             /\ pc[q] = "idle"
             /\ request'[q] = request[q]
    <3>1. /\ request[q] # Query
          /\ database[request[q].case] = request[q].evidence
      BY <2>1
    <3>2. request[q].case \in Cases /\ request[q].evidence # Absent
      BY <3>1, WithType, EmptySnapshotType, IndexAssumption DEF IInv
    <3>3. QED
      BY <2>1, <3>1, <3>2, AppendOnlyStep
  <2>2. ASSUME NEW p \in Procs, NEW o \in Outcomes \ {"none", "refused"},
               NEW s \in Snapshots, pc[p] # "idle",
               UNCHANGED <<request, database>>,
               pc' = [pc EXCEPT ![p] = "idle"],
               reply' = [reply EXCEPT ![p] = Reply(o, s)],
               o \in {"indexed", "already"} =>
                 /\ request[p] # Query
                 /\ database[request[p].case] = request[p].evidence
        PROVE  /\ request'[q] # Query
               /\ database'[request'[q].case] = request'[q].evidence
    BY <2>2 DEF Reply, IInv, TypeOK
  <2>3. QED
    BY <2>1, <2>2, RepliesAreJustified
<1>3. Inv => IndexedIsDurable
  BY DEF IndexedIsDurable
<1>4. QED
  BY <1>1, <1>2, <1>3, Inductive, PTL DEF Spec

-----------------------------------------------------------------------------
(* The index implements the book: MoveDatabase is the step that enters a   *)
(* case, the actions that end a call are the book's answers, and all the   *)
(* rest, recovery included, changes nothing the book shows.                *)

EnteredSteps == {"writeManifest", "verify", "sweep", "unlink"}

PhaseOf(step) == IF step = "idle" THEN "idle"
                 ELSE IF step \in EnteredSteps THEN "entered" ELSE "called"

LEMMA PhaseIs ==
  ASSUME TypeOK
  PROVE  Phase = [p \in Procs |-> PhaseOf(pc[p])]
BY DEF Phase, PhaseOf, EnteredSteps

\* A step of one caller within the same phase does not show.
LEMMA PhaseKept ==
  ASSUME IInv, [Next]_vars, NEW p \in Procs, NEW step,
         pc' = [pc EXCEPT ![p] = step], PhaseOf(step) = PhaseOf(pc[p])
  PROVE  Phase' = Phase
<1>1. TypeOK /\ TypeOK'
  BY TypeStep DEF IInv
<1>2. Phase = [q \in Procs |-> PhaseOf(pc[q])]
  BY <1>1, PhaseIs
<1>3. Phase' = [q \in Procs |-> PhaseOf(pc'[q])]
  BY <1>1 DEF Phase, PhaseOf, EnteredSteps
<1>4. \A q \in Procs : PhaseOf(pc'[q]) = PhaseOf(pc[q])
  BY <1>1 DEF TypeOK
<1>5. QED
  BY <1>2, <1>3, <1>4

LEMMA PhaseMoves ==
  ASSUME IInv, [Next]_vars, NEW p \in Procs, NEW step,
         pc' = [pc EXCEPT ![p] = step]
  PROVE  Phase' = [Phase EXCEPT ![p] = PhaseOf(step)]
<1>1. TypeOK /\ TypeOK'
  BY TypeStep DEF IInv
<1>2. Phase = [q \in Procs |-> PhaseOf(pc[q])]
  BY <1>1, PhaseIs
<1>3. Phase' = [q \in Procs |-> PhaseOf(pc'[q])]
  BY <1>1 DEF Phase, PhaseOf, EnteredSteps
<1>4. \A q \in Procs : pc'[q] = IF q = p THEN step ELSE pc[q]
  BY <1>1 DEF TypeOK
<1>5. QED
  BY <1>2, <1>3, <1>4

LEMMA BookInit == Init => Book!Init
<1> SUFFICES ASSUME Init PROVE Book!Init
  OBVIOUS
<1>1. Phase = [p \in Procs |-> "idle"]
  BY DEF Init, Phase
<1>2. QED
  BY <1>1 DEF Init, Book!Init, EmptySnapshot, Book!EmptyBook, Reply, Book!Reply

\* The end of a call, as the book sees it.
LEMMA BookFinish ==
  ASSUME IInv, [Next]_vars, NEW p \in Procs, NEW o, NEW s,
         pc' = [pc EXCEPT ![p] = "idle"],
         reply' = [reply EXCEPT ![p] = Reply(o, s)],
         UNCHANGED <<request, database>>
  PROVE  Book!Finish(p, o, s)
<1>1. Phase' = [Phase EXCEPT ![p] = "idle"]
  BY PhaseMoves DEF PhaseOf
<1>2. QED
  BY <1>1 DEF Book!Finish, Reply, Book!Reply

LEMMA BookStep == IInv /\ [Next]_vars => [Book!Next]_(Book!bookVars)
<1> SUFFICES ASSUME IInv, [Next]_vars PROVE [Book!Next]_(Book!bookVars)
  OBVIOUS
<1> DEFINE Hidden == UNCHANGED <<database, Phase, request, reply>>
<1>0. /\ TypeOK
      /\ \A p \in Procs : Phase[p] = PhaseOf(pc[p])
  BY PhaseIs DEF IInv
<1>1. CASE UNCHANGED vars
  <2>1. Phase' = Phase
    BY <1>1 DEF vars, callers, Phase
  <2>2. QED
    BY <1>1, <2>1 DEF Book!bookVars, vars, files, callers
<1>2. ASSUME NEW p \in Procs, Call(p) PROVE Book!Call(p)
  <2>1. Phase' = [Phase EXCEPT ![p] = "called"]
    <3>1. PhaseOf("waiting") = "called" /\ pc' = [pc EXCEPT ![p] = "waiting"]
      BY <1>2 DEF Call, PhaseOf, EnteredSteps
    <3>2. QED
      BY <3>1, PhaseMoves
  <2>2. QED
    BY <1>0, <1>2, <2>1 DEF Call, Book!Call, PhaseOf, files, Requests,
                            Book!Requestable
<1>3. ASSUME NEW p \in Procs, MoveDatabase(p) PROVE Book!Enter(p)
  <2>1. Phase' = [Phase EXCEPT ![p] = "entered"]
    BY <1>3, PhaseMoves DEF MoveDatabase, Goto, PhaseOf, EnteredSteps
  <2>2. Phase[p] = "called"
    BY <1>0, <1>3 DEF MoveDatabase, PhaseOf, EnteredSteps
  <2>3. AfterPublish(p)
    BY DEF IInv, CallInv
  <2>4. /\ request[p] # Query
        /\ ExactAppend(transition)
        /\ transition.case = request[p].case
        /\ transition.following[request[p].case] = request[p].evidence
        /\ database = transition.previous
        /\ database' = transition.following
    BY <1>3, <2>3 DEF MoveDatabase, AfterPublish, CommitSteps
  <2>5. /\ database[request[p].case] = Absent
        /\ database' = With(database, p)
    BY <2>4 DEF ExactAppend, With
  <2>6. QED
    BY <1>3, <2>1, <2>2, <2>4, <2>5 DEF MoveDatabase, Goto, Book!Enter, With
<1>4. ASSUME NEW p \in Procs, AnswerQuery(p) PROVE Book!AnswerQuery(p)
  <2>1. Phase[p] = "called"
    BY <1>0, <1>4 DEF AnswerQuery, PhaseOf, EnteredSteps
  <2>2. QED
    BY <1>4, <2>1, BookFinish DEF AnswerQuery, Return, files, Book!AnswerQuery
<1>5. ASSUME NEW p \in Procs, AnswerExisting(p)
      PROVE  Book!AnswerAlready(p) \/ Book!AnswerConflict(p)
  <2>1. Phase[p] = "called"
    BY <1>0, <1>5 DEF AnswerExisting, PhaseOf, EnteredSteps
  <2>2. CASE database[request[p].case] = request[p].evidence
    BY <1>5, <2>1, <2>2, BookFinish
       DEF AnswerExisting, Return, files, Book!AnswerAlready
  <2>3. CASE database[request[p].case] # request[p].evidence
    BY <1>5, <2>1, <2>3, BookFinish
       DEF AnswerExisting, Return, files, Book!AnswerConflict, Book!EmptyBook,
           EmptySnapshot
  <2>4. QED
    BY <2>2, <2>3
<1>6. ASSUME NEW p \in Procs, UnlinkTransition(p) PROVE Book!AnswerEntered(p)
  <2>1. Phase[p] = "entered"
    BY <1>0, <1>6 DEF UnlinkTransition, PhaseOf, EnteredSteps
  <2>2. QED
    BY <1>6, <2>1, BookFinish DEF UnlinkTransition, Return, Book!AnswerEntered
<1>7. ASSUME NEW p \in Procs, Raise(p) \/ Crash(p) PROVE Book!Fail(p)
  <2>1. Phase[p] # "idle"
    BY <1>0, <1>7 DEF Raise, Crash, PhaseOf, EnteredSteps, Holding, RepairSteps,
                      StagingSteps, CommitSteps
  <2>2. QED
    BY <1>7, <2>1, BookFinish
       DEF Raise, Crash, Return, files, Book!Fail, Book!EmptyBook, EmptySnapshot
<1>8. ASSUME NEW p \in Procs, Initialize(p) \/ Sweep(p) PROVE Hidden
  <2>1. Phase' = Phase
    BY <1>8 DEF Initialize, Sweep, callers, Phase
  <2>2. database' = database
    BY <1>8 DEF Initialize, Sweep, DropStaged, IInv, RootInv
  <2>3. QED
    BY <1>8, <2>1, <2>2 DEF Initialize, Sweep, callers
<1>9. ASSUME NEW p \in Procs,
             \/ Acquire(p) \/ ReadyVerified(p) \/ Swept(p) \/ Recover(p)
             \/ UndoVector(p) \/ RedoManifest(p) \/ RepairUnlink(p)
      PROVE  Hidden
  <2>1. /\ database' = database /\ request' = request /\ reply' = reply
        /\ \E step : pc' = [pc EXCEPT ![p] = step] /\ PhaseOf(step) = PhaseOf(pc[p])
    <3>1. CASE Acquire(p)
      <4>1. /\ database' = database /\ request' = request /\ reply' = reply
            /\ pc[p] = "waiting" /\ pc' = [pc EXCEPT ![p] = "ready"]
        BY <3>1 DEF Acquire, files
      <4>2. PhaseOf("ready") = PhaseOf("waiting")
        BY DEF PhaseOf, EnteredSteps
      <4>3. QED
        BY <4>1, <4>2
    <3>2. CASE ReadyVerified(p)
      BY <3>2 DEF ReadyVerified, files, PhaseOf, EnteredSteps, Goto, IInv,
                  AlwaysRecoverable
    <3>3. CASE Swept(p)
      <4>1. /\ database' = database /\ request' = request /\ reply' = reply
            /\ \/ pc[p] = "readySweep" /\ pc' = [pc EXCEPT ![p] = "apply"]
               \/ pc[p] = "repairSweep" /\ pc' = [pc EXCEPT ![p] = "repairUnlink"]
               \/ pc[p] = "sweep" /\ pc' = [pc EXCEPT ![p] = "unlink"]
        BY <3>3 DEF Swept, files, Goto
      <4>2. /\ PhaseOf("apply") = PhaseOf("readySweep")
            /\ PhaseOf("repairUnlink") = PhaseOf("repairSweep")
            /\ PhaseOf("unlink") = PhaseOf("sweep")
        BY DEF PhaseOf, EnteredSteps
      <4>3. QED
        BY <4>1, <4>2
    <3>4. CASE Recover(p)
      BY <3>4 DEF Recover, files, PhaseOf, EnteredSteps, Goto, IInv,
                  AlwaysRecoverable
    <3>5. CASE UndoVector(p) \/ RedoManifest(p)
      BY <3>5 DEF UndoVector, RedoManifest, PhaseOf, EnteredSteps, Goto
    <3>6. CASE RepairUnlink(p)
      BY <3>6 DEF RepairUnlink, PhaseOf, EnteredSteps, Goto, IInv, CallInv,
                  DuringRepair
    <3>7. QED
      BY <1>9, <3>1, <3>2, <3>3, <3>4, <3>5, <3>6
  <2>2. QED
    BY <2>1, PhaseKept
<1>10. ASSUME NEW p \in Procs,
              \/ BeginAppend(p) \/ CopyDatabase(p) \/ InsertRecord(p)
              \/ StageVector(p) \/ PublishTransition(p) \/ MoveVector(p)
              \/ WriteManifest(p) \/ VerifyAppended(p)
      PROVE  Hidden
  <2>1. /\ database' = database /\ request' = request /\ reply' = reply
        /\ \E step : pc' = [pc EXCEPT ![p] = step] /\ PhaseOf(step) = PhaseOf(pc[p])
    <3>1. CASE BeginAppend(p) \/ CopyDatabase(p) \/ InsertRecord(p)
      BY <3>1 DEF BeginAppend, CopyDatabase, InsertRecord, files, PhaseOf,
                  EnteredSteps, Goto
    <3>2. CASE StageVector(p) \/ PublishTransition(p) \/ MoveVector(p)
      BY <3>2 DEF StageVector, PublishTransition, MoveVector, PhaseOf,
                  EnteredSteps, Goto
    <3>3. CASE WriteManifest(p)
      BY <3>3 DEF WriteManifest, PhaseOf, EnteredSteps, Goto
    <3>4. CASE VerifyAppended(p)
      BY <3>4 DEF VerifyAppended, files, PhaseOf, EnteredSteps, Goto, IInv,
                  CallInv, AfterPublish
    <3>5. QED
      BY <1>10, <3>1, <3>2, <3>3, <3>4
  <2>2. QED
    BY <2>1, PhaseKept
<1>11. Hidden => [Book!Next]_(Book!bookVars)
  BY DEF Book!bookVars
<1>12. QED
  BY <1>1, <1>2, <1>3, <1>4, <1>5, <1>6, <1>7, <1>8, <1>9, <1>10, <1>11
     DEF Next, Step, Append, Interrupt, Book!Next

\* The files, the journal and its recovery implement an atomic book: every
\* answer is one the book gives, and an append is in the book or it is not.
THEOREM Refinement == Spec => ImplementsBook
<1>1. IInv /\ [Next]_vars => [Book!Next]_(Book!bookVars)
  BY BookStep
<1>2. QED
  BY BookInit, <1>1, Inductive, PTL DEF Spec, ImplementsBook, Book!Spec

=============================================================================

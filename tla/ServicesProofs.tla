----------------------------- MODULE ServicesProofs -----------------------------
(***************************************************************************)
(* Proofs about Launcher, CoreRuns and ServingControl, and about the       *)
(* composition of MCGfm.                                                   *)
(*                                                                         *)
(* For any number of PIDs and processes: every service that runs or has    *)
(* the port can be found through the record.  The property says which root *)
(* the record names, but a step that drops the record looks at the PID of  *)
(* the record only.  What makes this enough is that a root that lives has  *)
(* no PID but the one its record names (AtPid) and that identities are     *)
(* given out once (Distinct).                                              *)
(*                                                                         *)
(* For any number of runs: a run that was told to have succeeded stays so, *)
(* with its publication, and no run is executed twice, however often the   *)
(* process dies.  The recovery tells a run from its files alone.  What     *)
(* makes this enough is that a run that succeeded is published and has no  *)
(* thread any more, that threads and the recovery are never at work at the *)
(* same time, and that only a run that was never executed gets to "begin"  *)
(* (ThreadInv).                                                            *)
(*                                                                         *)
(* For any number of candidates and serving processes and any last         *)
(* generation: a promotion that returned holds, and promotions can go on   *)
(* after every failure.  Both follow from what a promotion knows at each   *)
(* of its places (PromotionPlaces): until it accepts, the high water is    *)
(* still the control it started from, which has no receipt; and unless the *)
(* operator has replaced the control, the live control is the one the      *)
(* promotion believes it to be.                                            *)
(*                                                                         *)
(* At the end, the launcher, the GFM process and its batch jobs side by    *)
(* side, as the run explores them: each behaves as it does alone.          *)
(***************************************************************************)
EXTENDS MCGfm, ResearchProofs, FiniteSetTheorems, TLAPS

-----------------------------------------------------------------------------
(* The launcher.                                                           *)

Names(root) == root \in [pid : Pids, id : 1..born]

\* A root that lives has the PID it was started with.
AtPid(root) == \A p \in Pids : process[p] = root.id => p = root.pid

Distinct ==
  \A p, q \in Pids : process[p] = process[q] /\ process[p] # Nobody => p = q

LauncherTyped ==
  /\ born \in 0..MaxBorn
  /\ process \in [Pids -> 1..born \cup {Nobody}]
  /\ ours \subseteq 1..born
  /\ port \in 1..born \cup {Nobody}
  /\ record # Nobody => Names(record) /\ AtPid(record)
  /\ child # Nobody => Names(child) /\ AtPid(child) /\ child.id \in ours
  /\ orphans \subseteq ours

DoingInv ==
  /\ doing \in {"nothing", "popen", "record", "wait", "terminate", "kill"}
  /\ doing \in {"popen", "record"} => record = Nobody
  /\ doing \in {"terminate", "kill"} => record # Nobody
  /\ doing \in {"record", "wait"} => child # Nobody
  /\ doing = "wait" => record = child

LauncherInv == LauncherTyped /\ Distinct /\ DoingInv /\ ServicesAreRecorded

-----------------------------------------------------------------------------
LEMMA NobodyIsNoNumber == Nobody \notin Nat /\ MaxBorn \in Nat
BY LauncherAssumption

LEMMA LauncherInitInv == LauncherInit => LauncherInv
BY NobodyIsNoNumber
   DEF LauncherInit, LauncherInv, LauncherTyped, Distinct, DoingInv, ServicesAreRecorded, Lives

\* A process that starts gets an identity that nobody had.
LEMMA SpawnKeeps ==
  ASSUME LauncherTyped, Distinct, NEW p \in Pids, Spawn(p)
  PROVE  /\ born' = born + 1
         /\ born' \in 0..MaxBorn
         /\ born' \in 1..born'
         /\ 1..born \subseteq 1..born'
         /\ process' \in [Pids -> 1..born' \cup {Nobody}]
         /\ Distinct'
         /\ \A q \in Pids : process'[q] = born' <=> q = p
         /\ \A id \in 1..born, q \in Pids : process'[q] = id => process[q] = id
BY NobodyIsNoNumber DEF LauncherTyped, Distinct, Spawn, IsUnused

\* Whoever is killed, no process appears.
LEMMA KillKeeps ==
  ASSUME LauncherTyped, Distinct, NEW root, root.pid \in Pids, KillGroup(root)
  PROVE  /\ process' \in [Pids -> 1..born' \cup {Nobody}]
         /\ born' = born /\ ours' = ours
         /\ port' \in 1..born \cup {Nobody}
         /\ Distinct'
         /\ process'[root.pid] = Nobody
         /\ port' # Nobody => port' = port /\ port # root.id
         /\ \A q \in Pids : process'[q] # Nobody => process'[q] = process[q]
BY DEF LauncherTyped, Distinct, KillGroup

LEMMA ForeignStartsKeeps ==
  ASSUME LauncherInv, NEW p \in Pids, ForeignStarts(p)
  PROVE  LauncherInv'
<1>1. LauncherTyped /\ Distinct /\ Spawn(p)
  BY DEF LauncherInv, ForeignStarts
<1>2. UNCHANGED <<ours, port, record, doing, child, orphans>>
  BY DEF ForeignStarts
<1>3. /\ born' = born + 1 /\ born' \in 0..MaxBorn /\ 1..born \subseteq 1..born'
      /\ process' \in [Pids -> 1..born' \cup {Nobody}]
      /\ Distinct'
      /\ \A id \in 1..born, q \in Pids : process'[q] = id => process[q] = id
  BY <1>1, SpawnKeeps
<1>4. LauncherTyped'
  BY <1>1, <1>2, <1>3 DEF LauncherTyped, Names, AtPid
<1>5. ServicesAreRecorded'
  BY <1>1, <1>2, <1>3 DEF LauncherInv, LauncherTyped, ServicesAreRecorded, Lives
<1> QED
  BY <1>2, <1>3, <1>4, <1>5 DEF LauncherInv, DoingInv

LEMMA PopenKeeps ==
  ASSUME LauncherInv, NEW p \in Pids, Popen(p)
  PROVE  LauncherInv'
<1>1. LauncherTyped /\ Distinct /\ Spawn(p)
  BY DEF LauncherInv, Popen
<1>2. /\ doing = "popen" /\ doing' = "record"
      /\ ours' = ours \cup {born'}
      /\ child' = [pid |-> p, id |-> born']
      /\ UNCHANGED <<port, record, orphans>>
  BY DEF Popen
<1>3. /\ born' = born + 1 /\ born' \in 0..MaxBorn
      /\ born' \in 1..born' /\ 1..born \subseteq 1..born'
      /\ process' \in [Pids -> 1..born' \cup {Nobody}]
      /\ Distinct'
      /\ \A q \in Pids : process'[q] = born' <=> q = p
      /\ \A id \in 1..born, q \in Pids : process'[q] = id => process[q] = id
  BY <1>1, SpawnKeeps
<1>4. record = Nobody
  BY <1>2 DEF LauncherInv, DoingInv
<1>5. child' # Nobody
  BY <1>2, <1>3, LauncherAssumption DEF LauncherTyped
<1>6. LauncherTyped'
  BY <1>1, <1>2, <1>3, <1>4 DEF LauncherTyped, Names, AtPid
<1>7. ServicesAreRecorded'
  <2> SUFFICES ASSUME NEW id \in ours' \ orphans', Lives(id)'
               PROVE  doing' = "record" /\ child'.id = id
    BY DEF ServicesAreRecorded
  <2>1. CASE id = born'
    BY <1>2, <2>1
  <2>2. CASE id \in ours
    <3>1. Lives(id)
      BY <1>1, <1>2, <1>3, <2>2 DEF Lives, LauncherTyped
    <3> QED
      BY <1>2, <1>4, <2>2, <3>1 DEF LauncherInv, ServicesAreRecorded
  <2> QED
    BY <1>2, <2>1, <2>2
<1> QED
  BY <1>2, <1>3, <1>4, <1>5, <1>6, <1>7 DEF LauncherInv, DoingInv

LEMMA ExitsKeeps ==
  ASSUME LauncherInv, NEW p \in Pids, Exits(p)
  PROVE  LauncherInv'
<1>1. /\ process' \in [Pids -> 1..born \cup {Nobody}]
      /\ \A q \in Pids : process'[q] # Nobody => process'[q] = process[q]
      /\ port' \in {port, Nobody}
      /\ UNCHANGED <<born, ours, record, doing, child, orphans>>
  BY DEF LauncherInv, LauncherTyped, Exits
<1>2. LauncherTyped'
  BY <1>1, NobodyIsNoNumber DEF LauncherInv, LauncherTyped, Names, AtPid
<1>3. Distinct'
  BY <1>1 DEF LauncherInv, Distinct
<1>4. ServicesAreRecorded'
  BY <1>1, NobodyIsNoNumber DEF LauncherInv, LauncherTyped, ServicesAreRecorded, Lives
<1> QED
  BY <1>1, <1>2, <1>3, <1>4 DEF LauncherInv, DoingInv

LEMMA ListensKeeps ==
  ASSUME LauncherInv, NEW p \in Pids, Listens(p)
  PROVE  LauncherInv'
<1> USE DEF LauncherInv, Listens
<1>1. LauncherTyped' /\ Distinct'
  BY DEF LauncherTyped, Distinct, Names, AtPid
<1>2. ServicesAreRecorded'
  BY NobodyIsNoNumber DEF LauncherTyped, ServicesAreRecorded, Lives
<1> QED
  BY <1>1, <1>2 DEF DoingInv

LEMMA ClosesKeeps ==
  ASSUME LauncherInv, Closes
  PROVE  LauncherInv'
<1> USE DEF LauncherInv, Closes
<1>1. LauncherTyped' /\ Distinct'
  BY DEF LauncherTyped, Distinct, Names, AtPid
<1>2. ServicesAreRecorded'
  BY NobodyIsNoNumber DEF LauncherTyped, ServicesAreRecorded, Lives
<1> QED
  BY <1>1, <1>2 DEF DoingInv

-----------------------------------------------------------------------------
\* When the recorded root is gone and the port is closed, no service of ours
\* lives whose launcher did not die.
LEMMA NoneIsLeft ==
  ASSUME LauncherInv, port = Nobody,
         record # Nobody => ~IsAlive(record),
         doing # "record"
  PROVE  \A id \in ours \ orphans : ~Lives(id)
<1> SUFFICES ASSUME NEW id \in ours \ orphans, Lives(id)
             PROVE  FALSE
  OBVIOUS
<1>1. record # Nobody /\ record.id = id
  BY DEF LauncherInv, ServicesAreRecorded
<1>2. PICK p \in Pids : process[p] = id
  BY NobodyIsNoNumber DEF LauncherInv, LauncherTyped, Lives
<1>3. p = record.pid
  BY <1>1, <1>2 DEF LauncherInv, LauncherTyped, AtPid
<1> QED
  BY <1>1, <1>2, <1>3 DEF IsAlive

LEMMA BeginStartKeeps ==
  ASSUME LauncherInv, BeginStart
  PROVE  LauncherInv'
<1>1. record # Nobody => ~IsAlive(record)
  BY NobodyIsNoNumber DEF BeginStart, IsAlive, LauncherInv, LauncherTyped, Names
<1>2. \A id \in ours \ orphans : ~Lives(id)
  BY <1>1, NoneIsLeft DEF BeginStart
<1>3. LauncherTyped' /\ Distinct'
  BY DEF LauncherInv, BeginStart, processes, LauncherTyped, Distinct, Names, AtPid
<1>4. ServicesAreRecorded'
  BY <1>2 DEF BeginStart, processes, ServicesAreRecorded, Lives
<1> QED
  BY <1>3, <1>4 DEF LauncherInv, DoingInv, BeginStart

LEMMA WriteRecordKeeps ==
  ASSUME LauncherInv, WriteRecord
  PROVE  LauncherInv'
<1> USE DEF LauncherInv, WriteRecord, processes
<1>1. LauncherTyped' /\ Distinct'
  BY DEF LauncherTyped, Distinct, Names, AtPid, DoingInv
<1>2. ServicesAreRecorded'
  BY DEF DoingInv, ServicesAreRecorded, Lives
<1> QED
  BY <1>1, <1>2 DEF DoingInv

LEMMA FailRecordKeeps ==
  ASSUME LauncherInv, FailRecord
  PROVE  LauncherInv'
<1>1. /\ LauncherTyped /\ Distinct /\ KillGroup(child)
      /\ doing = "record" /\ record = Nobody /\ child # Nobody
      /\ child' = Nobody /\ doing' = "nothing"
      /\ UNCHANGED <<record, orphans>>
  BY DEF LauncherInv, DoingInv, FailRecord
<1>2. child.pid \in Pids /\ AtPid(child)
  BY <1>1 DEF LauncherTyped, Names
<1>3. /\ process' \in [Pids -> 1..born' \cup {Nobody}]
      /\ born' = born /\ ours' = ours
      /\ port' \in 1..born \cup {Nobody}
      /\ Distinct'
      /\ process'[child.pid] = Nobody
      /\ port' # Nobody => port' = port /\ port # child.id
      /\ \A q \in Pids : process'[q] # Nobody => process'[q] = process[q]
  BY <1>1, <1>2, KillKeeps
<1>4. LauncherTyped'
  BY <1>1, <1>3 DEF LauncherTyped
<1>5. ServicesAreRecorded'
  <2> SUFFICES ASSUME NEW id \in ours \ orphans, Lives(id)'
               PROVE  FALSE
    BY <1>1, <1>3 DEF ServicesAreRecorded
  <2>1. id # Nobody
    BY <1>1, NobodyIsNoNumber DEF LauncherTyped
  <2>2. Lives(id)
    BY <1>3, <2>1 DEF Lives
  <2>3. child.id = id
    BY <1>1, <2>2 DEF LauncherInv, ServicesAreRecorded
  <2> QED
    BY <1>2, <1>3, <2>1, <2>3 DEF Lives, AtPid
<1> QED
  BY <1>1, <1>3, <1>4, <1>5 DEF LauncherInv, DoingInv

LEMMA ReadyKeeps ==
  ASSUME LauncherInv, Ready
  PROVE  LauncherInv'
<1> USE DEF LauncherInv, Ready, processes
<1>1. LauncherTyped' /\ Distinct'
  BY DEF LauncherTyped, Distinct, Names, AtPid
<1>2. ServicesAreRecorded'
  BY DEF ServicesAreRecorded, Lives
<1> QED
  BY <1>1, <1>2 DEF DoingInv

LEMMA ExitedKeeps ==
  ASSUME LauncherInv, Exited
  PROVE  LauncherInv'
<1>1. record = child /\ ~IsAlive(record) /\ doing = "wait"
  BY DEF LauncherInv, DoingInv, Exited
<1>2. port = Nobody => \A id \in ours \ orphans : ~Lives(id)
  BY <1>1, NoneIsLeft
<1>3. LauncherTyped' /\ Distinct'
  BY DEF LauncherInv, Exited, processes, LauncherTyped, Distinct, Names, AtPid
<1>4. ServicesAreRecorded'
  BY <1>1, <1>2 DEF LauncherInv, Exited, processes, ServicesAreRecorded, Lives
<1> QED
  BY <1>3, <1>4 DEF LauncherInv, DoingInv, Exited

LEMMA DiscardRecordKeeps ==
  ASSUME LauncherInv, DiscardRecord
  PROVE  LauncherInv'
<1>1. doing # "record"
  BY DEF DiscardRecord, Stops
<1>2. \A id \in ours \ orphans : ~Lives(id)
  BY <1>1, NoneIsLeft DEF DiscardRecord
<1>3. LauncherTyped' /\ Distinct'
  BY DEF LauncherInv, DiscardRecord, processes, LauncherTyped, Distinct, Names, AtPid
<1>4. ServicesAreRecorded'
  BY <1>2 DEF DiscardRecord, processes, ServicesAreRecorded, Lives
<1> QED
  BY <1>3, <1>4 DEF LauncherInv, DoingInv, DiscardRecord

LEMMA TerminateKeeps ==
  ASSUME LauncherInv, Terminate
  PROVE  LauncherInv'
<1>1. record # Nobody /\ doing # "record"
  BY DEF Terminate, Stops, LauncherInv, DoingInv
<1>2. LauncherTyped' /\ Distinct'
  BY DEF LauncherInv, Terminate, processes, LauncherTyped, Distinct, Names, AtPid
<1>3. ServicesAreRecorded'
  BY <1>1 DEF LauncherInv, Terminate, processes, ServicesAreRecorded, Lives
<1> QED
  BY <1>1, <1>2, <1>3 DEF LauncherInv, DoingInv, Terminate

LEMMA KillKeepsInv ==
  ASSUME LauncherInv, Kill
  PROVE  LauncherInv'
<1>1. /\ LauncherTyped /\ Distinct /\ KillGroup(record)
      /\ doing = "terminate" /\ record # Nobody /\ doing' = "kill"
      /\ UNCHANGED <<record, child, orphans>>
  BY DEF LauncherInv, DoingInv, Kill
<1>2. record.pid \in Pids
  BY <1>1 DEF LauncherTyped, Names
<1>3. /\ process' \in [Pids -> 1..born' \cup {Nobody}]
      /\ born' = born /\ ours' = ours
      /\ port' \in 1..born \cup {Nobody}
      /\ Distinct'
      /\ port' # Nobody => port' = port
      /\ \A q \in Pids : process'[q] # Nobody => process'[q] = process[q]
  BY <1>1, <1>2, KillKeeps
<1>4. LauncherTyped'
  BY <1>1, <1>3, NobodyIsNoNumber DEF LauncherTyped, Names, AtPid
<1>5. ServicesAreRecorded'
  BY <1>1, <1>3, NobodyIsNoNumber DEF LauncherInv, LauncherTyped, ServicesAreRecorded, Lives
<1> QED
  BY <1>1, <1>3, <1>4, <1>5 DEF LauncherInv, DoingInv

LEMMA SeeGoneKeeps ==
  ASSUME LauncherInv, SeeGone
  PROVE  LauncherInv'
<1>1. doing # "record" /\ (record # Nobody => ~IsAlive(record))
  BY NobodyIsNoNumber DEF SeeGone, IsAlive, LauncherInv, LauncherTyped, Names
<1>2. \A id \in ours \ orphans : ~Lives(id)
  BY <1>1, NoneIsLeft DEF SeeGone
<1>3. LauncherTyped' /\ Distinct'
  BY DEF LauncherInv, SeeGone, processes, LauncherTyped, Distinct, Names, AtPid
<1>4. ServicesAreRecorded'
  BY <1>2 DEF SeeGone, processes, ServicesAreRecorded, Lives
<1> QED
  BY <1>1, <1>3, <1>4 DEF LauncherInv, DoingInv, SeeGone

LEMMA LeaveKeeps ==
  ASSUME LauncherInv, Abandon
  PROVE  LauncherInv'
<1> USE DEF LauncherInv, Abandon, processes
<1>1. LauncherTyped' /\ Distinct'
  BY DEF LauncherTyped, Distinct, Names, AtPid, DoingInv
<1>2. ServicesAreRecorded'
  BY DEF ServicesAreRecorded, Lives
<1> QED
  BY <1>1, <1>2 DEF DoingInv

LEMMA LauncherStutter ==
  ASSUME LauncherInv, UNCHANGED launcherVars
  PROVE  LauncherInv'
BY DEF LauncherInv, launcherVars, LauncherTyped, Distinct, DoingInv, ServicesAreRecorded,
       Names, AtPid, Lives

-----------------------------------------------------------------------------
(* The invariant the properties follow from: what the record and the child *)
(* name, that identities are given out once, and where a living service of *)
(* the launcher is written down.                                           *)
THEOREM LauncherInductive == LauncherSpec => []LauncherInv
<1>1. ASSUME LauncherInv, [LauncherNext]_launcherVars
      PROVE  LauncherInv'
  BY <1>1, ForeignStartsKeeps, ExitsKeeps, ListensKeeps, PopenKeeps,
     ClosesKeeps, BeginStartKeeps, WriteRecordKeeps, FailRecordKeeps,
     ReadyKeeps, ExitedKeeps, DiscardRecordKeeps, TerminateKeeps,
     KillKeepsInv, SeeGoneKeeps, LeaveKeeps, LauncherStutter
     DEF LauncherNext
<1> QED
  BY LauncherInitInv, <1>1, PTL DEF LauncherSpec

(* Every variable keeps its type.                                          *)
THEOREM LauncherTypeCorrect == LauncherSpec => []LauncherTypeOK
<1>1. LauncherInv => LauncherTypeOK
  BY NobodyIsNoNumber
     DEF LauncherInv, LauncherTyped, DoingInv, LauncherTypeOK, Names, Identities, Roots
<1> QED
  BY <1>1, LauncherInductive, PTL

(* Every service that runs or has the port is named by the record, for any *)
(* number of PIDs and processes (start and stop of ProcessManager).        *)
THEOREM Recorded == LauncherSpec => []ServicesAreRecorded
<1>1. LauncherInv => ServicesAreRecorded
  BY DEF LauncherInv
<1> QED
  BY <1>1, LauncherInductive, PTL

-----------------------------------------------------------------------------
(* The runs.                                                               *)

Creating == {"write state", "write manifest"}
Executing == {"begin", "execute", "write result", "write marker", "succeed", "fail"}

ServerInv ==
  /\ server # "recovering" => visiting = {}
  /\ server # "up" => \A r \in Runs : thread[r] \notin Creating \cup Executing

ThreadInv(r) ==
  /\ thread[r] = "none" => files[r] = {} /\ state[r] = "none"
  /\ thread[r] \in {"none"} \cup Creating \cup {"begin", "execute"} =>
       executed[r] = 0 /\ files[r] \cap Publication = {}
  /\ thread[r] = "write manifest" => state[r] = "queued"
  /\ thread[r] = "succeed" => Publication \subseteq files[r]
  /\ thread[r] = "write marker" => "result" \in files[r]
  /\ executed[r] \in {0, 1}

SuccessInv(r) ==
  r \in succeeded =>
    /\ state[r] = "succeeded"
    /\ Publication \subseteq files[r]
    /\ thread[r] \in {"lost", "ended"}

RunsInv ==
  /\ CoreRunsTypeOK
  /\ ServerInv
  /\ \A r \in Runs : ThreadInv(r) /\ SuccessInv(r)

-----------------------------------------------------------------------------
LEMMA RunsInitInv == CoreRunsInit => RunsInv
BY DEF CoreRunsInit, RunsInv, CoreRunsTypeOK, ServerInv, ThreadInv, SuccessInv,
       Creating, Executing

\* Its execution is counted.
LEMMA ExecuteCounts ==
  ASSUME executed \in [Runs -> Nat], NEW r \in Runs, Execute(r)
  PROVE  executed' \in [Runs -> Nat] /\ executed'[r] = executed[r] + 1
<1>1. executed' = [executed EXCEPT ![r] = @ + 1]
  BY DEF Execute
<1> QED
  BY <1>1

\* A request or a thread works while the process serves.
LEMMA WorkIsUp ==
  ASSUME RunsInv, NEW r \in Runs, Work(r)
  PROVE  server = "up" /\ visiting = {}
<1>1. server = "up" \/ thread[r] \in Creating \cup Executing
  BY DEF Work, WriteRequest, WriteState, WriteManifest, RemoveFailedCreate, Begin,
         Execute, WriteResult, WriteMarker, Succeed, Raise, Fail, Creating, Executing
<1> QED
  BY <1>1 DEF RunsInv, ServerInv

\* What a step does to the files of one run leaves the others as they are.
LEMMA OnlyOne ==
  ASSUME RunsInv, NEW r \in Runs, NEW s \in Runs, r # s, Work(r) \/ Recover(r)
  PROVE  /\ files'[s] = files[s] /\ state'[s] = state[s] /\ thread'[s] = thread[s]
         /\ executed'[s] = executed[s] /\ (s \in succeeded' <=> s \in succeeded)
<1> USE DEF RunsInv, CoreRunsTypeOK, runHistory, Add, Tell, Then
<1>1. CASE Work(r)
  BY <1>1 DEF Work, WriteRequest, WriteState, WriteManifest, RemoveFailedCreate,
              Begin, Execute, WriteResult, WriteMarker, Succeed, Raise, Fail
<1>2. CASE Recover(r)
  BY <1>2 DEF Recover, RecoverMarker, RecoverSuccess, RecoverInterrupted, PassOver
<1> QED
  BY <1>1, <1>2

LEMMA WorkTypes ==
  ASSUME CoreRunsTypeOK, NEW r \in Runs, Work(r)
  PROVE  CoreRunsTypeOK'
<1> USE DEF CoreRunsTypeOK, runHistory, Add, Tell, Then
<1>1. CASE WriteRequest(r)
  BY <1>1 DEF WriteRequest
<1>2. CASE WriteState(r)
  BY <1>2 DEF WriteState, Unfinished
<1>3. CASE WriteManifest(r)
  BY <1>3 DEF WriteManifest
<1>4. CASE RemoveFailedCreate(r)
  BY <1>4 DEF RemoveFailedCreate
<1>5. CASE Begin(r) \/ Raise(r)
  BY <1>5 DEF Begin, Raise, Unfinished
<1>6. CASE Succeed(r) \/ Fail(r)
  BY <1>6 DEF Succeed, Fail, Ended
<1>7. CASE Execute(r)
  <2>1. executed' \in [Runs -> Nat]
    BY <1>7, ExecuteCounts
  <2>2. /\ thread' = [thread EXCEPT ![r] = "write result"]
        /\ UNCHANGED <<files, state, server, visiting, succeeded>>
    BY <1>7 DEF Execute
  <2> QED
    BY <2>1, <2>2
<1>8. CASE WriteResult(r)
  BY <1>8 DEF WriteResult, Publication
<1>9. CASE WriteMarker(r)
  BY <1>9 DEF WriteMarker, Publication
<1> QED
  BY <1>1, <1>2, <1>3, <1>4, <1>5, <1>6, <1>7, <1>8, <1>9 DEF Work

LEMMA WorkKeepsRun ==
  ASSUME RunsInv, NEW r \in Runs, Work(r)
  PROVE  ThreadInv(r)' /\ SuccessInv(r)'
<1>1. CoreRunsTypeOK /\ ThreadInv(r) /\ SuccessInv(r)
  BY DEF RunsInv
<1>2. r \notin succeeded
  BY <1>1 DEF SuccessInv, Work, WriteRequest, WriteState, WriteManifest,
              RemoveFailedCreate, Begin, Execute, WriteResult, WriteMarker,
              Succeed, Raise, Fail
<1>3. CASE Execute(r)
  <2>1. thread[r] = "execute"
    BY <1>3 DEF Execute
  <2>2. executed[r] = 0 /\ files[r] \cap Publication = {}
    <3>1. thread[r] \in {"none"} \cup Creating \cup {"begin", "execute"}
      BY <2>1
    <3> QED
      BY <1>1, <3>1, Zenon DEF ThreadInv
  <2>3. executed'[r] = 1
    <3>1. executed'[r] = executed[r] + 1
      BY <1>1, <1>3, ExecuteCounts DEF CoreRunsTypeOK
    <3> QED
      BY <2>2, <3>1
  <2>4. /\ thread' = [thread EXCEPT ![r] = "write result"]
        /\ UNCHANGED <<files, state, succeeded>>
    BY <1>3 DEF Execute, Then
  <2>5. thread'[r] = "write result"
    BY <1>1, <2>4 DEF CoreRunsTypeOK
  <2> QED
    BY <1>2, <2>3, <2>4, <2>5 DEF ThreadInv, SuccessInv, Creating
<1> USE <1>1, <1>2 DEF CoreRunsTypeOK, ThreadInv, SuccessInv, runHistory, Add, Tell,
                       Then, Creating, Publication
<1>4. CASE WriteRequest(r)
  BY <1>4 DEF WriteRequest
<1>5. CASE WriteState(r)
  BY <1>5 DEF WriteState
<1>6. CASE WriteManifest(r)
  BY <1>6 DEF WriteManifest
<1>7. CASE RemoveFailedCreate(r)
  BY <1>7 DEF RemoveFailedCreate
<1>8. CASE Begin(r)
  BY <1>8 DEF Begin
<1>9. CASE WriteResult(r)
  BY <1>9 DEF WriteResult
<1>10. CASE WriteMarker(r)
  BY <1>10 DEF WriteMarker
<1>11. CASE Succeed(r)
  BY <1>11 DEF Succeed
<1>12. CASE Raise(r)
  BY <1>12 DEF Raise
<1>13. CASE Fail(r)
  BY <1>13 DEF Fail
<1> QED
  BY <1>3, <1>4, <1>5, <1>6, <1>7, <1>8, <1>9, <1>10, <1>11, <1>12, <1>13 DEF Work

LEMMA RunsWorkKeeps ==
  ASSUME RunsInv, NEW r \in Runs, Work(r)
  PROVE  RunsInv'
<1>1. CoreRunsTypeOK'
  BY WorkTypes DEF RunsInv
<1>2. server' = server /\ visiting' = visiting
  BY DEF Work, WriteRequest, WriteState, WriteManifest, RemoveFailedCreate,
         Begin, Execute, WriteResult, WriteMarker, Succeed, Raise, Fail
<1>3. ServerInv'
  BY <1>2, WorkIsUp DEF ServerInv
<1>4. ASSUME NEW s \in Runs
      PROVE  ThreadInv(s)' /\ SuccessInv(s)'
  BY OnlyOne, WorkKeepsRun DEF RunsInv, ThreadInv, SuccessInv
<1> QED
  BY <1>1, <1>3, <1>4 DEF RunsInv

-----------------------------------------------------------------------------
LEMMA RecoverKeeps ==
  ASSUME RunsInv, NEW r \in Runs, Recover(r)
  PROVE  RunsInv'
<1> USE DEF Add, Tell, Then, Leave, runHistory
<1>1. /\ r \in visiting /\ server = "recovering" /\ server' = server
      /\ executed' = executed
      /\ thread[r] \notin Creating \cup Executing
      /\ thread' = thread \/ thread' = [thread EXCEPT ![r] = "lost"]
  BY DEF RunsInv, ServerInv, Recover, RecoverMarker, RecoverSuccess,
         RecoverInterrupted, PassOver
<1>2. CoreRunsTypeOK'
  <2> USE <1>1 DEF RunsInv, CoreRunsTypeOK
  <2>1. CASE RecoverMarker(r)
    BY <2>1 DEF RecoverMarker, Publication
  <2>2. CASE RecoverSuccess(r) \/ RecoverInterrupted(r)
    BY <2>2 DEF RecoverSuccess, RecoverInterrupted, Ended
  <2>3. CASE PassOver(r)
    BY <2>3 DEF PassOver
  <2> QED
    BY <2>1, <2>2, <2>3 DEF Recover
<1>3. ServerInv'
  BY <1>1 DEF RunsInv, CoreRunsTypeOK, ServerInv, Creating, Executing
<1>4. ThreadInv(r)' /\ SuccessInv(r)'
  <2> USE <1>1 DEF RunsInv, CoreRunsTypeOK, ThreadInv, SuccessInv, Publication, Creating,
                   Executing
  <2>1. CASE RecoverMarker(r)
    BY <2>1 DEF RecoverMarker
  <2>2. CASE RecoverSuccess(r)
    BY <2>2 DEF RecoverSuccess
  <2>3. CASE RecoverInterrupted(r)
    BY <2>3 DEF RecoverInterrupted
  <2>4. CASE PassOver(r)
    BY <2>4 DEF PassOver
  <2> QED
    BY <2>1, <2>2, <2>3, <2>4 DEF Recover
<1>5. ASSUME NEW s \in Runs
      PROVE  ThreadInv(s)' /\ SuccessInv(s)'
  BY <1>4, OnlyOne DEF RunsInv, ThreadInv, SuccessInv
<1> QED
  BY <1>2, <1>3, <1>5 DEF RunsInv

LEMMA RunsCrashKeeps ==
  ASSUME RunsInv, Crash
  PROVE  RunsInv'
<1>1. /\ UNCHANGED <<files, state, executed, succeeded>>
      /\ server' = "down" /\ visiting' = {}
      /\ \A r \in Runs : thread'[r] = IF thread[r] = "none" THEN "none" ELSE "ended"
  BY DEF Crash, runHistory
<1>2. CoreRunsTypeOK'
  BY DEF RunsInv, CoreRunsTypeOK, Crash, runHistory
<1>3. ServerInv'
  BY <1>1 DEF ServerInv, Creating, Executing
<1>4. ASSUME NEW r \in Runs
      PROVE  ThreadInv(r)' /\ SuccessInv(r)'
  BY <1>1 DEF RunsInv, ThreadInv, SuccessInv, Creating
<1> QED
  BY <1>2, <1>3, <1>4 DEF RunsInv

LEMMA ServerKeeps ==
  ASSUME RunsInv, Start \/ Serve
  PROVE  RunsInv'
<1>1. UNCHANGED <<files, state, thread, executed, succeeded>>
  BY DEF Start, Serve, runHistory
<1>2. CoreRunsTypeOK' /\ ServerInv'
  BY <1>1 DEF RunsInv, CoreRunsTypeOK, ServerInv, Start, Serve
<1> QED
  BY <1>1, <1>2 DEF RunsInv, ThreadInv, SuccessInv

LEMMA RunsStutter ==
  ASSUME RunsInv, UNCHANGED runVars
  PROVE  RunsInv'
BY DEF RunsInv, runVars, runHistory, CoreRunsTypeOK, ServerInv, ThreadInv, SuccessInv

-----------------------------------------------------------------------------
(* The invariant the property follows from: what the files, the state and  *)
(* the thread of every run have to do with one another.                    *)
THEOREM RunsInductive == CoreRunsInit /\ [][CoreRunsNext]_runVars => []RunsInv
<1>1. ASSUME RunsInv, [CoreRunsNext]_runVars
      PROVE  RunsInv'
  BY <1>1, RunsWorkKeeps, RecoverKeeps, RunsCrashKeeps, ServerKeeps, RunsStutter
     DEF CoreRunsNext
<1> QED
  BY RunsInitInv, <1>1, PTL

(* Success is kept and no run is executed twice, for any number of runs    *)
(* and of deaths of the process (RunStore).                                *)
THEOREM Kept == CoreRunsInit /\ [][CoreRunsNext]_runVars => []SuccessIsKept
<1>1. ASSUME RunsInv
      PROVE  SuccessIsKept
  <2>1. \A r \in Runs : r \in succeeded => state[r] = "succeeded" /\ Publication \subseteq files[r]
    BY <1>1 DEF RunsInv, SuccessInv
  <2>2. \A r \in Runs : executed[r] \in {0, 1}
    BY <1>1 DEF RunsInv, ThreadInv
  <2>3. \A r \in Runs : executed[r] <= 1
    <3>1. \A n \in {0, 1} : n <= 1
      OBVIOUS
    <3> QED
      BY <2>2, <3>1, Zenon
  <2> QED
    BY <2>1, <2>3 DEF SuccessIsKept
<1> QED
  BY <1>1, RunsInductive, PTL

\* Whoever tells that a run succeeded, it is remembered.
SuccessIsTold == \A r \in Runs : state[r] = "succeeded" => r \in succeeded

LEMMA SuccessStaysTold ==
  ASSUME RunsInv, SuccessIsTold, [CoreRunsNext]_runVars
  PROVE  SuccessIsTold' /\ succeeded \subseteq succeeded'
<1>1. ASSUME NEW r \in Runs, Work(r) \/ Recover(r)
      PROVE  SuccessIsTold' /\ succeeded \subseteq succeeded'
  <2>1. ASSUME NEW s \in Runs, s # r
        PROVE  state'[s] = state[s] /\ (s \in succeeded' <=> s \in succeeded)
    BY <1>1, <2>1, OnlyOne
  <2> USE DEF RunsInv, CoreRunsTypeOK, runHistory, Tell, Unfinished
  <2>2. CASE Work(r)
    <3>1. succeeded \subseteq succeeded' /\ (state'[r] = "succeeded" => r \in succeeded')
      BY <2>2 DEF SuccessIsTold, Work, WriteRequest, WriteState, WriteManifest,
                  RemoveFailedCreate, Begin, Execute, WriteResult, WriteMarker,
                  Succeed, Raise, Fail
    <3> QED BY <2>1, <3>1 DEF SuccessIsTold
  <2>3. CASE Recover(r)
    <3>1. succeeded \subseteq succeeded' /\ (state'[r] = "succeeded" => r \in succeeded')
      BY <2>3 DEF SuccessIsTold, Recover, RecoverMarker, RecoverSuccess,
                  RecoverInterrupted, PassOver
    <3> QED BY <2>1, <3>1 DEF SuccessIsTold
  <2> QED BY <1>1, <2>2, <2>3
<1>2. CASE UNCHANGED <<state, succeeded>>
  BY <1>2 DEF SuccessIsTold
<1> QED
  BY <1>1, <1>2 DEF CoreRunsNext, Crash, Start, Serve, runVars, runHistory

(* To those who ask for runs the store is a service as JobOutcomes tells   *)
(* it, for any number of runs, however often the process dies between the  *)
(* publication of a run and its state: what has succeeded stays, and can   *)
(* be read from the moment on at which it is told (RunStore).              *)
THEOREM CoreRunsOutcomes == CoreRunsInit /\ [][CoreRunsNext]_runVars => CoreRunsKeepOutcomes
<1>1. CoreRunsInit => Core!Init /\ SuccessIsTold
  BY DEF CoreRunsInit, Core!Init, Published, SuccessIsTold
<1>2. ASSUME RunsInv, RunsInv', SuccessIsTold, [CoreRunsNext]_runVars
      PROVE  SuccessIsTold' /\ Core!Next
  <2> DEFINE changed == {r \in Runs : state'[r] # state[r]}
             told == [r \in changed |-> state'[r]]
  <2>1. /\ state \in [Runs -> {"none"} \cup Unfinished \cup Ended]
        /\ state' \in [Runs -> {"none"} \cup Unfinished \cup Ended]
    BY <1>2 DEF RunsInv, CoreRunsTypeOK
  <2>2. SuccessIsTold' /\ succeeded \subseteq succeeded'
    BY <1>2, SuccessStaysTold
  <2>3. \A r \in Runs : r \in succeeded' =>
          state'[r] = "succeeded" /\ Publication \subseteq files'[r]
    BY <1>2 DEF RunsInv, SuccessInv
  <2>4. \A r \in changed : state[r] \notin {"succeeded"}
    BY <1>2, <2>2, <2>3 DEF SuccessIsTold
  <2>5. state' = [r \in Runs |-> IF r \in changed THEN told[r] ELSE state[r]]
    BY <2>1
  <2>6. Published' = {r \in Runs : state'[r] \in {"succeeded"}}
    BY <2>2, <2>3 DEF SuccessIsTold, Published
  <2>7. /\ changed \in SUBSET Runs
        /\ told \in [changed -> {"none"} \cup Unfinished \cup Ended]
    BY <2>1
  <2> HIDE DEF changed, told
  <2>8. Core!Tell(changed)
    BY <2>4, <2>5, <2>6, <2>7 DEF Core!Tell
  <2> QED BY <2>2, <2>7, <2>8 DEF Core!Next
<1> QED
  BY <1>1, <1>2, RunsInductive, PTL DEF CoreRunsKeepOutcomes, Core!Spec

-----------------------------------------------------------------------------
(* The control.                                                            *)

PromotionPlaces == {"idle", "recover", "recovered", "publish", "swap", "exchange",
           "verify", "accept", "roll back", "exchange back"}
BeforeExchange == {"publish", "swap", "exchange"}
AfterExchange == {"verify", "accept", "roll back", "exchange back"}

Promotions == [at : PromotionPlaces, original : Control \cup {NoControl},
               new : Control \cup {NoControl}, backup : Control \cup {NoControl}]

ControlTyped == ServingTypeOK /\ promotion \in Promotions

\* What holds of a promotion whatever the operator does.
Own ==
  /\ promotion.at \in {"idle"} => promotion = Idle
  /\ promotion.at # "idle" => promotion.new \in Control /\ promotion.new.by \in Candidates
  /\ promotion.at \in BeforeExchange \cup AfterExchange =>
       /\ promotion.original \in Control
       /\ promotion.new.generation = promotion.original.generation + 1
       /\ promoter = promotion.original
       /\ promotion.original \notin receipts
  /\ promotion.at \notin {"idle", "publish"} => promotion.new \in receipts
  /\ promotion.at = "recovered" => promoter = promotion.new
  /\ promotion.at \in AfterExchange => promotion.backup \in Control

\* What the live control is as long as the operator leaves it alone.
Live ==
  /\ promotion.at \in {"recover", "recovered"} =>
       control = promotion.new /\ Acceptable(control, promoter)
  /\ promotion.at \in BeforeExchange => control = promotion.original
  /\ promotion.at \in AfterExchange =>
       control = promotion.new /\ promotion.backup = promotion.original

ControlInv ==
  /\ ControlTyped
  /\ Own
  /\ ~replaced => Live
  /\ PromotedHolds
  /\ PromotionsGoOn

-----------------------------------------------------------------------------
LEMMA GenerationsAreNumbers ==
  ASSUME ServingAssumption, NEW c \in Control
  PROVE  /\ c.generation \in Nat /\ c # NoControl
         /\ \A by \in Candidates \cup {Operator} :
              /\ Successor(c, by).generation = c.generation + 1
              /\ Successor(c, by).by = by
              /\ c.generation < Generations => Successor(c, by) \in Control
BY DEF ServingAssumption, Control, Successor

\* A candidate finds the control it can recover, or may begin.
LEMMA GoOn ==
  ASSUME ~replaced => \/ Clean
                      \/ control \in receipts /\ control.by \in Candidates
                           /\ Acceptable(control, promoter)
  PROVE  PromotionsGoOn
BY DEF PromotionsGoOn, Recoverable

LEMMA ControlInitInv == ASSUME ServingAssumption PROVE ServingInit => ControlInv
<1> SUFFICES ASSUME ServingInit PROVE ControlInv
  OBVIOUS
<1>1. control \in Control
  BY DEF ServingInit, ServingAssumption, Control
<1>2. Idle \in Promotions
  BY DEF Idle, Promotions, PromotionPlaces
<1>3. ControlTyped
  BY <1>1, <1>2 DEF ServingInit, ControlTyped, ServingTypeOK, Idle
<1> QED
  BY <1>3 DEF ServingInit, ControlInv, Own, Live, PromotedHolds, PromotionsGoOn, Clean,
              Idle, BeforeExchange, AfterExchange

LEMMA ReplaceKeeps ==
  ASSUME ServingAssumption, ControlInv, Replace
  PROVE  ControlInv'
<1>1. ControlTyped'
  BY GenerationsAreNumbers DEF ControlInv, ControlTyped, ServingTypeOK, Replace
<1> QED
  BY <1>1 DEF ControlInv, Own, PromotedHolds, PromotionsGoOn, Replace

LEMMA ServeKeeps ==
  ASSUME ServingAssumption, ControlInv, NEW p \in Processes, Capture(p) \/ Accept(p)
  PROVE  ControlInv'
<1>1. UNCHANGED <<control, receipts, promoter, promotion, promoted, replaced>>
  BY DEF Capture, Accept
<1>2. /\ highWater' \in [Processes -> Control \cup {NoControl}]
      /\ captured' \in [Processes -> Control \cup {NoControl}]
  BY DEF ControlInv, ControlTyped, ServingTypeOK, Capture, Accept
<1> QED
  BY <1>1, <1>2 DEF ControlInv, ControlTyped, ServingTypeOK, Own, Live, Acceptable,
                    PromotedHolds, PromotionsGoOn, Clean, Recoverable

LEMMA ServingStutter ==
  ASSUME ControlInv, UNCHANGED servingVars
  PROVE  ControlInv'
BY DEF ControlInv, servingVars, ControlTyped, ServingTypeOK, Own, Live, Acceptable,
       PromotedHolds, PromotionsGoOn, Clean, Recoverable

-----------------------------------------------------------------------------
\* A promotion that ends without changing a file.
LEMMA EndPromotionKeeps ==
  ASSUME ServingAssumption, ControlInv, promotion # Idle,
         End, UNCHANGED <<control, receipts, promoter, promoted, Unserved>>
  PROVE  ControlInv'
<1>1. ControlTyped' /\ Own'
  BY DEF ControlInv, ControlTyped, ServingTypeOK, Own, End, Idle, Unserved, Promotions, PromotionPlaces,
         BeforeExchange, AfterExchange
<1>2. Live'
  BY DEF End, Idle, Live, BeforeExchange, AfterExchange
<1>3. PromotedHolds'
  BY DEF ControlInv, PromotedHolds, Unserved
<1>4. ASSUME ~replaced
      PROVE  \/ Clean
             \/ control \in receipts /\ control.by \in Candidates
                  /\ Acceptable(control, promoter)
  <2>1. promotion.at \in PromotionPlaces \ {"idle"} /\ Own /\ Live
    BY <1>4 DEF ControlInv, Own, ControlTyped, Promotions
  <2>2. CASE promotion.at \in {"recover", "recovered"}
    BY <2>1, <2>2 DEF Own, Live, BeforeExchange, AfterExchange
  <2>3. CASE promotion.at \in BeforeExchange
    BY <2>1, <2>3 DEF ServingAssumption, Own, Live, Clean, BeforeExchange
  <2>4. CASE promotion.at \in AfterExchange
    <3>1. /\ control \in receipts /\ control.by \in Candidates
          /\ promoter \in Control
          /\ control.generation = promoter.generation + 1
      BY <2>1, <2>4 DEF Own, Live, AfterExchange
    <3> QED
      BY <3>1, GenerationsAreNumbers DEF Acceptable
  <2> QED
    BY <2>1, <2>2, <2>3, <2>4 DEF PromotionPlaces, BeforeExchange, AfterExchange
<1>5. PromotionsGoOn'
  BY <1>4 DEF Unserved, PromotionsGoOn, Clean, Recoverable, Acceptable
<1> QED
  BY <1>1, <1>2, <1>3, <1>5 DEF ControlInv

\* A promotion under way is at rest for nobody.
LEMMA UnderWay ==
  ASSUME promotion'.at # "idle"
  PROVE  PromotionsGoOn'
BY DEF PromotionsGoOn, Idle

LEMMA BeginRecoveryKeeps ==
  ASSUME ServingAssumption, ControlInv, NEW by \in Candidates, BeginRecovery(by)
  PROVE  ControlInv'
<1>1. /\ control \in receipts /\ control.by \in Candidates
      /\ promotion' = [Idle EXCEPT !.at = "recover", !.new = control]
      /\ UNCHANGED <<control, receipts, promoter, promoted, Unserved>>
  BY DEF BeginRecovery, Recoverable
<1>2. control \in Control
  BY DEF ControlInv, ControlTyped, ServingTypeOK
<1>3. promotion'.at = "recover" /\ promotion'.new = control /\ promotion' \in Promotions
  BY <1>1, <1>2 DEF Idle, Promotions, PromotionPlaces
<1>4. ControlTyped'
  BY <1>1, <1>3 DEF ControlInv, ControlTyped, ServingTypeOK, Unserved, Promotions, PromotionPlaces
<1>5. Own'
  BY <1>1, <1>2, <1>3 DEF Own, BeforeExchange, AfterExchange
<1>6. ~replaced => Acceptable(control, promoter)
  BY <1>1 DEF ControlInv, PromotionsGoOn, Clean, BeginRecovery
<1>7. ~replaced' => Live'
  BY <1>1, <1>3, <1>6 DEF Unserved, Live, Acceptable, BeforeExchange, AfterExchange
<1>8. PromotedHolds' /\ PromotionsGoOn'
  BY <1>1, <1>3, UnderWay DEF ControlInv, PromotedHolds, Unserved
<1> QED
  BY <1>4, <1>5, <1>7, <1>8 DEF ControlInv

LEMMA AcceptRecoveredKeeps ==
  ASSUME ServingAssumption, ControlInv, AcceptRecovered
  PROVE  ControlInv'
<1>1. /\ promotion.at = "recover" /\ control = promotion.new
      /\ Acceptable(control, promoter) /\ promoter' = control
      /\ promotion' = [promotion EXCEPT !.at = "recovered"]
      /\ UNCHANGED <<control, receipts, promoted, Unserved>>
  BY DEF AcceptRecovered, GoTo
<1>2. control \in Control /\ promotion \in Promotions
  BY DEF ControlInv, ControlTyped, ServingTypeOK
<1>3. promotion'.at = "recovered" /\ promotion'.new = control /\ promotion' \in Promotions
  BY <1>1, <1>2 DEF Promotions, PromotionPlaces
<1>4. ControlTyped'
  BY <1>1, <1>2, <1>3 DEF ControlInv, ControlTyped, ServingTypeOK, Unserved, Promotions, PromotionPlaces
<1>5. Own'
  BY <1>1, <1>2, <1>3 DEF ControlInv, Own, BeforeExchange, AfterExchange
<1>6. ~replaced' => Live'
  BY <1>1, <1>3 DEF Unserved, Live, Acceptable, BeforeExchange, AfterExchange
<1>7. PromotedHolds'
  <2> SUFFICES ASSUME NEW c \in promoted
               PROVE  promoter' # NoControl /\ promoter'.generation >= c.generation
    BY <1>1 DEF ControlInv, PromotedHolds, Unserved
  <2>1. /\ promoter # NoControl /\ promoter.generation >= c.generation
        /\ c \in Control /\ promoter \in Control
    BY DEF ControlInv, PromotedHolds, ControlTyped, ServingTypeOK
  <2> QED
    BY <1>1, <1>2, <2>1, GenerationsAreNumbers DEF Acceptable
<1> QED
  BY <1>3, <1>4, <1>5, <1>6, <1>7, UnderWay DEF ControlInv

LEMMA ReturnRecoveredKeeps ==
  ASSUME ServingAssumption, ControlInv, ReturnRecovered
  PROVE  ControlInv'
<1>1. /\ promotion.at = "recovered" /\ control = promotion.new
      /\ promoted' = promoted \cup {control} /\ promotion' = Idle
      /\ UNCHANGED <<control, receipts, promoter, Unserved>>
  BY DEF ReturnRecovered, End
<1>2. control \in Control /\ control.by \in Candidates
      /\ control \in receipts /\ promoter = control
  BY <1>1 DEF ControlInv, Own
<1>3. ControlTyped' /\ Own' /\ Live'
  BY <1>1, <1>2 DEF ControlInv, ControlTyped, ServingTypeOK, Own, Live, Idle, Unserved, Promotions,
                    PromotionPlaces, BeforeExchange, AfterExchange
<1>4. PromotedHolds'
  BY <1>1, <1>2, GenerationsAreNumbers DEF ControlInv, PromotedHolds, Unserved
<1>5. PromotionsGoOn'
  BY <1>1, <1>2 DEF PromotionsGoOn, Recoverable, Acceptable
<1> QED
  BY <1>3, <1>4, <1>5 DEF ControlInv

LEMMA BeginKeeps ==
  ASSUME ServingAssumption, ControlInv, NEW by \in Candidates, BeginPromotion(by)
  PROVE  ControlInv'
<1>1. /\ Clean /\ control.generation < Generations /\ promoter' = control
      /\ promotion' = [Idle EXCEPT !.at = "publish", !.original = control,
                                   !.new = Successor(control, by)]
      /\ UNCHANGED <<control, receipts, promoted, Unserved>>
  BY DEF BeginPromotion
<1>2. control \in Control
  BY DEF ControlInv, ControlTyped, ServingTypeOK
<1>3. /\ Successor(control, by) \in Control
      /\ Successor(control, by).generation = control.generation + 1
      /\ Successor(control, by).by = by
  BY <1>1, <1>2, GenerationsAreNumbers
<1>4. /\ promotion'.at = "publish" /\ promotion'.original = control
      /\ promotion'.new = Successor(control, by) /\ promotion' \in Promotions
  BY <1>1, <1>2, <1>3 DEF Idle, Promotions, PromotionPlaces
<1>5. ControlTyped'
  BY <1>1, <1>2, <1>4 DEF ControlInv, ControlTyped, ServingTypeOK, Unserved, Promotions, PromotionPlaces
<1>6. Own'
  BY <1>1, <1>2, <1>3, <1>4 DEF Own, Clean, BeforeExchange, AfterExchange
<1>7. Live'
  BY <1>1, <1>4 DEF Live, BeforeExchange, AfterExchange
<1>8. PromotedHolds'
  BY <1>1 DEF ControlInv, PromotedHolds, Clean, Unserved
<1> QED
  BY <1>4, <1>5, <1>6, <1>7, <1>8, UnderWay DEF ControlInv

LEMMA PublishReceiptKeeps ==
  ASSUME ServingAssumption, ControlInv, PublishReceipt
  PROVE  ControlInv'
<1>1. /\ promotion.at = "publish"
      /\ receipts' = receipts \cup {promotion.new}
      /\ promotion' = [promotion EXCEPT !.at = "swap"]
      /\ UNCHANGED <<control, promoter, promoted, Unserved>>
  BY DEF PublishReceipt, GoTo
<1>2. /\ promotion \in Promotions /\ promotion.new \in Control
      /\ promotion.original \in Control /\ promotion.original # promotion.new
  BY <1>1, GenerationsAreNumbers DEF ControlInv, ControlTyped, Own, BeforeExchange
<1>3. /\ promotion'.at = "swap" /\ promotion'.original = promotion.original
      /\ promotion'.new = promotion.new /\ promotion' \in Promotions
  BY <1>1, <1>2 DEF Promotions, PromotionPlaces
<1>4. ControlTyped'
  BY <1>1, <1>2, <1>3 DEF ControlInv, ControlTyped, ServingTypeOK, Unserved, Promotions, PromotionPlaces
<1>5. Own'
  BY <1>1, <1>2, <1>3 DEF ControlInv, Own, BeforeExchange, AfterExchange
<1>6. ~replaced' => Live'
  BY <1>1, <1>3 DEF ControlInv, Unserved, Live, BeforeExchange, AfterExchange
<1>7. PromotedHolds'
  BY <1>1 DEF ControlInv, PromotedHolds, Unserved
<1> QED
  BY <1>3, <1>4, <1>5, <1>6, <1>7, UnderWay DEF ControlInv

\* A promotion that only goes on to its next place.
LEMMA GoToKeeps ==
  ASSUME ControlInv, NEW place \in PromotionPlaces, GoTo(place),
         UNCHANGED <<control, receipts, promoter, promoted, Unserved>>,
         \/ promotion.at = "swap" /\ place = "exchange"
         \/ promotion.at \in {"verify", "roll back"}
              /\ place \in {"accept", "roll back", "exchange back"}
  PROVE  ControlInv'
<1>1. /\ promotion'.at = place /\ promotion'.original = promotion.original
      /\ promotion'.new = promotion.new /\ promotion'.backup = promotion.backup
      /\ promotion' \in Promotions
  BY DEF ControlInv, ControlTyped, GoTo, Promotions
<1>2. ControlTyped'
  BY <1>1 DEF ControlInv, ControlTyped, ServingTypeOK, Unserved, Promotions, PromotionPlaces
<1>3. Own'
  BY <1>1 DEF ControlInv, Own, BeforeExchange, AfterExchange
<1>4. ~replaced' => Live'
  BY <1>1 DEF ControlInv, Unserved, Live, BeforeExchange, AfterExchange
<1>5. PromotedHolds'
  BY DEF ControlInv, PromotedHolds, Unserved
<1> QED
  BY <1>1, <1>2, <1>3, <1>4, <1>5, UnderWay DEF ControlInv

LEMMA ExchangeKeeps ==
  ASSUME ServingAssumption, ControlInv, Exchange
  PROVE  ControlInv'
<1>1. /\ promotion.at = "exchange" /\ control' = promotion.new
      /\ promotion' = [promotion EXCEPT !.at = "verify", !.backup = control]
      /\ UNCHANGED <<receipts, promoter, promoted, Unserved>>
  BY DEF Exchange
<1>2. /\ promotion \in Promotions /\ promotion.new \in Control /\ control \in Control
      /\ promotion.original \in Control /\ promoter = promotion.original
      /\ promotion.new.generation = promotion.original.generation + 1
  BY <1>1 DEF ControlInv, ControlTyped, ServingTypeOK, Own, BeforeExchange
<1>3. /\ promotion'.at = "verify" /\ promotion'.original = promotion.original
      /\ promotion'.new = promotion.new /\ promotion'.backup = control
      /\ promotion' \in Promotions
  BY <1>1, <1>2 DEF Promotions, PromotionPlaces
<1>4. ControlTyped'
  BY <1>1, <1>2, <1>3 DEF ControlInv, ControlTyped, ServingTypeOK, Unserved, Promotions, PromotionPlaces
<1>5. Own'
  BY <1>1, <1>2, <1>3 DEF ControlInv, Own, BeforeExchange, AfterExchange
<1>6. ~replaced' => Live'
  BY <1>1, <1>3 DEF ControlInv, Unserved, Live, BeforeExchange, AfterExchange
<1>7. PromotedHolds'
  <2> SUFFICES ASSUME NEW c \in promoted
               PROVE  control'.generation >= c.generation
    BY <1>1 DEF ControlInv, PromotedHolds, Unserved
  <2>1. promoter.generation >= c.generation /\ c \in Control
    BY DEF ControlInv, PromotedHolds, ControlTyped, ServingTypeOK
  <2> QED
    BY <1>1, <1>2, <2>1, GenerationsAreNumbers
<1> QED
  BY <1>3, <1>4, <1>5, <1>6, <1>7, UnderWay DEF ControlInv

LEMMA AcceptPromotedKeeps ==
  ASSUME ServingAssumption, ControlInv, AcceptPromoted
  PROVE  ControlInv'
<1>1. /\ promotion.at = "accept" /\ Acceptable(promotion.new, promoter)
      /\ promoter' = promotion.new /\ promotion' = Idle
      /\ promoted' \subseteq promoted \cup {promotion.new}
      /\ UNCHANGED <<control, receipts, Unserved>>
  BY DEF AcceptPromoted, End
<1>2. /\ promotion.new \in Control /\ promotion.new.by \in Candidates
      /\ promotion.new \in receipts
      /\ promoter = promotion.original /\ promotion.original \in Control
      /\ promotion.new.generation = promotion.original.generation + 1
      /\ ~replaced => control = promotion.new
  BY <1>1 DEF ControlInv, Own, Live, BeforeExchange, AfterExchange
<1>3. ControlTyped' /\ Own' /\ Live'
  BY <1>1, <1>2 DEF ControlInv, ControlTyped, ServingTypeOK, Own, Live, Idle, Unserved, Promotions,
                    PromotionPlaces, BeforeExchange, AfterExchange
<1>4. PromotedHolds'
  <2> SUFFICES ASSUME NEW c \in promoted \cup {promotion.new}
               PROVE  /\ c \in receipts
                      /\ promoter' # NoControl /\ promoter'.generation >= c.generation
                      /\ ~replaced => control.generation >= c.generation
    BY <1>1 DEF PromotedHolds, Unserved
  <2>1. CASE c = promotion.new
    BY <1>1, <1>2, <2>1, GenerationsAreNumbers
  <2>2. CASE c \in promoted
    <3>1. /\ c \in receipts /\ promoter.generation >= c.generation /\ c \in Control
          /\ ~replaced => control.generation >= c.generation
      BY <2>2 DEF ControlInv, PromotedHolds, ControlTyped, ServingTypeOK
    <3> QED
      BY <1>1, <1>2, <3>1, GenerationsAreNumbers
  <2> QED
    BY <2>1, <2>2
<1>5. PromotionsGoOn'
  BY <1>1, <1>2 DEF Unserved, PromotionsGoOn, Recoverable, Acceptable
<1> QED
  BY <1>3, <1>4, <1>5 DEF ControlInv

LEMMA ExchangeBackKeeps ==
  ASSUME ServingAssumption, ControlInv, ExchangeBack
  PROVE  ControlInv'
<1>1. /\ promotion.at = "exchange back" /\ control' = promotion.backup
      /\ promotion' = Idle
      /\ UNCHANGED <<receipts, promoter, promoted, Unserved>>
  BY DEF ExchangeBack, End
<1>2. /\ promotion.backup \in Control
      /\ promoter = promotion.original /\ promotion.original \in Control
      /\ promotion.original \notin receipts
      /\ ~replaced => promotion.backup = promotion.original
  BY <1>1 DEF ControlInv, Own, Live, AfterExchange
<1>3. ControlTyped' /\ Own' /\ Live'
  BY <1>1, <1>2 DEF ControlInv, ControlTyped, ServingTypeOK, Own, Live, Idle, Unserved, Promotions,
                    PromotionPlaces, BeforeExchange, AfterExchange
<1>4. PromotedHolds'
  BY <1>1, <1>2 DEF ControlInv, PromotedHolds, Unserved
<1>5. PromotionsGoOn'
  BY <1>1, <1>2 DEF ServingAssumption, Unserved, PromotionsGoOn, Clean
<1> QED
  BY <1>3, <1>4, <1>5 DEF ControlInv

-----------------------------------------------------------------------------
LEMMA PromoteKeeps ==
  ASSUME ServingAssumption, ControlInv, Promote
  PROVE  ControlInv'
<1>1. ASSUME promotion # Idle, End,
             UNCHANGED <<control, receipts, promoter, promoted, Unserved>>
      PROVE  ControlInv'
  BY <1>1, EndPromotionKeeps
<1>2. \A place : promotion.at = place /\ place # "idle" => promotion # Idle
  BY DEF Idle
<1>3. CASE FindUnchanged
  BY <1>3, GoToKeeps DEF FindUnchanged, PromotionPlaces
<1>4. CASE Verify
  BY <1>4, GoToKeeps DEF Verify, PromotionPlaces
<1>5. CASE FailPromotion
  <2>1. CASE promotion.at = "verify" /\ GoTo("roll back")
    BY <1>5, <2>1, GoToKeeps DEF FailPromotion, PromotionPlaces
  <2>2. CASE promotion.at # "verify" /\ End
    BY <1>1, <1>2, <1>5, <2>2 DEF FailPromotion
  <2> QED
    BY <1>5, <2>1, <2>2 DEF FailPromotion
<1>6. CASE FindOwned
  <2>1. CASE GoTo("exchange back")
    BY <1>6, <2>1, GoToKeeps DEF FindOwned, PromotionPlaces
  <2>2. CASE End
    BY <1>1, <1>2, <1>6, <2>2 DEF FindOwned
  <2> QED
    BY <1>6, <2>1, <2>2 DEF FindOwned
<1>7. CASE Die
  BY <1>1, <1>7 DEF Die
<1> QED
  BY <1>3, <1>4, <1>5, <1>6, <1>7, BeginRecoveryKeeps, BeginKeeps,
     AcceptRecoveredKeeps, ReturnRecoveredKeeps, PublishReceiptKeeps,
     ExchangeKeeps, AcceptPromotedKeeps, ExchangeBackKeeps DEF Promote

(* The invariant the properties follow from: what a promotion knows at     *)
(* each of its places about the high water, the receipts and the control.  *)
THEOREM ControlInductive == ServingSpec => []ControlInv
<1> USE ServingAssumption
<1>1. ASSUME ControlInv, [ServingNext]_servingVars
      PROVE  ControlInv'
  BY <1>1, PromoteKeeps, ReplaceKeeps, ServeKeeps, ServingStutter DEF ServingNext
<1> QED
  BY ControlInitInv, <1>1, PTL DEF ServingSpec

(* A promotion that returned its receipt holds, for any number of          *)
(* promotions, failures and deaths (promote_serving_ready).                *)
THEOREM Holds == ServingSpec => []PromotedHolds
<1>1. ControlInv => PromotedHolds
  BY DEF ControlInv
<1> QED
  BY <1>1, ControlInductive, PTL

(* Wherever a promotion stopped, promotions can go on while the operator   *)
(* leaves the control alone (_recover_published_promotion).                *)
THEOREM PromotionsCanGoOn == ServingSpec => []PromotionsGoOn
<1>1. ControlInv => PromotionsGoOn
  BY DEF ControlInv
<1> QED
  BY <1>1, ControlInductive, PTL

-----------------------------------------------------------------------------
(* The parts side by side, as the run explores them.                       *)

LEMMA GfmPartsStart ==
  GfmInit => /\ LauncherInit /\ CoreRunsInit /\ ServingInit
             /\ JobsInit /\ TrainInit /\ FetchInit
BY DEF GfmInit

LEMMA GfmPartsStep ==
  [GfmNext]_all => /\ [LauncherNext]_launcherVars /\ [CoreRunsNext]_runVars
                   /\ [ServingNext]_servingVars /\ [JobsNext]_jobVars
                   /\ [TrainNext]_trainVars /\ [FetchNext]_fetchVars
BY DEF GfmNext, all

(* Each part behaves as it does alone.                                     *)
LEMMA GfmHasParts ==
  GfmSpec => /\ LauncherSpec /\ CoreRunsInit /\ [][CoreRunsNext]_runVars
             /\ ServingSpec /\ JobsInit /\ [][JobsNext]_jobVars
             /\ TrainSpec /\ FetchInit /\ [][FetchNext]_fetchVars
BY GfmPartsStart, GfmPartsStep, PTL
   DEF GfmSpec, LauncherSpec, ServingSpec, TrainSpec

(* Every variable of the parts holds what the code may put there, in the   *)
(* composition the run checks.                                             *)
THEOREM GfmTypeCorrect == GfmSpec => []GfmTypesOK
<1> USE ServingAssumption
<1>1. RunsInv => CoreRunsTypeOK
  BY DEF RunsInv
<1>2. ControlInv => ServingTypeOK
  BY DEF ControlInv, ControlTyped
<1>3. JobsInv => JobsTypeOK
  BY DEF JobsInv
<1>4. TrainInv => TrainTypeOK
  BY DEF TrainInv
<1>5. FetchInv => FetchTypeOK
  BY DEF FetchInv
<1>6. /\ LauncherTypeOK /\ CoreRunsTypeOK /\ ServingTypeOK
      /\ JobsTypeOK /\ TrainTypeOK /\ FetchTypeOK
      => GfmTypesOK
  BY DEF GfmTypesOK
<1> QED
  BY <1>1, <1>2, <1>3, <1>4, <1>5, <1>6, GfmHasParts, LauncherTypeCorrect,
     RunsInductive, ControlInductive, JobsInductive, TrainInductive,
     FetchInductive, PTL

(* All the safety properties of the run, of the composition it explores:   *)
(* none of them needs the fairness of the specification.                   *)
THEOREM GfmIsSafe ==
  GfmSpec => /\ []ServicesAreRecorded
             /\ []SuccessIsKept /\ CoreRunsKeepOutcomes
             /\ [](PromotedHolds /\ PromotionsGoOn)
             /\ JobsKeepOutcomes
             /\ []ProgressIsKept
             /\ []FetchedOnce /\ AccountedGrows
BY GfmHasParts, Recorded, Kept, CoreRunsOutcomes, Holds, PromotionsCanGoOn, JobsOutcomes,
   TrainingIsKept, PagesCountOnce, AccountedOnlyGrows, PTL

=============================================================================

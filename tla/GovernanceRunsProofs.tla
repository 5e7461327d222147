------------------------ MODULE GovernanceRunsProofs ------------------------
(***************************************************************************)
(* What GovernanceRuns promises of a run, for any number of runs and of    *)
(* concurrent requests.  The inductive invariant adds to the properties    *)
(* that a run is in one place only: about to be submitted, in the queue    *)
(* once or with the worker, and what the worker's place in _execute tells  *)
(* of its files.                                                           *)
(*                                                                         *)
(* At the end, the governance API as the run explores it, confirmations    *)
(* beside runs: each behaves in the composition as it does alone.          *)
(***************************************************************************)
EXTENDS MCGovernance, ConfirmationsProofs, TLAPS

(* A process that is down does nothing.                                    *)
DownInv ==
  ~up => /\ queue = <<>>
         /\ step = "idle"
         /\ \A c \in Callers : call[c].at \in {"idle", "sent", "answered"}

(* Where the worker is tells what it has written of its run.               *)
WorkerInv ==
  /\ step = "idle" <=> executing = NoRun
  /\ step \in {"begin", "start"} => status[executing] = "queued"
  /\ step \in {"check", "infer", "decide", "freeze", "publish", "finish"} =>
       status[executing] = "running"
  /\ step \in {"cancel", "fail"} => status[executing] \in Unfinished
  /\ step \in {"check", "infer", "decide", "freeze", "cancel"} =>
       outputs[executing] = "none"
  /\ step = "finish" => outputs[executing] = "result"

(* A run in the queue is there once, untouched.                            *)
QueueInv ==
  \A i \in DOMAIN queue :
    /\ status[queue[i]] = "queued"
    /\ queue[i] # executing
    /\ \A j \in DOMAIN queue : queue[j] = queue[i] => j = i

(* A run that is stored and not yet submitted is nowhere else.             *)
StoredInv ==
  \A c \in Callers :
    call[c].at = "stored" =>
      /\ call[c].run \in Runs
      /\ status[call[c].run] = "queued"
      /\ call[c].run # executing
      /\ ~InQueue(call[c].run)
      /\ \A d \in Callers :
           call[d].at = "stored" /\ call[d].run = call[c].run => d = c

(* A request is about a run the API has a binding for, and a retry that    *)
(* has read that its run has ended is still right about it.                *)
RequestInv ==
  \A c \in Callers :
    /\ call[c].at \in {"read", "absent", "flagged", "checked"} => call[c].of \in Runs
    /\ call[c].at = "sent" /\ call[c].kind # "create" => call[c].of \in Runs
    /\ call[c].at = "sent" /\ call[c].kind = "create" => call[c].of = NoRun
    /\ call[c].at = "checked" => status[call[c].of] \in Retryable
    /\ call[c].at = "answered" => call[c].run \in Runs

UntouchedInv == \A r \in Runs : status[r] = "none" => outputs[r] = "none"

RunsIInv ==
  /\ RunsTypeOK
  /\ DownInv
  /\ WorkerInv
  /\ QueueInv
  /\ StoredInv
  /\ RequestInv
  /\ UntouchedInv
  /\ ResultsMatchStatus
  /\ RetriesEndedRuns
  /\ NoneAbandoned

-----------------------------------------------------------------------------
(* The initial states and the types.                                       *)

LEMMA RunsInitially == RunsInit => RunsIInv
  BY RunsAssumption
  DEF RunsInit, RunsIInv, RunsTypeOK, DownInv, WorkerInv, QueueInv, StoredInv, RequestInv,
      UntouchedInv, ResultsMatchStatus, RetriesEndedRuns, NoneAbandoned, Idle,
      CallStates, Places, Statuses, Unfinished, Terminal, Retryable, Steps

(* Replacing one request by a well-formed one.                             *)
LEMMA CallTyped ==
  ASSUME call \in [Callers -> CallStates], NEW c \in Callers, NEW new \in CallStates,
         call' = [call EXCEPT ![c] = new]
  PROVE  call' \in [Callers -> CallStates]
  OBVIOUS

LEMMA RequestTyped ==
  ASSUME RunsIInv, NEW c \in Callers, Request(c)
  PROVE  RunsTypeOK'
PROOF
  <1>1. Idle \in CallStates
    BY DEF Idle, CallStates, Places, Statuses
  <1>2. call \in [Callers -> CallStates] /\ bindings \subseteq Runs
    BY DEF RunsIInv, RunsTypeOK
  <1>3. ASSUME NEW kind \in {"create", "retry", "cancel"},
               NEW of \in Runs \cup {NoRun}, Ask(c, kind, of)
        PROVE  RunsTypeOK'
    <2>1. [Idle EXCEPT !.kind = kind, !.at = "sent", !.of = of] \in CallStates
      BY DEF Idle, CallStates, Places, Statuses
    <2>2. call' \in [Callers -> CallStates]
      BY <1>2, <1>3, <2>1, CallTyped DEF Ask
    <2> QED BY <1>3, <2>2 DEF Ask, files, worker, RunsIInv, RunsTypeOK
  <1>4. CASE GiveUp(c) \/ Bind(c)
    <2>1. call' \in [Callers -> CallStates]
      BY <1>1, <1>2, <1>4, CallTyped DEF GiveUp, Bind
    <2>2. bindings' \subseteq Runs
      BY <1>4 DEF GiveUp, Bind, RunsIInv, RequestInv, RunsTypeOK
    <2> QED BY <1>4, <2>1, <2>2 DEF GiveUp, Bind, files, worker, RunsIInv, RunsTypeOK
  <1> QED BY <1>2, <1>3, <1>4 DEF Request

LEMMA ServeTyped ==
  ASSUME RunsIInv, NEW c \in Callers, Serve(c)
  PROVE  RunsTypeOK'
PROOF
  <1>1. Idle \in CallStates /\ call \in [Callers -> CallStates] /\ call[c] \in CallStates
    BY DEF Idle, CallStates, Places, Statuses, RunsIInv, RunsTypeOK
  <1>2. \A place \in Places : [call[c] EXCEPT !.at = place] \in CallStates
    BY <1>1 DEF CallStates
  <1>3. CASE Refuse(c)
    <2>1. call' \in [Callers -> CallStates]
      BY <1>1, <1>3, CallTyped DEF Refuse
    <2> QED BY <1>3, <2>1 DEF Refuse, files, worker, RunsIInv, RunsTypeOK
  <1>4. ASSUME NEW r \in Runs, Store(c, r) PROVE RunsTypeOK'
    <2>1. [call[c] EXCEPT !.at = "stored", !.run = r] \in CallStates
      BY <1>1 DEF CallStates, Places
    <2>2. call' = [call EXCEPT ![c] = [call[c] EXCEPT !.at = "stored", !.run = r]]
      BY <1>1, <1>4 DEF Store
    <2>3. call' \in [Callers -> CallStates]
      BY <1>1, <2>1, <2>2, CallTyped
    <2> QED BY <1>1, <1>4, <2>3
            DEF Store, worker, RunsIInv, RunsTypeOK, Statuses, Unfinished, CallStates
  <1>5. CASE Submit(c)
    <2>1. call' = [call EXCEPT ![c] = [call[c] EXCEPT !.at = "answered"]]
      BY <1>1, <1>5 DEF Submit
    <2>2. call' \in [Callers -> CallStates]
      BY <1>1, <1>2, <2>1, CallTyped DEF Places
    <2>3. queue' \in Seq(Runs)
      BY <1>5 DEF Submit, RunsIInv, RunsTypeOK, StoredInv
    <2> QED BY <1>5, <2>2, <2>3 DEF Submit, files, RunsIInv, RunsTypeOK
  <1>6. CASE ReadStatus(c)
    <2>1. [call[c] EXCEPT !.at = "read", !.seen = status[call[c].of]] \in CallStates
      BY <1>1, <1>6 DEF ReadStatus, CallStates, Places, RunsIInv, RunsTypeOK, RequestInv
    <2>2. \/ call' = [call EXCEPT ![c] = Idle]
          \/ call' = [call EXCEPT ![c] =
                        [call[c] EXCEPT !.at = "read", !.seen = status[call[c].of]]]
      BY <1>1, <1>6 DEF ReadStatus
    <2>3. call' \in [Callers -> CallStates]
      BY <1>1, <2>1, <2>2, CallTyped
    <2> QED BY <1>6, <2>3 DEF ReadStatus, files, worker, RunsIInv, RunsTypeOK
  <1>7. CASE FindFlag(c)
    <2>1. \E place \in Places :
            call' = [call EXCEPT ![c] = [call[c] EXCEPT !.at = place]]
      BY <1>1, <1>7 DEF FindFlag, Places
    <2>2. call' \in [Callers -> CallStates]
      BY <1>1, <1>2, <2>1, CallTyped
    <2> QED BY <1>7, <2>2 DEF FindFlag, files, worker, RunsIInv, RunsTypeOK
  <1>8. CASE CreateFlag(c)
    <2>1. \/ call' = [call EXCEPT ![c] = Idle]
          \/ call' = [call EXCEPT ![c] = [call[c] EXCEPT !.at = "flagged"]]
      BY <1>1, <1>8 DEF CreateFlag
    <2>2. call' \in [Callers -> CallStates]
      BY <1>1, <1>2, <2>1, CallTyped DEF Places
    <2> QED BY <1>8, <2>2 DEF CreateFlag, worker, RunsIInv, RunsTypeOK
  <1>9. CASE Mark(c)
    <2>1. call' \in [Callers -> CallStates]
      BY <1>1, <1>9, CallTyped DEF Mark
    <2> QED BY <1>9, <2>1 DEF Mark, worker, RunsIInv, RunsTypeOK
  <1>10. CASE ReadParent(c)
    <2>1. call' = [call EXCEPT ![c] = [call[c] EXCEPT !.at = "checked"]]
      BY <1>1, <1>10 DEF ReadParent
    <2>2. call' \in [Callers -> CallStates]
      BY <1>1, <1>2, <2>1, CallTyped DEF Places
    <2> QED BY <1>10, <2>2 DEF ReadParent, files, worker, RunsIInv, RunsTypeOK
  <1> QED BY <1>3, <1>4, <1>5, <1>6, <1>7, <1>8, <1>9, <1>10 DEF Serve

LEMMA WorkerTyped ==
  ASSUME RunsIInv, Worker
  PROVE  RunsTypeOK'
PROOF
  <1>1. RunsTypeOK
    BY DEF RunsIInv
  <1>2. CASE Take
    BY <1>1, <1>2 DEF Take, RunsTypeOK, files, Steps
  <1>3. CASE Look
    BY <1>1, <1>3 DEF Look, Looks, RunsTypeOK, files, Steps
  <1>4. CASE StartRunning \/ Freeze \/ Publish \/ Raise
    BY <1>1, <1>4
    DEF StartRunning, Freeze, Publish, Raise, Advance, RunsTypeOK, files, Steps,
        Statuses, Unfinished
  <1>5. CASE Finish \/ WriteCancelled \/ WriteFailed
    BY <1>1, <1>5
    DEF Finish, WriteCancelled, WriteFailed, End, RunsTypeOK,
        files, Steps, Statuses, Terminal, Retryable
  <1> QED BY <1>2, <1>3, <1>4, <1>5 DEF Worker

LEMMA ProcessTyped ==
  ASSUME RunsIInv, Die \/ Start \/ \E r \in Runs : Recover(r)
  PROVE  RunsTypeOK'
PROOF
  <1>1. RunsTypeOK /\ Idle \in CallStates
    BY DEF RunsIInv, Idle, CallStates, Places, Statuses
  <1>2. CASE Die
    <2>1. call' \in [Callers -> CallStates]
      BY <1>1, <1>2 DEF Die, RunsTypeOK
    <2>2. queue' \in Seq(Runs) /\ step' \in Steps
      BY <1>2 DEF Die, Steps
    <2> QED BY <1>1, <1>2, <2>1, <2>2 DEF Die, RunsTypeOK, files
  <1>3. CASE Start
    BY <1>1, <1>3 DEF Start, RunsTypeOK, files, worker
  <1>4. ASSUME NEW r \in Runs, Recover(r) PROVE RunsTypeOK'
    BY <1>1, <1>4 DEF Recover, RunsTypeOK, worker, Statuses, Terminal, Retryable
  <1> QED BY <1>2, <1>3, <1>4

-----------------------------------------------------------------------------
(* The steps.  The rest of the invariant, without the types.               *)

Rest ==
  /\ DownInv
  /\ WorkerInv
  /\ QueueInv
  /\ StoredInv
  /\ RequestInv
  /\ UntouchedInv
  /\ ResultsMatchStatus
  /\ RetriesEndedRuns
  /\ NoneAbandoned

(* A request that submits nothing and writes no status disturbs nobody.    *)
LEMMA RequestAside ==
  ASSUME RunsIInv, RunsTypeOK', NEW c \in Callers,
         UNCHANGED <<status, outputs, parent, up, worker>>,
         call[c].at # "stored",
         call'[c].at # "stored",
         \A d \in Callers \ {c} : call'[d] = call[d],
         call'[c].at \in {"read", "absent", "flagged", "checked"} => call'[c].of \in Runs,
         call'[c].at = "sent" /\ call'[c].kind # "create" => call'[c].of \in Runs,
         call'[c].at = "sent" /\ call'[c].kind = "create" => call'[c].of = NoRun,
         call'[c].at = "checked" => status[call'[c].of] \in Retryable,
         call'[c].at # "answered",
         ~up => call'[c].at \in {"idle", "sent", "answered"}
  PROVE  Rest'
PROOF
  <1>1. \A r \in Runs : InQueue(r)' = InQueue(r)
    BY DEF InQueue, worker
  <1>2. \A r \in Runs : Submitting(r) => Submitting(r)'
    BY DEF Submitting
  <1>3. StoredInv'
    BY <1>1 DEF StoredInv, RunsIInv, worker
  <1>4. DownInv' /\ RequestInv'
    BY DEF DownInv, RequestInv, RunsIInv, worker
  <1>5. NoneAbandoned'
    BY <1>1, <1>2 DEF NoneAbandoned, RunsIInv, worker
  <1> QED
    BY <1>3, <1>4, <1>5
    DEF Rest, RunsIInv, WorkerInv, QueueInv, UntouchedInv, ResultsMatchStatus,
        RetriesEndedRuns, worker

LEMMA RequestStep ==
  ASSUME RunsIInv, NEW c \in Callers, Request(c)
  PROVE  Rest'
PROOF
  <1>1. RunsTypeOK'
    BY RequestTyped
  <1>2. call \in [Callers -> CallStates] /\ bindings \subseteq Runs
    BY DEF RunsIInv, RunsTypeOK
  <1>3. ASSUME NEW kind \in {"create", "retry", "cancel"},
               NEW of \in bindings \cup {NoRun}, Ask(c, kind, of),
               IF kind = "create" THEN of = NoRun ELSE of \in bindings
        PROVE  Rest'
    <2>1. /\ call'[c].at = "sent" /\ call'[c].kind = kind
          /\ call'[c].of = of
          /\ \A d \in Callers \ {c} : call'[d] = call[d]
      BY <1>2, <1>3 DEF Ask, Idle
    <2> QED BY <1>1, <1>2, <1>3, <2>1, RequestAside DEF Ask, files
  <1>4. CASE GiveUp(c) \/ Bind(c)
    <2>1. /\ call'[c].at = "idle"
          /\ \A d \in Callers \ {c} : call'[d] = call[d]
      BY <1>2, <1>4 DEF GiveUp, Bind, Idle
    <2> QED BY <1>1, <1>4, <2>1, RequestAside DEF GiveUp, Bind, files
  <1> QED BY <1>2, <1>3, <1>4 DEF Request

LEMMA CancelStep ==
  ASSUME RunsIInv, NEW c \in Callers,
         \/ Refuse(c) \/ ReadParent(c) \/ ReadStatus(c)
         \/ FindFlag(c) \/ CreateFlag(c) \/ Mark(c)
  PROVE  Rest'
PROOF
  <1>1. RunsTypeOK'
    BY ServeTyped DEF Serve
  <1>2. call \in [Callers -> CallStates] /\ call[c] \in CallStates
    BY DEF RunsIInv, RunsTypeOK
  <1>3. CASE Refuse(c) \/ Mark(c)
    <2>1. /\ call'[c].at = "idle"
          /\ \A d \in Callers \ {c} : call'[d] = call[d]
      BY <1>2, <1>3 DEF Refuse, Mark, Idle
    <2> QED BY <1>1, <1>3, <2>1, RequestAside DEF Refuse, Mark, files
  <1>4. CASE ReadStatus(c)
    <2>1. /\ call'[c].at = "idle" \/ (call'[c].at = "read" /\ call'[c].of = call[c].of)
          /\ \A d \in Callers \ {c} : call'[d] = call[d]
      BY <1>2, <1>4 DEF ReadStatus, Idle, CallStates
    <2>2. call[c].of \in Runs /\ up
      BY <1>4 DEF ReadStatus, RunsIInv, RequestInv
    <2> QED BY <1>1, <1>4, <2>1, <2>2, RequestAside DEF ReadStatus, files
  <1>5. CASE FindFlag(c) \/ CreateFlag(c)
    <2>1. /\ \/ call'[c].at = "idle"
             \/ call'[c].at \in {"absent", "flagged"} /\ call'[c].of = call[c].of
          /\ \A d \in Callers \ {c} : call'[d] = call[d]
      BY <1>2, <1>5 DEF FindFlag, CreateFlag, Idle, CallStates
    <2>2. call[c].of \in Runs /\ up
      BY <1>5 DEF FindFlag, CreateFlag, RunsIInv, RequestInv, DownInv
    <2> QED BY <1>1, <1>5, <2>1, <2>2, RequestAside
            DEF FindFlag, CreateFlag, files
  <1>6. CASE ReadParent(c)
    <2>1. /\ call'[c].at = "checked" /\ call'[c].of = call[c].of
          /\ \A d \in Callers \ {c} : call'[d] = call[d]
      BY <1>2, <1>6 DEF ReadParent, CallStates
    <2>2. call[c].of \in Runs /\ up /\ status[call[c].of] \in Retryable
      BY <1>6 DEF ReadParent, RunsIInv, RequestInv
    <2> QED BY <1>1, <1>6, <2>1, <2>2, RequestAside DEF ReadParent, files
  <1> QED BY <1>3, <1>4, <1>5, <1>6

LEMMA StoreStep ==
  ASSUME RunsIInv, NEW c \in Callers, NEW r \in Runs, Store(c, r)
  PROVE  Rest'
PROOF
  <1>1. RunsTypeOK /\ RunsTypeOK'
    BY ServeTyped DEF Serve, RunsIInv
  <1>2. /\ call'[c].at = "stored" /\ call'[c].run = r
        /\ call'[c].of = call[c].of /\ call'[c].kind = call[c].kind
        /\ \A d \in Callers \ {c} : call'[d] = call[d]
    BY <1>1 DEF Store, RunsTypeOK, CallStates
  <1>3. /\ status[r] = "none" /\ status'[r] = "queued"
        /\ \A q \in Runs \ {r} : status'[q] = status[q]
        /\ parent'[r] = call[c].of
        /\ \A q \in Runs \ {r} : parent'[q] = parent[q]
        /\ up /\ UNCHANGED <<outputs, up, queue, executing, step>>
    BY <1>1 DEF Store, RunsTypeOK, worker
  <1>4. executing # r
    BY <1>1, <1>3, RunsAssumption DEF RunsIInv, WorkerInv, RunsTypeOK, Steps, Unfinished
  <1>5. ~InQueue(r)
    BY <1>3 DEF InQueue, RunsIInv, QueueInv
  <1>6. \A q \in Runs : InQueue(q)' = InQueue(q)
    BY <1>3 DEF InQueue
  <1>7. \A i \in DOMAIN queue : queue[i] \in Runs \ {r}
    BY <1>1, <1>5 DEF RunsTypeOK, InQueue
  <1>8. DownInv' /\ RequestInv'
    <2>1. \A q \in Runs : status[q] \in Retryable => status'[q] = status[q]
      BY <1>3 DEF Retryable
    <2> QED BY <1>2, <1>3, <2>1 DEF DownInv, RequestInv, RunsIInv
  <1>9. WorkerInv'
    BY <1>1, <1>3, <1>4 DEF WorkerInv, RunsIInv, RunsTypeOK, Steps
  <1>10. QueueInv'
    BY <1>3, <1>7 DEF QueueInv, RunsIInv
  <1>11. StoredInv'
    <2>1. \A d \in Callers \ {c} :
            call[d].at = "stored" => call[d].run # r
      BY <1>3 DEF RunsIInv, StoredInv
    <2> QED BY <1>2, <1>3, <1>4, <1>5, <1>6, <2>1 DEF StoredInv, RunsIInv
  <1>12. UntouchedInv' /\ ResultsMatchStatus'
    BY <1>1, <1>3 DEF UntouchedInv, ResultsMatchStatus, RunsIInv
  <1>13. RetriesEndedRuns'
    <2>1. \A q \in Runs : status[q] \in Retryable => status'[q] = status[q]
      BY <1>3 DEF Retryable
    <2>2. call[c].of # NoRun => call[c].of \in Runs /\ status[call[c].of] \in Retryable
      BY DEF Store, RunsIInv, RequestInv
    <2>3. \A q \in Runs : parent[q] # NoRun => parent[q] \in Runs
      BY <1>1 DEF RunsTypeOK
    <2> QED BY <1>3, <2>1, <2>2, <2>3 DEF RetriesEndedRuns, RunsIInv
  <1>14. NoneAbandoned'
    <2>1. Submitting(r)'
      BY <1>2 DEF Submitting
    <2>2. \A q \in Runs : Submitting(q) => Submitting(q)'
      BY <1>2 DEF Submitting, Store
    <2> QED BY <1>3, <1>6, <2>1, <2>2 DEF NoneAbandoned, RunsIInv
  <1> QED
    BY <1>8, <1>9, <1>10, <1>11, <1>12, <1>13, <1>14 DEF Rest

LEMMA SubmitStep ==
  ASSUME RunsIInv, NEW c \in Callers, Submit(c)
  PROVE  Rest'
PROOF
  <1> DEFINE r == call[c].run
  <1>1. RunsTypeOK /\ RunsTypeOK'
    BY ServeTyped DEF Serve, RunsIInv
  <1>2. /\ call'[c].at = "answered" /\ call'[c].run = r
        /\ call[c].at = "stored" /\ r \in Runs
        /\ \A d \in Callers \ {c} : call'[d] = call[d]
    BY <1>1 DEF Submit, RunsTypeOK, CallStates, RunsIInv, StoredInv
  <1>3. UNCHANGED <<status, outputs, parent, up, executing, step>> /\ up
    BY <1>2 DEF Submit, files, RunsIInv, DownInv
  <1>4. /\ queue' = Append(queue, r) /\ queue \in Seq(Runs)
        /\ Len(queue) \in Nat
    BY <1>1 DEF Submit, RunsTypeOK
  <1>5. /\ status[r] = "queued" /\ r # executing /\ ~InQueue(r)
        /\ \A d \in Callers \ {c} : call[d].at = "stored" => call[d].run # r
    BY <1>2 DEF RunsIInv, StoredInv
  <1>6. /\ DOMAIN queue = 1..Len(queue)
        /\ DOMAIN queue' = 1..(Len(queue) + 1)
        /\ \A i \in 1..Len(queue) : queue'[i] = queue[i] /\ queue[i] # r
        /\ queue'[Len(queue) + 1] = r
    BY <1>4, <1>5 DEF InQueue
  <1>7. \A q \in Runs : InQueue(q)' <=> InQueue(q) \/ q = r
    BY <1>4, <1>6 DEF InQueue
  <1>8. QueueInv'
    BY <1>3, <1>4, <1>5, <1>6 DEF QueueInv, RunsIInv
  <1>9. StoredInv'
    BY <1>2, <1>3, <1>5, <1>7 DEF StoredInv, RunsIInv
  <1>10. DownInv' /\ RequestInv'
    BY <1>2, <1>3 DEF DownInv, RequestInv, RunsIInv
  <1>11. NoneAbandoned'
    <2>1. \A q \in Runs \ {r} : Submitting(q) => Submitting(q)'
      BY <1>2 DEF Submitting
    <2> QED BY <1>3, <1>7, <2>1 DEF NoneAbandoned, RunsIInv
  <1> QED
    BY <1>3, <1>8, <1>9, <1>10, <1>11
    DEF Rest, RunsIInv, WorkerInv, UntouchedInv, ResultsMatchStatus,
        RetriesEndedRuns

LEMMA TakeStep ==
  ASSUME RunsIInv, Take
  PROVE  Rest'
PROOF
  <1>1. RunsTypeOK /\ RunsTypeOK'
    BY WorkerTyped DEF Worker, RunsIInv
  <1>2. /\ queue \in Seq(Runs) /\ queue # <<>> /\ Len(queue) \in Nat \ {0}
        /\ executing = NoRun /\ step = "idle" /\ up
        /\ executing' = queue[1] /\ queue' = Tail(queue) /\ step' = "begin"
        /\ UNCHANGED <<status, outputs, parent, up, call>>
    BY <1>1 DEF Take, RunsTypeOK, files, RunsIInv, WorkerInv
  <1>3. /\ DOMAIN queue = 1..Len(queue) /\ DOMAIN queue' = 1..(Len(queue) - 1)
        /\ \A i \in DOMAIN queue' : i + 1 \in DOMAIN queue /\ queue'[i] = queue[i + 1]
        /\ 1 \in DOMAIN queue /\ queue[1] \in Runs
    BY <1>2
  <1>4. \A q \in Runs : InQueue(q) <=> InQueue(q)' \/ q = executing'
    <2>1. ASSUME NEW q \in Runs, InQueue(q) PROVE InQueue(q)' \/ q = executing'
      <3>1. PICK i \in DOMAIN queue : queue[i] = q
        BY <2>1 DEF InQueue
      <3>2. CASE i = 1
        BY <1>2, <3>1, <3>2
      <3>3. CASE i # 1
        <4>1. i - 1 \in DOMAIN queue' /\ queue'[i - 1] = queue[i]
          BY <1>2, <1>3, <3>3
        <4> QED BY <3>1, <4>1 DEF InQueue
      <3> QED BY <3>2, <3>3
    <2>2. ASSUME NEW q \in Runs, InQueue(q)' \/ q = executing' PROVE InQueue(q)
      BY <1>2, <1>3, <2>2 DEF InQueue
    <2> QED BY <2>1, <2>2
  <1>5. status[executing'] = "queued"
    BY <1>2, <1>3 DEF RunsIInv, QueueInv
  <1>6. WorkerInv'
    BY <1>2, <1>3, <1>5, RunsAssumption DEF WorkerInv
  <1>7. QueueInv'
    <2>1. ASSUME NEW i \in DOMAIN queue'
          PROVE  /\ status'[queue'[i]] = "queued"
                 /\ queue'[i] # executing'
                 /\ \A j \in DOMAIN queue' : queue'[j] = queue'[i] => j = i
      <3>1. i \in Nat /\ i + 1 # 1
        BY <1>2, <1>3
      <3>2. \A j \in DOMAIN queue' : j \in Nat
        BY <1>2, <1>3
      <3> QED BY <1>2, <1>3, <3>1, <3>2 DEF RunsIInv, QueueInv
    <2> QED BY <2>1 DEF QueueInv
  <1>8. StoredInv'
    BY <1>2, <1>4 DEF StoredInv, RunsIInv
  <1>9. DownInv' /\ RequestInv'
    BY <1>2 DEF DownInv, RequestInv, RunsIInv
  <1>10. NoneAbandoned'
    BY <1>2, <1>4, RunsAssumption DEF NoneAbandoned, RunsIInv, Submitting
  <1> QED
    BY <1>2, <1>6, <1>7, <1>8, <1>9, <1>10
    DEF Rest, RunsIInv, UntouchedInv, ResultsMatchStatus, RetriesEndedRuns

(* A step of the worker changes at most its own run, which is nowhere      *)
(* else, and leaves it as its new place demands.                           *)
LEMMA WorkerAside ==
  ASSUME RunsIInv, RunsTypeOK', up, executing \in Runs,
         UNCHANGED <<parent, up, queue, bindings, call>>,
         \A r \in Runs \ {executing} :
           status'[r] = status[r] /\ outputs'[r] = outputs[r],
         status[executing] \in Unfinished,
         status'[executing] # "none",
         executing' \in {executing, NoRun},
         executing' = NoRun /\ ~FinalWritesFail => status'[executing] \in Terminal,
         status'[executing] = "queued" => status[executing] = "queued",
         status'[executing] = "succeeded" => outputs'[executing] = "result",
         status'[executing] \in {"cancelled", "queued"} => outputs'[executing] = "none",
         WorkerInv'
  PROVE  Rest'
PROOF
  <1>1. RunsTypeOK
    BY DEF RunsIInv
  <1>2. \A r \in Runs : InQueue(r)' = InQueue(r) /\ Submitting(r)' = Submitting(r)
    BY DEF InQueue, Submitting
  <1>3. \A i \in DOMAIN queue : queue[i] \in Runs \ {executing, NoRun}
    BY <1>1, RunsAssumption DEF RunsTypeOK, RunsIInv, QueueInv
  <1>4. QueueInv'
    BY <1>3 DEF QueueInv, RunsIInv
  <1>5. StoredInv'
    BY <1>2, RunsAssumption DEF StoredInv, RunsIInv
  <1>6. DownInv' /\ RequestInv'
    <2>1. \A q \in Runs : status[q] \in Retryable => status'[q] = status[q]
      BY DEF Retryable, Unfinished
    <2> QED BY <2>1 DEF DownInv, RequestInv, RunsIInv
  <1>7. UntouchedInv' /\ ResultsMatchStatus'
    BY DEF UntouchedInv, ResultsMatchStatus, RunsIInv
  <1>8. RetriesEndedRuns'
    <2>1. executing \in Runs /\ status[executing] \notin Retryable
      BY DEF Retryable, Unfinished
    <2> QED BY <1>1, <2>1 DEF RetriesEndedRuns, RunsIInv, RunsTypeOK
  <1>9. NoneAbandoned'
    BY <1>2 DEF NoneAbandoned, RunsIInv, Terminal, Retryable
  <1> QED BY <1>4, <1>5, <1>6, <1>7, <1>8, <1>9 DEF Rest

LEMMA WorkerStep ==
  ASSUME RunsIInv, Worker
  PROVE  Rest'
PROOF
  <1>1. RunsTypeOK /\ RunsTypeOK' /\ WorkerInv
    BY WorkerTyped DEF RunsIInv
  <1>2. CASE Take
    BY <1>2, TakeStep
  <1>3. ASSUME step # "idle"
        PROVE  executing \in Runs /\ up /\ executing # NoRun
    BY <1>1, <1>3, RunsAssumption DEF WorkerInv, RunsTypeOK, RunsIInv, DownInv
  <1>4. \A r \in Runs : status[r] = "queued" => outputs[r] = "none"
    BY DEF RunsIInv, ResultsMatchStatus
  <1>5. CASE Look
    <2>1. step \in {"begin", "check", "infer", "decide"}
      BY <1>5 DEF Look, Looks
    <2>2. step' \in {"cancel", Looks[step]}
      BY <1>5 DEF Look
    <2>3. /\ status[executing] \in Unfinished /\ outputs[executing] = "none"
          /\ step = "begin" => status[executing] = "queued"
          /\ step # "begin" => status[executing] = "running"
          /\ executing \in Runs /\ up /\ executing # NoRun
          /\ UNCHANGED <<status, outputs, parent, up, queue, executing, bindings, call>>
      BY <1>1, <1>3, <1>4, <1>5, <2>1 DEF WorkerInv, Unfinished, Look, files
    <2>4. WorkerInv'
      BY <2>1, <2>2, <2>3 DEF WorkerInv, Looks, Unfinished
    <2> QED BY <1>1, <1>4, <2>3, <2>4, WorkerAside, RunsAssumption
            DEF Unfinished
  <1>6. CASE StartRunning
    <2>1. /\ step = "start" /\ step' = "check"
          /\ status[executing] = "queued" /\ outputs[executing] = "none"
          /\ status'[executing] = "running"
          /\ \A r \in Runs \ {executing} : status'[r] = status[r]
          /\ executing \in Runs /\ up /\ executing # NoRun
          /\ UNCHANGED <<outputs, parent, up, queue, executing, bindings, call>>
      BY <1>1, <1>3, <1>4, <1>6 DEF StartRunning, Advance, WorkerInv, RunsTypeOK
    <2>2. WorkerInv'
      BY <2>1 DEF WorkerInv
    <2> QED BY <1>1, <2>1, <2>2, WorkerAside, RunsAssumption DEF Unfinished
  <1>7. CASE Freeze \/ Publish
    <2>1. /\ step \in {"freeze", "publish"}
          /\ step = "freeze" => step' = "publish"
          /\ step = "publish" => step' = "finish" /\ outputs'[executing] = "result"
          /\ status[executing] = "running"
          /\ \A r \in Runs \ {executing} : outputs'[r] = outputs[r]
          /\ executing \in Runs /\ up /\ executing # NoRun
          /\ UNCHANGED <<status, parent, up, queue, executing, bindings, call>>
      BY <1>1, <1>3, <1>7 DEF Freeze, Publish, Advance, WorkerInv, RunsTypeOK
    <2>2. WorkerInv'
      BY <2>1 DEF WorkerInv
    <2> QED BY <1>1, <2>1, <2>2, WorkerAside, RunsAssumption DEF Unfinished
  <1>8. CASE Raise
    <2>1. /\ step \in Steps \ {"idle", "begin", "cancel", "fail"}
          /\ step' = "fail"
          /\ UNCHANGED <<status, outputs, parent, up, queue, executing, bindings, call>>
      BY <1>8 DEF Raise, Advance, files
    <2>2. /\ status[executing] \in Unfinished
          /\ executing \in Runs /\ up /\ executing # NoRun
      BY <1>1, <1>3, <2>1 DEF WorkerInv, Steps, Unfinished
    <2>3. WorkerInv'
      BY <2>1, <2>2 DEF WorkerInv
    <2> QED BY <1>1, <1>4, <2>1, <2>2, <2>3, WorkerAside, RunsAssumption
            DEF Unfinished
  <1>9. ASSUME Finish \/ WriteCancelled \/ WriteFailed
        PROVE  Rest'
    <2>1. /\ step \in {"finish", "cancel", "fail"} /\ step' = "idle"
          /\ executing' = NoRun
          /\ executing \in Runs /\ up /\ executing # NoRun
          /\ \A r \in Runs \ {executing} : status'[r] = status[r]
          /\ UNCHANGED <<outputs, parent, up, queue, bindings, call>>
      BY <1>1, <1>3, <1>9 DEF Finish, WriteCancelled, WriteFailed, End, RunsTypeOK
    <2>2. /\ step = "finish" => status'[executing] = "succeeded"
          /\ step = "cancel" =>
               status'[executing] = "cancelled" \/ (FinalWritesFail /\ status' = status)
          /\ step = "fail" =>
               status'[executing] = "failed" \/ (FinalWritesFail /\ status' = status)
      BY <1>1, <1>9, <2>1 DEF Finish, WriteCancelled, WriteFailed, End, RunsTypeOK
    <2>3. /\ status[executing] \in Unfinished
          /\ step = "cancel" => outputs[executing] = "none"
          /\ step = "finish" => outputs[executing] = "result"
      BY <1>1, <2>1 DEF WorkerInv, Unfinished
    <2>4. WorkerInv'
      BY <2>1 DEF WorkerInv
    <2>5. CASE ~(FinalWritesFail /\ status' = status)
      <3>1. /\ status'[executing] \in Terminal
            /\ status'[executing] = "succeeded" => outputs'[executing] = "result"
            /\ status'[executing] = "cancelled" => outputs'[executing] = "none"
            /\ status'[executing] \notin {"none", "queued"}
        BY <2>1, <2>2, <2>3, <2>5 DEF Terminal, Retryable
      <3> QED BY <1>1, <2>1, <2>3, <2>4, <3>1, WorkerAside
    <2>6. CASE FinalWritesFail /\ status' = status
      BY <1>1, <1>4, <2>1, <2>3, <2>4, <2>6, WorkerAside DEF Unfinished
    <2> QED BY <2>5, <2>6
  <1> QED
    BY <1>2, <1>5, <1>6, <1>7, <1>8, <1>9 DEF Worker

LEMMA ProcessStep ==
  ASSUME RunsIInv, Die \/ Start \/ \E r \in Runs : Recover(r)
  PROVE  Rest'
PROOF
  <1>1. RunsTypeOK /\ RunsTypeOK'
    BY ProcessTyped DEF RunsIInv
  <1>2. CASE Die
    <2>1. /\ ~up' /\ queue' = <<>> /\ executing' = NoRun /\ step' = "idle"
          /\ UNCHANGED <<status, outputs, parent>>
          /\ \A c \in Callers :
               \/ call'[c].at = "idle"
               \/ call'[c] = call[c] /\ call[c].at = "answered"
      BY <1>2 DEF Die, files, Idle
    <2>2. DownInv' /\ StoredInv' /\ RequestInv'
      BY <2>1 DEF DownInv, StoredInv, RequestInv, RunsIInv
    <2>3. WorkerInv' /\ QueueInv' /\ NoneAbandoned'
      BY <2>1 DEF WorkerInv, QueueInv, NoneAbandoned
    <2> QED BY <2>1, <2>2, <2>3
            DEF Rest, RunsIInv, UntouchedInv, ResultsMatchStatus, RetriesEndedRuns
  <1>3. CASE Start
    <2>1. /\ up' /\ UNCHANGED <<status, outputs, parent, queue, executing, step, call>>
          /\ \A r \in Runs : status[r] \notin Unfinished
      BY <1>3 DEF Start, ToRecover, files, worker
    <2>2. DownInv' /\ NoneAbandoned'
      BY <2>1 DEF DownInv, NoneAbandoned, Unfinished
    <2>3. \A r \in Runs : InQueue(r)' = InQueue(r)
      BY <2>1 DEF InQueue
    <2>4. StoredInv'
      BY <2>1, <2>3 DEF StoredInv, RunsIInv
    <2> QED BY <2>1, <2>2, <2>4
            DEF Rest, RunsIInv, WorkerInv, QueueInv, RequestInv, UntouchedInv,
                ResultsMatchStatus, RetriesEndedRuns
  <1>4. ASSUME NEW r \in Runs, Recover(r) PROVE Rest'
    <2>1. /\ ~up /\ ~up' /\ queue = <<>> /\ step = "idle"
          /\ UNCHANGED <<outputs, parent, queue, executing, step, call>>
          /\ status[r] \in Unfinished /\ status'[r] = "interrupted"
          /\ \A q \in Runs \ {r} : status'[q] = status[q]
          /\ \A c \in Callers : call[c].at \in {"idle", "sent", "answered"}
      BY <1>1, <1>4 DEF Recover, ToRecover, worker, RunsTypeOK, RunsIInv, DownInv
    <2>2. DownInv' /\ StoredInv' /\ RequestInv'
      BY <2>1 DEF DownInv, StoredInv, RequestInv, RunsIInv
    <2>3. WorkerInv' /\ QueueInv' /\ NoneAbandoned'
      BY <2>1 DEF WorkerInv, QueueInv, NoneAbandoned, RunsIInv
    <2>4. UntouchedInv' /\ ResultsMatchStatus'
      BY <2>1 DEF UntouchedInv, ResultsMatchStatus, RunsIInv
    <2>5. RetriesEndedRuns'
      <3>1. r \in Runs /\ status[r] \notin Retryable
        BY <2>1 DEF Retryable, Unfinished
      <3> QED BY <1>1, <2>1, <3>1 DEF RetriesEndedRuns, RunsIInv, RunsTypeOK
    <2> QED BY <2>2, <2>3, <2>4, <2>5 DEF Rest
  <1> QED BY <1>2, <1>3, <1>4

LEMMA RunsEveryStep ==
  ASSUME RunsIInv, [RunsNext]_runsVars
  PROVE  RunsIInv'
PROOF
  <1>1. CASE \E c \in Callers : Request(c)
    BY <1>1, RequestTyped, RequestStep DEF RunsIInv, Rest
  <1>2. ASSUME NEW c \in Callers, Serve(c) PROVE RunsIInv'
    <2>1. RunsTypeOK'
      BY <1>2, ServeTyped
    <2>2. Rest'
      BY <1>2, CancelStep, StoreStep, SubmitStep DEF Serve
    <2> QED BY <2>1, <2>2 DEF RunsIInv, Rest
  <1>3. CASE Worker
    BY <1>3, WorkerTyped, WorkerStep DEF RunsIInv, Rest
  <1>4. CASE Die \/ Start \/ \E r \in Runs : Recover(r)
    BY <1>4, ProcessTyped, ProcessStep DEF RunsIInv, Rest
  <1>5. CASE UNCHANGED runsVars
    BY <1>5
    DEF RunsIInv, RunsTypeOK, DownInv, WorkerInv, QueueInv, StoredInv, RequestInv,
        UntouchedInv, ResultsMatchStatus, RetriesEndedRuns, NoneAbandoned,
        InQueue, Submitting, runsVars, files, worker
  <1> QED BY <1>1, <1>2, <1>3, <1>4, <1>5 DEF RunsNext

(* Only runs that have not ended are written a status.                     *)
LEMMA EndedStep ==
  ASSUME RunsIInv, [RunsNext]_runsVars, NEW r \in Runs, status[r] \in Terminal
  PROVE  status'[r] = status[r]
PROOF
  <1>1. RunsTypeOK /\ status[r] \notin Unfinished \cup {"none"}
    BY DEF RunsIInv, Terminal, Retryable, Unfinished
  <1>2. ASSUME step # "idle" PROVE executing # r
    BY <1>1, <1>2 DEF RunsIInv, WorkerInv, RunsTypeOK, Steps, Unfinished
  <1>3. CASE Worker
    BY <1>1, <1>2, <1>3
    DEF Worker, Take, Look, StartRunning, Freeze, Publish, Raise, Finish,
        WriteCancelled, WriteFailed, Advance, End, files, RunsTypeOK
  <1>4. ASSUME NEW c \in Callers, Request(c) \/ Serve(c)
        PROVE  status'[r] = status[r]
    BY <1>1, <1>4
    DEF Request, Ask, GiveUp, Bind, Serve, Refuse, ReadParent, Store, Submit, ReadStatus,
        FindFlag, CreateFlag, Mark, files, RunsTypeOK
  <1>5. CASE Die \/ Start \/ UNCHANGED runsVars
    BY <1>5 DEF Die, Start, runsVars, files
  <1>6. ASSUME NEW q \in Runs, Recover(q) PROVE status'[r] = status[r]
    BY <1>1, <1>6 DEF Recover, ToRecover, RunsTypeOK
  <1> QED BY <1>3, <1>4, <1>5, <1>6 DEF RunsNext

-----------------------------------------------------------------------------
(* The theorems.                                                           *)

(* The inductive invariant, from which the others follow.                  *)
THEOREM RunsInductive == RunsSpec => []RunsIInv
  <1>1. RunsInit => RunsIInv
    BY RunsInitially
  <1>2. RunsIInv /\ [RunsNext]_runsVars => RunsIInv'
    BY RunsEveryStep
  <1> QED BY <1>1, <1>2, PTL DEF RunsSpec

(* Every variable always holds a value of its type.                        *)
THEOREM RunsTypeCorrect == RunsSpec => []RunsTypeOK
  <1>1. RunsIInv => RunsTypeOK
    BY DEF RunsIInv
  <1> QED BY <1>1, RunsInductive, PTL

(* Success means a result, cancellation means none, for any number of runs *)
(* and however requests, the worker and restarts interleave.               *)
THEOREM Results == RunsSpec => []ResultsMatchStatus
  <1>1. RunsIInv => ResultsMatchStatus
    BY DEF RunsIInv
  <1> QED BY <1>1, RunsInductive, PTL

(* An unfinished run is in the hands of the process that reports it.       *)
THEOREM TakenCareOf == RunsSpec => []NoneAbandoned
  <1>1. RunsIInv => NoneAbandoned
    BY DEF RunsIInv
  <1> QED BY <1>1, RunsInductive, PTL

(* What is retried has ended and stays so.                                 *)
THEOREM Retries == RunsSpec => []RetriesEndedRuns
  <1>1. RunsIInv => RetriesEndedRuns
    BY DEF RunsIInv
  <1> QED BY <1>1, RunsInductive, PTL

(* To those who ask for runs the runtime is a service as JobOutcomes tells *)
(* it: no step of any thread changes the status of a run that has ended,   *)
(* and the result appears with the success.                                *)
THEOREM RunsOutcomes == RunsSpec => RunsKeepOutcomes
  <1>1. RunsInit => Governed!Init
    BY DEF RunsInit, Governed!Init, Readable
  <1>2. ASSUME RunsIInv, RunsIInv', [RunsNext]_runsVars
        PROVE  Governed!Next
    <2> DEFINE changed == {r \in Runs : status'[r] # status[r]}
               told == [r \in changed |-> status'[r]]
    <2>1. status \in [Runs -> Statuses] /\ status' \in [Runs -> Statuses]
      BY <1>2 DEF RunsIInv, RunsTypeOK
    <2>2. \A r \in changed : status[r] \notin Terminal
      BY <1>2, EndedStep
    <2>3. status' = [r \in Runs |-> IF r \in changed THEN told[r] ELSE status[r]]
      BY <2>1
    <2>4. Readable' = {r \in Runs : status'[r] \in {"succeeded"}}
      BY <1>2 DEF RunsIInv, ResultsMatchStatus, Readable
    <2>5. changed \in SUBSET Runs /\ told \in [changed -> Statuses]
      BY <2>1
    <2> HIDE DEF changed, told
    <2>6. Governed!Tell(changed)
      BY <2>2, <2>3, <2>4, <2>5 DEF Governed!Tell
    <2> QED BY <2>5, <2>6 DEF Governed!Next
  <1> QED BY <1>1, <1>2, RunsInductive, PTL
          DEF RunsSpec, RunsKeepOutcomes, Governed!Spec

-----------------------------------------------------------------------------
(* Confirmations beside runs, as the run explores them.                    *)

LEMMA GovernancePartsStart == GovernanceInit => Init /\ RunsInit
  BY DEF GovernanceInit

LEMMA GovernancePartsStep ==
  [GovernanceNext]_all => [Next]_vars /\ [RunsNext]_runsVars
  BY DEF GovernanceNext, all

(* Each part of the governance API behaves as it does alone.               *)
LEMMA GovernanceHasParts == GovernanceSpec => Spec /\ RunsSpec
  BY GovernancePartsStart, GovernancePartsStep, PTL DEF GovernanceSpec, Spec, RunsSpec

(* Every variable of the two parts holds what the code may put there, in   *)
(* the composition the run checks.                                         *)
THEOREM GovernanceTypeCorrect == GovernanceSpec => []GovernanceTypesOK
  <1>1. TypeOK /\ RunsTypeOK => GovernanceTypesOK
    BY DEF GovernanceTypesOK
  <1> QED BY <1>1, GovernanceHasParts, TypeCorrect, RunsTypeCorrect, PTL

(* All the safety properties of the run, of the composition it explores.   *)
THEOREM GovernanceIsSafe ==
  GovernanceSpec => /\ [](OncePerGrant /\ CompletedIsDone /\ PreparedIsAudited)
                    /\ [](ReviewFitsCase /\ OneReviewPerVersion)
                    /\ [](ResultsMatchStatus /\ RetriesEndedRuns /\ NoneAbandoned)
                    /\ RunsKeepOutcomes
  BY GovernanceHasParts, Once, Completed, Prepared, ReviewsFit, ReviewsExclude,
     Results, Retries, TakenCareOf, RunsOutcomes, PTL

=============================================================================

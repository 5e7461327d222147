--------------------------- MODULE GovernanceRuns ---------------------------
(***************************************************************************)
(* Inference runs: the GFM process that queues, executes and cancels them  *)
(* (packages/gfm/src/socialgraph_gfm/governance/service.py) and the API    *)
(* that asks for them and binds what it got                                *)
(* (services/api/app/gfm_governance.py).                                   *)
(*                                                                         *)
(* A run is a directory: state.json, the flag cancel.requested, outputs    *)
(* and result.json.  HTTP threads create runs and cancel them, one worker  *)
(* thread executes them in the order they were submitted.  state.json is   *)
(* always replaced as a whole, re-read under the lock of the runtime: one  *)
(* action.  The worker only looks for the flag at certain places, and not  *)
(* under that lock.  The GFM process may die at any step; it marks what it *)
(* left queued or running as interrupted before it serves again.  The API  *)
(* may stop waiting for an answer, or die: the request goes on without it. *)
(*                                                                         *)
(* Abstractions: stage, progress, times, error codes and the identity of   *)
(* artifact and model are left out, and with them what only outside        *)
(* tampering can break.  A directory without state.json is no run.         *)
(***************************************************************************)
EXTENDS Naturals, Sequences

CONSTANTS
  Runs,            \* run ids; a fresh one per created run
  Callers,         \* concurrent requests of the API
  NoRun,
  FinalWritesFail  \* may the write of a failed or cancelled state fail?

ASSUME RunsAssumption == NoRun \notin Runs /\ FinalWritesFail \in BOOLEAN

VARIABLES
  status,           \* state.json, "none" when there is none
  cancelRequested,  \* state.json
  flag,             \* whether cancel.requested exists
  outputs,          \* "saved": run-artifacts.json is there, "result":
                    \* result.json is, too
  parent,           \* request.json: the run it retries
  up,               \* the GFM process serves requests
  queue,            \* runs submitted to the executor
  executing,        \* the run the worker executes
  step,             \* where in _execute it is
  bindings,         \* the runs the API has a binding for
  call              \* the requests of the API

files == <<status, cancelRequested, flag, outputs, parent>>
worker == <<queue, executing, step>>
runsVars == <<files, up, worker, bindings, call>>

Retryable == {"failed", "cancelled", "interrupted"}
Terminal == Retryable \cup {"succeeded"}
Unfinished == {"queued", "running"}
Statuses == {"none"} \cup Unfinished \cup Terminal

\* Where the worker looks for the flag, and where it goes on if there is none.
Looks == [begin |-> "start", check |-> "infer", infer |-> "decide",
          decide |-> "freeze"]
Steps == {"idle", "begin", "start", "check", "infer", "decide", "freeze",
          "publish", "finish", "cancel", "fail"}

\* A request: what for, how far it is, the run it is about, the run it made
\* and the status it read.
Places == {"idle", "sent", "checked", "stored", "answered", "read", "absent",
           "flagged"}
CallStates ==
  [kind : {"create", "retry", "cancel"}, at : Places,
   of : Runs \cup {NoRun}, run : Runs \cup {NoRun}, seen : Statuses]
Idle == [kind |-> "create", at |-> "idle", of |-> NoRun, run |-> NoRun,
         seen |-> "none"]

RunsInit ==
  /\ status = [r \in Runs |-> "none"]
  /\ cancelRequested = [r \in Runs |-> FALSE]
  /\ flag = [r \in Runs |-> FALSE]
  /\ outputs = [r \in Runs |-> "none"]
  /\ parent = [r \in Runs |-> NoRun]
  /\ up = TRUE
  /\ queue = <<>>
  /\ executing = NoRun
  /\ step = "idle"
  /\ bindings = {}
  /\ call = [c \in Callers |-> Idle]

-----------------------------------------------------------------------------
(* Requests, as the API sees them.                                         *)

Ask(c, kind, of) ==
  /\ call[c].at = "idle"
  /\ call' = [call EXCEPT ![c] = [Idle EXCEPT !.kind = kind, !.at = "sent",
                                              !.of = of]]
  /\ UNCHANGED <<files, up, worker, bindings>>

\* Nobody takes the answer: the client has timed out, the API is dead or the
\* binding cannot be stored.  The run goes on in the GFM process.
GiveUp(c) ==
  /\ call[c].at = "answered"
  /\ call' = [call EXCEPT ![c] = Idle]
  /\ UNCHANGED <<files, up, worker, bindings>>

\* The answer has arrived and put_run_binding commits.
Bind(c) ==
  /\ call[c].at = "answered"
  /\ bindings' = bindings \cup {call[c].run}
  /\ call' = [call EXCEPT ![c] = Idle]
  /\ UNCHANGED <<files, up, worker>>

-----------------------------------------------------------------------------
(* Requests, as the GFM process serves them.                               *)

\* The request does not validate, it is about a run that may not be retried,
\* or there is no process to answer it.
Refuse(c) ==
  /\ call[c].at \in {"sent", "checked"}
  /\ call' = [call EXCEPT ![c] = Idle]
  /\ UNCHANGED <<files, up, worker, bindings>>

\* retry_run decides on the state it reads, and holds no lock.
ReadParent(c) ==
  /\ up
  /\ call[c].at = "sent"
  /\ call[c].kind = "retry"
  /\ status[call[c].of] \in Retryable
  /\ call' = [call EXCEPT ![c].at = "checked"]
  /\ UNCHANGED <<files, up, worker, bindings>>

\* create_run, up to the release of the lock; it does not look at the parent.
Store(c, r) ==
  /\ up
  /\ \/ call[c].at = "sent" /\ call[c].kind = "create"
     \/ call[c].at = "checked"
  /\ status[r] = "none"
  /\ status' = [status EXCEPT ![r] = "queued"]
  /\ parent' = [parent EXCEPT ![r] = call[c].of]
  /\ call' = [call EXCEPT ![c].at = "stored", ![c].run = r]
  /\ UNCHANGED <<cancelRequested, flag, outputs, up, worker, bindings>>

\* Only then is the run handed to the executor.
Submit(c) ==
  /\ call[c].at = "stored"
  /\ queue' = Append(queue, call[c].run)
  /\ call' = [call EXCEPT ![c].at = "answered"]
  /\ UNCHANGED <<files, up, executing, step, bindings>>

ReadStatus(c) ==
  /\ up
  /\ call[c].at = "sent"
  /\ call[c].kind = "cancel"
  /\ call' = [call EXCEPT ![c] =
                IF status[call[c].of] \in Terminal THEN Idle
                ELSE [@ EXCEPT !.at = "read", !.seen = status[call[c].of]]]
  /\ UNCHANGED <<files, up, worker, bindings>>

FindFlag(c) ==
  /\ call[c].at = "read"
  /\ call' = [call EXCEPT ![c].at = IF flag[call[c].of] THEN "flagged"
                                    ELSE "absent"]
  /\ UNCHANGED <<files, up, worker, bindings>>

\* Created exclusively: of two cancels that found none, the second raises.
CreateFlag(c) ==
  /\ call[c].at = "absent"
  /\ IF flag[call[c].of]
     THEN /\ call' = [call EXCEPT ![c] = Idle]
          /\ UNCHANGED flag
     ELSE /\ call' = [call EXCEPT ![c].at = "flagged"]
          /\ flag' = [flag EXCEPT ![call[c].of] = TRUE]
  /\ UNCHANGED <<status, cancelRequested, outputs, parent, up, worker,
                 bindings>>

MarkStale(c) ==  \* writes back the state that was read first
  /\ call[c].at = "flagged"
  /\ cancelRequested' = [cancelRequested EXCEPT ![call[c].of] = TRUE]
  /\ status' = [status EXCEPT ![call[c].of] = call[c].seen]
  /\ call' = [call EXCEPT ![c] = Idle]
  /\ UNCHANGED <<flag, outputs, parent, up, worker, bindings>>

Mark(c) ==
  /\ call[c].at = "flagged"
  /\ cancelRequested' = [cancelRequested EXCEPT ![call[c].of] = TRUE]
  /\ call' = [call EXCEPT ![c] = Idle]
  /\ UNCHANGED <<status, flag, outputs, parent, up, worker, bindings>>

-----------------------------------------------------------------------------
(* The worker: _execute.                                                   *)

Take ==
  /\ up
  /\ executing = NoRun
  /\ queue # <<>>
  /\ executing' = Head(queue)
  /\ queue' = Tail(queue)
  /\ step' = "begin"
  /\ UNCHANGED <<files, up, bindings, call>>

Advance(here, there) ==
  /\ step = here
  /\ step' = there
  /\ UNCHANGED <<up, queue, executing, bindings, call>>

CancelledInState(r) == cancelRequested[r]
Cancelled(r) == flag[r]

Look ==
  /\ step \in DOMAIN Looks
  /\ step' = IF Cancelled(executing) THEN "cancel" ELSE Looks[step]
  /\ UNCHANGED <<files, up, queue, executing, bindings, call>>

StartRunning ==
  /\ Advance("start", "check")
  /\ status' = [status EXCEPT ![executing] = "running"]
  /\ UNCHANGED <<cancelRequested, flag, outputs, parent>>

\* The outputs and their manifest.
Freeze ==
  /\ Advance("freeze", "publish")
  /\ outputs' = [outputs EXCEPT ![executing] = "saved"]
  /\ UNCHANGED <<status, cancelRequested, flag, parent>>

Publish ==
  /\ Advance("publish", "finish")
  /\ outputs' = [outputs EXCEPT ![executing] = "result"]
  /\ UNCHANGED <<status, cancelRequested, flag, parent>>

Raise ==
  /\ step \in Steps \ {"idle", "begin", "cancel", "fail"}
  /\ Advance(step, "fail")
  /\ UNCHANGED files

EndKeepsActive(here) ==  \* the worker believes the run is still going on
  /\ step = here
  /\ step' = "idle"
  /\ UNCHANGED <<up, queue, executing, bindings, call>>

\* The worker leaves _execute.
End(here) ==
  /\ step = here
  /\ step' = "idle"
  /\ executing' = NoRun
  /\ UNCHANGED <<up, queue, bindings, call>>

FinishUnlessCancelled ==  \* looks for the flag once more, after the result
  /\ End("finish")
  /\ status' = [status EXCEPT ![executing] =
                  IF Cancelled(executing) THEN "cancelled" ELSE "succeeded"]
  /\ UNCHANGED <<cancelRequested, flag, outputs, parent>>

Finish ==
  /\ End("finish")
  /\ status' = [status EXCEPT ![executing] = "succeeded"]
  /\ UNCHANGED <<cancelRequested, flag, outputs, parent>>

\* A final write that fails is swallowed: the run keeps the state it had, until
\* the next start of the process.
WriteCancelled ==
  /\ End("cancel")
  /\ \/ /\ status' = [status EXCEPT ![executing] = "cancelled"]
        /\ cancelRequested' = [cancelRequested EXCEPT ![executing] = TRUE]
     \/ FinalWritesFail /\ UNCHANGED <<status, cancelRequested>>
  /\ UNCHANGED <<flag, outputs, parent>>

WriteFailed ==
  /\ End("fail")
  /\ \/ status' = [status EXCEPT ![executing] = "failed"]
     \/ FinalWritesFail /\ UNCHANGED status
  /\ UNCHANGED <<cancelRequested, flag, outputs, parent>>

-----------------------------------------------------------------------------
(* The GFM process dies, and starts again.                                 *)

Die ==
  /\ up
  /\ up' = FALSE
  /\ queue' = <<>>
  /\ executing' = NoRun
  /\ step' = "idle"
  /\ call' = [c \in Callers |->
                IF call[c].at = "answered" THEN call[c] ELSE Idle]
  /\ UNCHANGED <<files, bindings>>

ToRecoverRunning(r) == status[r] = "running"
ToRecover(r) == status[r] \in Unfinished

\* _recover_interrupted, run by run; dying in between changes nothing.
Recover(r) ==
  /\ ~up
  /\ ToRecover(r)
  /\ status' = [status EXCEPT ![r] = "interrupted"]
  /\ UNCHANGED <<cancelRequested, flag, outputs, parent, up, worker, bindings,
                 call>>

Start ==
  /\ ~up
  /\ \A r \in Runs : ~ToRecover(r)
  /\ up' = TRUE
  /\ UNCHANGED <<files, worker, bindings, call>>

-----------------------------------------------------------------------------
Worker ==
  \/ Take
  \/ Look
  \/ StartRunning
  \/ Freeze
  \/ Publish
  \/ Raise
  \/ Finish
  \/ WriteCancelled
  \/ WriteFailed

Request(c) ==
  \/ Ask(c, "create", NoRun)
  \/ \E r \in bindings : Ask(c, "retry", r) \/ Ask(c, "cancel", r)
  \/ GiveUp(c)
  \/ Bind(c)

Serve(c) ==
  \/ Refuse(c)
  \/ ReadParent(c)
  \/ \E r \in Runs : Store(c, r)
  \/ Submit(c)
  \/ ReadStatus(c)
  \/ FindFlag(c)
  \/ CreateFlag(c)
  \/ Mark(c)

RunsNext ==
  \/ \E c \in Callers : Request(c) \/ Serve(c)
  \/ Worker
  \/ Die
  \/ \E r \in Runs : Recover(r)
  \/ Start

RunsSpec == RunsInit /\ [][RunsNext]_runsVars

\* The worker and the threads that serve requests keep running.
RunsFairSpec ==
  /\ RunsSpec
  /\ WF_runsVars(Worker)
  /\ \A c \in Callers : WF_runsVars(Submit(c))

-----------------------------------------------------------------------------
(* Every variable holds what the code may put there.                       *)
RunsTypeOK ==
  /\ status \in [Runs -> Statuses]
  /\ cancelRequested \in [Runs -> BOOLEAN]
  /\ flag \in [Runs -> BOOLEAN]
  /\ outputs \in [Runs -> {"none", "saved", "result"}]
  /\ parent \in [Runs -> Runs \cup {NoRun}]
  /\ up \in BOOLEAN
  /\ queue \in Seq(Runs)
  /\ executing \in Runs \cup {NoRun}
  /\ step \in Steps
  /\ bindings \subseteq Runs
  /\ call \in [Callers -> CallStates]

(* A succeeded run has its result and a cancelled one never shows any part *)
(* of one, whenever the cancellation came in and whatever died on the way  *)
(* (the order of checks and writes in _execute).                           *)
ResultsMatchStatus ==
  \A r \in Runs :
    /\ status[r] = "succeeded" => outputs[r] = "result"
    /\ status[r] \in {"cancelled", "queued"} => outputs[r] = "none"

(* What is reported as queued or running is being taken care of by the     *)
(* process that reports it: it is executed, or submitted, or about to be.  *)
(* (Unless the last write of a run failed, which _execute swallows.)       *)
Submitting(r) == \E c \in Callers : call[c].at = "stored" /\ call[c].run = r
InQueue(r) == \E i \in DOMAIN queue : queue[i] = r
NoneAbandoned ==
  ~FinalWritesFail /\ up =>
    \A r \in Runs :
      /\ status[r] = "running" => executing = r
      /\ status[r] = "queued" => executing = r \/ InQueue(r) \/ Submitting(r)

(* A run is never executed beside the run it retries, nor after that one   *)
(* succeeded, though retry_run decides on a state it read before, and      *)
(* cancellations and the worker write that state meanwhile.                *)
RetriesEndedRuns ==
  \A r \in Runs : parent[r] # NoRun => status[parent[r]] \in Retryable

\* A result is read once the run has succeeded.
Readable == {r \in Runs : status[r] = "succeeded" /\ outputs[r] = "result"}

Governed == INSTANCE JobOutcomes
            WITH Jobs <- Runs, States <- Statuses, Final <- Terminal,
                 Successful <- {"succeeded"}, state <- status, results <- Readable

(* The status of a run that has ended never changes, not by a cancellation *)
(* that read it as running, not by a retry, not by a restart; and its      *)
(* result appears with its success, in one step (_execute, cancel_run,     *)
(* _recover_interrupted).                                                  *)
RunsKeepOutcomes == Governed!Spec

(* A run that was accepted ends, provided that a dead process is started   *)
(* again and that final writes work.                                       *)
RunsEnd ==
  []<>up => \A r \in Runs : status[r] \in Unfinished ~> status[r] \in Terminal

(* A run cancelled while it was queued is not answered with a result,      *)
(* though the worker may pick it up at that very moment.                   *)
CancelledInTime ==
  []<>up => \A r \in Runs :
    flag[r] /\ status[r] = "queued" ~> status[r] \in Retryable

=============================================================================

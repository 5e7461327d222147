------------------------------- MODULE CoreRuns -------------------------------
(***************************************************************************)
(* The runs of the core model and their files (RunStore of                 *)
(* packages/gfm/src/socialgraph_gfm/core/inference_service.py).            *)
(*                                                                         *)
(* A directory per run holds the request, the state, the manifest and,     *)
(* once published, the result and the success marker.  Each file is        *)
(* written atomically, no two of them together: a write may fail, and the  *)
(* process may die between two.  A request creates a run, a thread of its  *)
(* own executes it, and the next start of the process recovers the runs,   *)
(* one after another, before it serves again.                              *)
(*                                                                         *)
(* Abstractions: the files of a run bind each other (their hashes do not   *)
(* change); the identifier of a run is fresh.  The lock of the store only  *)
(* keeps readers out of a publication: the files of a run are written by   *)
(* the request, then by its thread, or by the recovery.                    *)
(***************************************************************************)
EXTENDS Naturals

CONSTANT Runs

VARIABLES
  files,      \* in the directory of every run
  state,      \* that its state file tells
  thread,     \* what the request that creates a run, then its thread, does next
  server,     \* "down", "recovering" or "up"
  visiting,   \* the runs that this start has yet to recover
  executed,   \* how often every run was executed
  succeeded   \* the runs that were ever told to have succeeded

runHistory == <<executed, succeeded>>
runVars == <<files, state, thread, server, visiting, runHistory>>

Unfinished == {"queued", "running"}
Ended == {"succeeded", "failed"}
Publication == {"result", "marker"}

Add(r, file) == files' = [files EXCEPT ![r] = @ \cup {file}]
Tell(r, s) == state' = [state EXCEPT ![r] = s]
Then(r, place) == thread' = [thread EXCEPT ![r] = place]

CoreRunsInit ==
  /\ files = [r \in Runs |-> {}]
  /\ state = [r \in Runs |-> "none"]
  /\ thread = [r \in Runs |-> "none"]
  /\ server = "up"
  /\ visiting = {}
  /\ executed = [r \in Runs |-> 0]
  /\ succeeded = {}

-----------------------------------------------------------------------------
(* create, once its leases are taken.                                      *)

WriteRequest(r) ==
  /\ server = "up"
  /\ thread[r] = "none"
  /\ Add(r, "request")
  /\ Then(r, "write state")
  /\ UNCHANGED <<state, server, visiting, runHistory>>

WriteState(r) ==
  /\ thread[r] = "write state"
  /\ Add(r, "state")
  /\ Tell(r, "queued")
  /\ Then(r, "write manifest")
  /\ UNCHANGED <<server, visiting, runHistory>>

\* The thread may fail to start: the run stays queued.
WriteManifest(r) ==
  /\ thread[r] = "write manifest"
  /\ Add(r, "manifest")
  /\ \E place \in {"begin", "lost"} : Then(r, place)
  /\ UNCHANGED <<state, server, visiting, runHistory>>

RemoveFailedCreate(r) ==
  /\ thread[r] \in {"write state", "write manifest"}
  /\ files' = [files EXCEPT ![r] = {}]
  /\ Tell(r, "none")
  /\ Then(r, "ended")
  /\ UNCHANGED <<server, visiting, runHistory>>

-----------------------------------------------------------------------------
(* _execute.                                                               *)

Begin(r) ==
  /\ thread[r] = "begin"
  /\ state[r] = "queued"
  /\ Tell(r, "running")
  /\ Then(r, "execute")
  /\ UNCHANGED <<files, server, visiting, runHistory>>

Execute(r) ==
  /\ thread[r] = "execute"
  /\ executed' = [executed EXCEPT ![r] = @ + 1]
  /\ Then(r, "write result")
  /\ UNCHANGED <<files, state, server, visiting, succeeded>>

WriteResult(r) ==
  /\ thread[r] = "write result"
  /\ state[r] = "running"
  /\ Add(r, "result")
  /\ Then(r, "write marker")
  /\ UNCHANGED <<state, server, visiting, runHistory>>

WriteMarker(r) ==
  /\ thread[r] = "write marker"
  /\ Add(r, "marker")
  /\ Then(r, "succeed")
  /\ UNCHANGED <<state, server, visiting, runHistory>>

Succeed(r) ==
  /\ thread[r] = "succeed"
  /\ state[r] = "running"
  /\ Tell(r, "succeeded")
  /\ succeeded' = succeeded \cup {r}
  /\ Then(r, "ended")
  /\ UNCHANGED <<files, server, visiting, executed>>

Raise(r) ==
  /\ thread[r] \in {"begin", "execute", "write result", "write marker", "succeed"}
  /\ Then(r, "fail")
  /\ UNCHANGED <<files, state, server, visiting, runHistory>>

\* An error of this write is not caught: it ends the thread.
Fail(r) ==
  /\ thread[r] = "fail"
  /\ \/ /\ state[r] \in Unfinished
        /\ Tell(r, "failed")
        /\ Then(r, "ended")
     \/ Then(r, "lost") /\ UNCHANGED state
  /\ UNCHANGED <<files, server, visiting, runHistory>>

-----------------------------------------------------------------------------
(* The process dies, starts again and recovers the runs.                   *)

Crash ==
  /\ server # "down"
  /\ server' = "down"
  /\ visiting' = {}
  /\ thread' = [r \in Runs |-> IF thread[r] = "none" THEN "none" ELSE "ended"]
  /\ UNCHANGED <<files, state, runHistory>>

Start ==
  /\ server = "down"
  /\ server' = "recovering"
  /\ visiting' = {r \in Runs : files[r] # {}}
  /\ UNCHANGED <<files, state, thread, runHistory>>

Leave(r) == visiting' = visiting \ {r}

\* What was published is completed.
RecoverMarker(r) ==
  /\ r \in visiting
  /\ "result" \in files[r] /\ "marker" \notin files[r]
  /\ Add(r, "marker")
  /\ UNCHANGED <<state, thread, server, visiting, runHistory>>

RecoverSuccess(r) ==
  /\ r \in visiting
  /\ Publication \subseteq files[r]
  /\ state[r] # "succeeded"
  /\ Tell(r, "succeeded")
  /\ succeeded' = succeeded \cup {r}
  /\ Leave(r)
  /\ UNCHANGED <<files, thread, server, executed>>

RecoverReplayed(r) ==  \* executes an interrupted run again
  /\ r \in visiting
  /\ "manifest" \in files[r] /\ files[r] \cap Publication = {}
  /\ state[r] \in Unfinished
  /\ Tell(r, "queued")
  /\ Then(r, "begin")
  /\ Leave(r)
  /\ UNCHANGED <<files, server, runHistory>>

RecoverInterrupted(r) ==
  /\ r \in visiting
  /\ "manifest" \in files[r] /\ files[r] \cap Publication = {}
  /\ state[r] \in Unfinished
  /\ Tell(r, "failed")
  /\ Leave(r)
  /\ UNCHANGED <<files, thread, server, runHistory>>

SettledOrQueued(r) == state[r] # "running"  \* takes a queued run for settled

Settled(r) ==
  \/ state[r] = "succeeded" /\ Publication \subseteq files[r]
  \/ state[r] = "failed" /\ files[r] \cap Publication = {}

\* It needs no recovery, its manifest is missing, or a write fails.
PassOver(r) ==
  /\ r \in visiting
  /\ IF Settled(r) \/ "manifest" \notin files[r]
     THEN UNCHANGED thread
     ELSE Then(r, "lost")
  /\ Leave(r)
  /\ UNCHANGED <<files, state, server, runHistory>>

Serve ==
  /\ server = "recovering"
  /\ visiting = {}
  /\ server' = "up"
  /\ UNCHANGED <<files, state, thread, visiting, runHistory>>

Work(r) ==
  \/ WriteRequest(r)
  \/ WriteState(r)
  \/ WriteManifest(r)
  \/ RemoveFailedCreate(r)
  \/ Begin(r)
  \/ Execute(r)
  \/ WriteResult(r)
  \/ WriteMarker(r)
  \/ Succeed(r)
  \/ Raise(r)
  \/ Fail(r)

Recover(r) ==
  \/ RecoverMarker(r)
  \/ RecoverSuccess(r)
  \/ RecoverInterrupted(r)
  \/ PassOver(r)

CoreRunsNext ==
  \/ \E r \in Runs : Work(r) \/ Recover(r)
  \/ Crash
  \/ Start
  \/ Serve

\* A thread that was started goes on, and a process that died is started.
CoreRunsFairness ==
  /\ \A r \in Runs :
       /\ WF_runVars(Work(r) /\ thread[r] # "none")
       /\ WF_runVars(Recover(r))
  /\ WF_runVars(Start)
  /\ WF_runVars(Serve)

CoreRunsSpec == CoreRunsInit /\ [][CoreRunsNext]_runVars /\ CoreRunsFairness

-----------------------------------------------------------------------------
CoreRunsTypeOK ==
  /\ files \in [Runs -> SUBSET ({"request", "state", "manifest"} \cup Publication)]
  /\ state \in [Runs -> {"none"} \cup Unfinished \cup Ended]
  /\ thread \in [Runs -> {"none", "write state", "write manifest", "begin", "execute",
                          "write result", "write marker", "succeed", "fail", "lost", "ended"}]
  /\ server \in {"down", "recovering", "up"}
  /\ visiting \subseteq Runs
  /\ executed \in [Runs -> Nat]
  /\ succeeded \subseteq Runs

(* A run that was told to have succeeded stays so, with a result and a     *)
(* marker that get_result can read, however often the process dies while   *)
(* it publishes or recovers; and no run is executed twice (RunStore:       *)
(* "never automatically replayed").                                        *)
SuccessIsKept ==
  \A r \in Runs :
    /\ executed[r] <= 1
    /\ r \in succeeded => state[r] = "succeeded" /\ Publication \subseteq files[r]

(* A run reported as queued or running ends, also if the process dies,     *)
(* once it is started again, unless an error took its thread or kept the   *)
(* recovery from it: then only the next start ends it.                     *)
CoreRunsEnd ==
  \A r \in Runs :
    state[r] \in Unfinished /\ "manifest" \in files[r] ~>
      state[r] \notin Unfinished \/ thread[r] = "lost" \/ server = "down"

(* Recovery preserves the runs that have ended (the docstring of RunStore: *)
(* "terminal runs are preserved byte-for-byte").                           *)
TerminalIsPreserved ==
  [][\A r \in Runs : state[r] \in Ended => state'[r] = state[r]]_runVars

\* What get_result reads.
Published == {r \in Runs : state[r] = "succeeded" /\ Publication \subseteq files[r]}

Core == INSTANCE JobOutcomes
        WITH Jobs <- Runs, States <- {"none"} \cup Unfinished \cup Ended,
             Final <- {"succeeded"}, Successful <- {"succeeded"}, results <- Published

(* What has succeeded is never changed, and its publication appears with   *)
(* its success, which the recovery may be the one to tell (RunStore).      *)
CoreRunsKeepOutcomes == Core!Spec

=============================================================================

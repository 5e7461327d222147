--------------------------- MODULE TrustedConversion ---------------------------
(***************************************************************************)
(* Conversions of local datasets in a process of their own                 *)
(* (services/api/app/trusted_conversion.py).                               *)
(*                                                                         *)
(* A job is inspected, authorized once, run by a coroutine that starts and *)
(* watches a converter and imports its package on a thread, and may be     *)
(* cancelled by other requests at every await.  An action is the code      *)
(* between two awaits.  The record of a job survives the process; its      *)
(* task, the set of cancelled jobs and the handle of the converter do not. *)
(*                                                                         *)
(* Abstractions: a package is the number of its datasets; the limits of    *)
(* time, memory and output are one limit, exceeded at any time; progress   *)
(* and issues are left out.                                                *)
(***************************************************************************)
EXTENDS Naturals

CONSTANTS
  Jobs,
  Requests,  \* to cancel a job
  NoJob,
  Datasets   \* in a package

ASSUME ConversionAssumption == NoJob \notin Jobs /\ Datasets \in Nat

VARIABLES
  status,     \* of the record of a job, "none" before it is inspected
  unused,     \* the jobs whose authorization can be used
  task,       \* the await at which the coroutine of a job is
  converter,  \* the process that converts
  import,     \* the thread that imports
  saved,      \* of every job, the artifacts imported from its package
  cancelled,  \* the jobs this process was asked to cancel
  request,    \* the job whose converter a request to cancel is killing
  up,         \* the API is running
  outcomes,   \* of every job, the ends its record has been given
  started     \* of every job, the converters that were started

memory == <<task, import, cancelled, request>>
told == <<outcomes, started>>
conversionVars == <<status, unused, converter, saved, memory, up, told>>

Unfinished == {"queued", "running"}
Terminal == {"succeeded", "failed", "cancelled"}
Alive == {"running", "killed"}

Write(j, s) == status' = [status EXCEPT ![j] = s]

\* An end of the record.
End(j, s) ==
  /\ Write(j, s)
  /\ outcomes' = [outcomes EXCEPT ![j] = @ \cup {s}]

Await(j, place) == task' = [task EXCEPT ![j] = place]

ConversionInit ==
  /\ status = [j \in Jobs |-> "none"]
  /\ unused = {}
  /\ task = [j \in Jobs |-> "none"]
  /\ converter = [j \in Jobs |-> "none"]
  /\ import = [j \in Jobs |-> "none"]
  /\ saved = [j \in Jobs |-> 0]
  /\ cancelled = {}
  /\ request = [r \in Requests |-> NoJob]
  /\ up = TRUE
  /\ outcomes = [j \in Jobs |-> {}]
  /\ started = [j \in Jobs |-> 0]

-----------------------------------------------------------------------------
InspectLocal(j) ==
  /\ up
  /\ status[j] = "none"
  /\ Write(j, "awaiting_authorization")
  /\ unused' = unused \cup {j}
  /\ UNCHANGED <<converter, saved, memory, up, told>>

Authorize(j) ==
  /\ up
  /\ status[j] = "awaiting_authorization"
  /\ j \in unused
  /\ Write(j, "queued")
  /\ unused' = unused \ {j}
  /\ Await(j, "scheduled")
  /\ UNCHANGED <<converter, saved, import, cancelled, request, up, told>>

-----------------------------------------------------------------------------
(* The coroutine of a job.                                                 *)

Fail(j) ==
  /\ End(j, "failed")
  /\ unused' = unused \ {j}
  /\ Await(j, "none")

FindNoConverter(j) ==
  /\ task[j] = "scheduled"
  /\ Fail(j)
  /\ UNCHANGED <<converter, saved, import, cancelled, request, up, started>>

StartConverter(j) ==
  /\ task[j] = "scheduled"
  /\ Write(j, "running")
  /\ Await(j, "starting")
  /\ UNCHANGED <<unused, converter, saved, import, cancelled, request, up, told>>

FailStart(j) ==
  /\ task[j] = "starting"
  /\ Fail(j)
  /\ UNCHANGED <<converter, saved, import, cancelled, request, up, started>>

\* The body of the loop, while the converter has no return code.  If the output
\* cannot be looked at, the job fails and its converter goes on.
Look(j) ==
  \/ /\ \/ j \in cancelled /\ Await(j, "killing cancelled")
        \/ j \notin cancelled /\ Await(j, "killing limited")
        \/ j \notin cancelled /\ Await(j, "polling")
     /\ UNCHANGED <<status, unused, outcomes>>
  \/ j \notin cancelled /\ Fail(j)

WatchConverter(j) ==
  /\ task[j] = "starting"
  /\ converter' = [converter EXCEPT ![j] = "running"]
  /\ started' = [started EXCEPT ![j] = @ + 1]
  /\ Look(j)
  /\ UNCHANGED <<saved, import, cancelled, request, up>>

PollConverter(j) ==
  /\ task[j] = "polling"
  /\ converter[j] \in Alive
  /\ Look(j)
  /\ UNCHANGED <<converter, saved, import, cancelled, request, up, started>>

\* What _kill_process_tree awaits has happened, or its last timeout.
EndKilled(j) ==
  /\ \/ /\ task[j] = "killing cancelled"
        /\ Await(j, "none")
        /\ UNCHANGED <<status, unused, outcomes>>
     \/ task[j] = "killing limited" /\ Fail(j)
  /\ converter[j] # "running"
  /\ UNCHANGED <<converter, saved, import, cancelled, request, up, started>>

SeeExit(j) ==
  /\ task[j] = "polling"
  /\ converter[j] \notin Alive
  /\ \/ /\ j \in cancelled
        /\ Await(j, "none")
        /\ UNCHANGED <<status, unused, import, outcomes>>
     \/ /\ j \notin cancelled
        /\ Fail(j)
        /\ UNCHANGED import
     \/ /\ j \notin cancelled
        /\ converter[j] = "exited"
        /\ Write(j, "running")
        /\ Await(j, "importing")
        /\ import' = [import EXCEPT ![j] = "busy"]
        /\ UNCHANGED <<unused, outcomes>>
  /\ UNCHANGED <<converter, saved, cancelled, request, up, started>>

SucceedUnasked(j) ==  \* does not look for a cancellation again
  /\ task[j] = "importing"
  /\ import[j] = "done"
  /\ Await(j, "none")
  /\ End(j, "succeeded")
  /\ import' = [import EXCEPT ![j] = "none"]
  /\ UNCHANGED <<unused, converter, saved, cancelled, request, up, started>>

SeeImported(j) ==
  /\ task[j] = "importing"
  /\ import[j] = "done"
  /\ Await(j, "none")
  /\ IF j \in cancelled THEN UNCHANGED <<status, outcomes>> ELSE End(j, "succeeded")
  /\ import' = [import EXCEPT ![j] = "none"]
  /\ UNCHANGED <<unused, converter, saved, cancelled, request, up, started>>

SeeImportFailed(j) ==
  /\ task[j] = "importing"
  /\ import[j] = "failed"
  /\ Fail(j)
  /\ import' = [import EXCEPT ![j] = "none"]
  /\ UNCHANGED <<converter, saved, cancelled, request, up, started>>

-----------------------------------------------------------------------------
(* import_trusted_package, on its thread: one artifact after another.      *)

SaveArtifact(j) ==
  /\ import[j] = "busy"
  /\ saved[j] < Datasets
  /\ saved' = [saved EXCEPT ![j] = @ + 1]
  /\ UNCHANGED <<status, unused, converter, memory, up, told>>

EndImport(j) ==
  /\ import[j] = "busy"
  /\ \/ saved[j] = Datasets /\ import' = [import EXCEPT ![j] = "done"]
     \/ import' = [import EXCEPT ![j] = "failed"]
  /\ UNCHANGED <<status, unused, converter, saved, task, cancelled, request, up, told>>

-----------------------------------------------------------------------------
(* Requests to cancel.                                                     *)

WriteCancelledOnly(j) ==  \* leaves the authorization
  /\ End(j, "cancelled")
  /\ UNCHANGED unused

WriteCancelled(j) ==
  /\ End(j, "cancelled")
  /\ unused' = unused \ {j}

\* The converter is registered while the coroutine watches or kills it.
Registered(j) == task[j] \in {"polling", "killing cancelled", "killing limited"}

Cancellable(j) == status[j] \notin {"none"} \cup Terminal

Cancel(r, j) ==
  /\ up
  /\ request[r] = NoJob
  /\ Cancellable(j)
  /\ cancelled' = cancelled \cup {j}
  /\ IF Registered(j) /\ converter[j] \in Alive
     THEN request' = [request EXCEPT ![r] = j] /\ UNCHANGED <<status, unused, outcomes>>
     ELSE WriteCancelled(j) /\ UNCHANGED request
  /\ UNCHANGED <<converter, saved, task, import, up, started>>

EndCancel(r) ==
  /\ request[r] # NoJob
  /\ converter[request[r]] # "running"
  /\ WriteCancelled(request[r])
  /\ request' = [request EXCEPT ![r] = NoJob]
  /\ UNCHANGED <<converter, saved, task, import, cancelled, up, started>>

-----------------------------------------------------------------------------
(* The converter: it exits by itself, of SIGTERM, or of SIGKILL later on.  *)

Exit(j) ==
  /\ converter[j] = "running"
  /\ \E outcome \in {"exited", "dead"} :
       converter' = [converter EXCEPT ![j] = outcome]
  /\ UNCHANGED <<status, unused, saved, memory, up, told>>

Killing(j) ==
  \/ task[j] \in {"killing cancelled", "killing limited"}
  \/ \E r \in Requests : request[r] = j

Kill(j) ==
  /\ Killing(j)
  /\ converter[j] = "running"
  /\ \E outcome \in {"dead", "killed"} :
       converter' = [converter EXCEPT ![j] = outcome]
  /\ UNCHANGED <<status, unused, saved, memory, up, told>>

Die(j) ==
  /\ converter[j] = "killed"
  /\ converter' = [converter EXCEPT ![j] = "dead"]
  /\ UNCHANGED <<status, unused, saved, memory, up, told>>

-----------------------------------------------------------------------------
(* The API dies, or is stopped, and starts again.                          *)

ConversionCrash ==
  /\ up
  /\ up' = FALSE
  /\ task' = [j \in Jobs |-> "none"]
  /\ import' = [j \in Jobs |-> "none"]
  /\ cancelled' = {}
  /\ request' = [r \in Requests |-> NoJob]
  /\ UNCHANGED <<status, unused, converter, saved, told>>

InterruptedRunning == {j \in Jobs : status[j] = "running"}  \* forgets the queued ones

Interrupted == {j \in Jobs : status[j] \in Unfinished}

MarkInterruptedAwaiting ==  \* lets them be authorized again
  /\ ~up
  /\ up' = TRUE
  /\ status' = [j \in Jobs |-> IF j \in Interrupted THEN "awaiting_authorization" ELSE status[j]]
  /\ unused' = unused \cup Interrupted
  /\ UNCHANGED <<converter, saved, memory, told>>

MarkInterruptedJobs ==
  /\ ~up
  /\ up' = TRUE
  /\ status' = [j \in Jobs |-> IF j \in Interrupted THEN "failed" ELSE status[j]]
  /\ outcomes' = [j \in Jobs |->
                    IF j \in Interrupted THEN outcomes[j] \cup {"failed"} ELSE outcomes[j]]
  /\ unused' = unused \ Interrupted
  /\ UNCHANGED <<converter, saved, memory, started>>

Run(j) ==
  \/ FindNoConverter(j)
  \/ StartConverter(j)
  \/ FailStart(j)
  \/ WatchConverter(j)
  \/ PollConverter(j)
  \/ EndKilled(j)
  \/ SeeExit(j)
  \/ SeeImported(j)
  \/ SeeImportFailed(j)

Thread(j) == SaveArtifact(j) \/ EndImport(j)

ConversionNext ==
  \/ \E j \in Jobs :
       \/ InspectLocal(j)
       \/ Authorize(j)
       \/ Run(j)
       \/ Thread(j)
       \/ Exit(j)
       \/ Kill(j)
       \/ Die(j)
  \/ \E r \in Requests, j \in Jobs : Cancel(r, j)
  \/ \E r \in Requests : EndCancel(r)
  \/ ConversionCrash
  \/ MarkInterruptedJobs

ConversionSpec == ConversionInit /\ [][ConversionNext]_conversionVars

\* The limit of time is reached if nothing else ends the polling.
PollLimited(j) == PollConverter(j) /\ task'[j] # "polling"

ConversionFairness ==
  /\ \A j \in Jobs :
       /\ WF_conversionVars(Run(j))
       /\ WF_conversionVars(PollLimited(j))
       /\ WF_conversionVars(Thread(j))
       /\ WF_conversionVars(Kill(j))
       /\ WF_conversionVars(Die(j))
  /\ \A r \in Requests : WF_conversionVars(EndCancel(r))
  /\ WF_conversionVars(MarkInterruptedJobs)

-----------------------------------------------------------------------------
(* Every variable holds what the code may put there; a job is authorized   *)
(* only while it waits for that, and a thread imports only what a          *)
(* coroutine waits for.                                                    *)
ConversionTypeOK ==
  /\ status \in [Jobs -> {"none", "awaiting_authorization"} \cup Unfinished \cup Terminal]
  /\ unused = {j \in Jobs : status[j] = "awaiting_authorization"}
  /\ task \in [Jobs -> {"none", "scheduled", "starting", "polling", "importing",
                        "killing cancelled", "killing limited"}]
  /\ converter \in [Jobs -> {"none", "exited", "dead"} \cup Alive]
  /\ import \in [Jobs -> {"none", "busy", "done", "failed"}]
  /\ \A j \in Jobs : import[j] # "none" <=> task[j] = "importing"
  /\ saved \in [Jobs -> 0 .. Datasets]
  /\ cancelled \subseteq Jobs
  /\ request \in [Requests -> Jobs \cup {NoJob}]
  /\ up \in BOOLEAN
  /\ outcomes \in [Jobs -> SUBSET Terminal]
  /\ started \in [Jobs -> Nat]

(* The converter, which loads pickles, is started at most once for an      *)
(* authorization, also if it is cancelled or the API restarted             *)
(* (authorize: AUTHORIZATION_ALREADY_USED).                                *)
StartedOnce ==
  \A j \in Jobs :
    started[j] + (IF task[j] \in {"scheduled", "starting"} THEN 1 ELSE 0) <= 1

(* A job that succeeds has ended in no other way before and stays         *)
(* succeeded, whatever requests to cancel it are still on their way; all   *)
(* its datasets are registered (cancel, and _run, which looks again after  *)
(* every await).  Cancelled and failed jobs may change into each other.    *)
SuccessIsFinal ==
  \A j \in Jobs :
    "succeeded" \in outcomes[j] => outcomes[j] = {"succeeded"} /\ saved[j] = Datasets

(* A job that is reported as queued or running ends unless it is cancelled, *)
(* also if the API is restarted (mark_interrupted_jobs: "make that state   *)
(* explicit"); and the converter of a cancelled job ends, even if it was   *)
(* only being started, unless the API dies (cancel, _run).                 *)
ConversionsEnd ==
  \A j \in Jobs :
    /\ status[j] \in Unfinished ~> status[j] \in Terminal \/ j \in cancelled
    /\ j \in cancelled ~> (task[j] = "none" /\ converter[j] \notin Alive) \/ ~up

\* The jobs that have all their datasets when they are told to.
Converted == {j \in Jobs : status[j] = "succeeded" /\ saved[j] = Datasets}

Conversions == INSTANCE JobOutcomes
               WITH States <- {"none", "awaiting_authorization"} \cup Unfinished \cup Terminal,
                    Final <- {"succeeded"}, Successful <- {"succeeded"},
                    state <- status, results <- Converted

(* A job that succeeded stays succeeded, and has its datasets from that    *)
(* moment on (_run, cancel, mark_interrupted_jobs).                        *)
ConversionsKeepOutcomes == Conversions!Spec

=============================================================================

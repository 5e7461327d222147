------------------------------ MODULE ResearchJobs ------------------------------
(***************************************************************************)
(* The registrations of uploaded graphs and the runs of the research model *)
(* (ResearchServingRuntime of                                              *)
(* packages/gfm/src/socialgraph_gfm/research/service.py).                  *)
(*                                                                         *)
(* Both are answered at once and done by one worker, in turn.  The files   *)
(* of a job (request, result and status) are written one by one; the queue *)
(* of the worker is in memory.  When the process starts again it fails the *)
(* runs it finds unfinished and queues the unfinished registrations again. *)
(* A job is identified by its request, so that asking for it again is      *)
(* answered by what became of it.                                          *)
(*                                                                         *)
(* Abstractions: the model does not change; a registration publishes, for  *)
(* its graph, a directory of the cache and the index that names it; runs   *)
(* are those of uploaded graphs.                                           *)
(***************************************************************************)
EXTENDS Naturals, SequencesExt

CONSTANTS
  Graphs,
  Questions, \* that a run asks of a graph
  NoJob

VARIABLES
  status,    \* of every job, that its status file tells
  results,   \* the jobs whose result file is written
  cache,     \* the graphs whose embeddings are in the cache
  index,     \* the graphs whose cache is found
  queue,     \* of the worker
  worker,    \* the job it does and its next step
  serving,   \* the process serves
  swallowed  \* the jobs that failed without the status telling it

jobVars == <<status, results, cache, index, queue, worker, serving, swallowed>>
published == <<results, cache, index>>

RunJobs == Graphs \X Questions
Jobs == Graphs \cup RunJobs

ASSUME JobsAssumption == IsFiniteSet(Graphs) /\ NoJob \notin Jobs

AtRest == [job |-> NoJob, next |-> "take"]
Pending == {"queued", "running"}
Succeeded(job) == IF job \in Graphs THEN "ready" ELSE "succeeded"
Final == {"ready", "succeeded", "failed"}

TellJob(job, s) == status' = [status EXCEPT ![job] = s]

Step(next) == worker' = [worker EXCEPT !.next = next]

JobsInit ==
  /\ status = [job \in Jobs |-> "none"]
  /\ results = {}
  /\ cache = {}
  /\ index = {}
  /\ queue = <<>>
  /\ worker = AtRest
  /\ serving = TRUE
  /\ swallowed = {}

-----------------------------------------------------------------------------
(* Requests, under the lock of the states.                                 *)

Queue(job) ==
  /\ serving
  /\ status[job] = "none"
  /\ TellJob(job, "queued")
  /\ queue' = Append(queue, job)
  /\ UNCHANGED <<published, worker, serving, swallowed>>

RegisterGraph(g) == Queue(g)

CreateRun(r) ==
  /\ r[1] \in index
  /\ Queue(r)

-----------------------------------------------------------------------------
(* The worker: _execute_registration and _execute_run.                     *)

Take ==
  /\ serving
  /\ worker = AtRest
  /\ queue # <<>>
  /\ worker' = [job |-> Head(queue), next |-> "start"]
  /\ queue' = Tail(queue)
  /\ UNCHANGED <<status, published, serving, swallowed>>

StartAtIndex ==  \* publishes the index before the cache
  /\ worker.next = "start"
  /\ TellJob(worker.job, "running")
  /\ Step(IF worker.job \in Graphs THEN "index" ELSE "write result")
  /\ UNCHANGED <<published, queue, serving, swallowed>>

StartJob ==
  /\ worker.next = "start"
  /\ TellJob(worker.job, "running")
  /\ Step(IF worker.job \in Graphs THEN "cache" ELSE "write result")
  /\ UNCHANGED <<published, queue, serving, swallowed>>

\* A directory that an earlier attempt has published is kept.
PublishCache ==
  /\ worker.next = "cache"
  /\ cache' = cache \cup {worker.job}
  /\ Step("index")
  /\ UNCHANGED <<status, results, index, queue, serving, swallowed>>

PublishIndex ==
  /\ worker.next = "index"
  /\ index' = index \cup {worker.job}
  /\ Step("write result")
  /\ UNCHANGED <<status, results, cache, queue, serving, swallowed>>

WriteJobResult ==
  /\ worker.next = "write result"
  /\ results' = results \cup {worker.job}
  /\ Step("succeed")
  /\ UNCHANGED <<status, cache, index, queue, serving, swallowed>>

SucceedJob ==
  /\ worker.next = "succeed"
  /\ TellJob(worker.job, Succeeded(worker.job))
  /\ worker' = AtRest
  /\ UNCHANGED <<published, queue, serving, swallowed>>

RaiseJob ==
  /\ worker.next \notin {"take", "fail"}
  /\ Step("fail")
  /\ UNCHANGED <<status, published, queue, serving, swallowed>>

\* An error of this write is swallowed.
FailJob ==
  /\ worker.next = "fail"
  /\ \/ TellJob(worker.job, "failed") /\ UNCHANGED swallowed
     \/ swallowed' = swallowed \cup {worker.job} /\ UNCHANGED status
  /\ worker' = AtRest
  /\ UNCHANGED <<published, queue, serving>>

-----------------------------------------------------------------------------
(* The process dies, and starts again.                                     *)

JobsCrash ==
  /\ serving
  /\ serving' = FALSE
  /\ queue' = <<>>
  /\ worker' = AtRest
  /\ swallowed' = {}
  /\ UNCHANGED <<status, published>>

InterruptedOrFailed(jobs) ==  \* tries again what has failed, too
  {job \in jobs : status[job] \in Pending \cup {"failed"}}

Unended(jobs) == {job \in jobs : status[job] \in Pending}

\* _recover_runs
RecoverRun(r) ==
  /\ ~serving
  /\ r \in Unended(RunJobs)
  /\ TellJob(r, "failed")
  /\ UNCHANGED <<published, queue, worker, serving, swallowed>>

RecoverNothing ==  \* leaves the registrations
  /\ ~serving
  /\ Unended(RunJobs) = {}
  /\ serving' = TRUE
  /\ UNCHANGED <<status, published, queue, worker, swallowed>>

\* _recover_registrations, in any order
RecoverRegistrations ==
  /\ ~serving
  /\ Unended(RunJobs) = {}
  /\ queue' \in SetToSeqs(Unended(Graphs))
  /\ serving' = TRUE
  /\ UNCHANGED <<status, published, worker, swallowed>>

WorkOnJobs ==
  \/ Take
  \/ StartJob
  \/ PublishCache
  \/ PublishIndex
  \/ WriteJobResult
  \/ SucceedJob
  \/ RaiseJob
  \/ FailJob

RecoverJobs == RecoverRegistrations \/ \E r \in RunJobs : RecoverRun(r)

JobsNext ==
  \/ \E g \in Graphs : RegisterGraph(g)
  \/ \E r \in RunJobs : CreateRun(r)
  \/ WorkOnJobs
  \/ JobsCrash
  \/ RecoverJobs

JobsFairness == WF_jobVars(WorkOnJobs) /\ WF_jobVars(RecoverJobs)

JobsSpec == JobsInit /\ [][JobsNext]_jobVars /\ JobsFairness

-----------------------------------------------------------------------------
JobsTypeOK ==
  /\ status \in [Jobs -> {"none"} \cup Pending \cup Final]
  /\ results \subseteq Jobs
  /\ cache \subseteq Graphs /\ index \subseteq cache
  /\ queue \in Seq(Jobs)
  /\ worker.job \in Jobs \cup {NoJob}
  /\ worker.next \in {"take", "start", "cache", "index", "write result", "succeed", "fail"}
  /\ serving \in BOOLEAN
  /\ swallowed \subseteq Jobs

(* A registration or a run that is reported as pending ends, also when the *)
(* process dies, as soon as it serves again, unless the status could not   *)
(* be written (_recover_runs, _recover_registrations).                     *)
JobsEnd ==
  \A job \in Jobs :
    status[job] \in Pending ~>
      status[job] \in Final \/ job \in swallowed \/ ~serving

\* What the routes find of a job that succeeded.
Answerable ==
  {job \in results : /\ status[job] = Succeeded(job)
                     /\ job \in Graphs => job \in index \cap cache}

Research == INSTANCE JobOutcomes
            WITH States <- {"none"} \cup Pending \cup Final,
                 Successful <- {"ready", "succeeded"},
                 state <- status, results <- Answerable

(* What has ended is never changed, whenever the process died in between,  *)
(* and every later request is answered by it; the result, and the graph in *)
(* the cache, are there from the moment of success on (create_run and      *)
(* register_graph answer from the files that _execute_run and              *)
(* _execute_registration write).                                           *)
JobsKeepOutcomes == Research!Spec

=============================================================================

----------------------------- MODULE ResearchProofs -----------------------------
(***************************************************************************)
(* Proofs about ResearchJobs, PretrainRun and OpenAlexFetch, for any       *)
(* graphs and questions and any number of steps, losses, strata and rows:  *)
(* a job has one outcome, what was trained is kept and a row counts once,  *)
(* wherever their processes die.                                           *)
(*                                                                         *)
(* A job ends once because it is waiting or being done at most once, and   *)
(* only while it is reported as pending (QueueInv, WorkerInv).             *)
(*                                                                         *)
(* The progress of a training run is kept because the trainer is ahead of  *)
(* the latest checkpoint by at most the step it is saving (TrainerInv), so *)
(* that the intact latest checkpoint is never a stale one (FilesInv).      *)
(*                                                                         *)
(* The rows of the raw file count once because the resume file accounts    *)
(* for rows before its next draw only (Placed, Counted), and what a call   *)
(* leaves after them is at most the page it was at (EndsInPage).           *)
(***************************************************************************)
EXTENDS ResearchJobs, PretrainRun, OpenAlexFetch, FiniteSetTheorems,
        SequenceTheorems, TLAPS

JobPlaces == {"take", "start", "cache", "index", "write result", "succeed", "fail"}

\* A registration ends as "ready", a run as "succeeded".
JobInv(job) ==
  status[job] \in {"ready", "succeeded"} =>
    /\ status[job] = Succeeded(job)
    /\ job \in results
    /\ job \in Graphs => job \in index

QueueInv ==
  \A i \in 1..Len(queue) :
    /\ status[queue[i]] \in Pending
    /\ queue[i] # worker.job
    /\ \A j \in 1..Len(queue) : queue[i] = queue[j] => i = j

WorkerInv ==
  /\ worker \in [job : Jobs \cup {NoJob}, next : JobPlaces]
  /\ worker # AtRest =>
       worker.job \in Jobs /\ worker.next # "take" /\ status[worker.job] \in Pending
  /\ worker.next \in {"cache", "index"} => worker.job \in Graphs
  /\ worker.next = "index" => worker.job \in cache
  /\ worker.next \in {"write result", "succeed"} /\ worker.job \in Graphs =>
       worker.job \in index
  /\ worker.next = "succeed" => worker.job \in results
  /\ ~serving => queue = <<>> /\ worker = AtRest

JobsInv ==
  /\ JobsTypeOK
  /\ WorkerInv
  /\ QueueInv
  /\ \A job \in Jobs : JobInv(job)

\* The steps whose checkpoint was a new best one.
BestSteps == {s \in Steps : BestStep(s) = s}

Places == {"down", "probe", "train", "artifact", "manifest", "retain", "finish",
           "register", "succeed"}
Saving == {"artifact", "manifest", "retain"}

TrainerInv ==
  /\ trainer \in [role : Roles \cup {"none"}, next : Places]
  /\ trainer.role # "none" <=> trainer.next \in Saving
  /\ trainer.role # "none" => step \in Steps
  /\ trainer.next = "probe" => reached = 0 /\ step = 0 /\ best = NoStep
  /\ trainer.next \in {"train", "finish", "register", "succeed"} => step = reached
  /\ trainer.role = "recovery" => step = reached + 1 /\ OfRole("latest") # {}
  /\ trainer.role = "latest" =>
       step = IF trainer.next = "retain" THEN reached ELSE reached + 1
  /\ trainer.role = "best" => step = reached /\ step \in BestSteps
  /\ trainer.role = "best" /\ trainer.next = "retain" =>
       best = step /\ <<"best", step>> \in Intact
  /\ trainer.next = "manifest" => Saved \in artifacts

FilesInv ==
  /\ \A c \in manifests : c[2] <= reached
  /\ \A c \in OfRole("best") : c[2] \in BestSteps
  /\ reached > 0 => <<"latest", reached>> \in Intact
  /\ trainer.next # "down" /\ best # NoStep =>
       <<"best", best>> \in Intact /\ best \in BestSteps

RunInv ==
  /\ runState = "absent" => trainer.next = "down" /\ reached = 0
  /\ trainer.next \in Places \ {"down", "probe"} => runState = "running"
  /\ trainer.next \in {"register", "succeed"} => manifest /\ best # NoStep
  /\ trainer.next = "succeed" => registered # NoStep
  /\ runState = "succeeded" => registered # NoStep
  /\ registered # NoStep =>
       /\ runState \in {"running", "succeeded"}
       /\ trainer.next \in {"down", "succeed"}
       /\ manifest
       /\ <<"best", registered>> \in Intact
       /\ registered \in BestSteps

TrainInv ==
  /\ TrainTypeOK
  /\ TrainerInv
  /\ FilesInv
  /\ RunInv

-----------------------------------------------------------------------------
(* The jobs.                                                               *)

LEMMA JobsInitInv == JobsAssumption => (JobsInit => JobsInv)
<1> SUFFICES ASSUME JobsAssumption, JobsInit PROVE JobsInv
  OBVIOUS
<1>1. JobsTypeOK
  BY DEF JobsInit, JobsTypeOK, AtRest
<1>2. WorkerInv
  BY DEF JobsInit, WorkerInv, AtRest, JobPlaces
<1>3. QueueInv
  BY DEF JobsInit, QueueInv
<1>4. \A job \in Jobs : JobInv(job)
  BY DEF JobsInit, JobInv
<1> QED
  BY <1>1, <1>2, <1>3, <1>4 DEF JobsInv

\* What telling the status of a job changes.
LEMMA Told ==
  ASSUME JobsInv, NEW job \in Jobs, NEW s \in {"none"} \cup Pending \cup Final,
         TellJob(job, s)
  PROVE  /\ status' \in [Jobs -> {"none"} \cup Pending \cup Final]
         /\ status'[job] = s
         /\ \A other \in Jobs \ {job} : status'[other] = status[other]
<1>1. status \in [Jobs -> {"none"} \cup Pending \cup Final]
  BY DEF JobsInv, JobsTypeOK
<1> QED
  BY <1>1 DEF TellJob

LEMMA QueuedIsJob ==
  ASSUME JobsInv
  PROVE  \A i \in 1..Len(queue) : queue[i] \in Jobs
<1>1. queue \in Seq(Jobs)
  BY DEF JobsInv, JobsTypeOK
<1> QED
  BY <1>1

LEMMA QueueKeeps ==
  ASSUME JobsAssumption, JobsInv, NEW job \in Jobs, Queue(job)
  PROVE  JobsInv'
<1>1. /\ status[job] = "none" /\ TellJob(job, "queued") /\ serving
      /\ queue' = Append(queue, job)
      /\ UNCHANGED <<results, cache, index, worker, serving, swallowed>>
  BY DEF Queue, published
<1>2. /\ status' \in [Jobs -> {"none"} \cup Pending \cup Final]
      /\ status'[job] = "queued"
      /\ \A other \in Jobs \ {job} : status'[other] = status[other]
  BY <1>1, Told DEF Pending
<1>3. JobsTypeOK'
  <2>1. queue' \in Seq(Jobs)
    <3>1. queue \in Seq(Jobs)
      BY DEF JobsInv, JobsTypeOK
    <3> QED
      BY <1>1, <3>1
  <2> QED
    BY <1>1, <1>2, <2>1 DEF JobsInv, JobsTypeOK
<1>4. WorkerInv'
  BY <1>1, <1>2 DEF JobsInv, JobsTypeOK, WorkerInv, Pending
<1>5. QueueInv'
  <2>1. queue \in Seq(Jobs)
    BY DEF JobsInv, JobsTypeOK
  <2>2. \A i \in 1..Len(queue) : queue[i] \in Jobs /\ queue[i] # job
    BY <1>1, <2>1 DEF JobsInv, QueueInv, Pending
  <2>3. worker.job # job
    <3>1. CASE worker = AtRest
      BY <3>1 DEF AtRest, JobsAssumption
    <3>2. CASE worker # AtRest
      BY <1>1, <3>2 DEF JobsInv, WorkerInv, Pending
    <3> QED
      BY <3>1, <3>2
  <2>4. /\ Len(queue') = Len(queue) + 1
        /\ \A i \in 1..Len(queue) : queue'[i] = queue[i]
        /\ queue'[Len(queue) + 1] = job
    BY <1>1, <2>1
  <2> SUFFICES ASSUME NEW i \in 1..(Len(queue) + 1)
               PROVE  /\ status'[queue'[i]] \in Pending
                      /\ queue'[i] # worker.job
                      /\ \A j \in 1..(Len(queue) + 1) : queue'[i] = queue'[j] => i = j
    BY <1>1, <2>4 DEF QueueInv
  <2>5. Len(queue) \in Nat
    BY <2>1
  <2> QED
    BY <1>2, <2>2, <2>3, <2>4, <2>5 DEF JobsInv, QueueInv, Pending
<1>6. ASSUME NEW other \in Jobs
      PROVE  JobInv(other)'
  BY <1>1, <1>2 DEF JobsInv, JobInv
<1> QED
  BY <1>3, <1>4, <1>5, <1>6 DEF JobsInv

LEMMA TakeKeeps ==
  ASSUME JobsAssumption, JobsInv, Take
  PROVE  JobsInv'
<1>1. /\ serving /\ worker = AtRest /\ queue # <<>>
      /\ worker' = [job |-> Head(queue), next |-> "start"]
      /\ queue' = Tail(queue)
      /\ UNCHANGED <<status, results, cache, index, serving, swallowed>>
  BY DEF Take, published
<1>2. queue \in Seq(Jobs)
  BY DEF JobsInv, JobsTypeOK
<1>3. /\ Head(queue) = queue[1] /\ Head(queue) \in Jobs
      /\ queue' \in Seq(Jobs) /\ Len(queue') = Len(queue) - 1 /\ Len(queue) \in Nat \ {0}
      /\ \A i \in 1..Len(queue') : queue'[i] = queue[i + 1]
  BY <1>1, <1>2
<1>4. status[Head(queue)] \in Pending
  BY <1>3 DEF JobsInv, QueueInv
<1>5. worker'.job = Head(queue) /\ worker'.next = "start"
  BY <1>1
<1>6. JobsTypeOK'
  BY <1>1, <1>3, <1>5 DEF JobsInv, JobsTypeOK
<1>7. WorkerInv'
  BY <1>1, <1>3, <1>4, <1>5 DEF JobsInv, WorkerInv, AtRest, JobPlaces
<1>8. QueueInv'
  <2> SUFFICES ASSUME NEW i \in 1..Len(queue')
               PROVE  /\ status[queue'[i]] \in Pending
                      /\ queue'[i] # Head(queue)
                      /\ \A j \in 1..Len(queue') : queue'[i] = queue'[j] => i = j
    BY <1>1, <1>5 DEF QueueInv
  <2>1. i \in Nat /\ i + 1 \in 1..Len(queue) /\ i + 1 # 1 /\ 1 \in 1..Len(queue)
    BY <1>3
  <2>2. status[queue'[i]] \in Pending /\ queue'[i] # Head(queue)
    BY <1>3, <2>1 DEF JobsInv, QueueInv
  <2>3. ASSUME NEW j \in 1..Len(queue'), queue'[i] = queue'[j]
        PROVE  i = j
    <3>1. j \in Nat /\ j + 1 \in 1..Len(queue) /\ queue[i + 1] = queue[j + 1]
      BY <1>3, <2>3
    <3>2. i + 1 = j + 1
      BY <2>1, <3>1 DEF JobsInv, QueueInv
    <3> QED
      BY <2>1, <3>1, <3>2
  <2> QED
    BY <2>2, <2>3
<1>9. \A job \in Jobs : JobInv(job)'
  BY <1>1 DEF JobsInv, JobInv
<1> QED
  BY <1>6, <1>7, <1>8, <1>9 DEF JobsInv

\* The worker goes on with its job, which is still pending.
LEMMA GoesOn ==
  ASSUME JobsAssumption, JobsInv, worker # AtRest, NEW place \in JobPlaces \ {"take"},
         worker' = [worker EXCEPT !.next = place],
         results \subseteq results', results' \subseteq Jobs,
         cache \subseteq cache', cache' \subseteq Graphs,
         index \subseteq index', index' \subseteq cache',
         UNCHANGED <<queue, serving, swallowed>>,
         \/ UNCHANGED status
         \/ TellJob(worker.job, "running"),
         place \in {"cache", "index"} => worker.job \in Graphs,
         place = "index" => worker.job \in cache',
         place \in {"write result", "succeed"} /\ worker.job \in Graphs =>
           worker.job \in index',
         place = "succeed" => worker.job \in results'
  PROVE  JobsInv'
<1>1. /\ worker.job \in Jobs /\ status[worker.job] \in Pending
      /\ worker \in [job : Jobs \cup {NoJob}, next : JobPlaces]
  BY DEF JobsInv, WorkerInv
<1>2. worker'.job = worker.job /\ worker'.next = place
      /\ worker' \in [job : Jobs \cup {NoJob}, next : JobPlaces]
  BY <1>1
<1>3. /\ status' \in [Jobs -> {"none"} \cup Pending \cup Final]
      /\ status'[worker.job] \in Pending
      /\ \A other \in Jobs \ {worker.job} : status'[other] = status[other]
  <2>1. CASE UNCHANGED status
    BY <1>1, <2>1 DEF JobsInv, JobsTypeOK
  <2>2. CASE TellJob(worker.job, "running")
    BY <1>1, <2>2, Told DEF Pending
  <2> QED
    BY <2>1, <2>2
<1>4. JobsTypeOK'
  BY <1>2, <1>3 DEF JobsInv, JobsTypeOK, JobPlaces
<1>5. WorkerInv'
  <2>1. serving
    BY DEF JobsInv, WorkerInv
  <2> QED
    BY <1>1, <1>2, <1>3, <2>1 DEF WorkerInv, AtRest
<1>6. QueueInv'
  <2>1. \A i \in 1..Len(queue) : queue[i] \in Jobs \ {worker.job}
    BY QueuedIsJob DEF JobsInv, QueueInv
  <2> QED
    BY <1>2, <1>3, <2>1 DEF JobsInv, QueueInv
<1>7. ASSUME NEW job \in Jobs
      PROVE  JobInv(job)'
  BY <1>3 DEF JobsInv, JobInv, Pending
<1> QED
  BY <1>4, <1>5, <1>6, <1>7 DEF JobsInv

\* The worker is done with its job.
LEMMA Rests ==
  ASSUME JobsAssumption, JobsInv, worker # AtRest, worker' = AtRest,
         UNCHANGED <<results, cache, index, queue, serving>>,
         swallowed' \subseteq Jobs,
         \/ UNCHANGED status
         \/ TellJob(worker.job, "failed")
         \/ /\ TellJob(worker.job, Succeeded(worker.job))
            /\ worker.next = "succeed"
  PROVE  JobsInv'
<1>1. /\ worker.job \in Jobs /\ status[worker.job] \in Pending /\ serving
      /\ worker.next = "succeed" => worker.job \in results
      /\ worker.next = "succeed" /\ worker.job \in Graphs => worker.job \in index
  BY DEF JobsInv, WorkerInv
<1>2. worker'.job = NoJob /\ worker'.next = "take"
  BY DEF AtRest
<1>3. /\ status' \in [Jobs -> {"none"} \cup Pending \cup Final]
      /\ \A job \in {worker.job} : JobInv(job)'
      /\ \A other \in Jobs \ {worker.job} : status'[other] = status[other]
  <2>1. CASE UNCHANGED status
    BY <1>1, <2>1 DEF JobsInv, JobsTypeOK, JobInv
  <2>2. CASE TellJob(worker.job, "failed")
    <3>1. /\ status' \in [Jobs -> {"none"} \cup Pending \cup Final]
          /\ status'[worker.job] = "failed"
          /\ \A other \in Jobs \ {worker.job} : status'[other] = status[other]
      BY <1>1, <2>2, Told DEF Final
    <3> QED
      BY <3>1 DEF JobInv
  <2>3. CASE /\ TellJob(worker.job, Succeeded(worker.job))
             /\ worker.next = "succeed"
    <3>1. Succeeded(worker.job) \in Final
      BY DEF Succeeded, Final
    <3>2. /\ status' \in [Jobs -> {"none"} \cup Pending \cup Final]
          /\ status'[worker.job] = Succeeded(worker.job)
          /\ \A other \in Jobs \ {worker.job} : status'[other] = status[other]
      BY <1>1, <2>3, <3>1, Told
    <3> QED
      BY <1>1, <2>3, <3>2 DEF JobInv
  <2> QED
    BY <2>1, <2>2, <2>3
<1>4. JobsTypeOK'
  BY <1>2, <1>3 DEF JobsInv, JobsTypeOK
<1>5. WorkerInv'
  BY <1>1, <1>2 DEF WorkerInv, AtRest, JobPlaces
<1>6. QueueInv'
  <2>1. \A i \in 1..Len(queue) : queue[i] \in Jobs \ {worker.job} /\ queue[i] # NoJob
    BY QueuedIsJob DEF JobsInv, QueueInv, JobsAssumption
  <2> QED
    BY <1>2, <1>3, <2>1 DEF JobsInv, QueueInv
<1>7. ASSUME NEW job \in Jobs
      PROVE  JobInv(job)'
  BY <1>3 DEF JobsInv, JobInv
<1> QED
  BY <1>4, <1>5, <1>6, <1>7 DEF JobsInv

LEMMA WorkKeeps ==
  ASSUME JobsAssumption, JobsInv, WorkOnJobs
  PROVE  JobsInv'
<1> USE DEF published
<1>1. worker.next # "take" => worker # AtRest
  BY DEF AtRest
<1>2. CASE StartJob
  <2>1. PICK place \in {"cache", "write result"} :
           /\ Step(place)
           /\ place = "cache" <=> worker.job \in Graphs
    BY <1>2 DEF StartJob
  <2> QED
    BY <1>1, <1>2, <2>1, GoesOn DEF StartJob, Step, JobPlaces, JobsInv, JobsTypeOK
<1>3. CASE PublishCache
  BY <1>1, <1>3, GoesOn DEF PublishCache, Step, JobPlaces, JobsInv, JobsTypeOK, WorkerInv
<1>4. CASE PublishIndex
  BY <1>1, <1>4, GoesOn DEF PublishIndex, Step, JobPlaces, JobsInv, JobsTypeOK, WorkerInv
<1>5. CASE WriteJobResult
  BY <1>1, <1>5, GoesOn DEF WriteJobResult, Step, JobPlaces, JobsInv, JobsTypeOK, WorkerInv
<1>6. CASE SucceedJob
  BY <1>1, <1>6, Rests DEF SucceedJob, JobsInv, JobsTypeOK
<1>7. CASE RaiseJob
  BY <1>1, <1>7, GoesOn DEF RaiseJob, Step, JobPlaces, JobsInv, JobsTypeOK
<1>8. CASE FailJob
  <2>1. worker.job \in Jobs
    BY <1>1, <1>8 DEF FailJob, JobsInv, WorkerInv
  <2> QED
    BY <1>1, <1>8, <2>1, Rests DEF FailJob, JobsInv, JobsTypeOK
<1> QED
  BY <1>2, <1>3, <1>4, <1>5, <1>6, <1>7, <1>8, TakeKeeps DEF WorkOnJobs

LEMMA CrashKeeps ==
  ASSUME JobsAssumption, JobsInv, JobsCrash
  PROVE  JobsInv'
<1>1. /\ serving' = FALSE /\ queue' = <<>> /\ worker' = AtRest /\ swallowed' = {}
      /\ UNCHANGED <<status, results, cache, index>>
  BY DEF JobsCrash, published
<1>2. JobsTypeOK'
  <2>1. queue' \in Seq(Jobs)
    BY <1>1
  <2> QED
    BY <1>1, <2>1 DEF JobsInv, JobsTypeOK, AtRest
<1>3. WorkerInv'
  BY <1>1 DEF WorkerInv, AtRest, JobPlaces
<1>4. QueueInv'
  BY <1>1 DEF QueueInv
<1> QED
  BY <1>1, <1>2, <1>3, <1>4 DEF JobsInv, JobInv

LEMMA RecoverRunKeeps ==
  ASSUME JobsAssumption, JobsInv, NEW r \in RunJobs, RecoverRun(r)
  PROVE  JobsInv'
<1>1. /\ ~serving /\ status[r] \in Pending /\ r \in Jobs /\ TellJob(r, "failed")
      /\ UNCHANGED <<results, cache, index, queue, worker, serving, swallowed>>
  BY DEF RecoverRun, Unended, published, Jobs
<1>2. queue = <<>> /\ worker = AtRest
  BY <1>1 DEF JobsInv, WorkerInv
<1>3. /\ status' \in [Jobs -> {"none"} \cup Pending \cup Final]
      /\ status'[r] = "failed"
      /\ \A other \in Jobs \ {r} : status'[other] = status[other]
  BY <1>1, Told DEF Final
<1>4. JobsTypeOK'
  BY <1>1, <1>3 DEF JobsInv, JobsTypeOK
<1>5. WorkerInv' /\ QueueInv'
  BY <1>1, <1>2 DEF JobsInv, WorkerInv, QueueInv, AtRest
<1>6. ASSUME NEW job \in Jobs
      PROVE  JobInv(job)'
  BY <1>1, <1>3 DEF JobsInv, JobInv
<1> QED
  BY <1>4, <1>5, <1>6 DEF JobsInv

LEMMA RecoverRegistrationsKeeps ==
  ASSUME JobsAssumption, JobsInv, RecoverRegistrations
  PROVE  JobsInv'
<1> DEFINE unended == Unended(Graphs)
<1>1. /\ ~serving /\ serving' = TRUE /\ queue' \in SetToSeqs(unended)
      /\ UNCHANGED <<status, results, cache, index, worker, swallowed>>
  BY DEF RecoverRegistrations, published
<1>2. worker = AtRest
  BY <1>1 DEF JobsInv, WorkerInv
<1>3. /\ unended \subseteq Jobs
      /\ \A job \in unended : status[job] \in Pending
  BY DEF Unended, Jobs
<1>4. Cardinality(unended) \in Nat
  BY FS_Subset, FS_CardinalityType DEF JobsAssumption, Unended
<1>5. /\ queue' \in [1..Cardinality(unended) -> unended]
      /\ \A i, j \in 1..Cardinality(unended) : i # j => queue'[i] # queue'[j]
  BY <1>1 DEF SetToSeqs
<1>6. queue' \in Seq(Jobs) /\ Len(queue') = Cardinality(unended)
  BY <1>3, <1>4, <1>5
<1>7. JobsTypeOK'
  BY <1>1, <1>6 DEF JobsInv, JobsTypeOK
<1>8. WorkerInv'
  BY <1>1, <1>2 DEF JobsInv, WorkerInv
<1>9. QueueInv'
  <2>1. \A i \in 1..Len(queue') : queue'[i] \in unended
    BY <1>5, <1>6
  <2>2. NoJob \notin unended
    BY <1>3 DEF JobsAssumption
  <2> QED
    BY <1>1, <1>2, <1>3, <1>5, <1>6, <2>1, <2>2 DEF QueueInv, AtRest
<1> QED
  BY <1>1, <1>7, <1>8, <1>9 DEF JobsInv, JobInv

LEMMA JobsStutter ==
  ASSUME JobsInv, UNCHANGED jobVars
  PROVE  JobsInv'
<1> USE DEF jobVars
<1>1. JobsTypeOK' /\ WorkerInv'
  BY DEF JobsInv, JobsTypeOK, WorkerInv
<1>2. QueueInv' /\ \A job \in Jobs : JobInv(job)'
  BY DEF JobsInv, QueueInv, JobInv
<1> QED
  BY <1>1, <1>2 DEF JobsInv

(* The invariant that makes the outcomes of the jobs hold: a job that is   *)
(* queued or worked on is pending, and is so once.                         *)
THEOREM JobsInductive == JobsInit /\ [][JobsNext]_jobVars => []JobsInv
<1> USE JobsAssumption
<1>1. ASSUME JobsInv, [JobsNext]_jobVars
      PROVE  JobsInv'
  <2>1. ASSUME NEW g \in Graphs, RegisterGraph(g)
        PROVE  JobsInv'
    BY <1>1, <2>1, QueueKeeps DEF RegisterGraph, Jobs
  <2>2. ASSUME NEW r \in RunJobs, CreateRun(r)
        PROVE  JobsInv'
    BY <1>1, <2>2, QueueKeeps DEF CreateRun, Jobs
  <2> QED
    BY <1>1, <2>1, <2>2, WorkKeeps, CrashKeeps, RecoverRunKeeps,
       RecoverRegistrationsKeeps, JobsStutter DEF JobsNext, RecoverJobs
<1> QED
  BY JobsInitInv, <1>1, PTL

\* Only a job that has not ended is told anything.
LEMMA ToldOnce ==
  ASSUME JobsInv, [JobsNext]_jobVars
  PROVE  \A job \in Jobs : status'[job] # status[job] => status[job] \notin Final
<1>1. ASSUME NEW job \in Jobs, NEW s, TellJob(job, s),
             status[job] \in Pending \cup {"none"}
      PROVE  \A other \in Jobs : status'[other] # status[other] => status[other] \notin Final
  BY <1>1 DEF TellJob, JobsInv, JobsTypeOK, Pending, Final
<1>2. ASSUME worker.next \notin {"take"}
      PROVE  worker.job \in Jobs /\ status[worker.job] \in Pending
  <2>1. AtRest.next = "take"
    BY DEF AtRest
  <2>2. worker # AtRest
    BY <1>2, <2>1
  <2> QED
    BY <2>2 DEF JobsInv, WorkerInv
<1>3. ASSUME NEW job \in Jobs, Queue(job)
      PROVE  \A other \in Jobs : status'[other] # status[other] => status[other] \notin Final
  BY <1>1, <1>3 DEF Queue
<1>4. CASE StartJob
  BY <1>1, <1>2, <1>4 DEF StartJob
<1>5. CASE SucceedJob
  BY <1>1, <1>2, <1>5 DEF SucceedJob
<1>6. CASE FailJob
  BY <1>1, <1>2, <1>6 DEF FailJob
<1>7. ASSUME NEW r \in RunJobs, RecoverRun(r)
      PROVE  \A other \in Jobs : status'[other] # status[other] => status[other] \notin Final
  BY <1>1, <1>7 DEF RecoverRun, Unended, Jobs
<1>8. \/ \E job \in Jobs : Queue(job)
      \/ StartJob \/ SucceedJob \/ FailJob
      \/ \E r \in RunJobs : RecoverRun(r)
      \/ UNCHANGED status
  BY DEF JobsNext, RegisterGraph, CreateRun, WorkOnJobs, Take, PublishCache, PublishIndex,
         WriteJobResult, RaiseJob, JobsCrash, RecoverJobs, RecoverRegistrations,
         jobVars, Jobs
<1> QED
  BY <1>3, <1>4, <1>5, <1>6, <1>7, <1>8

(* To those who ask for jobs the research service is one as JobOutcomes    *)
(* tells it, for any graphs and questions and any number of deaths: what   *)
(* has ended stays and answers every later request, and the result, and    *)
(* the graph in the cache, are there whenever success is told              *)
(* (_execute_registration, _execute_run, _recover_runs and                 *)
(* _recover_registrations).                                                *)
THEOREM JobsOutcomes == JobsInit /\ [][JobsNext]_jobVars => JobsKeepOutcomes
<1> USE JobsAssumption
<1>1. JobsInit => Research!Init
  BY DEF JobsInit, Research!Init, Answerable
<1>2. ASSUME JobsInv, JobsInv', [JobsNext]_jobVars
      PROVE  Research!Next
  <2> DEFINE States == {"none"} \cup Pending \cup Final
             changed == {job \in Jobs : status'[job] # status[job]}
             told == [job \in changed |-> status'[job]]
  <2>1. status \in [Jobs -> States] /\ status' \in [Jobs -> States]
    BY <1>2 DEF JobsInv, JobsTypeOK
  <2>2. \A job \in changed : status[job] \notin Final
    BY <1>2, ToldOnce
  <2>3. Answerable' = {job \in Jobs : status'[job] \in {"ready", "succeeded"}}
    <3>1. /\ \A job \in Jobs : JobInv(job)'
          /\ index' \subseteq cache' /\ results' \subseteq Jobs
      BY <1>2 DEF JobsInv, JobsTypeOK
    <3>2. \A job \in Jobs : Succeeded(job) \in {"ready", "succeeded"}
      BY DEF Succeeded
    <3> QED
      BY <3>1, <3>2 DEF JobInv, Answerable
  <2>4. status' = [job \in Jobs |-> IF job \in changed THEN told[job] ELSE status[job]]
    BY <2>1
  <2>5. changed \in SUBSET Jobs /\ told \in [changed -> States]
    BY <2>1
  <2> HIDE DEF changed, told
  <2>6. Research!Tell(changed)
    BY <2>2, <2>3, <2>4, <2>5 DEF Research!Tell
  <2> QED BY <2>5, <2>6 DEF Research!Next
<1> QED
  BY <1>1, <1>2, JobsInductive, PTL DEF JobsKeepOutcomes, Research!Spec

-----------------------------------------------------------------------------
(* The training run.                                                       *)

LEMMA TrainInitInv == ASSUME TrainAssumption PROVE TrainInit => TrainInv
<1> SUFFICES ASSUME TrainInit PROVE TrainInv
  OBVIOUS
<1>1. /\ trainer.role = "none" /\ trainer.next = "down"
      /\ trainer \in [role : Roles \cup {"none"}, next : Places]
  BY DEF TrainInit, Down, Places
<1>2. TrainTypeOK
  <2>1. 0 \in 0..MaxStep
    BY DEF TrainAssumption
  <2> QED
    BY <1>1, <2>1 DEF TrainInit, TrainTypeOK, Places
<1>3. TrainerInv
  BY <1>1 DEF TrainerInv, Saving
<1>4. FilesInv /\ RunInv
  BY <1>1 DEF TrainInit, FilesInv, RunInv, OfRole
<1> QED
  BY <1>2, <1>3, <1>4 DEF TrainInv

\* The losses are what they are.
LEMMA BestStepsStay == loss' = loss => BestSteps' = BestSteps
BY DEF BestSteps, BestStep

LEMMA SavedStays ==
  ASSUME trainer'.role = trainer.role, step' = step, manifests' = manifests
  PROVE  Saved' = Saved
<1> DEFINE copies == {<<"recovery", d[2]>> : d \in OfRole("latest")}
           copy == CHOOSE c \in copies : TRUE
<1>1. copies' = copies
  BY DEF OfRole
<1>2. copy' = copy
  <2> HIDE DEF copies
  <2> QED
    BY <1>1
<1>3. Saved = IF trainer.role = "recovery" THEN copy ELSE <<trainer.role, step>>
  BY DEF Saved
<1>4. Saved' = IF trainer'.role = "recovery" THEN copy' ELSE <<trainer'.role, step'>>
  BY DEF Saved
<1> HIDE DEF copy
<1> QED
  BY <1>2, <1>3, <1>4

\* A copy of the latest checkpoint, or a checkpoint of this step.
LEMMA SavedIs ==
  ASSUME TrainAssumption, TrainInv, trainer.role # "none"
  PROVE  /\ Saved \in Checkpoints /\ Saved[1] = trainer.role
         /\ trainer.role = "recovery" => Saved[2] <= reached
         /\ trainer.role # "recovery" => Saved = <<trainer.role, step>>
<1>1. trainer.role \in Roles /\ step \in 0..MaxStep /\ manifests \subseteq Checkpoints
  BY DEF TrainInv, TrainTypeOK, TrainerInv
<1>2. CASE trainer.role = "recovery"
  <2> DEFINE copies == {<<"recovery", d[2]>> : d \in OfRole("latest")}
  <2>1. OfRole("latest") # {}
    BY <1>2 DEF TrainInv, TrainerInv
  <2>2. copies # {}
    BY <2>1
  <2>3. Saved \in copies
    BY <1>2, <2>2 DEF Saved
  <2>4. PICK d \in OfRole("latest") : Saved = <<"recovery", d[2]>>
    BY <2>3
  <2>5. d \in manifests /\ d \in Checkpoints
    BY <1>1, <2>4 DEF OfRole
  <2>6. d[2] \in Steps /\ d[2] <= reached
    BY <2>5 DEF TrainInv, FilesInv, Checkpoints
  <2> QED
    BY <1>2, <2>4, <2>6 DEF Checkpoints, Roles
<1>3. CASE trainer.role # "recovery"
  <2>1. step \in Steps
    BY DEF TrainInv, TrainerInv
  <2>2. Saved = <<trainer.role, step>>
    BY <1>3 DEF Saved
  <2> QED
    BY <1>1, <1>3, <2>1, <2>2 DEF Checkpoints
<1> QED
  BY <1>2, <1>3

Trainers == [role : Roles \cup {"none"}, next : Places]

LEMMA TrainersAre ==
  /\ \A next \in Places :
       At(next) \in Trainers /\ At(next).role = "none" /\ At(next).next = next
  /\ \A role \in Roles :
       Save(role) \in Trainers /\ Save(role).role = role /\ Save(role).next = "artifact"
  /\ Down = At("down")
BY DEF Trainers, At, Save, Down, Places, Roles

\* The process is where its files do not matter, and has changed none.
LEMMA UnsavedKeeps ==
  ASSUME TrainAssumption, TrainInv, NEW next \in Places \ Saving, trainer' = At(next),
         UNCHANGED <<loss, artifacts, manifests, reached>>,
         runState' \in {"absent", "preflight", "running", "succeeded"},
         manifest' \in BOOLEAN, registered' \in Steps \cup {NoStep},
         best' \in Steps \cup {NoStep},
         next = "probe" => reached = 0 /\ step' = 0 /\ best' = NoStep,
         next \in {"train", "finish", "register", "succeed"} => step' = reached,
         next = "down" => step' = step,
         next # "down" /\ best' # NoStep =>
           <<"best", best'>> \in Intact /\ best' \in BestSteps,
         RunInv'
  PROVE  TrainInv'
<1>1. trainer' \in Trainers /\ trainer'.role = "none" /\ trainer'.next = next
  BY TrainersAre
<1>2. step' \in 0..MaxStep
  <2>1. step \in 0..MaxStep /\ reached \in 0..MaxStep /\ 0 \in 0..MaxStep
    BY DEF TrainInv, TrainTypeOK, TrainAssumption
  <2> QED
    BY <2>1 DEF Places, Saving
<1>3. TrainTypeOK'
  BY <1>1, <1>2 DEF TrainInv, TrainTypeOK, Places
<1>4. TrainerInv'
  BY <1>1 DEF TrainerInv, Trainers, Saving
<1>5. FilesInv'
  <2>1. /\ BestSteps' = BestSteps /\ Intact' = Intact
        /\ OfRole("best")' = OfRole("best")
    BY BestStepsStay DEF Intact, OfRole
  <2> QED
    BY <1>1, <2>1 DEF TrainInv, FilesInv
<1> QED
  BY <1>3, <1>4, <1>5 DEF TrainInv

\* What RunInv says of the registered step, while it stays.
LEMMA RegisteredStays ==
  ASSUME UNCHANGED <<loss, artifacts, manifests, registered>>
  PROVE  /\ BestSteps' = BestSteps
         /\ <<"best", registered>> \in Intact => <<"best", registered'>> \in Intact'
BY BestStepsStay DEF Intact

LEMMA PreflightKeeps ==
  ASSUME TrainAssumption, TrainInv, Launch \/ Retry
  PROVE  TrainInv'
<1>1. /\ trainer = Down /\ Preflight /\ reached = 0 /\ registered = NoStep
  <2>1. CASE Launch
    BY <2>1 DEF Launch, TrainInv, RunInv
  <2>2. CASE Retry
    BY <2>2 DEF Retry, InterruptedRun, CanRetry, TrainInv, TrainTypeOK, FilesInv, Intact
  <2> QED
    BY <2>1, <2>2
<1>2. /\ runState' = "preflight" /\ trainer' = At("probe") /\ step' = 0 /\ best' = NoStep
      /\ UNCHANGED <<loss, artifacts, manifests, manifest, registered, reached>>
  BY <1>1 DEF Preflight, Go, runFiles
<1>3. RunInv'
  BY <1>1, <1>2, TrainersAre DEF RunInv, Places
<1> QED
  BY <1>1, <1>2, <1>3, UnsavedKeeps DEF TrainInv, TrainTypeOK, Places, Saving

LEMMA ProbeKeeps ==
  ASSUME TrainAssumption, TrainInv, Probe
  PROVE  TrainInv'
<1>1. /\ trainer.next = "probe" /\ runState' = "running" /\ trainer' = At("train")
      /\ UNCHANGED <<loss, artifacts, manifests, manifest, registered, step, best, reached>>
  BY DEF Probe, Go, runFiles
<1>2. reached = 0 /\ step = 0 /\ best = NoStep /\ registered = NoStep
  BY <1>1 DEF TrainInv, TrainerInv, RunInv
<1>3. RunInv'
  BY <1>1, <1>2, TrainersAre DEF RunInv, Places
<1> QED
  BY <1>1, <1>2, <1>3, UnsavedKeeps DEF TrainInv, TrainTypeOK, Places, Saving

LEMMA FinishKeeps ==
  ASSUME TrainAssumption, TrainInv, Finish
  PROVE  TrainInv'
<1>1. /\ trainer.next \in {"finish", "train"} /\ best # NoStep
      /\ manifest' = TRUE /\ trainer' = At("register")
      /\ UNCHANGED <<loss, artifacts, manifests, runState, registered, step, best, reached>>
  BY DEF Finish, Go, runFiles
<1>2. /\ runState = "running" /\ registered = NoStep /\ step = reached
      /\ <<"best", best>> \in Intact /\ best \in BestSteps
  BY <1>1 DEF TrainInv, TrainerInv, FilesInv, RunInv, Places
<1>3. RunInv'
  BY <1>1, <1>2, TrainersAre DEF RunInv, Places
<1> QED
  BY <1>1, <1>2, <1>3, UnsavedKeeps DEF TrainInv, TrainTypeOK, Places, Saving

LEMMA RegisterKeeps ==
  ASSUME TrainAssumption, TrainInv, Register
  PROVE  TrainInv'
<1>1. /\ trainer.next = "register" /\ registered' = best /\ trainer' = At("succeed")
      /\ UNCHANGED <<loss, artifacts, manifests, runState, manifest, step, best, reached>>
  BY DEF Register, Go, runFiles
<1>2. /\ runState = "running" /\ step = reached /\ manifest /\ best # NoStep
      /\ <<"best", best>> \in Intact /\ best \in BestSteps
  BY <1>1 DEF TrainInv, TrainerInv, FilesInv, RunInv, Places
<1>3. BestSteps' = BestSteps /\ Intact' = Intact
  BY <1>1, BestStepsStay DEF Intact
<1>4. RunInv'
  BY <1>1, <1>2, <1>3, TrainersAre DEF RunInv, Places
<1> QED
  BY <1>1, <1>2, <1>4, UnsavedKeeps DEF TrainInv, TrainTypeOK, Places, Saving

\* The process ends, in success or not.
LEMMA EndKeeps ==
  ASSUME TrainAssumption, TrainInv, EndSucceeded \/ TrainerDies \/ Reconcile
  PROVE  TrainInv'
<1>1. /\ trainer' = At("down")
      /\ UNCHANGED <<loss, artifacts, manifests, manifest, registered, step, best, reached>>
      /\ runState' = runState \/ (runState' = "succeeded" /\ registered # NoStep)
  <2>1. CASE EndSucceeded
    <3>1. registered # NoStep
      BY <2>1 DEF EndSucceeded, TrainInv, RunInv
    <3>2. /\ trainer' = Down /\ runState' = "succeeded"
          /\ UNCHANGED <<loss, runFiles, manifest, registered, step, best, reached>>
      BY <2>1 DEF EndSucceeded, Go
    <3> QED
      BY <3>1, <3>2, TrainersAre DEF runFiles
  <2>2. CASE TrainerDies
    BY <2>2, TrainersAre DEF TrainerDies, Go, runFiles
  <2>3. CASE Reconcile
    <3>1. trainer' = Down /\ registered # NoStep
      BY <2>3 DEF Reconcile
    <3> QED
      BY <2>3, <3>1, TrainersAre DEF Reconcile, runFiles
  <2> QED
    BY <2>1, <2>2, <2>3
<1>2. RunInv'
  BY <1>1, RegisteredStays, TrainersAre DEF TrainInv, RunInv, Places
<1> QED
  BY <1>1, <1>2, UnsavedKeeps DEF TrainInv, TrainTypeOK, Places, Saving

LEMMA ResumeKeeps ==
  ASSUME TrainAssumption, TrainInv, Resume
  PROVE  TrainInv'
<1>1. PICK c \in Intact, b \in Intact :
        /\ CanResume(c) /\ step' = c[2]
        /\ IsBestFor(b, c) /\ best' = b[2]
  BY DEF Resume
<1>2. /\ trainer' = At("train") /\ registered = NoStep /\ runState = "running"
      /\ UNCHANGED <<loss, artifacts, manifests, runState, manifest, registered, reached>>
  BY <1>1 DEF Resume, InterruptedRun, CanResume, Go, runFiles
<1>3. /\ c \in manifests /\ c \in Checkpoints /\ b \in manifests /\ b \in Checkpoints
      /\ b[1] = "best" /\ reached \in Nat
  BY <1>1 DEF IsBestFor, Intact, TrainInv, TrainTypeOK
<1>4. step' = reached
  <2>1. c[2] \in Steps /\ c[2] <= reached /\ c[2] \in Nat \ {0}
    BY <1>3 DEF TrainInv, FilesInv, Checkpoints, Steps
  <2>2. <<"latest", reached>> \in Intact
    BY <1>3, <2>1 DEF TrainInv, FilesInv
  <2>3. c[2] >= reached
    BY <1>1, <1>3, <2>1, <2>2 DEF CanResume, IsNewest
  <2> QED
    BY <1>1, <1>3, <2>1, <2>3
<1>5. best' \in Steps /\ best' \in BestSteps /\ <<"best", best'>> \in Intact
  <2>1. b = <<"best", b[2]>> /\ b[2] \in Steps
    BY <1>3 DEF Checkpoints
  <2>2. b[2] \in BestSteps
    BY <1>3 DEF TrainInv, FilesInv, OfRole
  <2> QED
    BY <1>1, <2>1, <2>2
<1>6. RunInv'
  BY <1>2, TrainersAre DEF RunInv, Places
<1> QED
  BY <1>2, <1>4, <1>5, <1>6, UnsavedKeeps DEF TrainInv, TrainTypeOK, Places, Saving

-----------------------------------------------------------------------------
LEMMA TrainKeeps ==
  ASSUME TrainAssumption, TrainInv, Train
  PROVE  TrainInv'
<1>1. PICK role \in {"latest", "recovery"} :
        /\ trainer.next = "train" /\ step < MaxStep /\ step' = step + 1
        /\ role = "recovery" => OfRole("latest") # {}
        /\ trainer' = Save(role)
        /\ UNCHANGED <<loss, artifacts, manifests, runState, manifest, registered,
                       best, reached>>
  BY DEF Train, Go, runFiles
<1>2. /\ step = reached /\ runState = "running" /\ registered = NoStep
      /\ best # NoStep => <<"best", best>> \in Intact /\ best \in BestSteps
      /\ step \in 0..MaxStep
  BY <1>1 DEF TrainInv, TrainTypeOK, TrainerInv, FilesInv, RunInv, Places
<1>3. trainer' \in Trainers /\ trainer'.role = role /\ trainer'.next = "artifact"
  BY <1>1, TrainersAre DEF Roles
<1>4. step' \in Steps
  BY <1>1, <1>2 DEF Steps, TrainAssumption
<1>5. /\ Intact' = Intact /\ BestSteps' = BestSteps
      /\ \A r : OfRole(r)' = OfRole(r)
  BY <1>1, BestStepsStay DEF Intact, OfRole
<1>6. TrainTypeOK'
  <2>1. step' \in 0..MaxStep
    BY <1>4 DEF Steps, TrainAssumption
  <2> QED
    BY <1>1, <1>3, <2>1 DEF TrainInv, TrainTypeOK, Roles
<1>7. TrainerInv'
  BY <1>1, <1>2, <1>3, <1>4, <1>5 DEF TrainerInv, Trainers, Saving
<1>8. FilesInv'
  BY <1>1, <1>2, <1>3, <1>5 DEF TrainInv, FilesInv
<1>9. RunInv'
  BY <1>1, <1>2, <1>3 DEF RunInv, Places
<1> QED
  BY <1>6, <1>7, <1>8, <1>9 DEF TrainInv

\* While checkpoints are saved, nothing is registered.
LEMMA SavingRuns ==
  ASSUME TrainInv, trainer.next \in Saving
  PROVE  /\ runState = "running" /\ registered = NoStep
         /\ trainer.role \in Roles /\ trainer \in Trainers
         /\ step \in Steps /\ step \in 0..MaxStep
         /\ best # NoStep => <<"best", best>> \in Intact /\ best \in BestSteps
         /\ artifacts \subseteq Checkpoints /\ manifests \subseteq Checkpoints
BY DEF TrainInv, TrainTypeOK, TrainerInv, FilesInv, RunInv, Saving, Places, Trainers

LEMMA SaveArtifactKeeps ==
  ASSUME TrainAssumption, TrainInv, SaveArtifact
  PROVE  TrainInv'
<1>1. /\ trainer.next = "artifact" /\ artifacts' = artifacts \cup {Saved}
      /\ trainer' = [trainer EXCEPT !.next = "manifest"]
      /\ UNCHANGED <<loss, manifests, runState, manifest, registered, step, best, reached>>
  BY DEF SaveArtifact, Go
<1>2. /\ runState = "running" /\ registered = NoStep
      /\ trainer.role \in Roles /\ trainer \in Trainers /\ trainer.role # "none"
      /\ step \in Steps /\ step \in 0..MaxStep
      /\ best # NoStep => <<"best", best>> \in Intact /\ best \in BestSteps
  BY <1>1, SavingRuns DEF Saving, Roles
<1>3. /\ trainer' \in Trainers /\ trainer'.role = trainer.role
      /\ trainer'.next = "manifest"
  BY <1>1, <1>2 DEF Trainers, Places
<1>4. /\ Intact \subseteq Intact' /\ BestSteps' = BestSteps
      /\ \A r : OfRole(r)' = OfRole(r)
  BY <1>1, BestStepsStay DEF Intact, OfRole
<1>5. Saved \in Checkpoints /\ Saved' = Saved
  <2>1. Saved \in Checkpoints
    BY <1>2, SavedIs
  <2> QED
    BY <1>1, <1>3, <2>1, SavedStays
<1>6. TrainTypeOK'
  BY <1>1, <1>2, <1>3, <1>5 DEF TrainInv, TrainTypeOK
<1>7. TrainerInv'
  BY <1>1, <1>2, <1>3, <1>4, <1>5 DEF TrainInv, TrainerInv, Trainers, Saving
<1>8. FilesInv'
  BY <1>1, <1>2, <1>3, <1>4 DEF TrainInv, FilesInv
<1>9. RunInv'
  BY <1>1, <1>2, <1>3 DEF RunInv, Places
<1> QED
  BY <1>6, <1>7, <1>8, <1>9 DEF TrainInv

LEMMA SaveManifestKeeps ==
  ASSUME TrainAssumption, TrainInv, SaveManifest
  PROVE  TrainInv'
<1>1. /\ trainer.next = "manifest" /\ manifests' = manifests \cup {Saved}
      /\ reached' = IF step > reached /\ trainer.role = "latest" THEN step ELSE reached
      /\ best' = IF trainer.role = "best" THEN step ELSE best
      /\ trainer' = [trainer EXCEPT !.next = "retain"]
      /\ UNCHANGED <<loss, artifacts, runState, manifest, registered, step>>
  BY DEF SaveManifest, Go
<1>2. /\ runState = "running" /\ registered = NoStep
      /\ trainer.role \in Roles /\ trainer \in Trainers /\ trainer.role # "none"
      /\ step \in Steps /\ step \in 0..MaxStep
      /\ best # NoStep => <<"best", best>> \in Intact /\ best \in BestSteps
      /\ manifests \subseteq Checkpoints
  BY <1>1, SavingRuns DEF Saving, Roles
<1>3. /\ trainer' \in Trainers /\ trainer'.role = trainer.role
      /\ trainer'.next = "retain"
  BY <1>1, <1>2 DEF Trainers, Places
<1>4. /\ Saved \in Checkpoints /\ Saved \in artifacts /\ Saved[1] = trainer.role
      /\ trainer.role = "recovery" => Saved[2] <= reached
      /\ trainer.role # "recovery" => Saved = <<trainer.role, step>>
  BY <1>1, <1>2, SavedIs DEF TrainInv, TrainerInv
<1>5. /\ Intact' = Intact \cup {Saved} /\ BestSteps' = BestSteps
      /\ \A r : OfRole(r)' = OfRole(r) \cup ({Saved} \cap {c \in {Saved} : c[1] = r})
  BY <1>1, <1>4, BestStepsStay DEF Intact, OfRole
<1>6. reached \in Nat /\ reached \in 0..MaxStep /\ step \in Nat \ {0}
  BY <1>2 DEF TrainInv, TrainTypeOK, Steps
<1>7. /\ trainer.role = "latest" => step = reached + 1 /\ reached' = step
      /\ trainer.role # "latest" => reached' = reached
      /\ trainer.role = "recovery" => step = reached + 1 /\ OfRole("latest") # {}
      /\ trainer.role = "best" => step = reached /\ step \in BestSteps
  BY <1>1, <1>2, <1>6 DEF TrainInv, TrainerInv, Roles
<1>8. TrainTypeOK'
  BY <1>1, <1>2, <1>3, <1>4, <1>6, <1>7 DEF TrainInv, TrainTypeOK
<1>9. TrainerInv'
  BY <1>1, <1>2, <1>3, <1>4, <1>5, <1>7 DEF TrainerInv, Trainers, Saving
<1>10. FilesInv'
  <2>1. \A c \in manifests' : c[2] <= reached'
    <3>1. \A c \in manifests : c[2] \in Nat /\ c[2] <= reached
      BY <1>2 DEF TrainInv, FilesInv, Checkpoints, Steps
    <3>2. Saved[2] <= reached'
      <4>1. CASE trainer.role = "recovery"
        BY <1>4, <1>7, <4>1
      <4>2. CASE trainer.role # "recovery"
        BY <1>2, <1>4, <1>6, <1>7, <4>2 DEF Roles
      <4> QED
        BY <4>1, <4>2
    <3>3. reached <= reached' /\ reached' \in Nat
      BY <1>2, <1>6, <1>7
    <3> QED
      BY <1>1, <1>6, <3>1, <3>2, <3>3
  <2>2. \A c \in OfRole("best")' : c[2] \in BestSteps
    BY <1>4, <1>5, <1>7 DEF TrainInv, FilesInv
  <2>3. reached' > 0 => <<"latest", reached'>> \in Intact'
    BY <1>4, <1>5, <1>7 DEF TrainInv, FilesInv
  <2>4. best' # NoStep => <<"best", best'>> \in Intact' /\ best' \in BestSteps
    BY <1>1, <1>2, <1>4, <1>5, <1>7
  <2> QED
    BY <1>5, <2>1, <2>2, <2>3, <2>4 DEF FilesInv
<1>11. RunInv'
  BY <1>1, <1>2, <1>3 DEF RunInv, Places
<1> QED
  BY <1>8, <1>9, <1>10, <1>11 DEF TrainInv

\* The older checkpoints of the role that was saved are removed.
LEMMA RemoveKeeps ==
  ASSUME TrainAssumption, TrainInv, RemoveArtifact \/ RemoveManifest
  PROVE  TrainInv'
<1>1. PICK c \in Stale :
        /\ trainer.next = "retain"
        /\ artifacts \ {c} \subseteq artifacts' /\ artifacts' \subseteq artifacts
        /\ manifests \ {c} \subseteq manifests' /\ manifests' \subseteq manifests
        /\ UNCHANGED <<loss, runState, manifest, registered, trainer, step, best, reached>>
  <2>1. CASE RemoveArtifact
    BY <2>1 DEF RemoveArtifact
  <2>2. CASE RemoveManifest
    BY <2>2 DEF RemoveManifest
  <2> QED
    BY <2>1, <2>2
<1>2. /\ runState = "running" /\ registered = NoStep /\ trainer.role \in Roles
      /\ trainer.role # "none"
      /\ best # NoStep => <<"best", best>> \in Intact /\ best \in BestSteps
  BY <1>1, SavingRuns DEF Saving, Roles
<1>3. c[1] = trainer.role /\ c \in manifests /\ c # Saved
  BY <1>1 DEF Stale, OfRole
<1>4. /\ Intact \ {c} \subseteq Intact' /\ BestSteps' = BestSteps
      /\ \A r : OfRole(r)' \subseteq OfRole(r)
      /\ \A r : r # trainer.role => OfRole(r)' = OfRole(r)
  BY <1>1, <1>3, BestStepsStay DEF Intact, OfRole
<1>5. /\ trainer.role = "latest" => c # <<"latest", reached>>
      /\ trainer.role = "best" => c # <<"best", best>> /\ best = step
  BY <1>1, <1>2, <1>3, SavedIs DEF TrainInv, TrainerInv
<1>6. TrainTypeOK'
  BY <1>1 DEF TrainInv, TrainTypeOK
<1>7. TrainerInv'
  <2>1. trainer.role = "best" => <<"best", step>> \in Intact'
    BY <1>1, <1>4, <1>5 DEF TrainInv, TrainerInv
  <2>2. trainer.role = "recovery" => OfRole("latest")' # {}
    BY <1>4 DEF TrainInv, TrainerInv
  <2> QED
    BY <1>1, <1>4, <2>1, <2>2 DEF TrainInv, TrainerInv
<1>8. FilesInv'
  <2>1. reached > 0 => <<"latest", reached>> \in Intact'
    <3>1. c # <<"latest", reached>>
      BY <1>3, <1>5
    <3> QED
      BY <1>4, <3>1 DEF TrainInv, FilesInv
  <2>2. best # NoStep => <<"best", best>> \in Intact'
    <3>1. c # <<"best", best>>
      BY <1>3, <1>5
    <3> QED
      BY <1>2, <1>4, <3>1
  <2> QED
    BY <1>1, <1>2, <1>4, <2>1, <2>2 DEF TrainInv, FilesInv
<1>9. RunInv'
  BY <1>1, <1>2 DEF RunInv, TrainInv
<1> QED
  BY <1>6, <1>7, <1>8, <1>9 DEF TrainInv

LEMMA RetainedKeeps ==
  ASSUME TrainAssumption, TrainInv, Retained
  PROVE  TrainInv'
<1>1. /\ trainer.next = "retain"
      /\ UNCHANGED <<loss, artifacts, manifests, runState, manifest, registered,
                     step, best, reached>>
  BY DEF Retained, runFiles
<1>2. /\ runState = "running" /\ registered = NoStep /\ trainer.role \in Roles
      /\ trainer.role # "none" /\ step \in Steps
      /\ best # NoStep => <<"best", best>> \in Intact /\ best \in BestSteps
  BY <1>1, SavingRuns DEF Saving, Roles
<1>3. /\ trainer.role = "recovery" => step = reached + 1
      /\ trainer.role \in {"latest", "best"} => step = reached
  BY <1>1 DEF TrainInv, TrainerInv
<1>4. \/ trainer.role = "recovery" /\ trainer' = Save("latest")
      \/ trainer.role = "latest" /\ Improved /\ trainer' = Save("best")
      \/ /\ trainer.role \in {"latest", "best"}
         /\ trainer' = At(IF StopsHere THEN "finish" ELSE "train")
  BY <1>2 DEF Retained, Go, Roles
<1>5. ASSUME NEW next \in {"finish", "train"}, trainer' = At(next),
             trainer.role \in {"latest", "best"}
      PROVE  TrainInv'
  <2>1. RunInv'
    BY <1>1, <1>2, <1>5, TrainersAre DEF RunInv, Places
  <2> QED
    BY <1>1, <1>2, <1>3, <1>5, <2>1, UnsavedKeeps
       DEF TrainInv, TrainTypeOK, Places, Saving
<1>6. ASSUME NEW role \in {"latest", "best"}, trainer' = Save(role),
             role = "latest" => trainer.role = "recovery",
             role = "best" => trainer.role = "latest" /\ Improved
      PROVE  TrainInv'
  <2>1. trainer' \in Trainers /\ trainer'.role = role /\ trainer'.next = "artifact"
    BY <1>6, TrainersAre DEF Roles
  <2>2. Intact' = Intact /\ BestSteps' = BestSteps /\ \A r : OfRole(r)' = OfRole(r)
    BY <1>1, BestStepsStay DEF Intact, OfRole
  <2>3. role = "best" => step \in BestSteps
    BY <1>2, <1>6 DEF Improved, BestSteps
  <2>4. TrainTypeOK'
    BY <1>1, <2>1 DEF TrainInv, TrainTypeOK, Roles
  <2>5. TrainerInv'
    BY <1>1, <1>2, <1>3, <1>6, <2>1, <2>2, <2>3 DEF TrainerInv, Trainers, Saving
  <2>6. FilesInv'
    BY <1>1, <1>2, <2>1, <2>2 DEF TrainInv, FilesInv
  <2>7. RunInv'
    BY <1>1, <1>2, <2>1 DEF RunInv, Places
  <2> QED
    BY <2>4, <2>5, <2>6, <2>7 DEF TrainInv
<1> QED
  BY <1>4, <1>5, <1>6

LEMMA TrainStutter ==
  ASSUME TrainInv, UNCHANGED trainVars
  PROVE  TrainInv'
<1> USE DEF trainVars, runFiles
<1>1. /\ Intact' = Intact /\ BestSteps' = BestSteps /\ Saved' = Saved
      /\ \A r : OfRole(r)' = OfRole(r)
  BY BestStepsStay, SavedStays DEF Intact, OfRole
<1>2. TrainTypeOK' /\ TrainerInv'
  BY <1>1 DEF TrainInv, TrainTypeOK, TrainerInv
<1>3. FilesInv' /\ RunInv'
  BY <1>1 DEF TrainInv, FilesInv, RunInv
<1> QED
  BY <1>2, <1>3 DEF TrainInv

(* The invariant that keeps the progress of a training run: where the      *)
(* trainer is, in steps, with respect to its checkpoints, and which of     *)
(* them are intact.                                                        *)
THEOREM TrainInductive == TrainSpec => []TrainInv
<1> USE TrainAssumption
<1>1. ASSUME TrainInv, [TrainNext]_trainVars
      PROVE  TrainInv'
  BY <1>1, PreflightKeeps, ProbeKeeps, TrainKeeps, SaveArtifactKeeps,
     SaveManifestKeeps, RemoveKeeps, RetainedKeeps, FinishKeeps, RegisterKeeps,
     EndKeeps, ResumeKeeps, TrainStutter DEF TrainNext
<1> QED
  BY TrainInitInv, <1>1, PTL DEF TrainSpec

(* Wherever the process dies, a checkpoint of the last step that was ever  *)
(* saved is intact, and what the registry holds can be made the end of the *)
(* run, for any number of steps, losses and deaths                         *)
(* (_rotate_latest_to_recovery, _retain_checkpoint_roles, resume_gfm).     *)
THEOREM TrainingIsKept == TrainSpec => []ProgressIsKept
<1>1. ASSUME TrainInv
      PROVE  ProgressIsKept
  <2>1. reached > 0 => \E c \in Intact : c[2] >= reached
    <3> SUFFICES ASSUME reached > 0
                 PROVE  \E c \in Intact : c[2] >= reached
      OBVIOUS
    <3>1. <<"latest", reached>> \in Intact /\ reached \in Nat
      BY <1>1 DEF TrainInv, FilesInv, TrainTypeOK
    <3> QED
      BY <3>1
  <2> QED
    BY <1>1, <2>1 DEF TrainInv, RunInv, BestSteps, ProgressIsKept
<1> QED
  BY <1>1, TrainInductive, PTL

-----------------------------------------------------------------------------
(* The fetch of the corpus.                                                *)

FetchedRows == [stratum : 1..(Strata + 1), draw : Nat, place : Nat, accepted : BOOLEAN]

\* Where the rows were drawn: before the next draw of the stratum, each once.
Placed(s, rows) ==
  /\ \A i \in DOMAIN rows :
       /\ rows[i].stratum <= s.stratum
       /\ rows[i].stratum = s.stratum => rows[i].draw < s.draw
  /\ \A i, j \in DOMAIN rows :
       /\ rows[i].stratum = rows[j].stratum
       /\ rows[i].draw = rows[j].draw
       /\ rows[i].place = rows[j].place
       => i = j

Counted(s, rows) ==
  /\ AcceptedRows(rows) = s.accepted
  /\ Len(s.strata) = s.stratum - 1
  /\ \A t \in 1..(s.stratum - 1) : s.strata[t] = Of(t, rows)
  /\ Of(s.stratum, rows) = s.received

FitsIn(s, rows) ==
  /\ s.rows <= Len(rows)
  /\ Placed(s, SubSeq(rows, 1, s.rows))
  /\ Counted(s, SubSeq(rows, 1, s.rows))

Rest(s, rows) == SubSeq(rows, s.rows + 1, Len(rows))

EndsInPage(s, rows) ==
  /\ ~s.complete
  /\ s.stratum <= Strata
  /\ Len(Rest(s, rows)) <= DrawSize(s)
  /\ \A i \in 1..Len(Rest(s, rows)) : Rest(s, rows)[i].stratum = s.stratum

FetchInv ==
  /\ FetchTypeOK
  /\ works \in Seq(FetchedRows)
  /\ resume # NoResume =>
       /\ FitsIn(resume, works)
       /\ torn \/ Rest(resume, works) = <<>> \/ EndsInPage(resume, works)
  /\ call # "none" =>
       /\ ~torn
       /\ fetch.rows = Len(works)
       /\ Placed(fetch, works)
       /\ Counted(fetch, works)
  /\ call = "loop" =>
       IF resume = NoResume THEN fetch = Fresh /\ works = <<>> ELSE resume = fetch
  /\ call = "end stratum" => resume = fetch
  /\ call \in {"write page", "write last page", "end stratum"} => fetch.stratum <= Strata

-----------------------------------------------------------------------------
\* C holds the indices of A, up to m, and those of B, up to n, after them.
Joined(A, m, B, n, C) ==
  /\ A \subseteq 1..m /\ B \subseteq 1..n /\ C \subseteq 1..(m + n)
  /\ \A i \in 1..m : i \in C <=> i \in A
  /\ \A i \in 1..n : m + i \in C <=> i \in B

LEMMA JoinedCount ==
  ASSUME NEW m \in Nat, NEW n \in Nat, NEW A, NEW B, NEW C, Joined(A, m, B, n, C)
  PROVE  /\ Cardinality(A) \in Nat /\ Cardinality(B) \in Nat
         /\ Cardinality(C) = Cardinality(A) + Cardinality(B)
<1> USE DEF Joined
<1> DEFINE moved == {m + i : i \in B}
           move == [i \in B |-> m + i]
<1>1. IsFiniteSet(A) /\ IsFiniteSet(B)
  <2>1. IsFiniteSet(1..m) /\ IsFiniteSet(1..n)
    BY FS_Interval
  <2>2. A \subseteq 1..m /\ B \subseteq 1..n
    OBVIOUS
  <2> QED
    BY <2>1, <2>2, FS_Subset
<1>2. move \in Bijection(B, moved)
  <2>1. move \in [B -> moved]
    OBVIOUS
  <2>2. \A i, j \in B : move[i] = move[j] => i = j
    OBVIOUS
  <2>3. \A k \in moved : \E i \in B : move[i] = k
    OBVIOUS
  <2> QED
    BY <2>1, <2>2, <2>3 DEF Bijection, Injection, Surjection, IsInjective
<1>3. IsFiniteSet(moved) /\ Cardinality(moved) = Cardinality(B)
  BY <1>1, <1>2, FS_Bijection DEF ExistsBijection
<1>4. A \cap moved = {} /\ A \cup moved = C
  <2>1. \A i \in moved : i \in C /\ i \notin A
    OBVIOUS
  <2>2. ASSUME NEW i \in C, i \notin A
        PROVE  i \in moved
    <3>1. i - m \in 1..n /\ i = m + (i - m)
      BY <2>2
    <3> QED
      BY <3>1
  <2> QED
    BY <2>1, <2>2
<1>5. /\ Cardinality(A) \in Nat /\ Cardinality(B) \in Nat
      /\ Cardinality({}) = 0
  BY <1>1, FS_CardinalityType, FS_EmptySet
<1> HIDE DEF moved
<1>6. Cardinality(A \cup moved) = Cardinality(A) + Cardinality(moved) - Cardinality({})
  <2>1. Cardinality(A \cup moved) = Cardinality(A) + Cardinality(moved) - Cardinality(A \cap moved)
    BY <1>1, <1>3, FS_Union
  <2> QED
    BY <1>4, <2>1
<1>7. Cardinality(C) = Cardinality(A) + Cardinality(B) - 0
  BY <1>3, <1>4, <1>5, <1>6
<1> QED
  BY <1>5, <1>7

LEMMA CountsAdd ==
  ASSUME NEW a \in Seq(FetchedRows), NEW b \in Seq(FetchedRows)
  PROVE  /\ AcceptedRows(a) \in Nat /\ AcceptedRows(b) \in Nat
         /\ AcceptedRows(a \o b) = AcceptedRows(a) + AcceptedRows(b)
         /\ \A t : /\ Of(t, a) \in Nat /\ Of(t, b) \in Nat
                   /\ Of(t, a \o b) = Of(t, a) + Of(t, b)
<1>1. /\ Len(a) \in Nat /\ Len(b) \in Nat /\ Len(a \o b) = Len(a) + Len(b)
      /\ DOMAIN a = 1..Len(a) /\ DOMAIN b = 1..Len(b)
      /\ DOMAIN (a \o b) = 1..(Len(a) + Len(b))
      /\ \A i \in 1..Len(a) : (a \o b)[i] = a[i]
      /\ \A i \in 1..Len(b) : (a \o b)[Len(a) + i] = b[i]
  BY ConcatProperties
<1>2. /\ AcceptedRows(a) \in Nat /\ AcceptedRows(b) \in Nat
      /\ AcceptedRows(a \o b) = AcceptedRows(a) + AcceptedRows(b)
  <2> DEFINE A == {i \in DOMAIN a : a[i].accepted}
             B == {i \in DOMAIN b : b[i].accepted}
             C == {i \in DOMAIN (a \o b) : (a \o b)[i].accepted}
  <2>1. Joined(A, Len(a), B, Len(b), C)
    BY <1>1 DEF Joined
  <2> HIDE DEF A, B, C
  <2>2. /\ Cardinality(A) \in Nat /\ Cardinality(B) \in Nat
        /\ Cardinality(C) = Cardinality(A) + Cardinality(B)
    <3>1. Len(a) \in Nat /\ Len(b) \in Nat
      BY <1>1
    <3> QED
      BY <2>1, <3>1, JoinedCount
  <2> QED
    BY <2>2 DEF AcceptedRows, A, B, C
<1>3. ASSUME NEW t
      PROVE  /\ Of(t, a) \in Nat /\ Of(t, b) \in Nat
             /\ Of(t, a \o b) = Of(t, a) + Of(t, b)
  <2> DEFINE A == {i \in DOMAIN a : a[i].accepted /\ a[i].stratum = t}
             B == {i \in DOMAIN b : b[i].accepted /\ b[i].stratum = t}
             C == {i \in DOMAIN (a \o b) : (a \o b)[i].accepted /\ (a \o b)[i].stratum = t}
  <2>1. Joined(A, Len(a), B, Len(b), C)
    BY <1>1 DEF Joined
  <2> HIDE DEF A, B, C
  <2>2. /\ Cardinality(A) \in Nat /\ Cardinality(B) \in Nat
        /\ Cardinality(C) = Cardinality(A) + Cardinality(B)
    <3>1. Len(a) \in Nat /\ Len(b) \in Nat
      BY <1>1
    <3> QED
      BY <2>1, <3>1, JoinedCount
  <2> QED
    BY <2>2 DEF Of, A, B, C
<1> QED
  BY <1>2, <1>3

\* A page is of one stratum and one draw.
LEMMA PageIs ==
  ASSUME FetchAssumption, NEW s \in FetchStates, s.stratum <= Strata,
         NEW rows \in Answers(s)
  PROVE  /\ rows \in Seq(FetchedRows)
         /\ Len(rows) <= DrawSize(s)
         /\ \A i \in 1..Len(rows) : /\ rows[i].stratum = s.stratum
                                    /\ rows[i].draw = s.draw
                                    /\ rows[i].place = i
         /\ AcceptedRows(rows) \in Nat /\ AcceptedRows(rows) <= Remaining(s)
         /\ Of(s.stratum, rows) = AcceptedRows(rows)
         /\ \A t : t # s.stratum => Of(t, rows) = 0
<1>1. /\ s.stratum \in 1..(Strata + 1) /\ s.draw \in Nat /\ s.received \in 0..Quota
      /\ Quota \in Nat /\ PerPage \in Nat /\ Strata \in Nat
  BY DEF FetchStates, FetchAssumption
<1>2. DrawSize(s) \in Nat /\ DrawSize(s) <= Remaining(s) /\ Remaining(s) \in Nat
  BY <1>1 DEF DrawSize, Remaining, Smaller
<1>3. PICK n \in 0..DrawSize(s), authors \in [1..DrawSize(s) -> BOOLEAN] :
        rows = [k \in 1..n |-> [stratum |-> s.stratum, draw |-> s.draw, place |-> k,
                                accepted |-> authors[k]]]
  BY DEF Answers
<1>4. /\ n \in Nat /\ DOMAIN rows = 1..n
      /\ \A k \in 1..n : /\ rows[k].stratum = s.stratum
                         /\ rows[k].draw = s.draw
                         /\ rows[k].place = k
                         /\ rows[k] \in FetchedRows
  <2>1. \A k \in 1..n : k \in 1..DrawSize(s) /\ k \in Nat
    BY <1>2
  <2> QED
    BY <1>1, <1>2, <1>3, <2>1 DEF FetchedRows
<1>5. rows \in Seq(FetchedRows) /\ Len(rows) = n
  BY <1>3, <1>4
<1>6. /\ AcceptedRows(rows) \in Nat /\ AcceptedRows(rows) <= n
  <2>1. {i \in DOMAIN rows : rows[i].accepted} \subseteq 1..n
    BY <1>4
  <2>2. IsFiniteSet(1..n) /\ Cardinality(1..n) = n
    BY <1>4, FS_Interval
  <2> QED
    BY <2>1, <2>2, FS_Subset, FS_CardinalityType DEF AcceptedRows
<1>7. Of(s.stratum, rows) = AcceptedRows(rows)
  BY <1>4 DEF Of, AcceptedRows
<1>8. ASSUME NEW t, t # s.stratum
      PROVE  Of(t, rows) = 0
  <2>1. {i \in DOMAIN rows : rows[i].accepted /\ rows[i].stratum = t} = {}
    BY <1>4, <1>8
  <2> QED
    BY <2>1, FS_EmptySet DEF Of
<1> QED
  BY <1>2, <1>4, <1>5, <1>6, <1>7, <1>8

-----------------------------------------------------------------------------
\* All rows are the rows of s, and nothing is after them.
LEMMA WholeFits ==
  ASSUME NEW rows \in Seq(FetchedRows), NEW s, s.rows = Len(rows),
         Placed(s, rows), Counted(s, rows)
  PROVE  FitsIn(s, rows) /\ Rest(s, rows) = <<>>
<1>1. SubSeq(rows, 1, s.rows) = rows
  BY SubSeqFull
<1>2. Len(rows) \in Nat
  OBVIOUS
<1>3. Rest(s, rows) = <<>>
  BY <1>2, SubSeqEmpty DEF Rest
<1>4. s.rows <= Len(rows)
  BY <1>2
<1>5. Placed(s, SubSeq(rows, 1, s.rows)) /\ Counted(s, SubSeq(rows, 1, s.rows))
  BY <1>1, Zenon
<1> QED
  BY <1>3, <1>4, <1>5, Zenon DEF FitsIn

\* What is appended to comes first.
LEMMA HeadOfConcat ==
  ASSUME NEW a \in Seq(FetchedRows), NEW b \in Seq(FetchedRows)
  PROVE  SubSeq(a \o b, 1, Len(a)) = a
<1>1. CASE Len(a) = 0
  <2>1. a = <<>>
    BY <1>1
  <2>2. SubSeq(a \o b, 1, 0) = <<>>
    BY SubSeqEmpty
  <2> QED
    BY <1>1, <2>1, <2>2
<1>2. CASE Len(a) # 0
  <2>1. 1 \in 1..Len(a) /\ Len(a) \in 1..Len(a)
    BY <1>2
  <2>2. SubSeq(a \o b, 1, Len(a)) = SubSeq(a, 1, Len(a))
    BY <2>1, SubSeqOfConcat1
  <2> QED
    BY <2>2, SubSeqFull
<1> QED
  BY <1>1, <1>2

\* Rows that are appended change nothing of the rows of s.
LEMMA AppendedFits ==
  ASSUME FetchAssumption, NEW s \in FetchStates, NEW rows \in Seq(FetchedRows),
         NEW more \in Seq(FetchedRows), s.rows = Len(rows),
         Placed(s, rows), Counted(s, rows)
  PROVE  FitsIn(s, rows \o more) /\ Rest(s, rows \o more) = more
<1>1. /\ rows \o more \in Seq(FetchedRows) /\ Len(rows) \in Nat /\ Len(more) \in Nat
      /\ Len(rows \o more) = Len(rows) + Len(more)
  BY ConcatProperties
<1>2. SubSeq(rows \o more, 1, Len(rows)) = rows
  BY HeadOfConcat
<1>3. SubSeq(rows \o more, Len(rows) + 1, Len(rows) + Len(more)) = more
  <2>1. CASE Len(more) = 0
    <3>1. more = <<>>
      BY <2>1
    <3>2. SubSeq(rows \o more, Len(rows) + 1, Len(rows) + Len(more)) = <<>>
      BY <1>1, <2>1, SubSeqEmpty
    <3> QED
      BY <3>1, <3>2
  <2>2. CASE Len(more) # 0
    <3> DEFINE m == Len(rows) + 1
               n == Len(rows) + Len(more)
    <3>1. m \in m..n /\ n \in m..n /\ m - Len(rows) = 1 /\ n - Len(rows) = Len(more)
      BY <1>1, <2>2
    <3>2. SubSeq(rows \o more, m, n) = SubSeq(more, m - Len(rows), n - Len(rows))
      BY <3>1, SubSeqOfConcat2
    <3> QED
      BY <3>1, <3>2, SubSeqFull
  <2> QED
    BY <2>1, <2>2
<1>4. s.rows <= Len(rows \o more)
  BY <1>1
<1>5. SubSeq(rows \o more, 1, s.rows) = rows
  BY <1>2, Zenon
<1>6. Placed(s, SubSeq(rows \o more, 1, s.rows)) /\ Counted(s, SubSeq(rows \o more, 1, s.rows))
  BY <1>5, Zenon
<1>7. Rest(s, rows \o more) = more
  BY <1>1, <1>3, Zenon DEF Rest
<1> QED
  BY <1>4, <1>6, <1>7, Zenon DEF FitsIn

\* What FetchPage makes of the state in memory.
Fetched(s, rows) ==
  [s EXCEPT !.draw = @ + 1,
            !.received = @ + AcceptedRows(rows),
            !.rows = @ + Len(rows),
            !.accepted = @ + AcceptedRows(rows),
            !.requests = @ + 1]

LEMMA FetchedFits ==
  ASSUME FetchAssumption, NEW s \in FetchStates, NEW rows \in Seq(FetchedRows),
         s.rows = Len(rows), Placed(s, rows), Counted(s, rows),
         s.stratum <= Strata, s.requests < Budget, NEW page \in Answers(s)
  PROVE  LET all == rows \o page
             t == Fetched(s, page)
         IN /\ t \in FetchStates /\ t.stratum = s.stratum /\ all \in Seq(FetchedRows)
            /\ t.rows = Len(all) /\ Placed(t, all) /\ Counted(t, all)
<1> DEFINE all == rows \o page
           t == Fetched(s, page)
<1>1. /\ page \in Seq(FetchedRows) /\ Len(page) \in Nat
      /\ \A i \in 1..Len(page) : /\ page[i].stratum = s.stratum
                                 /\ page[i].draw = s.draw
                                 /\ page[i].place = i
      /\ AcceptedRows(page) \in Nat /\ AcceptedRows(page) <= Remaining(s)
      /\ Of(s.stratum, page) = AcceptedRows(page)
      /\ \A u : u # s.stratum => Of(u, page) = 0
  BY PageIs
<1>2. /\ all \in Seq(FetchedRows) /\ Len(rows) \in Nat
      /\ Len(all) = Len(rows) + Len(page)
      /\ DOMAIN all = 1..(Len(rows) + Len(page)) /\ DOMAIN rows = 1..Len(rows)
      /\ \A i \in 1..Len(rows) : all[i] = rows[i]
      /\ \A i \in 1..(Len(rows) + Len(page)) :
           i \notin 1..Len(rows) =>
             i - Len(rows) \in 1..Len(page) /\ all[i] = page[i - Len(rows)]
  BY <1>1, ConcatProperties
<1>3. /\ s.stratum \in 1..(Strata + 1) /\ s.draw \in Nat /\ s.received \in 0..Quota
      /\ s.rows \in Nat /\ s.accepted \in Nat /\ s.requests \in 0..Budget
      /\ s.strata \in Seq(0..Quota) /\ s.complete \in BOOLEAN
      /\ Strata \in Nat /\ Quota \in Nat /\ Budget \in Nat
  BY DEF FetchStates, FetchAssumption
<1>4. /\ t.stratum = s.stratum /\ t.draw = s.draw + 1
      /\ t.received = s.received + AcceptedRows(page) /\ t.rows = s.rows + Len(page)
      /\ t.accepted = s.accepted + AcceptedRows(page) /\ t.requests = s.requests + 1
      /\ t.strata = s.strata /\ t.complete = s.complete
  BY DEF Fetched, FetchStates
<1>5. t \in FetchStates
  <2>1. s.received + AcceptedRows(page) \in 0..Quota
    BY <1>1, <1>3 DEF Remaining
  <2>2. s.requests + 1 \in 0..Budget
    BY <1>3
  <2>3. /\ s.draw + 1 \in Nat /\ s.rows + Len(page) \in Nat
        /\ s.accepted + AcceptedRows(page) \in Nat
    <3>1. \A m, n \in Nat : m + n \in Nat
      OBVIOUS
    <3> QED
      BY <1>1, <1>3, <3>1
  <2> QED
    BY <1>3, <2>1, <2>2, <2>3 DEF Fetched, FetchStates
<1>6. Placed(t, all)
  <2>1. /\ \A i \in 1..Len(rows) :
             /\ rows[i].stratum <= s.stratum
             /\ rows[i].stratum = s.stratum => rows[i].draw < s.draw
        /\ \A i, j \in 1..Len(rows) :
             rows[i].stratum = rows[j].stratum /\ rows[i].draw = rows[j].draw
               /\ rows[i].place = rows[j].place => i = j
    BY <1>2 DEF Placed
  <2>2. \A i \in 1..Len(rows) : rows[i].draw \in Nat /\ rows[i].stratum \in Nat
    <3>1. \A row \in FetchedRows : row.draw \in Nat /\ row.stratum \in Nat
      BY <1>3 DEF FetchedRows
    <3> QED
      BY <3>1
  <2>3. ASSUME NEW i \in DOMAIN all
        PROVE  /\ all[i].stratum <= t.stratum
               /\ all[i].stratum = t.stratum => all[i].draw < t.draw
    <3>1. CASE i \in 1..Len(rows)
      <4>1. /\ rows[i].stratum <= s.stratum
            /\ rows[i].stratum = s.stratum => rows[i].draw < s.draw
            /\ rows[i].draw \in Nat
        BY <2>1, <2>2, <3>1
      <4>2. all[i] = rows[i]
        BY <1>2, <3>1
      <4>3. s.draw < s.draw + 1 /\ \A n \in Nat : n < s.draw => n < s.draw + 1
        BY <1>3
      <4> HIDE DEF all, t
      <4> QED
        BY <1>4, <4>1, <4>2, <4>3
    <3>2. CASE i \notin 1..Len(rows)
      <4>1. i - Len(rows) \in 1..Len(page) /\ all[i] = page[i - Len(rows)]
        BY <1>2, <3>2
      <4>2. all[i].stratum = s.stratum /\ all[i].draw = s.draw
        BY <1>1, <4>1
      <4> HIDE DEF all, t
      <4> QED
        BY <1>3, <1>4, <4>2
    <3> QED
      BY <3>1, <3>2
  <2>4. ASSUME NEW i \in DOMAIN all, NEW j \in DOMAIN all,
               all[i].stratum = all[j].stratum, all[i].draw = all[j].draw,
               all[i].place = all[j].place
        PROVE  i = j
    <3>1. CASE i \in 1..Len(rows) /\ j \in 1..Len(rows)
      BY <1>2, <2>1, <2>4, <3>1
    <3>2. CASE i \notin 1..Len(rows) /\ j \notin 1..Len(rows)
      <4>1. /\ i - Len(rows) \in 1..Len(page) /\ all[i] = page[i - Len(rows)]
            /\ j - Len(rows) \in 1..Len(page) /\ all[j] = page[j - Len(rows)]
        BY <1>2, <3>2
      <4>2. i - Len(rows) = j - Len(rows)
        BY <1>1, <2>4, <4>1
      <4> QED
        BY <1>2, <4>2
    <3>3. ASSUME NEW k \in DOMAIN all, NEW l \in DOMAIN all,
                 k \in 1..Len(rows), l \notin 1..Len(rows)
          PROVE  all[k].stratum # all[l].stratum \/ all[k].draw # all[l].draw
      <4>1. all[l].stratum = s.stratum /\ all[l].draw = s.draw
        BY <1>1, <1>2, <3>3
      <4>2. all[k].stratum = s.stratum => all[k].draw < s.draw /\ all[k].draw \in Nat
        BY <1>2, <2>1, <2>2, <3>3
      <4> QED
        BY <1>3, <4>1, <4>2
    <3> QED
      BY <2>4, <3>1, <3>2, <3>3
  <2> QED
    BY <2>3, <2>4 DEF Placed
<1>7. Counted(t, all)
  <2>1. /\ AcceptedRows(all) = AcceptedRows(rows) + AcceptedRows(page)
        /\ \A u : Of(u, rows) \in Nat /\ Of(u, all) = Of(u, rows) + Of(u, page)
    BY <1>1, CountsAdd
  <2>2. \A u \in 1..(s.stratum - 1) : u # s.stratum /\ Of(u, all) = Of(u, rows)
    <3>1. \A u \in 1..(s.stratum - 1) : u # s.stratum
      BY <1>3
    <3>2. ASSUME NEW u \in 1..(s.stratum - 1)
          PROVE  Of(u, all) = Of(u, rows)
      <4>1. Of(u, all) = Of(u, rows) + 0 /\ Of(u, rows) \in Nat
        BY <1>1, <2>1, <3>1
      <4> QED
        BY <4>1
    <3> QED
      BY <3>1, <3>2
  <2> QED
    BY <1>1, <1>4, <2>1, <2>2 DEF Counted
<1> QED
  BY <1>2, <1>4, <1>5, <1>6, <1>7

\* What EndStratum makes of it.
EndedStratum(s) ==
  [s EXCEPT !.strata = Append(@, s.received),
            !.stratum = @ + 1, !.draw = 0, !.received = 0]

LEMMA EndedFits ==
  ASSUME FetchAssumption, NEW s \in FetchStates, NEW rows \in Seq(FetchedRows),
         s.rows = Len(rows), Placed(s, rows), Counted(s, rows), s.stratum <= Strata
  PROVE  LET t == EndedStratum(s)
         IN /\ t \in FetchStates /\ t.rows = Len(rows)
            /\ Placed(t, rows) /\ Counted(t, rows)
<1> DEFINE t == EndedStratum(s)
<1>1. /\ s.stratum \in 1..(Strata + 1) /\ s.stratum \in Nat \ {0}
      /\ s.received \in 0..Quota /\ s.strata \in Seq(0..Quota)
      /\ Len(s.strata) = s.stratum - 1
      /\ Strata \in Nat /\ Quota \in Nat
  BY DEF FetchStates, FetchAssumption, Counted
<1>2. /\ t.stratum = s.stratum + 1 /\ t.draw = 0 /\ t.received = 0 /\ t.rows = s.rows
      /\ t.accepted = s.accepted /\ t.strata = Append(s.strata, s.received)
  BY DEF EndedStratum, FetchStates
<1>3. /\ Append(s.strata, s.received) \in Seq(0..Quota)
      /\ Len(Append(s.strata, s.received)) = s.stratum
      /\ \A u \in 1..(s.stratum - 1) : Append(s.strata, s.received)[u] = s.strata[u]
      /\ Append(s.strata, s.received)[s.stratum] = s.received
  BY <1>1
<1>4. t \in FetchStates
  <2>1. s.stratum + 1 \in 1..(Strata + 1) /\ 0 \in 0..Quota
    BY <1>1
  <2> QED
    BY <1>3, <2>1 DEF EndedStratum, FetchStates
<1>5. \A i \in DOMAIN rows : rows[i].stratum \in Nat /\ rows[i].stratum <= s.stratum
  <2>1. \A row \in FetchedRows : row.stratum \in Nat
    BY <1>1 DEF FetchedRows
  <2> QED
    BY <2>1 DEF Placed
<1>6. Placed(t, rows)
  <2>1. \A i \in DOMAIN rows :
          /\ rows[i].stratum <= s.stratum + 1
          /\ rows[i].stratum # s.stratum + 1
    BY <1>1, <1>5
  <2> QED
    BY <1>2, <2>1 DEF Placed
<1>7. Of(s.stratum + 1, rows) = 0
  <2>1. {i \in DOMAIN rows : rows[i].accepted /\ rows[i].stratum = s.stratum + 1} = {}
    BY <1>1, <1>5
  <2> QED
    BY <2>1, FS_EmptySet DEF Of
<1>8. Counted(t, rows)
  <2>1. \A u \in 1..s.stratum : u = s.stratum \/ u \in 1..(s.stratum - 1)
    BY <1>1
  <2>2. \A u \in 1..s.stratum : Append(s.strata, s.received)[u] = Of(u, rows)
    BY <1>3, <2>1 DEF Counted
  <2>3. s.stratum + 1 - 1 = s.stratum
    BY <1>1
  <2> QED
    BY <1>2, <1>3, <1>7, <2>2, <2>3 DEF Counted
<1> QED
  BY <1>2, <1>4, <1>6, <1>8

LEMMA FreshFits ==
  ASSUME FetchAssumption
  PROVE  Fresh \in FetchStates /\ Fresh.rows = 0 /\ Placed(Fresh, <<>>) /\ Counted(Fresh, <<>>)
<1>1. Fresh \in FetchStates
  <2>1. 1 \in 1..(Strata + 1) /\ 0 \in 0..Quota /\ 0 \in 0..Budget /\ <<>> \in Seq(0..Quota)
    BY DEF FetchAssumption
  <2> QED
    BY <2>1 DEF Fresh, FetchStates
<1>2. AcceptedRows(<<>>) = 0 /\ \A t : Of(t, <<>>) = 0
  <2>1. /\ {i \in DOMAIN <<>> : <<>>[i].accepted} = {}
        /\ \A t : {i \in DOMAIN <<>> : <<>>[i].accepted /\ <<>>[i].stratum = t} = {}
    OBVIOUS
  <2> QED
    BY <2>1, FS_EmptySet DEF AcceptedRows, Of
<1>3. Placed(Fresh, <<>>)
  BY DEF Placed
<1>4. Counted(Fresh, <<>>)
  BY <1>2 DEF Counted, Fresh
<1> QED
  BY <1>1, <1>3, <1>4 DEF Fresh

-----------------------------------------------------------------------------
LEMMA FetchInitInv == ASSUME FetchAssumption PROVE FetchInit => FetchInv
<1> SUFFICES ASSUME FetchInit PROVE FetchInv
  OBVIOUS
<1>1. FetchTypeOK
  BY FreshFits DEF FetchInit, FetchTypeOK
<1>2. works \in Seq(FetchedRows)
  BY DEF FetchInit
<1> QED
  BY <1>1, <1>2 DEF FetchInit, FetchInv

LEMMA StartFetchKeeps ==
  ASSUME FetchAssumption, FetchInv, StartFetch
  PROVE  FetchInv'
<1>1. /\ Accepts /\ works' = SubSeq(works, 1, fetch'.rows) /\ call' = "loop"
      /\ fetch' = IF resume = NoResume THEN Fresh ELSE resume
      /\ torn' = torn /\ resume' = resume /\ ~torn
  BY DEF StartFetch, Committed, Accepts
<1>2. /\ works \in Seq(FetchedRows) /\ Len(works) \in Nat
      /\ resume # NoResume =>
           resume \in FetchStates /\ resume.rows \in Nat /\ FitsIn(resume, works)
  <2>1. works \in Seq(FetchedRows) /\ Len(works) \in Nat
    BY LenProperties DEF FetchInv
  <2>2. ASSUME resume # NoResume
        PROVE  resume \in FetchStates /\ FitsIn(resume, works)
    BY <2>2 DEF FetchInv, FetchTypeOK
  <2>3. ASSUME resume # NoResume
        PROVE  resume.rows \in Nat
    BY <2>2, <2>3 DEF FetchStates
  <2> QED
    BY <2>1, <2>2, <2>3
<1>3. CASE resume = NoResume
  <2>1. works = <<>> /\ fetch' = Fresh
    BY <1>1, <1>3 DEF Accepts
  <2>2. works' = <<>> /\ fetch' \in FetchStates /\ fetch'.rows = 0
        /\ Placed(fetch', works') /\ Counted(fetch', works')
    <3>1. SubSeq(<<>>, 1, 0) = <<>>
      BY SubSeqEmpty
    <3>2. works' = <<>>
      BY <1>1, <2>1, <3>1, FreshFits
    <3> QED
      BY <2>1, <3>2, FreshFits
  <2>3. Len(works') = 0 /\ works' \in Seq(FetchedRows)
    BY <2>2
  <2>4. FetchTypeOK'
    BY <1>1, <1>3, <2>2 DEF FetchTypeOK, FetchInv
  <2> QED
    BY <1>1, <1>3, <2>1, <2>2, <2>3, <2>4 DEF FetchInv
<1>4. CASE resume # NoResume
  <2>1. /\ fetch' = resume /\ fetch' \in FetchStates
        /\ works' = SubSeq(works, 1, resume.rows) /\ resume.rows <= Len(works)
        /\ Placed(resume, works') /\ Counted(resume, works')
    BY <1>1, <1>2, <1>4 DEF FitsIn
  <2>2. works' \in Seq(FetchedRows) /\ Len(works') = resume.rows
    <3>1. \A i \in 1..resume.rows : works[i] \in FetchedRows
      BY <1>2, <1>4, <2>1
    <3>2. 1 \in Int /\ resume.rows \in Int
      BY <1>2, <1>4
    <3> QED
      BY <1>2, <1>4, <2>1, <3>1, <3>2, SubSeqProperties
  <2>3. FitsIn(resume, works') /\ Rest(resume, works') = <<>>
    BY <2>1, <2>2, WholeFits
  <2>4. FetchTypeOK'
    BY <1>1, <1>2, <1>4, <2>1 DEF FetchTypeOK, FetchInv
  <2> QED
    BY <1>1, <1>4, <2>1, <2>2, <2>3, <2>4 DEF FetchInv
<1> QED
  BY <1>3, <1>4

\* A part of a page is after the rows of the resume file.
LEMMA PageIsAfter ==
  ASSUME FetchAssumption, FetchInv, call = "loop", ~fetch.complete,
         fetch.stratum <= Strata, NEW more \in Seq(FetchedRows),
         Len(more) <= DrawSize(fetch),
         \A i \in 1..Len(more) : more[i].stratum = fetch.stratum,
         works' = works \o more, resume' = resume
  PROVE  /\ works' \in Seq(FetchedRows)
         /\ resume' # NoResume =>
              FitsIn(resume', works') /\ EndsInPage(resume', works')
<1>1. works \in Seq(FetchedRows)
  BY DEF FetchInv
<1>2. works' \in Seq(FetchedRows)
  BY <1>1, ConcatProperties
<1>3. ASSUME resume # NoResume
      PROVE  FitsIn(resume, works') /\ EndsInPage(resume, works')
  <2>1. /\ resume = fetch /\ fetch \in FetchStates /\ fetch.rows = Len(works)
        /\ Placed(fetch, works) /\ Counted(fetch, works)
    BY <1>3 DEF FetchInv, FetchTypeOK
  <2>2. FitsIn(fetch, works') /\ Rest(fetch, works') = more
    BY <1>1, <2>1, AppendedFits
  <2> QED
    BY <2>1, <2>2 DEF EndsInPage
<1> QED
  BY <1>2, <1>3

LEMMA FetchPageKeeps ==
  ASSUME FetchAssumption, FetchInv, NEW rows \in Answers(fetch), FetchPage(rows)
  PROVE  FetchInv'
<1>1. /\ call = "loop" /\ ~fetch.complete /\ fetch.stratum <= Strata
      /\ fetch.requests < Budget /\ works' = works \o rows
      /\ fetch' = Fetched(fetch, rows)
      /\ call' \in {"write page", "write last page"}
      /\ torn' = torn /\ resume' = resume
  BY DEF FetchPage, Fetched
<1>2. /\ ~torn /\ fetch \in FetchStates /\ works \in Seq(FetchedRows)
      /\ fetch.rows = Len(works) /\ Placed(fetch, works) /\ Counted(fetch, works)
  BY <1>1 DEF FetchInv, FetchTypeOK
<1>3. /\ fetch' \in FetchStates /\ fetch'.stratum = fetch.stratum
      /\ fetch'.rows = Len(works') /\ Placed(fetch', works') /\ Counted(fetch', works')
  BY <1>1, <1>2, FetchedFits
<1>4. /\ rows \in Seq(FetchedRows) /\ Len(rows) <= DrawSize(fetch)
      /\ \A i \in 1..Len(rows) : rows[i].stratum = fetch.stratum
  BY <1>1, <1>2, PageIs
<1>5. /\ works' \in Seq(FetchedRows)
      /\ resume' # NoResume => FitsIn(resume', works') /\ EndsInPage(resume', works')
  BY <1>1, <1>4, PageIsAfter
<1>6. FetchTypeOK'
  BY <1>1, <1>3 DEF FetchInv, FetchTypeOK
<1> QED
  BY <1>1, <1>2, <1>3, <1>5, <1>6 DEF FetchInv

LEMMA TearPageKeeps ==
  ASSUME FetchAssumption, FetchInv, NEW rows \in Answers(fetch), TearPage(rows)
  PROVE  FetchInv'
<1>1. /\ call = "loop" /\ ~fetch.complete /\ fetch.stratum <= Strata
      /\ call' = "none" /\ torn' \in BOOLEAN /\ resume' = resume /\ fetch' = fetch
  BY DEF TearPage
<1>2. PICK n \in 0..Len(rows) : works' = works \o SubSeq(rows, 1, n)
  BY DEF TearPage
<1>3. fetch \in FetchStates
  BY DEF FetchInv, FetchTypeOK
<1>4. /\ rows \in Seq(FetchedRows) /\ Len(rows) <= DrawSize(fetch)
      /\ \A i \in 1..Len(rows) : rows[i].stratum = fetch.stratum
  BY <1>1, <1>3, PageIs
<1>5. /\ SubSeq(rows, 1, n) \in Seq(FetchedRows) /\ Len(SubSeq(rows, 1, n)) = n
      /\ \A i \in 1..n : SubSeq(rows, 1, n)[i] = rows[i]
  BY <1>4
<1>6. DrawSize(fetch) \in Nat
  BY <1>3 DEF FetchAssumption, FetchStates, DrawSize, Remaining, Smaller
<1>7. /\ Len(SubSeq(rows, 1, n)) <= DrawSize(fetch)
      /\ \A i \in 1..Len(SubSeq(rows, 1, n)) :
           SubSeq(rows, 1, n)[i].stratum = fetch.stratum
  BY <1>4, <1>5, <1>6
<1>8. /\ works' \in Seq(FetchedRows)
      /\ resume' # NoResume => FitsIn(resume', works') /\ EndsInPage(resume', works')
  BY <1>1, <1>2, <1>5, <1>7, PageIsAfter
<1>9. FetchTypeOK'
  BY <1>1 DEF FetchInv, FetchTypeOK
<1> QED
  BY <1>1, <1>8, <1>9 DEF FetchInv

\* The resume file is replaced by what the call has in its memory.
LEMMA WriteKeeps ==
  ASSUME FetchAssumption, FetchInv, WritePage \/ EndStratum \/ Complete
  PROVE  FetchInv'
<1>1. /\ ~torn /\ fetch \in FetchStates /\ works \in Seq(FetchedRows)
      /\ fetch.rows = Len(works) /\ Placed(fetch, works) /\ Counted(fetch, works)
  BY DEF FetchInv, FetchTypeOK, WritePage, EndStratum, Complete
<1>2. /\ works' = works /\ torn' = torn /\ resume' = fetch'
      /\ call' \in {"loop", "end stratum", "none"}
      /\ call' = "end stratum" => fetch'.stratum <= Strata
  <2>1. CASE WritePage
    BY <2>1 DEF WritePage, FetchInv
  <2>2. CASE EndStratum \/ Complete
    BY <2>2 DEF EndStratum, Complete
  <2> QED
    BY <2>1, <2>2
<1>3. /\ fetch' \in FetchStates /\ fetch'.rows = Len(works)
      /\ Placed(fetch', works) /\ Counted(fetch', works)
  <2>1. CASE WritePage
    BY <1>1, <2>1 DEF WritePage
  <2>2. CASE EndStratum
    <3>1. fetch.stratum <= Strata /\ fetch' = EndedStratum(fetch)
      BY <2>2 DEF EndStratum, FetchInv, EndedStratum
    <3> QED
      BY <1>1, <3>1, EndedFits
  <2>3. CASE Complete
    <3>1. fetch' = [fetch EXCEPT !.complete = TRUE]
      BY <2>3 DEF Complete
    <3> QED
      BY <1>1, <3>1 DEF FetchStates, Placed, Counted
  <2> QED
    BY <2>1, <2>2, <2>3
<1>4. FitsIn(fetch', works) /\ Rest(fetch', works) = <<>>
  BY <1>1, <1>3, WholeFits
<1>5. resume' # NoResume
  BY <1>2, <1>3 DEF FetchAssumption
<1>6. FetchTypeOK'
  BY <1>1, <1>2, <1>3 DEF FetchInv, FetchTypeOK
<1> QED
  BY <1>1, <1>2, <1>3, <1>4, <1>5, <1>6 DEF FetchInv

LEMMA LeaveFetchKeeps ==
  ASSUME FetchInv, LeaveFetch \/ UNCHANGED fetchVars
  PROVE  FetchInv'
<1>1. UNCHANGED <<works, torn, resume, fetch>> /\ (call' = "none" \/ call' = call)
  BY DEF LeaveFetch, fetchVars
<1>2. FetchTypeOK'
  BY <1>1 DEF FetchInv, FetchTypeOK
<1> QED
  BY <1>1, <1>2 DEF FetchInv

(* The invariant of the fetch: which rows the resume file and the memory   *)
(* of the call account for, and what may be after them.                    *)
THEOREM FetchInductive == FetchInit /\ [][FetchNext]_fetchVars => []FetchInv
<1> USE FetchAssumption
<1>1. ASSUME FetchInv, [FetchNext]_fetchVars
      PROVE  FetchInv'
  BY <1>1, StartFetchKeeps, FetchPageKeeps, TearPageKeeps, WriteKeeps, LeaveFetchKeeps
     DEF FetchNext
<1> QED
  BY FetchInitInv, <1>1, PTL

(* The rows the resume file accounts for are there, once each and as many  *)
(* as it says, and the next call accepts the rest, for any number of       *)
(* strata, rows and requests, wherever calls die (fetch_openalex,          *)
(* _rollback_uncommitted_raw_tail).                                        *)
THEOREM PagesCountOnce == FetchInit /\ [][FetchNext]_fetchVars => []FetchedOnce
<1>1. ASSUME FetchInv
      PROVE  FetchedOnce
  <2> SUFFICES ASSUME resume # NoResume
               PROVE  FetchedOnce
    BY DEF FetchedOnce
  <2> DEFINE rows == Committed(resume)
  <2>1. /\ resume \in FetchStates /\ resume.rows <= Len(works)
        /\ Placed(resume, rows) /\ Counted(resume, rows)
        /\ torn \/ Rest(resume, works) = <<>> \/ EndsInPage(resume, works)
    BY <1>1 DEF FetchInv, FetchTypeOK, FitsIn, Committed
  <2>2. \A i, j \in DOMAIN rows :
          /\ rows[i].stratum = rows[j].stratum
          /\ rows[i].draw = rows[j].draw
          /\ rows[i].place = rows[j].place
          => i = j
    BY <2>1, Zenon DEF Placed
  <2>3. /\ DOMAIN resume.strata = 1..(resume.stratum - 1)
        /\ \A s \in DOMAIN resume.strata : resume.strata[s] \in 0..Quota
    <3>1. resume.strata \in Seq(0..Quota)
      BY <2>1 DEF FetchStates
    <3>2. Len(resume.strata) = resume.stratum - 1
      BY <2>1, Zenon DEF Counted
    <3> HIDE DEF rows
    <3> QED
      BY <3>1, <3>2, LenProperties, ElementOfSeq
  <2>4. \A s \in DOMAIN resume.strata :
          resume.strata[s] = Of(s, rows) /\ Of(s, rows) <= Quota
    <3>1. \A s \in 1..(resume.stratum - 1) : resume.strata[s] = Of(s, rows)
      BY <2>1, Zenon DEF Counted
    <3>2. \A n \in 0..Quota : n <= Quota
      OBVIOUS
    <3> HIDE DEF rows
    <3> QED
      BY <2>3, <3>1, <3>2
  <2>5. Of(resume.stratum, rows) = resume.received /\ AcceptedRows(rows) = resume.accepted
    BY <2>1, Zenon DEF Counted
  <2>6. ~torn => Accepts
    <3>1. After(resume) = Rest(resume, works)
      BY DEF After, Rest
    <3>2. EndsInPage(resume, works) => IsOnePage(resume)
      BY <3>1 DEF EndsInPage, IsOnePage
    <3> QED
      BY <2>1, <2>5, <3>1, <3>2 DEF Accepts, IsAudited
  <2> QED
    BY <2>1, <2>2, <2>4, <2>5, <2>6 DEF FetchedOnce
<1> QED
  BY <1>1, FetchInductive, PTL

-----------------------------------------------------------------------------
(* How the rows the resume file accounts for grow.                         *)

LEMMA NoPage == ASSUME FetchAssumption, NEW a \in Seq(FetchedRows) PROVE GrowsByPage(a, a)
BY SubSeqFull, LenProperties DEF GrowsByPage, FetchAssumption

LEMMA OnePage ==
  ASSUME FetchAssumption, NEW a \in Seq(FetchedRows), NEW s \in FetchStates,
         s.stratum <= Strata, NEW rows \in Answers(s)
  PROVE  GrowsByPage(a, a \o rows)
<1>1. /\ rows \in Seq(FetchedRows) /\ Len(rows) <= DrawSize(s)
      /\ \A i \in 1..Len(rows) : rows[i].stratum = s.stratum /\ rows[i].draw = s.draw
  BY PageIs
<1>2. DrawSize(s) \in Nat /\ DrawSize(s) <= PerPage /\ PerPage \in Nat
  BY DEF DrawSize, Smaller, Remaining, FetchStates, FetchAssumption
<1>3. /\ Len(a) \in Nat /\ Len(rows) \in Nat /\ Len(a \o rows) = Len(a) + Len(rows)
      /\ \A i \in 1..Len(rows) : (a \o rows)[Len(a) + i] = rows[i]
  BY <1>1, ConcatProperties
<1>4. a = SubSeq(a \o rows, 1, Len(a))
  BY <1>1, HeadOfConcat
<1>5. ASSUME NEW i \in (Len(a) + 1)..Len(a \o rows)
      PROVE  (a \o rows)[i].stratum = s.stratum /\ (a \o rows)[i].draw = s.draw
  <2>1. i - Len(a) \in 1..Len(rows) /\ i = Len(a) + (i - Len(a))
    BY <1>3
  <2> QED
    BY <1>1, <1>3, <2>1
<1>6. Len(a) <= Len(a \o rows) /\ Len(a \o rows) <= Len(a) + PerPage
  BY <1>1, <1>2, <1>3
<1> QED
  BY <1>4, <1>5, <1>6 DEF GrowsByPage

\* Until the resume file accounts for it, what a call fetched is one page.
Unaccounted ==
  call \in {"write page", "write last page"} => GrowsByPage(Accounted, works)

LEMMA AccountedTyped == ASSUME FetchAssumption, FetchInv PROVE Accounted \in Seq(FetchedRows)
<1>1. CASE resume = NoResume
  BY <1>1 DEF Accounted
<1>2. CASE resume # NoResume
  <2>1. works \in Seq(FetchedRows) /\ resume.rows \in Nat /\ resume.rows <= Len(works)
    BY <1>2 DEF FetchInv, FetchTypeOK, FetchStates, FitsIn
  <2>2. \A i \in 1..resume.rows : works[i] \in FetchedRows
    BY <2>1
  <2>3. SubSeq(works, 1, resume.rows) \in Seq(FetchedRows)
    BY <2>1, <2>2, SubSeqProperties
  <2> QED
    BY <1>2, <2>3 DEF Accounted, Committed
<1> QED
  BY <1>1, <1>2

\* Between two pages the resume file accounts for everything.
LEMMA AllAccounted ==
  ASSUME FetchAssumption, FetchInv, call \in {"loop", "end stratum"}
  PROVE  Accounted = works
<1>1. works \in Seq(FetchedRows) /\ fetch.rows = Len(works)
  BY DEF FetchInv
<1>2. IF resume = NoResume THEN works = <<>> ELSE resume = fetch
  <2>1. fetch # NoResume
    BY DEF FetchInv, FetchTypeOK, FetchAssumption
  <2> QED
    BY <2>1 DEF FetchInv
<1>3. SubSeq(works, 1, Len(works)) = works
  BY <1>1, SubSeqFull
<1> QED
  BY <1>1, <1>2, <1>3 DEF Accounted, Committed

\* Rows that are appended are not accounted for.
LEMMA AppendedStays ==
  ASSUME FetchAssumption, FetchInv, call = "loop", NEW more \in Seq(FetchedRows),
         works' = works \o more, resume' = resume
  PROVE  Accounted' = Accounted
<1>1. /\ works \in Seq(FetchedRows) /\ fetch.rows = Len(works)
      /\ IF resume = NoResume THEN works = <<>> ELSE resume = fetch
  BY DEF FetchInv
<1>2. CASE resume = NoResume
  BY <1>2 DEF Accounted
<1>3. CASE resume # NoResume
  <2>1. Accounted = works
    BY AllAccounted
  <2>2. Accounted' = SubSeq(works \o more, 1, Len(works))
    BY <1>1, <1>3 DEF Accounted, Committed
  <2> QED
    BY <1>1, <2>1, <2>2, HeadOfConcat
<1> QED
  BY <1>2, <1>3

LEMMA StartFetchGrows ==
  ASSUME FetchAssumption, FetchInv, StartFetch
  PROVE  GrowsByPage(Accounted, Accounted') /\ Unaccounted'
<1>1. /\ resume' = resume /\ call' = "loop" /\ works' = SubSeq(works, 1, fetch'.rows)
      /\ fetch' = IF resume = NoResume THEN Fresh ELSE resume
  BY DEF StartFetch, Committed
<1>2. Accounted' = Accounted
  <2>1. CASE resume = NoResume
    BY <1>1, <2>1 DEF Accounted
  <2>2. CASE resume # NoResume
    <3>1. works' = Accounted
      BY <1>1, <2>2 DEF Accounted, Committed
    <3>2. FetchInv'
      BY StartFetchKeeps
    <3>3. works' \in Seq(FetchedRows) /\ resume.rows = Len(works')
      BY <1>1, <2>2, <3>2 DEF FetchInv
    <3>4. Accounted' = SubSeq(works', 1, resume.rows)
      BY <1>1, <2>2 DEF Accounted, Committed
    <3> QED
      BY <3>1, <3>3, <3>4, SubSeqFull
  <2> QED
    BY <2>1, <2>2
<1> QED
  BY <1>1, <1>2, AccountedTyped, NoPage DEF Unaccounted

LEMMA FetchPageGrows ==
  ASSUME FetchAssumption, FetchInv, NEW rows \in Answers(fetch), FetchPage(rows)
  PROVE  GrowsByPage(Accounted, Accounted') /\ Unaccounted'
<1>1. /\ call = "loop" /\ fetch.stratum <= Strata /\ works' = works \o rows
      /\ resume' = resume
  BY DEF FetchPage
<1>2. /\ works \in Seq(FetchedRows) /\ fetch \in FetchStates
      /\ rows \in Seq(FetchedRows) /\ Accounted = works
  BY <1>1, PageIs, AllAccounted DEF FetchInv, FetchTypeOK
<1>3. Accounted' = Accounted
  BY <1>1, <1>2, AppendedStays
<1>4. GrowsByPage(works, works')
  BY <1>1, <1>2, OnePage
<1> QED
  BY <1>2, <1>3, <1>4, NoPage DEF Unaccounted

LEMMA TearPageGrows ==
  ASSUME FetchAssumption, FetchInv, NEW rows \in Answers(fetch), TearPage(rows)
  PROVE  GrowsByPage(Accounted, Accounted') /\ Unaccounted'
<1>1. /\ call = "loop" /\ fetch.stratum <= Strata /\ resume' = resume /\ call' = "none"
  BY DEF TearPage
<1>2. PICK n \in 0..Len(rows) : works' = works \o SubSeq(rows, 1, n)
  BY DEF TearPage
<1>3. fetch \in FetchStates /\ rows \in Seq(FetchedRows)
  BY <1>1, PageIs DEF FetchInv, FetchTypeOK
<1>4. SubSeq(rows, 1, n) \in Seq(FetchedRows)
  BY <1>3
<1>5. Accounted' = Accounted
  BY <1>1, <1>2, <1>4, AppendedStays
<1> QED
  BY <1>1, <1>5, AccountedTyped, NoPage DEF Unaccounted

LEMMA WriteGrows ==
  ASSUME FetchAssumption, FetchInv, Unaccounted, WritePage \/ EndStratum \/ Complete
  PROVE  GrowsByPage(Accounted, Accounted') /\ Unaccounted'
<1>1. /\ works \in Seq(FetchedRows) /\ fetch \in FetchStates /\ fetch.rows = Len(works)
      /\ works' = works /\ resume' = fetch' /\ fetch'.rows = fetch.rows
      /\ call' \in {"loop", "end stratum", "none"}
  BY DEF FetchInv, FetchTypeOK, FetchStates, WritePage, EndStratum, Complete
<1>2. resume' # NoResume
  <2>1. FetchInv'
    BY WriteKeeps
  <2> QED
    BY <1>1, <2>1 DEF FetchInv, FetchTypeOK, FetchAssumption
<1>3. Accounted' = works
  BY <1>1, <1>2, SubSeqFull DEF Accounted, Committed
<1>4. GrowsByPage(Accounted, works)
  <2>1. CASE WritePage
    BY <2>1 DEF WritePage, Unaccounted
  <2>2. CASE EndStratum \/ Complete
    <3>1. Accounted = works
      BY <2>2, AllAccounted DEF EndStratum, Complete
    <3> QED
      BY <1>1, <3>1, NoPage
  <2> QED
    BY <2>1, <2>2
<1> QED
  BY <1>1, <1>3, <1>4 DEF Unaccounted

LEMMA LeaveFetchGrows ==
  ASSUME FetchAssumption, FetchInv, Unaccounted, LeaveFetch \/ UNCHANGED fetchVars
  PROVE  GrowsByPage(Accounted, Accounted') /\ Unaccounted'
<1>1. works' = works /\ resume' = resume /\ (call' = "none" \/ call' = call)
  BY DEF LeaveFetch, fetchVars
<1>2. Accounted' = Accounted
  BY <1>1 DEF Accounted, Committed
<1> QED
  BY <1>1, <1>2, AccountedTyped, NoPage DEF Unaccounted

(* What the resume file accounts for is never lost or changed, and grows   *)
(* by the rows of one answer at a time, for any number of strata, rows and *)
(* requests, wherever calls die (fetch_openalex,                           *)
(* _rollback_uncommitted_raw_tail).                                        *)
THEOREM AccountedOnlyGrows == FetchInit /\ [][FetchNext]_fetchVars => AccountedGrows
<1> USE FetchAssumption
<1>1. FetchInit => Unaccounted
  BY DEF FetchInit, Unaccounted
<1>2. ASSUME FetchInv, Unaccounted, [FetchNext]_fetchVars
      PROVE  GrowsByPage(Accounted, Accounted') /\ Unaccounted'
  BY <1>2, StartFetchGrows, FetchPageGrows, TearPageGrows, WriteGrows, LeaveFetchGrows
     DEF FetchNext
<1>3. FetchInv /\ Unaccounted /\ [FetchNext]_fetchVars
        => Unaccounted' /\ [GrowsByPage(Accounted, Accounted')]_fetchVars
  BY <1>2
<1> QED
  BY FetchInductive, <1>1, <1>3, PTL DEF AccountedGrows

=============================================================================

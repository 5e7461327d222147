# Verification of SocialGraph-FM

TLA+ models of the parts of SocialGraph-FM in which several processes, files or
database rows have to agree although any of them may stop, be late or be
repeated; TLC configurations that check them on small instances; and TLAPS
proofs for instances of every size.

Paths below are relative to the repository. `API` is `services/api/app`, `GFM`
is `packages/gfm/src/socialgraph_gfm`, `RT` is
`packages/runtime/src/socialgraph_fm_runtime`.

## 1. The system

A launcher (`scripts/socialgraph.py`, `RT`) installs the environment and starts
two processes on the loopback interface (`docs/REFERENCE.md`):

* the **API** (FastAPI on one uvicorn process, port 5173), which also serves the
  web client. It keeps SQLite databases and directories: governance cases,
  confirmations and audit events, imported datasets, uploaded artifacts;
* the **GFM process** (port 8766), a threading HTTP server around the model. It
  keeps run directories and the index of reviewed cases, and executes inference
  runs on a single worker thread. The API calls it over HTTP with a timeout and
  without retries.

A user imports or uploads a graph, starts an inference run, opens a case on its
result, adds targets, records reviews, concludes the case; a concluded case is
entered into the index of reviewed cases and from then on found by similarity
searches. A concluded case may be archived and reopened.

### Components, their state and what makes them correct

| component | state | operations | correct if |
|---|---|---|---|
| Reviewed-case index, `GFM/governance/reviewed_cases.py` | `index.sqlite3`, `vectors/`, `manifest.json`, a pending-transition document, a staging directory, a lock file | `index`, `query`, `record`, recovery in every call | the files always describe one set of records or a transition that can be finished or undone; records are never lost or changed |
| Case-index ledger, `API/governance_skill_runtime/audit_store.py` | `case_index_events`, `case_index_claims` | claim, renew, finish | attempts open and close in turn; one owner at a time |
| Skills gateway, `API/governance_skill_runtime/gateway.py` | calls in progress (coroutines) | `ensure_case_indexed`, heartbeat, backfill, `similar_cases`, `execute`, `confirm`, assistant | what is recorded and shown as indexed is what the index holds; a confirmed action happens at most once |
| Governance case store, `API/gfm_governance_store.py` | cases, state events, items, reviews, collections, run bindings, adaptation records | create, transition, add item, add review, bind run | transitions follow the table; a concluded case is frozen |
| Governance gateway, `API/gfm_governance.py`, `_routes.py` | none of its own | runs, cases, previews, reports, adaptation | what it shows was produced for the identity it was asked for |
| Serving runtime, `GFM/governance/service.py` | run directories, the queue, the worker | create, cancel, retry, execute, recover; materialize; adaptation | every accepted run ends, its status is final and agrees with its files |
| Skill executor, `GFM/governance/skill_executor.py` | none; reads results, appends to the index | `index_case` and read-only skills | |
| GFM server and API client, the handler in `GFM/core/inference_service.py`, `API/gfm_client.py` | none | HTTP with a token | |
| Confirmations, audit chain, reports (same audit store) | grants and their events, audit events, reports | issue, consume, append, save | a grant is used once; an audited completion happened |
| Dataset storage and handoffs, `API/dataset_storage.py`, `API/dataset_import/service.py` | artifact directories, staging, the recovery bin, SQLite rows, bindings, handoff tokens | save, trash, purge, recover an orphan, hand off | what is registered or bound has its files, after any failure |
| Trusted conversions, `API/trusted_conversion.py` | job records; in memory the tasks, the cancelled jobs, the converter's process | inspect, authorize, run, cancel, mark interrupted jobs | a converter is started once per authorization; jobs end; a success is final |
| Cache of inspections, `API/dataset_import/service.py` | entries, the bytes of all and of each project | inspect, commit, cancel, prune | the totals agree with the entries, no limit is exceeded |
| Artifact inbox, `API/gfm_governance_artifacts.py` | directories under `incoming` | commit, get | a content is committed once |
| Process manager, `RT/processes.py` | PID records | start, stop | no service runs that no record names |
| Configuration and bundles, `RT/llm.py`, `web_bundle.py`, `bundle.py`, `profile.py` | the private environment file and its backup; installed bundles | write, roll back, install | the old or the new configuration is in force |
| Core run service, `GFM/core/inference_service.py` | run directories: request, state, manifest, result, success marker; a thread per run | create, execute, recover | a success keeps its result, no run is executed twice, every run ends |
| Global model service, `GFM/global_model/service.py` | run directories, a queue, one worker | create, execute | every accepted run ends |
| Research serving, `GFM/research/service.py` | registration jobs, runs, the cache and its index, a queue, one worker | register a graph, create a run, execute, recover | a request has one outcome, whenever it is asked for |
| Promotion and serving control, `GFM/core/promotion.py`, `serving_control.py`, `serving_registry.py`; the API's side `API/gfm_core_serving_control.py` | receipts, the control document, a high-water document per process | promote, recover, roll back, capture, accept | what was promoted is served until an operator replaces it; an interrupted promotion can be ended |
| Pretraining runs, `GFM/workflows/pretrain.py`, `GFM/gfm/checkpoint.py`, `registry.py`, `GFM/workflows/adaptation.py` | checkpoints in three roles, the run's state and manifest, the registry | train, save, retain, register, resume | progress survives a death; the best checkpoint is registered |
| OpenAlex acquisition, `GFM/gfm/corpus/openalex.py` | the raw file, the resume file | fetch, roll back, resume | every row once; a call that died can be continued |
| Models, trainers, experiments, evidence of preflight and acceptance, `GFM/core`, `GFM/global_model`, `GFM/research` | tensors, reports | sequential numerical and validating code | |
| Intents, normalizer, provider; web client | none others rely on | | |

`PROJECT.json` lists the same components with what is modelled of each.

### How they interact, and what is hard

* **Within the API** everything runs on one event loop: the code between two
  `await`s is atomic, what was read before an `await` may be stale after it.
* **Between the processes** a request may be lost, refused, answered late, or
  take effect after its caller has given up. Nothing is retried automatically;
  users and `POST /case-index/backfill` repeat.
* **Files** are replaced atomically one at a time, never together; every process
  may die between two replacements. Databases commit atomically, but not
  together with files or with each other.
* **Threads** of the GFM process share run directories under one lock, except for
  the cancellation flag, which is a file.
* **Leases**: an attempt to index a case is owned for 30 s and renewed every 10 s;
  others poll every 50 ms.

* **Promotions** of a new serving control meet processes that capture the old or the
  new one, each with a mark of the newest generation it accepted, and operators that
  replace it by hand.
* **Batch jobs** (pretraining, acquisition of a corpus) run for hours and are resumed
  by a later call from whatever files a death left.
* **The launcher** knows its services by PID files only; PIDs and ports may belong to
  somebody else by the time it looks.

The hazards that follow from this and that a property covers are listed in
`PROJECT.json`, each at its line; those that none covers are in section 5.

## 2. The modules

```
ReviewedCaseBook        what the index promises            (abstract)
   ^ implements
ReviewedCaseIndex       the files of the index             -> ReviewedCaseIndexProofs
   : ReviewedCaseBook is also what the calls below use
CaseIndexing            case + calls + GFM request         -> CaseIndexingProofs
   | EXTENDS
CaseIndexLedger         the ledger the calls share         -> CaseIndexingProofs

JobOutcomes             what a service of jobs promises    (abstract)
   ^ implements
GovernanceRuns          runs, the worker, the API's calls  -> GovernanceRunsProofs
CoreRuns                runs of the core model             -> ServicesProofs
ResearchJobs            registrations and runs             -> ResearchProofs
TrustedConversion       conversion jobs                    -> DatasetProofs

DatasetStore            rows and directories of datasets   -> DatasetProofs
InspectionCache         the cache before an import         -> ApiProofs
Confirmations           grants, reports, reviews, audit    -> ConfirmationsProofs
ServingControl          promotions and who reads them      -> ServicesProofs
PretrainRun             a run, its checkpoints, its resume -> ResearchProofs
OpenAlexFetch           the corpus, page by page           -> ResearchProofs
Launcher                a service and its PID record       -> ServicesProofs

MCApi, MCGovernance, MCGfm  the parts side by side  -> ApiProofs, GovernanceRunsProofs,
                                                       ServicesProofs
```

Three modules compose parts that share no variable, so that one run explores them:

* `MCApi`: CaseIndexing (with its ledger), DatasetStore, TrustedConversion and
  InspectionCache, the parts of the API process;
* `MCGovernance`: Confirmations and GovernanceRuns;
* `MCGfm`: Launcher, CoreRuns, ServingControl, ResearchJobs, PretrainRun and
  OpenAlexFetch.

Their variable `part` says, from the first state on, which part moves; the others
rest in an initial state. The states explored are the sum of those of the parts, and
every behaviour of a part is explored. Parts that do interact are in one module with
their interaction as actions: calls of the index with the GFM process, the API's run
requests with the GFM process's worker, confirmations with the runs and reviews they
make, conversions with the import of their packages, promotions with the processes
that capture what is promoted.

Operators whose comment names a slip (`UndoNothing`, `FinishUnheld`, ...) are not part
of any specification: each is a plausible mistake in the definition that follows it,
and the property it is paired with in `PROJECT.json` is violated when the definition
is replaced by it.

### ReviewedCaseIndex

State: the five kinds of files as functions from cases to evidence, the lock, and
for every caller the step it is at. An action is one durable file operation of
`index`, of `_recover_transition` or of the cleanup of the staging directory.
`Raise` is an exception there, `Crash` the death of the caller's process; the
operating system then releases the file lock. A file is its contents (digests are
compared in the code), so two files with the same records are the same.
`IndexAssumption` only says that the special values are no evidence.

The order of the code is what matters: stage the next database, stage the vector
file, publish the transition document, move the vector file, move the database
(the commit point), write the manifest, verify, sweep, unlink the document.
Recovery decides on what it finds (`CanUndo`, `CanRedo`) and refuses everything
else; `AlwaysRecoverable` says that it never has to, unless someone outside the
program changed the files.

`ReviewedCaseBook` is the promise to callers: a book from cases to evidence in
which a case is entered in one step, once; the refinement maps the book to the
database and hides everything else. It holds because the move of the database is
the only step other callers can ever learn of.

### CaseIndexLedger

One case's events and claim (no method touches two cases). A public method of the
store is one transaction, hence one action; a lease is live or has run out, and
may run out at any time. `IsAnswered`, `MustWait`, `Reserve` and `TakeOver` are the
branches of `claim_index_attempt`. Renewing does not look at the clock, as in the
code: an owner whose lease ran out gets it back if nobody took over. The initial
states include an open attempt without a claim, left by a version of the API that
had no claims table.

### CaseIndexing

The case, any number of calls of `ensure_case_indexed` (each with a fresh owner
id), the ledger, one record of the index, and a search. An action is the code of a
call between two `await`s; the death of the API is an action, also between the
commit of a conclusion and the claim that follows it in the same slice. The hash
of a case covers the time of its last transition, so each conclusion has its own
and they are numbered. A request carries the conclusion the targets were read at
(`of`) and the one whose time was read later (`at`): after the `await` of the run's
result. What the GFM process does with a request is what `ReviewedCaseBook` promises: a
new case is entered and then answered (`GfmEnters`, `GfmAnswers`), the same
evidence is accepted again, other evidence refused; and before or after it was
entered the request may fail or be lost (`GfmFails`). That this is no reading of
the promise but the promise itself is stated by the instance `Index` of the book,
with the requests as its callers, and proved (section 4).

Left out: the content of an answer beyond "it is the receipt of this request";
cases without targets (never indexed); seed cases of the bundled index, which have
no case in the API; `append_index_event`, which only tests call. A terminal event
appended with it would leave the claim behind and fail the next validation.

### GovernanceRuns

Run directories (`state.json`, the flag, the outputs, the retried run), the
executor's queue, the worker's place in `_execute`, requests of the API on the way,
and the bindings the API stored. `state.json` is replaced as a whole, after being
read again under the runtime's lock: one action. The flag is looked for without the
lock at four places (`Looks`), cancellation reads the state, looks for the flag,
creates it exclusively and then writes: four actions. `retry_run` reads the state of
the retried run and holds no lock (`ReadParent`); the new run is created later, under
the lock and without looking at the old one again (`Store`). `Die` loses the queue; on
the next start every run left queued or running becomes interrupted before requests
are served. `FinalWritesFail` says whether the last write of a failed or cancelled
run may fail; `_execute` swallows that.

Left out: progress, stages and error codes; refusals for a wrong identity of
artifact or model (`Refuse`); the graceful `close()`, whose behaviours are among
the modelled ones; the read side. A run whose `request.json` exists without
`state.json` is no run for any operation.

### Confirmations

`execute` prepares an action with an effect and answers with a token; `confirm`
consumes the grant behind the token and then creates a run, saves a report or adds
a review. State: the grants, the reports and what was appended to the audit chain;
the version of one case and the reviews added to it; the runs of the GFM process and
their bindings; for each execution and each request to confirm the place it is at.

An action is one transaction, or the code between two `await`s where there is none.
Between `await`s several transactions follow each other and the process may die
between any two, but no other coroutine runs: `loop` names who holds the event loop
(`Keeps`), and only `await` and return give it up (`Yields`). That is what the order
of the code relies on: the comparison of the case and the transaction that adds the
review are two steps with nothing in between. Requests to create a run go over the
network as in the other modules: refused, lost, answered late.

The version of the case grows with every change and stands for its hash, which covers
every event of the case with its time. Whatever changes the case over other routes is
`ChangeCase`. A grant for `submit_review` is not issued by any code of this version,
but `confirm` still consumes one, so such grants exist from the start.

Left out: skills without an effect; the verification of all hashes in every
transaction, which fails only if someone else changed the database, and is then one
of the failures every action may meet; what a run, a report or a review contains.

### DatasetStore

State: the row of every dataset (and whether it is in the trash), how much of its
directory there is in `staging`, in `artifacts` (`shelf`) and in `purge-recovery`
(`bin`), which dataset a graph is bound to, the handoff tokens, and what the event
loop and an import thread are at. Writing a directory and removing it take two steps,
between which it is partly there; a move is one step; a transaction is one step. A
purge moves the directory to the bin, then deletes the row, then sweeps the bin, and
moves it back if the deletion is refused or fails. A handoff stages, moves and then
commits row, binding and token together. The recovery of an orphan looks at the
directories before it takes the lock and moves afterwards. `StoreCrash` may come
anywhere. `swept`, `cut` and `snatched` remember which purges began to remove files or were cut
short, and which datasets were recovered while an import still wrote them; the
properties state their exceptions with them.

### JobOutcomes

What the governance runs, the runs of the core model, the jobs of the research model
and trusted conversions have in common, for those who ask for a job: its state, and
whether it is told to have succeeded with its result in place. A step tells something
else of some jobs, none of which is final; the results are always those of the jobs
told to have succeeded. It implies that a final state never changes (by a cancellation
decided on an older state, a repeated request, a restart) and that a result comes with
its success and stays. Each module says what is final there: `Terminal` for governance
runs, `Final` for research jobs; for core runs only success, since the recovery may turn
a failed run into a succeeded one (`core_terminal`), and for conversions only success,
since a failure may still be written over a cancellation and the reverse. The results
are `Readable`, `Published`, `Answerable` and `Converted`.

### TrustedConversion

Jobs with their record (`status`), and in memory the task's place, the converter's
process, the import thread and the set of cancelled jobs. An action is the code
between two `await`s. Between the creation of a task and its first step other requests
run; a request to cancel kills the converter over several `await`s, as the task does
at its limits; the thread of an import cannot be stopped. An error of the file system
in the loop that watches the converter fails the job and leaves the converter running
(`Look`). A restart forgets all but
the records and marks unfinished jobs.

### InspectionCache

The entries in the order in which they came in, the running totals, and the method
that holds the lock. `Inspect` and `Take` (a commit or a cancellation) begin a method;
each round of the loops of `_prune_inspections_locked` is a step (`ReleaseExpired`,
`MakeRoomInProject`, `MakeRoom`), since the totals the next round compares are those
this one leaves; `Store` and `ReleaseTaken` end it. Which entries have expired when a
method begins is left open.

### CoreRuns

For every run the set of files in its directory, what its state file says, where its
thread is, and which runs a start has yet to recover. `Raise` and `Crash` come anywhere;
`PassOver` is a run whose recovery needs nothing, is refused, or fails. `executed` and
`succeeded` remember how often a run was executed and which were told to have
succeeded.

### ServingControl

The control document as its generation and who made it, the receipts, the high-water
mark of the promoter and of each process that reads the control, and the place of the
promotion under way. An exchange of names is atomic (`renameat2` on Linux) and comes
after a comparison that it is not atomic with: between them an operator may `Replace`
the control. `Capture` and `Accept` are the two halves of acquiring it. What makes a
candidate a candidate, its sealed acceptance and its smoke report, is checked before.

### ResearchJobs

Registrations of graphs and runs on them, which are one kind of job for the worker:
status, result, for registrations cache and index, the queue in memory. A job is named
by its request, so asking again is answered by `status`. `swallowed` are the jobs whose
failure could not be written.

### PretrainRun

Checkpoints are pairs of a role and a step; `artifacts` and `manifests` say which of
the two files there are. A step of the model is one evaluation: copy the latest
checkpoint to a recovery one, save the new latest, save the best if the loss improved,
drop what the roles no longer need, artifact first. `loss` is any function, chosen
initially. After a death `Resume` goes on from any checkpoint that gfm-resume
accepts, and `Retry` starts again where it accepts that there is none.

### OpenAlexFetch

The raw file as a sequence of rows, perhaps with a torn line after it, the resume file
and the state in the memory of a call. Rows of a page are appended, then the resume
file is replaced. `StartFetch` truncates what was appended after the resume file if it looks
like one page. The service answers with at most a page and need not answer the same
request twice in the same way.

### Launcher

Processes by PID with an identity no other process has, who listens on the port, the
PID record, and what the launcher does next. Processes start, exit, and take over port
and PID on their own. `start` looks at port and record, starts the root, writes the
record and waits for the port; `stop` looks at the record, sends SIGTERM to the group,
waits, sends SIGKILL, waits, and removes the record only if both PID and port are free.

## 3. What is checked

| run | instance | properties |
|---|---|---|
| `index` | 2 callers, 2 cases, 2 kinds of evidence; 568 thousand states | `AlwaysRecoverable`, `IndexedIsDurable`, `ImplementsBook`, `RepairedIfUsed` |
| `api` | indexing: 2 calls, 2 conclusions; datasets: 2 ids, 1 graph, 1 token; conversions: 1 job of 2 datasets, 2 requests to cancel; cache: 2 projects, sizes 1 to 3, 3 entries; 454 thousand | `ApiTypesOK`; `LedgerIsValid`, `SucceededIsIndexed`, `TrueIsIndexed`, `ShownIsCoherent`, `StaysVisible`, `CallsReturn`; `BoundFilesStay`, `RegisteredIsKept`, `RegisteredOnShelf`; `StartedOnce`, `SuccessIsFinal`, `ConversionsEnd`; `CacheFits` |
| `governance` | confirmations: 2 of 6 grants, 2 requests, 3 versions; runs: 2 runs, 2 requests, failing final writes; symmetric; 790 thousand | `GovernanceTypesOK`; `OncePerGrant`, `CompletedIsDone`, `PreparedIsAudited`, `ReviewFitsCase`, `OneReviewPerVersion`; `ResultsMatchStatus`, `RetriesEndedRuns`, `RunsKeepOutcomes` |
| `runs_live` | 2 runs, 2 requests, working final writes, fairness; 949 thousand | `NoneAbandoned`, `RunsEnd`, `CancelledInTime` |
| `gfm` | launcher: 2 PIDs, 4 processes; core: 2 runs; promotions: 2 candidates, 1 serving process, 2 generations; research: 2 graphs, 1 question; pretraining: 3 steps, 3 losses, minimum 2, patience 1; corpus: 2 strata of 3, pages of 2, 4 requests; 63 thousand | `GfmTypesOK`; `ServicesAreRecorded`; `SuccessIsKept`, `CoreRunsEnd`; `PromotedHolds`, `PromotionsGoOn`; `JobsKeepOutcomes`, `JobsEnd`; `ProgressIsKept`; `FetchedOnce` |

Seven runs check a promise of the repository that its code does not keep; TLC finds
the counterexample (section 5):

| run | property | promised by |
|---|---|---|
| `indexing_retry` | `FailedRemainsRetryable` | the test of that name |
| `dataset_staged` | `OnlyOrphansAreLeft` | a docstring of `dataset_storage.py` |
| `serving_second` | `AcceptedIsPromotedOver` | the code of `promotion.py` for a second model |
| `core_terminal` | `TerminalIsPreserved` | a docstring of `inference_service.py` |
| `pretrain_best` | `BestIsSelected` | comments of `pretrain.py` |
| `pretrain_resume` | `InterruptedIsResumed` | a comment of `registry.py` |
| `fetch_first` | `PagesAreResumable` | docstrings of `openalex.py` |

**Bounds.** Two callers of the index are enough for one to find what another left;
two cases for an append to be confused with the rest; two kinds of evidence for a
conflict. In `CaseIndexing` two conclusions are the least at which an attempt, a
request or a search can belong to an older version of the case, two calls the least at
which one takes over from the other. Of datasets one may be bound while the other is
purged, or one saved by a thread while the loop recovers it; a conversion imports two
datasets so that it may fail between them, and two requests cancel it so that one may
come late. In the cache one project can fill its share and leave room to the other. In
`GovernanceRuns` two runs are a run and its retry, or a run behind another in the queue;
two requests race. In `Confirmations` two requests carry the same token or rival ones,
and three versions are one a review was prepared for, one it was added to or that
another change made, and one after it. Four processes on two PIDs are a root, its
successor and foreign ones between them. Two candidates and two generations are a
promotion, what it replaces and what comes after it. Three steps of training let a run
improve, get worse and stop; a page of two in a stratum of three leaves a last page
that is smaller. The bounds on conclusions (`Hashes`), versions (`MaxVersion`),
identities (`MaxBorn`), generations, steps (`MaxStep`) and requests (`Budget`, a
parameter of the program) are guards; there the program may stop, in the composed runs
as soon as its part has nothing more to do, so these runs do not check for deadlock.

**Fairness.**
* `ReviewedCaseIndex`: a caller that holds the lock keeps running. That calls keep
  coming and interruptions end is part of `RepairedIfUsed`, not of the specification.
* `CaseIndexing`: a sleep of a poll ends (`asyncio.sleep`), an awaited request is
  answered or times out (the client has a timeout), and the lease of an owner that
  is gone runs out (it compares a time). Nothing is assumed of the GFM process, of
  users, or of an owner's heartbeat. A poll that finds it must wait again is no
  progress, and no poll is assumed to fail.
* `TrustedConversion`: the coroutine goes on at each of its awaits, the import thread
  runs, a killed process dies, and a restarted API marks the interrupted jobs before it
  serves. A converter need not end by itself: it reaches the limit of time
  (`PollLimited`).
* `GovernanceRuns`: the worker thread and a thread that has stored a run keep
  running while the process is up. `RunsEnd` and `CancelledInTime` assume that a dead
  process is started again (by the user: nothing restarts it) and final writes work.
* `CoreRuns`: the threads and the recovery go on and the process is started again.
  `ResearchJobs`: the worker goes on, and a restart recovers; `JobsEnd` leaves out the
  time in which the process is down.
* `OpenAlexFetch`: somebody calls again after a call that ended. That is all
  `PagesAreResumable` needs, which is violated nevertheless.
* The other modules have no liveness property and assume no fairness.

## 4. What is proved

Every safety invariant and every action property that a passing run checks is also
proved, for any values of the constants, from the named assumptions of its module and
nothing else; the three composed runs are covered as they are run (`ApiIsSafe`,
`GovernanceIsSafe`, `GfmIsSafe`). The argument is the same everywhere: a strengthening
`IInv` (`RunsInv`, `JobsInv`, ... where a module has several) that holds initially, is
kept by every action (one step per action) and implies the property. Refinements are
proved by a step for each action: it maps to a step of the abstract module or to none.

**Refinements.**

* `Refinement`: ReviewedCaseIndex implements ReviewedCaseBook.
* `CallsUseTheBook` and `CallsExpectTheBook`: what CaseIndexing lets happen to a request
  is what ReviewedCaseBook does with a call, in both directions. Every step of
  CaseIndexing is a step of the book or none (`UsesTheBook`); and for a request that is
  out, whatever the book may do with it (enter, answer, refuse, fail) is a step of
  `GfmIndexes`. So what is proved of the calls does not rest on a second, private idea of
  the index: they assume exactly what the files are proved to provide.
* `RunsOutcomes`, `CoreRunsOutcomes`, `JobsOutcomes`, `ConversionOutcomes`: four services
  implement JobOutcomes. Runs check it for governance runs and research jobs
  (`RunsKeepOutcomes`, `JobsKeepOutcomes`); the other two are proved only.
* `UsesLedger`: the calls of CaseIndexing use the ledger as CaseIndexLedger allows.

**The modules.**

* **ReviewedCaseIndexProofs.** That the files can be recovered depends on what the
  holder of the lock has done. `IInv` adds who is past `Acquire` (`LockInv`), that
  nothing exists before initialization (`RootInv`) and, for each step of an append
  and of a recovery, what files and document look like there (`CallInv`). On top:
  `Recoverable`, `Accepted` (no call is refused for what an interruption left),
  `Durable`, `RecordsAreKept` (no step changes or removes a record), and `Refinement`.
* **CaseIndexingProofs.** First the ledger alone, `LedgerStaysValid`: what `_validate`
  demands holds after any sequence of transactions by any callers; lemmas state what
  appending a pending or a terminal event does to a valid history. Through `UsesLedger`
  its invariant carries over to the calls. `IInv` adds what every call knows: the
  version it began with is not newer than the case, the attempt it waits for is a
  pending event, a request accepted by the index is the record (`CallInv`, `WireInv`,
  `RecordInv`). `ShownItem` rests on an order: the item was read from the record,
  whose `of <= at <=` the number of conclusions, and what is shown compares the last
  success with the present conclusion.
* **GovernanceRunsProofs.** `IInv` adds that a run is in one place only: about to be
  submitted, once in the queue, or with the worker, and that the worker's place
  tells what is in the files. That a terminal status stays (`RunsOutcomes`) needs it for
  the worker, which writes the end of a run without looking at its status again.
  What a retry has read of the old run stays true until the new one is stored
  (`RequestInv`), hence `Retries`.
* **ConfirmationsProofs.** `SpentInv`: a request past the consumption has spent its
  grant alone, one before it has done nothing; with `KindInv` this is `Once`.
  `DoneInv` carries the effect from the transaction to the audit event (`Completed`);
  `GrantInv` says that a token is known only when its preparation is on record
  (`Prepared`). `ReviewInv`: who has compared the case holds the event loop until its
  review is stored, and all versions that were reviewed lie behind the present one, so
  no two reviews share one (`ReviewsFit`, `ReviewsExclude`).
* **DatasetProofs.** The store: `StoreIInv` says what a save, a handoff, a purge and a
  recovery may rely on at each step (`SaveInv`, `HandoffInv`, `PurgeInv`,
  `RecoverInv`), although thread and loop share the directories. It needs `ApartInv`:
  they are never at the same artifact unless the loop recovered what the thread was
  still saving, which `snatched` remembers. From it follow `BoundIsComplete`,
  `RegisteredNeverLost` and `RegisteredIsReadable`. Conversions: `ConversionInv` is
  about one job; lemma `OneJob` reduces every step to the job it is about. A coroutine
  that has not seen a cancellation is the only one that ends its job, and a request to
  cancel still on its way is in `cancelled` (`RequestInv`); hence `ConvertedOnce`,
  `SucceededForGood` and `ConversionOutcomes`.
* **ApiProofs.** The cache: its entries are distinct and within the limits, and the
  totals are theirs. The totals are sums over a sequence, which the provers cannot define
  by recursion; `BytesOf` counts pairs of an entry and one of its bytes instead, so that
  the lemmas on finite sets say what a removed or an added entry does to it. `CacheInv`
  adds what a method has checked and still holds when it stores, round after round;
  hence `TotalsAreThose`, including that an inspection within the limits finds room.
  Then the composition of the API's parts, `ApiTypeCorrect` and `ApiIsSafe`.
* **ResearchProofs.** Jobs: a job is in the queue or with the worker at most once, and
  only while it is reported as pending (`QueueInv`, `WorkerInv`), so it ends once, and
  what ended it is what it is reported as (`JobInv`). Hence `JobsOutcomes`, for any
  finite set of graphs (a restart puts those that are unfinished into the queue).
  Training: the trainer is ahead of the intact latest checkpoint by at most the step it
  is saving (`TrainerInv`, `FilesInv`), and what is in the registry belongs to a run that
  is still marked as running or has succeeded (`RunInv`); hence `TrainingIsKept`. The
  corpus: the resume file accounts for rows that were drawn before its next draw only,
  each once (`Placed`) and as many as it counts (`Counted`), and what a call leaves after
  them is at most the page it was at (`EndsInPage`), so that a repeated draw meets no row
  of itself (`PagesCountOnce`). Lemma `JoinedCount` carries the counts over a
  concatenation. That what is accounted for only grows, page by page
  (`AccountedOnlyGrows`), needs `Unaccounted`: what a call has fetched and not yet
  written to the resume file is the rows of one answer, also before there is one.
* **ServicesProofs.** The launcher: identities are never used twice (`Distinct`), and
  while it is at work its place tells what it knows of the root and of the record
  (`DoingInv`): a service whose record it is about to remove has neither root nor port
  (`Recorded`). Core runs: `ThreadInv` ties the place of a run's thread to its files,
  `ServerInv` says that no thread lives while a start recovers, `SuccessInv` that what
  was told to have succeeded is published; hence `Kept` and `CoreRunsOutcomes`. The
  control: `Own`, what each place of a promotion knows of its own control, receipt and
  mark; `Live`, a control that came from a promotion has its receipt, and the promoter's
  mark is not ahead of it unless an operator replaced it. From them a promotion that was
  answered holds (`Holds`), and one interrupted anywhere can be ended by whoever repeats
  it (`PromotionsCanGoOn`). Then the composition, `GfmTypeCorrect` and `GfmIsSafe`.

Only model-checked: the liveness properties (`RepairedIfUsed`, `CallsReturn`,
`ConversionsEnd`, `RunsEnd`, `CancelledInTime`, `CoreRunsEnd`, `JobsEnd`), since they
need fairness, which the provers do not handle. The properties of the seven runs that
end in a violation do not hold.

## 5. What was found

1. **A case that is concluded a second time can never be indexed** (`indexing_retry`).
   Transitions allow concluded -> archived -> active -> concluded, and the web client
   offers to reopen an archived case. If the case had been indexed the first time, the
   index keeps that record and refuses other evidence for the case
   (`GFM/governance/reviewed_cases.py:1128`), so each later attempt fails. The ledger
   lets it be repeated, as `test_case_index_failed_attempt_remains_retryable`
   (`services/api/tests/test_governance_skills_api.py:1165`) has it, but never with
   success; the case stays out of the search results and the web client goes on asking
   to conclude it first (`apps/web/src/components/GovernanceRagPanel.tsx:136`). What is
   shown stays right (`ShownIsCoherent`): the old evidence is hidden, not presented as
   new.
2. **A handoff that dies after staging leaves files nobody finds** (`dataset_staged`).
   `activate_staged_handoff` says that "a process crash can leave only a recoverable,
   unregistered orphan"; a complete directory under the staging root is looked for by
   neither `list_orphan_artifacts` nor `recover_orphan_artifact`.
3. **A second model can never be promoted** (`serving_second`). The receipt of a
   completed promotion stays; the next promotion of another candidate finds it, takes
   it for one of its own that was interrupted, and is refused for the difference
   (`GFM/core/promotion.py:1419`). The code that turns served models into accepted ones
   beside a new one (2082) is never reached for it.
4. **A failed run may become a succeeded one** (`core_terminal`). "Terminal runs are
   preserved byte-for-byte" (`GFM/core/inference_service.py:287`), but a run that failed
   after its result was written is completed by the next start.
5. **The best checkpoint may be the wrong one** (`pretrain_best`). The latest
   checkpoint carries the best metric and is saved before the best checkpoint; after a
   death in between the resumed run has the metric of the new best and the file of the
   old one, and registers that (`GFM/workflows/pretrain.py:489`).
6. **Some interrupted runs can never be resumed** (`pretrain_resume`): after a death
   between the artifact and the manifest of the first checkpoint, before the first best
   one, and before an older checkpoint of a role was removed
   (`GFM/workflows/adaptation.py:204`).
7. **A fetch that ends before its first resume file can never be continued**
   (`fetch_first`). Rows without a resume file are rolled back by nobody, and every later
   call refuses them (`GFM/gfm/corpus/openalex.py:849`).

Hazards that no property covers, and smaller observations; none contradicts a document:

* A waiting call with another version of the case gets the outcome of the attempt it
  waited for, hence `False`, and does not try its own version.
* If the store fails when a success is recorded, the attempt is recorded as failed
  although the case is in the index; the next attempt is answered as done already.
* Two API processes on one database (a test opens two gateways) could let an attempt
  for an old version follow the success of the present one and hide the case; and both
  could write the API's high-water mark of the serving control, the older one last. One
  process is deployed, and within it the read of the case and the claim are one slice.
* A governance run whose final write fails stays "running" until the process is started
  again; so does a core run whose failure cannot be written.
* Of two racing cancellations the second is answered with an error of the persisted
  state, though the run is cancelled. A succeeded run may carry `cancelRequested: true`.
* A run created while the API gives up, dies or cannot store the binding is executed,
  but unknown to the API; lists hide it and nobody can cancel it.
* A confirmation that is on record as failed may have had its effect: the review is
  committed before the case is read again, and the audit event comes last.
* A report is saved although the case has changed since it was drafted; only a review
  is compared with the case again.
* A label set and its binding are two transactions; binding the set again is harmless.
* An import that is still being written is an orphan for the recovery, which then
  registers it under the hands of the import; the import's own insert fails and removes
  the directory (`snatched`).
* A conversion cancelled before the first step of its task is started nevertheless: the
  record goes back from cancelled to running, the task ends the converter
  (`ConversionsEnd`), and the record stays so until the next start of the API marks it
  failed, unless it is cancelled once more.
* If the output of a converter cannot be looked at while it is watched, the job fails
  as `CONVERTER_START_FAILED`; the converter goes on, unregistered, and the job can no
  longer be cancelled (`services/api/app/trusted_conversion.py:422`).
* A purge whose removal stops part-way leaves an orphan that cannot be recovered.
* A package of several datasets that fails part-way leaves those it stored.
* A commit into a full cache may evict the very entry it wants; it answers 404.
* A process may accept a control whose promotion is then rolled back, and rejects the
  restored one, and every other of that generation. On Linux the rollback exchanges
  names after it compared them: a control installed by an operator in between is
  displaced.
* The runs of the Global model service are not recovered: after a death they are
  reported as queued or running for ever.
* A research run whose status cannot be written after its result is failed, with a
  result that can be read; asking again gives the same answer for ever.
* Works without authors use up the requests of a stratum; the budget is never given
  back.
* Two launchers at once may overwrite each other's record; SIGKILL goes to the group
  of a number whose identity was last looked at ten seconds earlier; a launcher that
  dies before it wrote the record leaves a service that none names.
* The private configuration and the web client are moved aside before the new ones take
  their place: a death in between leaves only the backup.

## 6. Not modelled

* **Governance cases** beyond what calls of the index and confirmations touch: items,
  review collections, adaptation records, label sets. Each is one transaction on the
  event loop, except the one above.
* **Artifact inbox**: one directory rename, idempotent on its content.
* **Global model service**: a queue and a worker like that of `GovernanceRuns` without
  its recovery; nothing is promised that could fail.
* **The launcher** over several services (order, rollback), setup, configuration,
  bundles and profiles: sequential, mostly validation and copying.
* **The acceptance** of a candidate, preflight, smoke tests: long sequential validation
  of evidence files, which compares and refuses; a promotion starts from its result.
* **Models, trainers, experiments, the other corpora**, most of the lines of the
  repository: numerical code over tensors and reports that are written once. No state
  of theirs is shared or outlives a call but files that are written once, so there is
  nothing for a model checker to interleave; that is also why the mapped share of all
  lines stays small.
* LLM output, parsing and normalizing of requests, rendering, archives' byte formats,
  authentication, read-only endpoints, the web client.

Tampering with files from outside the program is excluded everywhere; the code answers
it by refusing to go on.

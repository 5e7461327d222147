------------------------- MODULE ReviewedCaseIndex --------------------------
(***************************************************************************)
(* The index of reviewed cases of the GFM process                          *)
(* (packages/gfm/src/socialgraph_gfm/governance/reviewed_cases.py): a      *)
(* SQLite file, a directory of vector files and a manifest that must       *)
(* always describe the same set of records, although they can only be      *)
(* replaced one at a time.  An append is a write-ahead transition: it      *)
(* stages the next database and the new vector file, publishes a pending-  *)
(* transition document that names the previous and the next snapshot,      *)
(* moves the three files into place and unlinks the document.  Every call  *)
(* first repairs what an interrupted one left behind, or refuses to answer *)
(* when the files are outside the documented transition (it fails closed). *)
(*                                                                         *)
(* Every durable file operation is one action.  Between any two of them    *)
(* the call may raise (Raise) or its process may die (Crash).              *)
(*                                                                         *)
(* Abstractions: a file is its contents, so two equal digests are equal    *)
(* files; the evidence of a case stands for its request hash and vectors;  *)
(* temporary files of an atomic write and the empty staging directory are  *)
(* left out; tampering from outside the program is not modelled.           *)
(***************************************************************************)

CONSTANTS
  Procs,     \* threads and processes that open the index on the same root
  Cases,     \* case identifiers
  Evidence,  \* source request hash and vectors of one request
  Absent,    \* no record, no vector file
  NoFile,    \* there is no staged database
  NoTransition,
  NoProc,    \* nobody holds the root lock
  Query      \* the request of a reader

ASSUME IndexAssumption ==
  /\ Absent \notin Evidence
  /\ NoFile \notin [Cases -> Evidence \cup {Absent}]
  /\ NoProc \notin Procs
  /\ Query \notin [case : Cases, evidence : Evidence]
  /\ NoTransition \notin
       [previous : [Cases -> Evidence \cup {Absent}],
        following : [Cases -> Evidence \cup {Absent}],
        case : Cases]

VARIABLES
  rootExists,      \* the root directory has been initialized
  database,        \* records in index.sqlite3
  vectors,         \* vectors/: the contents of every case's vector file
  manifest,        \* the records manifest.json describes
  transition,      \* the pending-transition document
  stagedDatabase,  \* index.sqlite3 in the staging directory
  stagedVectors,   \* vector files in the staging directory
  lock,            \* the holder of the thread and filesystem lock of the root
  pc,              \* where each caller is
  request,         \* what it asked for
  reply            \* how its last call ended

files == <<rootExists, database, vectors, manifest, transition,
           stagedDatabase, stagedVectors>>
callers == <<lock, pc, request, reply>>
vars == <<files, callers>>

Snapshots == [Cases -> Evidence \cup {Absent}]
EmptySnapshot == [c \in Cases |-> Absent]
Transitions == [previous : Snapshots, following : Snapshots, case : Cases]
Requests == [case : Cases, evidence : Evidence] \cup {Query}

RepairSteps == {"undoVector", "redoManifest", "repairSweep", "repairUnlink"}
StagingSteps == {"copyDatabase", "insertRecord", "stageVector", "publish"}
CommitSteps == {"moveVector", "moveDatabase", "writeManifest", "verify",
                "sweep", "unlink"}
Holding == {"ready", "readySweep", "apply"} \cup RepairSteps
             \cup StagingSteps \cup CommitSteps
Outcomes == {"none", "answered", "indexed", "already", "conflict", "failed",
             "refused"}
Reply(outcome, records) == [outcome |-> outcome, records |-> records]

-----------------------------------------------------------------------------
(* What the code verifies when it reads the files.                         *)

\* The three kinds of files all describe the records of snapshot s.
Describes(s) == manifest = s /\ database = s /\ vectors = s

\* The document appends exactly one record.
ExactAppend(t) ==
  /\ t.previous[t.case] = Absent
  /\ t.following[t.case] # Absent
  /\ t.following = [t.previous EXCEPT ![t.case] = t.following[t.case]]

StagingIsEmpty == stagedDatabase = NoFile /\ stagedVectors = EmptySnapshot

\* The append had not replaced the database: it can be undone.
CanUndo(t) ==
  /\ database = t.previous
  /\ manifest = t.previous
  /\ vectors \in {t.previous, t.following}
  /\ \A c \in Cases : stagedVectors[c] # Absent => c = t.case
  /\ stagedVectors[t.case] \in {Absent, t.following[t.case]}
  /\ vectors = t.following => stagedVectors[t.case] = Absent
  /\ stagedDatabase \in {NoFile, t.following}

\* The append had replaced the database: it can be completed.
CanRedo(t) ==
  /\ database = t.following
  /\ manifest \in {t.previous, t.following}
  /\ vectors = t.following
  /\ StagingIsEmpty

-----------------------------------------------------------------------------

Init ==
  /\ rootExists = FALSE
  /\ database = EmptySnapshot
  /\ vectors = EmptySnapshot
  /\ manifest = EmptySnapshot
  /\ transition = NoTransition
  /\ stagedDatabase = NoFile
  /\ stagedVectors = EmptySnapshot
  /\ lock = NoProc
  /\ pc = [p \in Procs |-> "idle"]
  /\ request = [p \in Procs |-> Query]
  /\ reply = [p \in Procs |-> Reply("none", EmptySnapshot)]

Goto(p, step) ==
  /\ pc' = [pc EXCEPT ![p] = step]
  /\ UNCHANGED <<lock, request, reply>>

\* The call leaves the lock's context with an answer or an exception.
Return(p, outcome, records) ==
  /\ pc' = [pc EXCEPT ![p] = "idle"]
  /\ reply' = [reply EXCEPT ![p] = Reply(outcome, records)]
  /\ lock' = NoProc
  /\ UNCHANGED request

Call(p) ==
  /\ pc[p] = "idle"
  /\ \E r \in Requests : request' = [request EXCEPT ![p] = r]
  /\ pc' = [pc EXCEPT ![p] = "waiting"]
  /\ UNCHANGED <<files, lock, reply>>

\* The thread lock and then the lock file; the operating system releases the
\* file lock of a process that dies.
Acquire(p) ==
  /\ pc[p] = "waiting"
  /\ lock = NoProc
  /\ lock' = p
  /\ pc' = [pc EXCEPT ![p] = "ready"]
  /\ UNCHANGED <<files, request, reply>>

\* An empty index is built in a temporary directory and renamed into place.
Initialize(p) ==
  /\ pc[p] = "ready"
  /\ ~rootExists
  /\ rootExists' = TRUE
  /\ database' = EmptySnapshot
  /\ vectors' = EmptySnapshot
  /\ manifest' = EmptySnapshot
  /\ UNCHANGED <<transition, stagedDatabase, stagedVectors, callers>>

\* No transition is pending: the snapshot must verify.
ReadyVerified(p) ==
  /\ pc[p] = "ready"
  /\ rootExists
  /\ transition = NoTransition
  /\ IF Describes(manifest) THEN Goto(p, "readySweep")
     ELSE Return(p, "refused", EmptySnapshot)
  /\ UNCHANGED files

\* Leftovers of an append that had not published its document are removed,
\* file by file and in no particular order.
DropStaged ==
  /\ \/ /\ stagedDatabase # NoFile
        /\ stagedDatabase' = NoFile
        /\ UNCHANGED stagedVectors
     \/ /\ \E c \in Cases :
             /\ stagedVectors[c] # Absent
             /\ stagedVectors' = [stagedVectors EXCEPT ![c] = Absent]
        /\ UNCHANGED stagedDatabase
  /\ UNCHANGED <<rootExists, database, vectors, manifest, transition>>

Sweep(p) ==
  /\ pc[p] \in {"readySweep", "repairSweep", "sweep"}
  /\ DropStaged
  /\ UNCHANGED callers

Swept(p) ==
  /\ StagingIsEmpty
  /\ \/ pc[p] = "readySweep" /\ Goto(p, "apply")
     \/ pc[p] = "repairSweep" /\ Goto(p, "repairUnlink")
     \/ pc[p] = "sweep" /\ Goto(p, "unlink")
  /\ UNCHANGED files

-----------------------------------------------------------------------------
(* Recovery of a pending transition.                                       *)

Recover(p) ==
  /\ pc[p] = "ready"
  /\ rootExists
  /\ transition # NoTransition
  /\ IF ~ExactAppend(transition) THEN Return(p, "refused", EmptySnapshot)
     ELSE IF CanUndo(transition) THEN Goto(p, "undoVector")
     ELSE IF CanRedo(transition) THEN Goto(p, "redoManifest")
     ELSE Return(p, "refused", EmptySnapshot)
  /\ UNCHANGED files

\* Slip: the vector file that was moved into place is forgotten.
UndoNothing(p) ==
  /\ pc[p] = "undoVector"
  /\ Goto(p, "repairSweep")
  /\ UNCHANGED files

\* The pending vector file is unlinked if it had been moved into place.
UndoVector(p) ==
  /\ pc[p] = "undoVector"
  /\ vectors' = [vectors EXCEPT ![transition.case] = Absent]
  /\ Goto(p, "repairSweep")
  /\ UNCHANGED <<rootExists, database, manifest, transition, stagedDatabase,
                 stagedVectors>>

RedoManifest(p) ==
  /\ pc[p] = "redoManifest"
  /\ manifest' = transition.following
  /\ Goto(p, "repairSweep")
  /\ UNCHANGED <<rootExists, database, vectors, transition, stagedDatabase,
                 stagedVectors>>

\* Slip: the repaired transition stays published.
RepairKeepsTransition(p) ==
  /\ pc[p] = "repairUnlink"
  /\ Goto(p, "apply")
  /\ UNCHANGED files

RepairUnlink(p) ==
  /\ pc[p] = "repairUnlink"
  /\ transition' = NoTransition
  /\ IF Describes(manifest) THEN Goto(p, "apply")
     ELSE Return(p, "refused", EmptySnapshot)
  /\ UNCHANGED <<rootExists, database, vectors, manifest, stagedDatabase,
                 stagedVectors>>

-----------------------------------------------------------------------------
(* The operations, on a verified snapshot.                                 *)

\* record(), query() and index_hash read the verified records.
AnswerQuery(p) ==
  /\ pc[p] = "apply"
  /\ request[p] = Query
  /\ Return(p, "answered", database)
  /\ UNCHANGED files

\* Slip: the idempotent answer ignores what the case was bound to.
AnswerExistingUnchecked(p) ==
  /\ pc[p] = "apply"
  /\ request[p] # Query
  /\ database[request[p].case] # Absent
  /\ Return(p, "already", database)
  /\ UNCHANGED files

AnswerExisting(p) ==
  /\ pc[p] = "apply"
  /\ request[p] # Query
  /\ database[request[p].case] # Absent
  /\ IF database[request[p].case] = request[p].evidence
     THEN Return(p, "already", database)
     ELSE Return(p, "conflict", EmptySnapshot)
  /\ UNCHANGED files

BeginAppend(p) ==
  /\ pc[p] = "apply"
  /\ request[p] # Query
  /\ database[request[p].case] = Absent
  /\ Goto(p, "copyDatabase")
  /\ UNCHANGED files

CopyDatabase(p) ==
  /\ pc[p] = "copyDatabase"
  /\ stagedDatabase' = database
  /\ Goto(p, "insertRecord")
  /\ UNCHANGED <<rootExists, database, vectors, manifest, transition,
                 stagedVectors>>

InsertRecord(p) ==
  /\ pc[p] = "insertRecord"
  /\ stagedDatabase' =
       [stagedDatabase EXCEPT ![request[p].case] = request[p].evidence]
  /\ Goto(p, "stageVector")
  /\ UNCHANGED <<rootExists, database, vectors, manifest, transition,
                 stagedVectors>>

StageVector(p) ==
  /\ pc[p] = "stageVector"
  /\ stagedVectors' =
       [stagedVectors EXCEPT ![request[p].case] = request[p].evidence]
  /\ Goto(p, "publish")
  /\ UNCHANGED <<rootExists, database, vectors, manifest, transition,
                 stagedDatabase>>

PublishTransition(p) ==
  /\ pc[p] = "publish"
  /\ transition' = [previous |-> manifest, following |-> stagedDatabase,
                    case |-> request[p].case]
  /\ Goto(p, "moveVector")
  /\ UNCHANGED <<rootExists, database, vectors, manifest, stagedDatabase,
                 stagedVectors>>

MoveVector(p) ==
  /\ pc[p] = "moveVector"
  /\ vectors' = [vectors EXCEPT
                   ![request[p].case] = stagedVectors[request[p].case]]
  /\ stagedVectors' = [stagedVectors EXCEPT ![request[p].case] = Absent]
  /\ Goto(p, "moveDatabase")
  /\ UNCHANGED <<rootExists, database, manifest, transition, stagedDatabase>>

\* The commit point of an append.
MoveDatabase(p) ==
  /\ pc[p] = "moveDatabase"
  /\ database' = stagedDatabase
  /\ stagedDatabase' = NoFile
  /\ Goto(p, "writeManifest")
  /\ UNCHANGED <<rootExists, vectors, manifest, transition, stagedVectors>>

WriteManifest(p) ==
  /\ pc[p] = "writeManifest"
  /\ manifest' = transition.following
  /\ Goto(p, "verify")
  /\ UNCHANGED <<rootExists, database, vectors, transition, stagedDatabase,
                 stagedVectors>>

VerifyAppended(p) ==
  /\ pc[p] = "verify"
  /\ IF Describes(transition.following) THEN Goto(p, "sweep")
     ELSE Return(p, "refused", EmptySnapshot)
  /\ UNCHANGED files

UnlinkTransition(p) ==
  /\ pc[p] = "unlink"
  /\ transition' = NoTransition
  /\ Return(p, "indexed", database)
  /\ UNCHANGED <<rootExists, database, vectors, manifest, stagedDatabase,
                 stagedVectors>>

-----------------------------------------------------------------------------
(* Interruptions, between any two durable steps.                           *)

\* An exception leaves the lock's context; an append that had not published
\* its document cleans its staging directory up on the way out.
Raise(p) ==
  /\ pc[p] \in Holding
  /\ IF pc[p] \in StagingSteps
     THEN stagedDatabase' = NoFile /\ stagedVectors' = EmptySnapshot
     ELSE UNCHANGED <<stagedDatabase, stagedVectors>>
  /\ Return(p, "failed", EmptySnapshot)
  /\ UNCHANGED <<rootExists, database, vectors, manifest, transition>>

\* The process dies, whatever it was doing; its files stay as they are.
Crash(p) ==
  /\ pc[p] # "idle"
  /\ pc' = [pc EXCEPT ![p] = "idle"]
  /\ reply' = [reply EXCEPT ![p] = Reply("failed", EmptySnapshot)]
  /\ lock' = IF lock = p THEN NoProc ELSE lock
  /\ UNCHANGED <<files, request>>

Append(p) ==
  \/ BeginAppend(p)
  \/ CopyDatabase(p)
  \/ InsertRecord(p)
  \/ StageVector(p)
  \/ PublishTransition(p)
  \/ MoveVector(p)
  \/ MoveDatabase(p)
  \/ WriteManifest(p)
  \/ VerifyAppended(p)
  \/ UnlinkTransition(p)

\* What a caller does while it holds the lock.
Step(p) ==
  \/ Initialize(p)
  \/ ReadyVerified(p)
  \/ Sweep(p)
  \/ Swept(p)
  \/ Recover(p)
  \/ UndoVector(p)
  \/ RedoManifest(p)
  \/ RepairUnlink(p)
  \/ AnswerQuery(p)
  \/ AnswerExisting(p)
  \/ Append(p)

Interrupt(p) == Raise(p) \/ Crash(p)

Next == \E p \in Procs : Call(p) \/ Acquire(p) \/ Step(p) \/ Interrupt(p)

Spec == Init /\ [][Next]_vars

\* A caller that holds the lock keeps running; nothing is assumed of who
\* gets the lock or of when calls are made.
FairSpec == Spec /\ \A p \in Procs : WF_vars(Step(p))

-----------------------------------------------------------------------------

\* Every file holds a snapshot (or nothing) and every caller is at a step of
\* the code.
TypeOK ==
  /\ rootExists \in BOOLEAN
  /\ database \in Snapshots
  /\ vectors \in Snapshots
  /\ manifest \in Snapshots
  /\ transition \in Transitions \cup {NoTransition}
  /\ stagedDatabase \in Snapshots \cup {NoFile}
  /\ stagedVectors \in Snapshots
  /\ lock \in Procs \cup {NoProc}
  /\ pc \in [Procs -> {"idle", "waiting"} \cup Holding]
  /\ request \in [Procs -> Requests]
  /\ reply \in [Procs -> [outcome : Outcomes, records : Snapshots]]

\* Whatever was interrupted, and wherever, and also when recovery itself was:
\* the files are in a state the next call accepts.  The fail-closed branches
\* of _verify_snapshot and _recover_transition are for tampered files only.
AlwaysRecoverable ==
  IF transition = NoTransition
  THEN Describes(manifest)
  ELSE ExactAppend(transition) /\ (CanUndo(transition) \/ CanRedo(transition))

\* No call is ever refused for the state of the files.
NeverRefused == \A p \in Procs : reply[p].outcome # "refused"

\* A case reported as indexed is in the database with the evidence of that
\* call and stays there while the caller makes no other call.
IndexedIsDurable ==
  \A p \in Procs :
    pc[p] = "idle" /\ reply[p].outcome \in {"indexed", "already"} =>
      database[request[p].case] = request[p].evidence

\* A committed record is never changed or removed, by recovery least of all.
AppendOnly ==
  [][\A c \in Cases :
       database[c] # Absent => database'[c] = database[c]]_vars

\* Provided calls keep being made and interruptions end, an interrupted
\* transition is resolved: recovery never loops on its own leftovers.
RepairedIfUsed ==
  ([]<>(lock # NoProc) /\ <>[][\A p \in Procs : ~Interrupt(p)]_vars)
    => (transition # NoTransition ~> transition = NoTransition)

\* How far a call is, as the book sees it: an append is one atomic step, the
\* replacement of the database.
Phase == [p \in Procs |->
            CASE pc[p] = "idle" -> "idle"
              [] pc[p] \in {"writeManifest", "verify", "sweep", "unlink"} ->
                   "entered"
              [] OTHER -> "called"]

Book == INSTANCE ReviewedCaseBook WITH book <- database, phase <- Phase

\* Whatever interrupts it, every step of a call is a step of the book or
\* nothing the callers see: queries answer with what was entered, an entry is
\* made once, and an answer "indexed" means it was.
ImplementsBook == Book!Spec

=============================================================================

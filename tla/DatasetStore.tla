----------------------------- MODULE DatasetStore -----------------------------
(***************************************************************************)
(* The datasets of the API: rows of a SQLite database and directories kept *)
(* beside it (services/api/app/dataset_storage.py), as imports, handoffs   *)
(* of graphs, purges and recoveries change them                            *)
(* (services/api/app/dataset_import/service.py).                           *)
(*                                                                         *)
(* A directory is in staging/, artifacts/ or purge-recovery/.  Moving one  *)
(* is atomic, writing or removing one is not, and no move is atomic with   *)
(* the transaction that belongs to it; the process may die between any two *)
(* steps.  A request is handled on the event loop without an await, so the *)
(* loop has one job at a time; the import of a trusted conversion runs on  *)
(* a thread beside it.  They share the lock of the store, which save and   *)
(* stage do not hold while they write.                                     *)
(*                                                                         *)
(* Abstractions: of a directory only how much of it is there; a graph is   *)
(* what identifies a binding (version, facts and preparation); ids are     *)
(* fresh (uuid4).  The hash of a deletion impact is the user's copy of     *)
(* what purge checks again itself.                                         *)
(***************************************************************************)
EXTENDS Naturals

CONSTANTS
  Ids,     \* of artifacts
  Graphs,
  Tokens,  \* of handoffs
  NoId,
  NoToken

ASSUME StoreAssumption == NoId \notin Ids /\ Graphs # {}

VARIABLES
  row,      \* dataset_artifacts and artifact_lifecycle
  staging,  \* of every id: how much of the directory there is
  shelf,    \* the same for artifacts/
  bin,      \* the same for purge-recovery/
  binding,  \* graph_dataset_bindings
  token,    \* graph_handoff_tokens
  job,      \* what the event loop and the thread are at
  used,     \* the ids given out
  swept,    \* the ids whose files a purge began to remove
  cut,      \* the ids whose purge died, or could not undo its move
  snatched  \* the ids that were recovered while an import wrote them

rows == <<row, binding, token>>
files == <<staging, shelf, bin>>
remembered == <<used, swept, cut, snatched>>
storeVars == <<rows, files, job, remembered>>

\* "partial" lacks artifact.json or graph.npz, "damaged" something else.
Contents == {"none", "partial", "damaged", "complete"}
Recoverable == {"damaged", "complete"}

\* What may be left of a directory after rmtree has removed some of it.
Shrunk(content) ==
  CASE content = "complete" -> Contents
    [] content = "damaged" -> Contents \ {"complete"}
    [] content = "partial" -> {"partial", "none"}
    [] OTHER -> {"none"}

\* graph.npz and artifact.json come first, then manifests and attachments.
Grown(content) == IF content = "partial" THEN "damaged" ELSE "complete"

Idle == [kind |-> "idle", id |-> NoId, step |-> "none", token |-> NoToken]
Task(kind, id, step) ==
  [kind |-> kind, id |-> id, step |-> step, token |-> NoToken]

Workers == {"loop", "thread"}
At(p, kind, step) == job[p].kind = kind /\ job[p].step = step
Proceed(p, step) == job' = [job EXCEPT ![p].step = step]
EndJob(p) == job' = [job EXCEPT ![p] = Idle]

\* The loop is in a transaction that began before it moved a directory.
LoopHoldsLock == job["loop"].step \in {"moved", "stayed"}

Bound(a) == \E g \in Graphs : binding[g] = a

StoreInit ==
  /\ row = [a \in Ids |-> "none"]
  /\ staging = [a \in Ids |-> "none"]
  /\ shelf = [a \in Ids |-> "none"]
  /\ bin = [a \in Ids |-> "none"]
  /\ binding = [g \in Graphs |-> NoId]
  /\ token = [t \in Tokens |->
                [status |-> "none", graph |-> CHOOSE g \in Graphs : TRUE]]
  /\ job = [p \in Workers |-> Idle]
  /\ used = {}
  /\ swept = {}
  /\ cut = {}
  /\ snatched = {}

-----------------------------------------------------------------------------
(* save_artifact, on the loop for a committed inspection and on the thread *)
(* for a trusted conversion.                                               *)

StartSave(p, a) ==
  /\ job[p] = Idle
  /\ a \notin used
  /\ used' = used \cup {a}
  /\ shelf' = [shelf EXCEPT ![a] = "partial"]
  /\ job' = [job EXCEPT ![p] = Task("save", a, "writing")]
  /\ UNCHANGED <<rows, staging, bin, swept, cut, snatched>>

WriteShelf(p) ==
  LET a == job[p].id IN
  /\ At(p, "save", "writing")
  /\ shelf[a] \in {"partial", "damaged"}
  /\ shelf' = [shelf EXCEPT ![a] = Grown(@)]
  /\ Proceed(p, IF shelf'[a] = "complete" THEN "written" ELSE "writing")
  /\ UNCHANGED <<rows, staging, bin, remembered>>

InsertArtifactRows(p) ==
  LET a == job[p].id IN
  /\ At(p, "save", "written")
  /\ p = "thread" => ~LoopHoldsLock
  /\ row[a] = "none"
  /\ row' = [row EXCEPT ![a] = "active"]
  /\ EndJob(p)
  /\ UNCHANGED <<binding, token, files, remembered>>

\* rmtree ignores errors.
FailSave(p) ==
  LET a == job[p].id IN
  /\ job[p].kind = "save"
  /\ \E rest \in Shrunk(shelf[a]) : shelf' = [shelf EXCEPT ![a] = rest]
  /\ EndJob(p)
  /\ UNCHANGED <<rows, staging, bin, remembered>>

-----------------------------------------------------------------------------
(* Tokens: create_handoff_reservation, cancel_handoff_token.               *)

\* It also removes the tokens that have expired.
ReserveToken(t, g) ==
  /\ job["loop"] = Idle
  /\ token[t].status = "none"
  /\ token' = [u \in Tokens |->
                 IF u = t THEN [status |-> "free", graph |-> g]
                 ELSE IF token[u].status = "expired"
                      THEN [token[u] EXCEPT !.status = "none"]
                      ELSE token[u]]
  /\ UNCHANGED <<row, binding, files, job, remembered>>

CancelToken(t) ==
  /\ job["loop"] = Idle
  /\ token[t].status \in {"free", "expired"}
  /\ token' = [token EXCEPT ![t].status = "consumed"]
  /\ UNCHANGED <<row, binding, files, job, remembered>>

ExpireToken(t) ==
  /\ token[t].status = "free"
  /\ token' = [token EXCEPT ![t].status = "expired"]
  /\ UNCHANGED <<row, binding, files, job, remembered>>

-----------------------------------------------------------------------------
(* commit_graph_handoff.                                                   *)

\* The graph has an artifact already: commit_binding.
ReuseBinding(t) ==
  /\ job["loop"] = Idle
  /\ token[t].status \in {"free", "consumed"}
  /\ binding[token[t].graph] # NoId
  /\ token' = [token EXCEPT ![t].status = "consumed"]
  /\ UNCHANGED <<row, binding, files, job, remembered>>

Stage(t, a) ==
  /\ job["loop"] = Idle
  /\ token[t].status = "free"
  /\ binding[token[t].graph] = NoId
  /\ a \notin used
  /\ used' = used \cup {a}
  /\ staging' = [staging EXCEPT ![a] = "partial"]
  /\ job' = [job EXCEPT !["loop"] =
               [kind |-> "handoff", id |-> a, step |-> "writing", token |-> t]]
  /\ UNCHANGED <<rows, shelf, bin, swept, cut, snatched>>

WriteStaging ==
  LET a == job["loop"].id IN
  /\ At("loop", "handoff", "writing")
  /\ staging' = [staging EXCEPT ![a] = Grown(@)]
  /\ Proceed("loop", IF staging'[a] = "complete" THEN "staged" ELSE "writing")
  /\ UNCHANGED <<rows, shelf, bin, remembered>>

\* activate_staged_handoff up to the move.
Publish ==
  LET a == job["loop"].id IN
  /\ At("loop", "handoff", "staged")
  /\ token[job["loop"].token].status = "free"
  /\ shelf[a] = "none"
  /\ shelf' = [shelf EXCEPT ![a] = staging[a]]
  /\ staging' = [staging EXCEPT ![a] = "none"]
  /\ Proceed("loop", "moved")
  /\ UNCHANGED <<rows, bin, remembered>>

CommitHandoff ==
  LET a == job["loop"].id
      t == job["loop"].token IN
  /\ At("loop", "handoff", "moved")
  /\ row' = [row EXCEPT ![a] = "active"]
  /\ binding' = [binding EXCEPT ![token[t].graph] = a]
  /\ token' = [token EXCEPT ![t].status = "consumed"]
  /\ EndJob("loop")
  /\ UNCHANGED <<files, remembered>>

FailHandoff ==
  LET a == job["loop"].id IN
  /\ job["loop"].kind = "handoff"
  /\ IF job["loop"].step = "moved"
     THEN /\ \E rest \in Shrunk(shelf[a]) : shelf' = [shelf EXCEPT ![a] = rest]
          /\ UNCHANGED staging
     ELSE /\ \E rest \in Shrunk(staging[a]) :
               staging' = [staging EXCEPT ![a] = rest]
          /\ UNCHANGED shelf
  /\ EndJob("loop")
  /\ UNCHANGED <<rows, bin, remembered>>

-----------------------------------------------------------------------------
(* set_lifecycle and purge_artifact.                                       *)

SetLifecycle(a, lifecycle) ==
  /\ job["loop"] = Idle
  /\ row[a] # "none"
  /\ row' = [row EXCEPT ![a] = lifecycle]
  /\ UNCHANGED <<binding, token, files, job, remembered>>

MoveToBin(a) ==
  /\ job["loop"] = Idle
  /\ row[a] = "trashed"
  /\ bin[a] = "none"
  /\ bin' = [bin EXCEPT ![a] = shelf[a]]
  /\ shelf' = [shelf EXCEPT ![a] = "none"]
  /\ job' = [job EXCEPT !["loop"] =
               Task("purge", a, IF shelf[a] = "none" THEN "stayed" ELSE "moved")]
  /\ UNCHANGED <<rows, staging, remembered>>

Purge(a) == ~Bound(a) /\ MoveToBin(a)

\* The deletion commits, which the foreign key of bindings may prevent.
CommitPurge ==
  LET a == job["loop"].id IN
  /\ job["loop"].kind = "purge"
  /\ LoopHoldsLock
  /\ ~Bound(a)
  /\ row' = [row EXCEPT ![a] = "none"]
  /\ IF job["loop"].step = "moved"
     THEN Proceed("loop", "sweeping") /\ swept' = swept \cup {a}
     ELSE EndJob("loop") /\ UNCHANGED swept
  /\ UNCHANGED <<binding, token, files, used, cut, snatched>>

RollbackPurgeInPlace ==  \* forgets that the files have been moved
  /\ job["loop"].kind = "purge"
  /\ LoopHoldsLock
  /\ EndJob("loop")
  /\ UNCHANGED <<rows, files, remembered>>

\* Unless it fails, the directory is moved back.
RollbackPurge ==
  LET a == job["loop"].id IN
  /\ job["loop"].kind = "purge"
  /\ LoopHoldsLock
  /\ \/ /\ shelf' = [shelf EXCEPT ![a] = bin[a]]
        /\ bin' = [bin EXCEPT ![a] = "none"]
        /\ UNCHANGED cut
     \/ cut' = cut \cup {a} /\ UNCHANGED <<shelf, bin>>
  /\ EndJob("loop")
  /\ UNCHANGED <<rows, staging, used, swept, snatched>>

SweepSome ==
  LET a == job["loop"].id IN
  /\ At("loop", "purge", "sweeping")
  /\ \E rest \in Shrunk(bin[a]) : bin' = [bin EXCEPT ![a] = rest]
  /\ UNCHANGED <<rows, staging, shelf, job, remembered>>

\* Whether or not rmtree failed: "cleanup is pending".
EndSweep ==
  /\ At("loop", "purge", "sweeping")
  /\ EndJob("loop")
  /\ UNCHANGED <<rows, files, remembered>>

-----------------------------------------------------------------------------
(* recover_orphan_artifact.                                                *)

Saving(a) == \E p \in Workers : job[p].kind = "save" /\ job[p].id = a

LookAt(a, acceptable) ==
  /\ job["loop"] = Idle
  /\ \/ /\ shelf[a] \in acceptable
        /\ bin[a] = "none"
        /\ job' = [job EXCEPT !["loop"] = Task("recover", a, "shelf")]
     \/ /\ bin[a] \in acceptable
        /\ shelf[a] = "none"
        /\ job' = [job EXCEPT !["loop"] = Task("recover", a, "bin")]
  /\ snatched' = IF Saving(a) THEN snatched \cup {a} ELSE snatched
  /\ UNCHANGED <<rows, files, used, swept, cut>>

FindDirectory(a) == LookAt(a, Contents \ {"none"})  \* does not look into it

\* It looks at the directories before it takes the lock.
FindOrphan(a) == LookAt(a, Recoverable)

TakeOrphan ==
  LET a == job["loop"].id IN
  /\ job["loop"].kind = "recover"
  /\ row[a] = "none"
  /\ \/ /\ At("loop", "recover", "shelf")
        /\ Proceed("loop", "stayed")
        /\ UNCHANGED files
     \/ /\ At("loop", "recover", "bin")
        /\ shelf[a] = "none"
        /\ shelf' = [shelf EXCEPT ![a] = bin[a]]
        /\ bin' = [bin EXCEPT ![a] = "none"]
        /\ Proceed("loop", "moved")
        /\ UNCHANGED staging
  /\ UNCHANGED <<rows, remembered>>

CommitRecovery ==
  /\ job["loop"].kind = "recover"
  /\ LoopHoldsLock
  /\ row' = [row EXCEPT ![job["loop"].id] = "active"]
  /\ EndJob("loop")
  /\ UNCHANGED <<binding, token, files, remembered>>

\* The directory is moved back, or remains an orphan where it is.
FailRecovery ==
  LET a == job["loop"].id IN
  /\ job["loop"].kind = "recover"
  /\ \/ /\ job["loop"].step = "moved"
        /\ bin' = [bin EXCEPT ![a] = shelf[a]]
        /\ shelf' = [shelf EXCEPT ![a] = "none"]
     \/ UNCHANGED <<shelf, bin>>
  /\ EndJob("loop")
  /\ UNCHANGED <<rows, staging, remembered>>

-----------------------------------------------------------------------------
\* The process dies and is started again.
StoreCrash ==
  /\ job' = [p \in Workers |-> Idle]
  /\ cut' = IF LoopHoldsLock /\ job["loop"].kind = "purge"
            THEN cut \cup {job["loop"].id} ELSE cut
  /\ UNCHANGED <<rows, files, used, swept, snatched>>

Save(p) ==
  \/ \E a \in Ids : StartSave(p, a)
  \/ WriteShelf(p)
  \/ InsertArtifactRows(p)
  \/ FailSave(p)

Handoff ==
  \/ \E t \in Tokens, g \in Graphs : ReserveToken(t, g)
  \/ \E t \in Tokens : CancelToken(t) \/ ExpireToken(t) \/ ReuseBinding(t)
  \/ \E t \in Tokens, a \in Ids : Stage(t, a)
  \/ WriteStaging
  \/ Publish
  \/ CommitHandoff
  \/ FailHandoff

Remove ==
  \/ \E a \in Ids, lifecycle \in {"active", "trashed"} :
       SetLifecycle(a, lifecycle)
  \/ \E a \in Ids : Purge(a)
  \/ CommitPurge
  \/ RollbackPurge
  \/ SweepSome
  \/ EndSweep

Recover ==
  \/ \E a \in Ids : FindOrphan(a)
  \/ TakeOrphan
  \/ CommitRecovery
  \/ FailRecovery

StoreNext ==
  \/ \E p \in Workers : Save(p)
  \/ Handoff
  \/ Remove
  \/ Recover
  \/ StoreCrash

StoreSpec == StoreInit /\ [][StoreNext]_storeVars

-----------------------------------------------------------------------------
Steps == {"none", "writing", "written", "staged", "moved", "stayed",
          "sweeping", "shelf", "bin"}

(* Every variable holds what the code may put there, and only the loop     *)
(* does anything but save.                                                 *)
StoreTypeOK ==
  /\ row \in [Ids -> {"none", "active", "trashed"}]
  /\ staging \in [Ids -> Contents]
  /\ shelf \in [Ids -> Contents]
  /\ bin \in [Ids -> Contents]
  /\ binding \in [Graphs -> Ids \cup {NoId}]
  /\ token \in [Tokens -> [status : {"none", "free", "expired", "consumed"},
                           graph : Graphs]]
  /\ job \in [Workers -> [kind : {"idle", "save", "handoff", "purge", "recover"},
                          id : Ids \cup {NoId},
                          step : Steps,
                          token : Tokens \cup {NoToken}]]
  /\ \A p \in Workers : job[p].kind # "idle" => job[p].id \in Ids
  /\ job["thread"].kind \in {"idle", "save"}
  /\ used \subseteq Ids
  /\ swept \subseteq used
  /\ cut \subseteq used
  /\ snatched \subseteq used

(* What a graph is bound to has all its files in artifacts/, whatever is   *)
(* purged, recovered, interrupted or fails: training relies on it          *)
(* (activate_staged_handoff, purge_artifact, load_arrays).                 *)
BoundFilesStay ==
  \A g \in Graphs :
    LET a == binding[g] IN
    a # NoId => row[a] # "none" /\ shelf[a] = "complete"

(* A registered artifact that no purge has begun to remove has its files,  *)
(* in artifacts/ or, if a purge was cut short, in purge-recovery/          *)
(* (save_artifact, purge_artifact, recover_orphan_artifact).  Who recovers *)
(* what is still being written may lose it.                                *)
FilesOf(a) == {staging[a], shelf[a], bin[a]} \ {"none"}

RegisteredIsKept ==
  \A a \in Ids :
    row[a] # "none" /\ a \notin swept \cup snatched =>
      \E content \in FilesOf(a) : content \in Recoverable

(* Unless a purge is cut short, what is registered is where it is read     *)
(* from (load_arrays), and a directory in purge-recovery/ is the orphan of *)
(* no row (list_orphan_artifacts, recover_orphan_artifact).                *)
RegisteredOnShelf ==
  \A a \in Ids :
    row[a] # "none" /\ ~(LoopHoldsLock /\ job["loop"].id = a)
                   /\ a \notin cut \cup snatched =>
      /\ shelf[a] \in Recoverable
      /\ bin[a] = "none"

(* Of an interrupted handoff only an orphan is left that can be recovered  *)
(* (activate_staged_handoff: "a process crash can leave only a             *)
(* recoverable, unregistered orphan").                                     *)
OnlyOrphansAreLeft ==
  \A a \in Ids :
    staging[a] = "complete" =>
      job["loop"].kind = "handoff" /\ job["loop"].id = a

=============================================================================

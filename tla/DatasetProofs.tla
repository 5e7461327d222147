---------------------------- MODULE DatasetProofs ----------------------------
(***************************************************************************)
(* No artifact loses its files unless a purge took them, and no trusted    *)
(* conversion is run twice or ends twice, for any number of artifacts,     *)
(* graphs, tokens, jobs and requests.                                      *)
(*                                                                         *)
(* The store: its inductive invariant says of every job what it may rely   *)
(* on when it takes its next step.  The delicate part is that the thread   *)
(* may still be saving what the loop recovered and now purges.             *)
(***************************************************************************)
EXTENDS DatasetStore, TrustedConversion, TLAPS

\* Which steps a job has, and that its artifact has been given out.
JobInv ==
  \A p \in Workers :
    /\ job[p].kind = "idle" <=> job[p] = Idle
    /\ job[p].kind = "save" => job[p].step \in {"writing", "written"}
    /\ job[p].kind = "handoff" =>
         /\ job[p].step \in {"writing", "staged", "moved"}
         /\ job[p].token \in Tokens
    /\ job[p].kind = "purge" => job[p].step \in {"moved", "stayed", "sweeping"}
    /\ job[p].kind = "recover" =>
         job[p].step \in {"shelf", "bin", "moved", "stayed"}
    /\ job[p].kind # "idle" => job[p].id \in used

UsedInv ==
  \A a \in Ids :
    a \notin used =>
      /\ row[a] = "none"
      /\ staging[a] = "none" /\ shelf[a] = "none" /\ bin[a] = "none"

SaveInv ==
  \A p \in Workers :
    LET a == job[p].id IN
    job[p].kind = "save" =>
      /\ ~Bound(a)
      /\ a \notin snatched =>
           /\ row[a] = "none"
           /\ bin[a] = "none"
           /\ job[p].step = "written" => shelf[a] = "complete"

\* The loop may work on what the thread is saving only after it snatched it.
ApartInv ==
  job["thread"].kind = "save" /\ job["loop"].kind # "idle"
    /\ job["loop"].id = job["thread"].id =>
      /\ job["loop"].kind \in {"purge", "recover"}
      /\ job["loop"].id \in snatched

HandoffInv ==
  LET a == job["loop"].id IN
  job["loop"].kind = "handoff" =>
    /\ row[a] = "none"
    /\ bin[a] = "none"
    /\ job["loop"].step = "staged" => staging[a] = "complete"
    /\ job["loop"].step = "moved" => shelf[a] = "complete"

PurgeInv ==
  LET a == job["loop"].id IN
  job["loop"].kind = "purge" =>
    /\ LoopHoldsLock => ~Bound(a) /\ row[a] # "none" /\ shelf[a] = "none"
    /\ job["loop"].step = "moved" /\ a \notin cut \cup snatched =>
         bin[a] \in Recoverable
    /\ job["loop"].step = "stayed" =>
         bin[a] = "none" /\ a \in cut \cup snatched
    /\ job["loop"].step = "sweeping" =>
         /\ a \in swept
         /\ a \notin snatched => row[a] = "none"

RecoverInv ==
  LET a == job["loop"].id IN
  job["loop"].kind = "recover" =>
    /\ LoopHoldsLock => row[a] = "none"
    /\ a \notin snatched =>
         IF job["loop"].step = "bin"
         THEN bin[a] \in Recoverable /\ shelf[a] = "none"
         ELSE shelf[a] \in Recoverable /\ bin[a] = "none"

StoreIInv ==
  /\ StoreTypeOK
  /\ JobInv
  /\ UsedInv
  /\ SaveInv
  /\ ApartInv
  /\ HandoffInv
  /\ PurgeInv
  /\ RecoverInv
  /\ BoundFilesStay
  /\ RegisteredIsKept
  /\ RegisteredOnShelf

USE StoreAssumption DEF rows, files, remembered, Contents, Recoverable, Idle,
  Task, Workers, At, Proceed, EndJob, LoopHoldsLock, Bound

LEMMA InitStoreIInv == StoreInit => StoreIInv
<1> SUFFICES ASSUME StoreInit PROVE StoreIInv
  OBVIOUS
<1> USE DEF StoreInit
<1>1. StoreTypeOK
  BY DEF StoreTypeOK, Steps
<1>2. JobInv /\ UsedInv /\ SaveInv /\ ApartInv /\ HandoffInv /\ PurgeInv
        /\ RecoverInv
  BY DEF JobInv, UsedInv, SaveInv, ApartInv, HandoffInv, PurgeInv, RecoverInv
<1>3. BoundFilesStay /\ RegisteredIsKept /\ RegisteredOnShelf
  BY DEF BoundFilesStay, RegisteredIsKept, RegisteredOnShelf
<1> QED
  BY <1>1, <1>2, <1>3 DEF StoreIInv

-----------------------------------------------------------------------------
(* Every action keeps the invariant.                                       *)

\* The invariant says nothing of a token but its type.
LEMMA OnlyTokens ==
  ASSUME StoreIInv,
         UNCHANGED <<row, binding, files, job, remembered>>,
         token' \in [Tokens ->
                      [status : {"none", "free", "expired", "consumed"},
                       graph : Graphs]]
  PROVE  StoreIInv'
<1> USE DEF StoreIInv
<1>1. StoreTypeOK'
  BY DEF StoreTypeOK, Steps
<1>2. (JobInv /\ UsedInv /\ SaveInv /\ ApartInv /\ HandoffInv /\ PurgeInv
         /\ RecoverInv)'
  BY DEF JobInv, UsedInv, SaveInv, ApartInv, HandoffInv, PurgeInv, RecoverInv
<1>3. (BoundFilesStay /\ RegisteredIsKept /\ RegisteredOnShelf)'
  BY DEF BoundFilesStay, RegisteredIsKept, RegisteredOnShelf, FilesOf
<1> QED
  BY <1>1, <1>2, <1>3

LEMMA TokensKeep ==
  ASSUME StoreIInv, NEW t \in Tokens,
         \/ \E g \in Graphs : ReserveToken(t, g)
         \/ CancelToken(t)
         \/ ExpireToken(t)
         \/ ReuseBinding(t)
  PROVE  StoreIInv'
<1> DEFINE TokenType == [status : {"none", "free", "expired", "consumed"},
                         graph : Graphs]
<1>1. token \in [Tokens -> TokenType]
  BY DEF StoreIInv, StoreTypeOK
<1>2. \A s \in {"consumed", "expired"} :
        [token EXCEPT ![t].status = s] \in [Tokens -> TokenType]
  BY <1>1
<1>3. ASSUME NEW g \in Graphs, ReserveToken(t, g)
      PROVE  token' \in [Tokens -> TokenType]
  BY <1>1, <1>3 DEF ReserveToken
<1>4. CancelToken(t) \/ ExpireToken(t) \/ ReuseBinding(t)
        => token' \in [Tokens -> TokenType]
  BY <1>2 DEF CancelToken, ExpireToken, ReuseBinding
<1>5. UNCHANGED <<row, binding, files, job, remembered>>
  BY DEF ReserveToken, CancelToken, ExpireToken, ReuseBinding
<1> QED
  BY <1>3, <1>4, <1>5, OnlyTokens

\* The id is new: nothing of it is registered, bound or moved.
LEMMA StartSaveKeeps ==
  ASSUME StoreIInv, NEW p \in Workers, NEW a \in Ids, StartSave(p, a)
  PROVE  StoreIInv'
<1> USE DEF StoreIInv, StartSave
<1>1. StoreTypeOK'
  BY DEF StoreTypeOK, Steps
<1>2. SaveInv'
  BY DEF UsedInv, SaveInv, BoundFilesStay
<1>3. ApartInv'
  BY DEF JobInv, ApartInv
<1>4. HandoffInv'
  BY DEF JobInv, HandoffInv
<1>5. PurgeInv'
  BY DEF JobInv, PurgeInv
<1>6. RecoverInv'
  BY DEF JobInv, RecoverInv
<1>7. BoundFilesStay'
  BY DEF UsedInv, BoundFilesStay
<1>8. RegisteredIsKept'
  BY DEF UsedInv, RegisteredIsKept, FilesOf
<1>9. RegisteredOnShelf'
  BY DEF StoreTypeOK, JobInv, UsedInv, SaveInv, RegisteredOnShelf
<1>10. (JobInv /\ UsedInv)'
  BY DEF JobInv, UsedInv
<1> QED
  BY <1>1, <1>2, <1>3, <1>4, <1>5, <1>6, <1>7, <1>8, <1>9, <1>10

\* The loop is not at this id, or it has snatched it.
LEMMA WriteShelfKeeps ==
  ASSUME StoreIInv, NEW p \in Workers, WriteShelf(p)
  PROVE  StoreIInv'
<1> USE DEF StoreIInv, WriteShelf, Grown
<1>1. StoreTypeOK'
  BY DEF StoreTypeOK, Steps
<1>2. RegisteredIsKept'
  BY DEF RegisteredIsKept, FilesOf
<1>3. RegisteredOnShelf'
  BY DEF StoreTypeOK, JobInv, UsedInv, RegisteredOnShelf
<1>4. (JobInv /\ UsedInv /\ SaveInv /\ ApartInv /\ HandoffInv /\ PurgeInv
       /\ RecoverInv /\ BoundFilesStay)'
  BY DEF JobInv, UsedInv, SaveInv, ApartInv, HandoffInv, PurgeInv,
     RecoverInv, BoundFilesStay
<1> QED
  BY <1>1, <1>2, <1>3, <1>4

\* What is registered has all its files, unless it was snatched.
LEMMA InsertArtifactRowsKeeps ==
  ASSUME StoreIInv, NEW p \in Workers, InsertArtifactRows(p)
  PROVE  StoreIInv'
<1> USE DEF StoreIInv, InsertArtifactRows
<1>1. StoreTypeOK'
  BY DEF StoreTypeOK, Steps
<1>2. UsedInv'
  BY DEF JobInv, UsedInv
<1>3. SaveInv'
  BY DEF StoreTypeOK, SaveInv, ApartInv
<1>4. HandoffInv'
  BY DEF ApartInv, HandoffInv
<1>5. PurgeInv'
  BY DEF ApartInv, PurgeInv
<1>6. RegisteredIsKept'
  BY DEF SaveInv, RegisteredIsKept, FilesOf
<1>7. RegisteredOnShelf'
  BY DEF StoreTypeOK, JobInv, UsedInv, SaveInv, RegisteredOnShelf
<1>8. (JobInv /\ ApartInv /\ RecoverInv /\ BoundFilesStay)'
  BY DEF JobInv, ApartInv, RecoverInv, BoundFilesStay
<1> QED
  BY <1>1, <1>2, <1>3, <1>4, <1>5, <1>6, <1>7, <1>8

\* What is removed is neither bound nor, unless snatched, registered.
LEMMA FailSaveKeeps ==
  ASSUME StoreIInv, NEW p \in Workers, FailSave(p)
  PROVE  StoreIInv'
<1> USE DEF StoreIInv, FailSave, Shrunk
<1>1. StoreTypeOK'
  BY DEF StoreTypeOK, Steps
<1>2. SaveInv'
  BY DEF StoreTypeOK, SaveInv, ApartInv
<1>3. HandoffInv'
  BY DEF ApartInv, HandoffInv
<1>4. RecoverInv'
  BY DEF ApartInv, RecoverInv
<1>5. BoundFilesStay'
  BY DEF SaveInv, BoundFilesStay
<1>6. RegisteredIsKept'
  <2>1. row' = row /\ swept' = swept /\ snatched' = snatched
    BY DEF rows
  <2>2. \A b \in Ids : b # job[p].id => FilesOf(b)' = FilesOf(b)
    BY DEF StoreTypeOK, FilesOf
  <2>3. row[job[p].id] = "none" \/ job[p].id \in snatched
    BY DEF SaveInv
  <2> QED BY <2>1, <2>2, <2>3 DEF RegisteredIsKept
<1>7. RegisteredOnShelf'
  BY DEF StoreTypeOK, JobInv, SaveInv, RegisteredOnShelf
<1>8. (JobInv /\ UsedInv /\ ApartInv /\ PurgeInv)'
  BY DEF JobInv, UsedInv, ApartInv, PurgeInv
<1> QED
  BY <1>1, <1>2, <1>3, <1>4, <1>5, <1>6, <1>7, <1>8

\* The id is new, and nobody saves it.
LEMMA StageKeeps ==
  ASSUME StoreIInv, NEW t \in Tokens, NEW a \in Ids, Stage(t, a)
  PROVE  StoreIInv'
<1> USE DEF StoreIInv, Stage
<1>1. StoreTypeOK'
  BY DEF StoreTypeOK, Steps
<1>2. ApartInv'
  BY DEF JobInv, ApartInv
<1>3. HandoffInv'
  BY DEF UsedInv, HandoffInv
<1>4. RegisteredIsKept'
  BY DEF UsedInv, ApartInv, RegisteredIsKept, RegisteredOnShelf, FilesOf
<1>5. RegisteredOnShelf'
  BY DEF StoreTypeOK, JobInv, UsedInv, SaveInv, RegisteredOnShelf
<1>6. (JobInv /\ UsedInv /\ SaveInv /\ PurgeInv /\ RecoverInv /\
       BoundFilesStay)'
  BY DEF JobInv, UsedInv, SaveInv, PurgeInv, RecoverInv, BoundFilesStay
<1> QED
  BY <1>1, <1>2, <1>3, <1>4, <1>5, <1>6

\* Nothing that is registered is in staging/.
LEMMA WriteStagingKeeps ==
  ASSUME StoreIInv, WriteStaging
  PROVE  StoreIInv'
<1> USE DEF StoreIInv, WriteStaging, Grown
<1>1. StoreTypeOK'
  BY DEF StoreTypeOK, JobInv, Steps
<1>2. UsedInv'
  BY DEF JobInv, UsedInv
<1>3. RegisteredIsKept'
  BY DEF RegisteredIsKept, FilesOf
<1>4. RegisteredOnShelf'
  BY DEF StoreTypeOK, JobInv, UsedInv, RegisteredOnShelf
<1>5. (JobInv /\ SaveInv /\ ApartInv /\ HandoffInv /\ PurgeInv /\
       RecoverInv /\ BoundFilesStay)'
  BY DEF JobInv, SaveInv, ApartInv, HandoffInv, PurgeInv, RecoverInv,
     BoundFilesStay
<1> QED
  BY <1>1, <1>2, <1>3, <1>4, <1>5

\* The row is not there yet.
LEMMA PublishKeeps ==
  ASSUME StoreIInv, Publish
  PROVE  StoreIInv'
<1> USE DEF StoreIInv, Publish
<1>1. StoreTypeOK'
  BY DEF StoreTypeOK, Steps
<1>2. RegisteredIsKept'
  BY DEF HandoffInv, RegisteredIsKept, FilesOf
<1>3. RegisteredOnShelf'
  BY DEF StoreTypeOK, JobInv, UsedInv, SaveInv, RegisteredOnShelf
<1>4. (JobInv /\ UsedInv /\ SaveInv /\ ApartInv /\ HandoffInv /\ PurgeInv
       /\ RecoverInv /\ BoundFilesStay)'
  BY DEF JobInv, UsedInv, SaveInv, ApartInv, StoreTypeOK, HandoffInv,
     PurgeInv, RecoverInv, BoundFilesStay
<1> QED
  BY <1>1, <1>2, <1>3, <1>4

\* All files are in artifacts/ when the binding is made.
LEMMA CommitHandoffKeeps ==
  ASSUME StoreIInv, CommitHandoff
  PROVE  StoreIInv'
<1> USE DEF StoreIInv, CommitHandoff
<1>1. StoreTypeOK'
  BY DEF StoreTypeOK, JobInv, Steps
<1>2. UsedInv'
  BY DEF JobInv, UsedInv
<1>3. SaveInv'
  BY DEF SaveInv, ApartInv
<1>4. BoundFilesStay'
  BY DEF StoreTypeOK, HandoffInv, BoundFilesStay
<1>5. RegisteredIsKept'
  BY DEF HandoffInv, RegisteredIsKept, FilesOf
<1>6. RegisteredOnShelf'
  BY DEF StoreTypeOK, JobInv, UsedInv, HandoffInv, RegisteredOnShelf
<1>7. (JobInv /\ ApartInv /\ HandoffInv /\ PurgeInv /\ RecoverInv)'
  BY DEF JobInv, ApartInv, StoreTypeOK, HandoffInv, PurgeInv, RecoverInv
<1> QED
  BY <1>1, <1>2, <1>3, <1>4, <1>5, <1>6, <1>7

\* The row is not there yet, so the files may go.
LEMMA FailHandoffKeeps ==
  ASSUME StoreIInv, FailHandoff
  PROVE  StoreIInv'
<1> USE DEF StoreIInv, FailHandoff, Shrunk
<1>1. StoreTypeOK'
  BY DEF StoreTypeOK, Steps
<1>2. SaveInv'
  BY DEF StoreTypeOK, SaveInv, ApartInv
<1>3. BoundFilesStay'
  BY DEF StoreTypeOK, HandoffInv, BoundFilesStay
<1>4. RegisteredIsKept'
  BY DEF StoreTypeOK, UsedInv, SaveInv, HandoffInv, BoundFilesStay,
     RegisteredIsKept, RegisteredOnShelf, FilesOf
<1>5. RegisteredOnShelf'
  BY DEF StoreTypeOK, JobInv, HandoffInv, RegisteredOnShelf
<1>6. (JobInv /\ UsedInv /\ ApartInv /\ HandoffInv /\ PurgeInv /\
       RecoverInv)'
  BY DEF JobInv, StoreTypeOK, UsedInv, ApartInv, HandoffInv, PurgeInv,
     RecoverInv
<1> QED
  BY <1>1, <1>2, <1>3, <1>4, <1>5, <1>6

\* The loop has no job, and the row stays.
LEMMA SetLifecycleKeeps ==
  ASSUME StoreIInv, NEW a \in Ids, NEW lifecycle \in {"active", "trashed"},
         SetLifecycle(a, lifecycle)
  PROVE  StoreIInv'
<1> USE DEF StoreIInv, SetLifecycle
<1>1. StoreTypeOK'
  BY DEF StoreTypeOK, Steps
<1>2. RegisteredIsKept'
  BY DEF RegisteredIsKept, FilesOf
<1>3. RegisteredOnShelf'
  BY DEF StoreTypeOK, JobInv, UsedInv, SaveInv, RegisteredOnShelf
<1>4. (JobInv /\ UsedInv /\ SaveInv /\ ApartInv /\ HandoffInv /\ PurgeInv
       /\ RecoverInv /\ BoundFilesStay)'
  BY DEF JobInv, UsedInv, SaveInv, ApartInv, HandoffInv, PurgeInv,
     RecoverInv, BoundFilesStay
<1> QED
  BY <1>1, <1>2, <1>3, <1>4

\* The artifact is registered: where its files are is known.
LEMMA PurgeKeeps ==
  ASSUME StoreIInv, NEW a \in Ids, Purge(a)
  PROVE  StoreIInv'
<1> USE DEF StoreIInv, Purge, MoveToBin
<1>1. StoreTypeOK'
  BY DEF StoreTypeOK, Steps
<1>2. JobInv'
  BY DEF JobInv, UsedInv
<1>3. ApartInv'
  BY DEF SaveInv, ApartInv
<1>4. PurgeInv'
  BY DEF StoreTypeOK, PurgeInv, RegisteredOnShelf
<1>5. RegisteredIsKept'
  BY DEF StoreTypeOK, RegisteredIsKept, FilesOf
<1>6. RegisteredOnShelf'
  BY DEF StoreTypeOK, JobInv, UsedInv, RegisteredOnShelf
<1>7. (UsedInv /\ SaveInv /\ HandoffInv /\ RecoverInv /\ BoundFilesStay)'
  BY DEF UsedInv, SaveInv, HandoffInv, RecoverInv, BoundFilesStay
<1> QED
  BY <1>1, <1>2, <1>3, <1>4, <1>5, <1>6, <1>7

\* Without its row, an artifact need not have files.
LEMMA CommitPurgeKeeps ==
  ASSUME StoreIInv, CommitPurge
  PROVE  StoreIInv'
<1> USE DEF StoreIInv, CommitPurge
<1>1. StoreTypeOK'
  BY DEF StoreTypeOK, JobInv, Steps
<1>2. RegisteredIsKept'
  <2>1. \A b \in Ids : row'[b] # "none" => row[b] # "none"
    BY DEF StoreTypeOK
  <2>2. /\ swept \subseteq swept'
        /\ snatched' = snatched
        /\ \A b \in Ids : FilesOf(b)' = FilesOf(b)
    BY DEF FilesOf
  <2> QED BY <2>1, <2>2 DEF RegisteredIsKept
<1>3. RegisteredOnShelf'
  BY DEF StoreTypeOK, JobInv, UsedInv, SaveInv, RegisteredOnShelf
<1>4. (JobInv /\ UsedInv /\ SaveInv /\ ApartInv /\ HandoffInv /\ PurgeInv
       /\ RecoverInv /\ BoundFilesStay)'
  BY DEF StoreTypeOK, JobInv, UsedInv, SaveInv, ApartInv, HandoffInv,
     PurgeInv, RecoverInv, BoundFilesStay
<1> QED
  BY <1>1, <1>2, <1>3, <1>4

\* The files are back, or the purge was cut short.
LEMMA RollbackPurgeKeeps ==
  ASSUME StoreIInv, RollbackPurge
  PROVE  StoreIInv'
<1> USE DEF StoreIInv, RollbackPurge
<1>1. StoreTypeOK'
  BY DEF StoreTypeOK, JobInv, Steps
<1>2. SaveInv'
  BY DEF StoreTypeOK, SaveInv, ApartInv
<1>3. BoundFilesStay'
  BY DEF StoreTypeOK, PurgeInv, BoundFilesStay
<1>4. RegisteredIsKept'
  BY DEF StoreTypeOK, PurgeInv, RegisteredIsKept, FilesOf
<1>5. RegisteredOnShelf'
  BY DEF StoreTypeOK, JobInv, UsedInv, PurgeInv, RegisteredOnShelf
<1>6. (JobInv /\ UsedInv /\ ApartInv /\ HandoffInv /\ PurgeInv /\
       RecoverInv)'
  BY DEF JobInv, StoreTypeOK, UsedInv, ApartInv, HandoffInv, PurgeInv,
     RecoverInv
<1> QED
  BY <1>1, <1>2, <1>3, <1>4, <1>5, <1>6

\* The row is gone, or the id was snatched.
LEMMA SweepSomeKeeps ==
  ASSUME StoreIInv, SweepSome
  PROVE  StoreIInv'
<1> USE DEF StoreIInv, SweepSome, Shrunk
<1>1. StoreTypeOK'
  BY DEF StoreTypeOK, Steps
<1>2. RegisteredIsKept'
  BY DEF PurgeInv, RegisteredIsKept, FilesOf
<1>3. RegisteredOnShelf'
  BY DEF StoreTypeOK, JobInv, UsedInv, RegisteredOnShelf
<1>4. (JobInv /\ UsedInv /\ SaveInv /\ ApartInv /\ HandoffInv /\ PurgeInv
       /\ RecoverInv /\ BoundFilesStay)'
  BY DEF JobInv, UsedInv, SaveInv, ApartInv, HandoffInv, PurgeInv,
     RecoverInv, BoundFilesStay
<1> QED
  BY <1>1, <1>2, <1>3, <1>4

\* Nothing but the job changes.
LEMMA EndSweepKeeps ==
  ASSUME StoreIInv, EndSweep
  PROVE  StoreIInv'
<1> USE DEF StoreIInv, EndSweep
<1>1. StoreTypeOK'
  BY DEF StoreTypeOK, Steps
<1>2. RegisteredIsKept'
  BY DEF RegisteredIsKept, FilesOf
<1>3. RegisteredOnShelf'
  BY DEF StoreTypeOK, JobInv, UsedInv, SaveInv, RegisteredOnShelf
<1>4. (JobInv /\ UsedInv /\ SaveInv /\ ApartInv /\ HandoffInv /\ PurgeInv
       /\ RecoverInv /\ BoundFilesStay)'
  BY DEF JobInv, UsedInv, SaveInv, ApartInv, HandoffInv, PurgeInv,
     RecoverInv, BoundFilesStay
<1> QED
  BY <1>1, <1>2, <1>3, <1>4

\* What the thread is saving is snatched from here on.
LEMMA FindOrphanKeeps ==
  ASSUME StoreIInv, NEW a \in Ids, FindOrphan(a)
  PROVE  StoreIInv'
<1> USE DEF StoreIInv, FindOrphan, LookAt, Saving
<1>1. StoreTypeOK'
  BY DEF StoreTypeOK, JobInv, Steps
<1>2. JobInv'
  BY DEF StoreTypeOK, JobInv, UsedInv
<1>3. RegisteredIsKept'
  BY DEF RegisteredIsKept, FilesOf
<1>4. RegisteredOnShelf'
  BY DEF StoreTypeOK, JobInv, RegisteredOnShelf
<1>5. (UsedInv /\ SaveInv /\ ApartInv /\ HandoffInv /\ PurgeInv /\
       RecoverInv /\ BoundFilesStay)'
  BY DEF UsedInv, StoreTypeOK, SaveInv, ApartInv, HandoffInv, PurgeInv,
     RecoverInv, BoundFilesStay
<1> QED
  BY <1>1, <1>2, <1>3, <1>4, <1>5

\* No row refers to the directory that moves.
LEMMA TakeOrphanKeeps ==
  ASSUME StoreIInv, TakeOrphan
  PROVE  StoreIInv'
<1> USE DEF StoreIInv, TakeOrphan
<1>1. StoreTypeOK'
  BY DEF StoreTypeOK, Steps
<1>2. RegisteredIsKept'
  BY DEF StoreTypeOK, PurgeInv, RegisteredIsKept, FilesOf
<1>3. RegisteredOnShelf'
  BY DEF StoreTypeOK, JobInv, UsedInv, SaveInv, RegisteredOnShelf
<1>4. (JobInv /\ UsedInv /\ SaveInv /\ ApartInv /\ HandoffInv /\ PurgeInv
       /\ RecoverInv /\ BoundFilesStay)'
  BY DEF StoreTypeOK, JobInv, UsedInv, SaveInv, ApartInv, HandoffInv,
     PurgeInv, RecoverInv, BoundFilesStay
<1> QED
  BY <1>1, <1>2, <1>3, <1>4

\* The files are in artifacts/ and nowhere else, unless it was snatched.
LEMMA CommitRecoveryKeeps ==
  ASSUME StoreIInv, CommitRecovery
  PROVE  StoreIInv'
<1> USE DEF StoreIInv, CommitRecovery
<1>1. StoreTypeOK'
  BY DEF StoreTypeOK, Steps
<1>2. UsedInv'
  BY DEF JobInv, UsedInv
<1>3. SaveInv'
  BY DEF SaveInv, ApartInv
<1>4. RegisteredIsKept'
  BY DEF RecoverInv, RegisteredIsKept, FilesOf
<1>5. RegisteredOnShelf'
  BY DEF StoreTypeOK, JobInv, UsedInv, RecoverInv, RegisteredOnShelf
<1>6. (JobInv /\ ApartInv /\ HandoffInv /\ PurgeInv /\ RecoverInv /\
       BoundFilesStay)'
  BY DEF JobInv, ApartInv, HandoffInv, PurgeInv, StoreTypeOK, RecoverInv,
     BoundFilesStay
<1> QED
  BY <1>1, <1>2, <1>3, <1>4, <1>5, <1>6

\* There is no row yet, so the directory may be moved back.
LEMMA FailRecoveryKeeps ==
  ASSUME StoreIInv, FailRecovery
  PROVE  StoreIInv'
<1> USE DEF StoreIInv, FailRecovery
<1>1. StoreTypeOK'
  BY DEF StoreTypeOK, Steps
<1>2. SaveInv'
  BY DEF StoreTypeOK, SaveInv, ApartInv
<1>3. BoundFilesStay'
  BY DEF StoreTypeOK, RecoverInv, BoundFilesStay
<1>4. RegisteredIsKept'
  BY DEF StoreTypeOK, RecoverInv, RegisteredIsKept, FilesOf
<1>5. RegisteredOnShelf'
  BY DEF StoreTypeOK, JobInv, UsedInv, RecoverInv, RegisteredOnShelf
<1>6. (JobInv /\ UsedInv /\ ApartInv /\ HandoffInv /\ PurgeInv /\
       RecoverInv)'
  BY DEF JobInv, StoreTypeOK, UsedInv, ApartInv, HandoffInv, PurgeInv,
     RecoverInv
<1> QED
  BY <1>1, <1>2, <1>3, <1>4, <1>5, <1>6

\* A purge between its move and its commit is cut short.
LEMMA StoreCrashKeeps ==
  ASSUME StoreIInv, StoreCrash
  PROVE  StoreIInv'
<1> USE DEF StoreIInv, StoreCrash
<1>1. StoreTypeOK'
  BY DEF StoreTypeOK, JobInv, Steps
<1>2. RegisteredIsKept'
  BY DEF RegisteredIsKept, FilesOf
<1>3. RegisteredOnShelf'
  BY DEF StoreTypeOK, JobInv, HandoffInv, RecoverInv, RegisteredOnShelf
<1>4. (JobInv /\ UsedInv /\ SaveInv /\ ApartInv /\ HandoffInv /\ PurgeInv
       /\ RecoverInv /\ BoundFilesStay)'
  BY DEF JobInv, UsedInv, SaveInv, ApartInv, HandoffInv, PurgeInv,
     RecoverInv, BoundFilesStay
<1> QED
  BY <1>1, <1>2, <1>3, <1>4

LEMMA StoreStutterKeeps ==
  ASSUME StoreIInv, UNCHANGED storeVars
  PROVE  StoreIInv'
<1>1. token' \in [Tokens -> [status : {"none", "free", "expired", "consumed"},
                             graph : Graphs]]
  BY DEF StoreIInv, StoreTypeOK, storeVars
<1> QED
  BY <1>1, OnlyTokens DEF storeVars

-----------------------------------------------------------------------------
(* The invariant that the properties follow from: what each job may rely   *)
(* on, and that loop and thread are at different artifacts unless one was  *)
(* snatched.                                                               *)
THEOREM StoreInductive == StoreSpec => []StoreIInv
<1>1. ASSUME StoreIInv, [StoreNext]_storeVars
      PROVE  StoreIInv'
  <2>1. ASSUME NEW p \in Workers, Save(p)
        PROVE  StoreIInv'
    BY <1>1, <2>1, StartSaveKeeps, WriteShelfKeeps, InsertArtifactRowsKeeps,
       FailSaveKeeps DEF Save
  <2>2. CASE Handoff
    BY <1>1, <2>2, TokensKeep, StageKeeps, WriteStagingKeeps, PublishKeeps,
       CommitHandoffKeeps, FailHandoffKeeps DEF Handoff
  <2>3. CASE Remove
    BY <1>1, <2>3, SetLifecycleKeeps, PurgeKeeps, CommitPurgeKeeps,
       RollbackPurgeKeeps, SweepSomeKeeps, EndSweepKeeps DEF Remove
  <2>4. CASE Recover
    BY <1>1, <2>4, FindOrphanKeeps, TakeOrphanKeeps, CommitRecoveryKeeps,
       FailRecoveryKeeps DEF Recover
  <2> QED
    BY <1>1, <2>1, <2>2, <2>3, <2>4, StoreCrashKeeps, StoreStutterKeeps
       DEF StoreNext
<1> QED
  BY InitStoreIInv, <1>1, PTL DEF StoreSpec

(* Every variable of the store keeps its type.                             *)
THEOREM StoreTypeCorrect == StoreSpec => []StoreTypeOK
<1>1. StoreIInv => StoreTypeOK
  BY DEF StoreIInv
<1> QED
  BY <1>1, StoreInductive, PTL

(* What a graph is bound to is registered and complete in artifacts/, for  *)
(* any number of artifacts, graphs and tokens (activate_staged_handoff,    *)
(* purge_artifact, load_arrays).                                           *)
THEOREM BoundIsComplete == StoreSpec => []BoundFilesStay
<1>1. StoreIInv => BoundFilesStay
  BY DEF StoreIInv
<1> QED
  BY <1>1, StoreInductive, PTL

(* A registered artifact no purge has begun to remove can be read or       *)
(* recovered, unless it was recovered while it was being written           *)
(* (save_artifact, purge_artifact, recover_orphan_artifact).               *)
THEOREM RegisteredNeverLost == StoreSpec => []RegisteredIsKept
<1>1. StoreIInv => RegisteredIsKept
  BY DEF StoreIInv
<1> QED
  BY <1>1, StoreInductive, PTL

(* It is in artifacts/, unless a purge of it was cut short (load_arrays,   *)
(* list_orphan_artifacts).                                                 *)
THEOREM RegisteredIsReadable == StoreSpec => []RegisteredOnShelf
<1>1. StoreIInv => RegisteredOnShelf
  BY DEF StoreIInv
<1> QED
  BY <1>1, StoreInductive, PTL

-----------------------------------------------------------------------------
(* Conversions.  The invariant is about one job after another: what it has *)
(* done so far, given where its coroutine is.                              *)

Typed ==
  /\ status \in [Jobs -> {"none", "awaiting_authorization"}
                         \cup Unfinished \cup Terminal]
  /\ unused \subseteq Jobs
  /\ task \in [Jobs -> {"none", "scheduled", "starting", "polling",
                        "importing", "killing cancelled", "killing limited"}]
  /\ converter \in [Jobs -> {"none", "exited", "dead"} \cup Alive]
  /\ import \in [Jobs -> {"none", "busy", "done", "failed"}]
  /\ saved \in [Jobs -> 0 .. Datasets]
  /\ cancelled \subseteq Jobs
  /\ request \in [Requests -> Jobs \cup {NoJob}]
  /\ up \in BOOLEAN
  /\ outcomes \in [Jobs -> SUBSET Terminal]
  /\ started \in [Jobs -> Nat]

ConversionInv(j) ==
  /\ j \in unused <=> status[j] = "awaiting_authorization"
  /\ import[j] # "none" <=> task[j] = "importing"
  /\ import[j] = "done" => saved[j] = Datasets
  /\ started[j] \in {0, 1}
  \* What has not been authorized has not begun.
  /\ status[j] \in {"none", "awaiting_authorization"} =>
       task[j] = "none" /\ started[j] = 0 /\ outcomes[j] = {}
  /\ task[j] \in {"scheduled", "starting"} => started[j] = 0
  \* The coroutine ends the job first, unless it was cancelled.
  /\ task[j] # "none" =>
       /\ up
       /\ "succeeded" \notin outcomes[j]
       /\ j \notin cancelled => outcomes[j] = {}
  /\ j \in cancelled =>
       /\ status[j] \notin {"none", "awaiting_authorization"}
       /\ "succeeded" \notin outcomes[j]
  /\ "succeeded" \in outcomes[j] =>
       /\ status[j] = "succeeded"
       /\ outcomes[j] = {"succeeded"}
       /\ saved[j] = Datasets

RequestInv ==
  \A r \in Requests : request[r] # NoJob => request[r] \in cancelled

ConversionIInv == Typed /\ RequestInv /\ \A j \in Jobs : ConversionInv(j)

\* A step leaves a job alone.
Same(j) ==
  /\ status'[j] = status[j]
  /\ task'[j] = task[j]
  /\ import'[j] = import[j]
  /\ saved'[j] = saved[j]
  /\ outcomes'[j] = outcomes[j]
  /\ started'[j] = started[j]
  /\ j \in unused' <=> j \in unused
  /\ j \in cancelled' <=> j \in cancelled

USE ConversionAssumption DEF memory, told, Unfinished, Terminal, Alive, Write,
  End, Await

LEMMA OneJob ==
  ASSUME ConversionIInv, NEW j \in Jobs,
         Typed', RequestInv', ConversionInv(j)', up' = up,
         \A k \in Jobs \ {j} : Same(k)
  PROVE  ConversionIInv'
<1>1. ASSUME NEW k \in Jobs \ {j}
      PROVE  ConversionInv(k)'
  BY <1>1 DEF ConversionIInv, ConversionInv, Same
<1> QED
  BY <1>1 DEF ConversionIInv

LEMMA InitConversionIInv == ConversionInit => ConversionIInv
BY DEF ConversionInit, ConversionIInv, Typed, RequestInv, ConversionInv

\* What the coroutine may do at any await: fail, or return silently.
LEMMA FailKeeps ==
  ASSUME ConversionIInv, NEW j \in Jobs,
         task[j] # "none",
         Fail(j),
         import' = [import EXCEPT ![j] = "none"],
         UNCHANGED <<converter, saved, cancelled, request, up, started>>
  PROVE  ConversionIInv'
<1> USE DEF Fail
<1>1. Typed'
  BY DEF ConversionIInv, Typed
<1>2. RequestInv'
  BY DEF ConversionIInv, RequestInv
<1>3. ConversionInv(j)'
  BY DEF ConversionIInv, Typed, ConversionInv
<1>4. up' = up /\ \A k \in Jobs \ {j} : Same(k)
  BY DEF ConversionIInv, Typed, Same
<1> QED
  BY <1>1, <1>2, <1>3, <1>4, OneJob

LEMMA ReturnKeeps ==
  ASSUME ConversionIInv, NEW j \in Jobs,
         Await(j, "none"),
         import' = [import EXCEPT ![j] = "none"],
         UNCHANGED <<status, unused, converter, saved, cancelled, request,
                     up, told>>
  PROVE  ConversionIInv'
<1>1. Typed'
  BY DEF ConversionIInv, Typed
<1>2. RequestInv'
  BY DEF ConversionIInv, RequestInv
<1>3. ConversionInv(j)'
  BY DEF ConversionIInv, Typed, ConversionInv
<1>4. up' = up /\ \A k \in Jobs \ {j} : Same(k)
  BY DEF ConversionIInv, Typed, Same
<1> QED
  BY <1>1, <1>2, <1>3, <1>4, OneJob

\* Away from the import there is nothing to forget.
LEMMA NotImporting ==
  ASSUME ConversionIInv, NEW j \in Jobs, task[j] # "importing"
  PROVE  import = [import EXCEPT ![j] = "none"]
<1>1. import[j] = "none"
  BY DEF ConversionIInv, ConversionInv
<1> QED
  BY <1>1 DEF ConversionIInv, Typed

\* What is cancelled has not succeeded, and will not.
LEMMA WriteCancelledKeeps ==
  ASSUME ConversionIInv, NEW j \in Jobs,
         WriteCancelled(j),
         status[j] # "none" /\ "succeeded" \notin outcomes[j],
         cancelled' = cancelled \cup {j},
         request' \in [Requests -> Jobs \cup {NoJob}],
         RequestInv',
         UNCHANGED <<converter, saved, task, import, up, started>>
  PROVE  ConversionIInv'
<1> USE DEF WriteCancelled
<1>1. Typed'
  BY DEF ConversionIInv, Typed
<1>2. ConversionInv(j)'
  <2>1. /\ status'[j] = "cancelled"
        /\ j \notin unused'
        /\ outcomes'[j] = outcomes[j] \cup {"cancelled"}
    BY DEF ConversionIInv, Typed
  <2>2. task[j] # "none" => up
    BY DEF ConversionIInv, ConversionInv
  <2> QED BY <2>1, <2>2 DEF ConversionIInv, ConversionInv
<1>3. up' = up /\ \A k \in Jobs \ {j} : Same(k)
  BY DEF ConversionIInv, Typed, Same
<1> QED
  BY <1>1, <1>2, <1>3, OneJob

LEMMA InspectLocalKeeps ==
  ASSUME ConversionIInv, NEW j \in Jobs, InspectLocal(j)
  PROVE  ConversionIInv'
<1> USE DEF InspectLocal
<1>1. Typed'
  BY DEF ConversionIInv, Typed
<1>2. RequestInv'
  BY DEF ConversionIInv, Typed, RequestInv
<1>3. ConversionInv(j)'
  BY DEF ConversionIInv, Typed, ConversionInv
<1>4. up' = up /\ \A k \in Jobs \ {j} : Same(k)
  BY DEF ConversionIInv, Typed, Same
<1> QED
  BY <1>1, <1>2, <1>3, <1>4, OneJob

LEMMA AuthorizeKeeps ==
  ASSUME ConversionIInv, NEW j \in Jobs, Authorize(j)
  PROVE  ConversionIInv'
<1> USE DEF Authorize
<1>1. Typed'
  BY DEF ConversionIInv, Typed
<1>2. RequestInv'
  BY DEF ConversionIInv, Typed, RequestInv
<1>3. ConversionInv(j)'
  BY DEF ConversionIInv, Typed, ConversionInv
<1>4. up' = up /\ \A k \in Jobs \ {j} : Same(k)
  BY DEF ConversionIInv, Typed, Same
<1> QED
  BY <1>1, <1>2, <1>3, <1>4, OneJob

LEMMA FindNoConverterKeeps ==
  ASSUME ConversionIInv, NEW j \in Jobs, FindNoConverter(j)
  PROVE  ConversionIInv'
BY NotImporting, FailKeeps DEF FindNoConverter, Fail

LEMMA FailStartKeeps ==
  ASSUME ConversionIInv, NEW j \in Jobs, FailStart(j)
  PROVE  ConversionIInv'
BY NotImporting, FailKeeps DEF FailStart, Fail

LEMMA StartConverterKeeps ==
  ASSUME ConversionIInv, NEW j \in Jobs, StartConverter(j)
  PROVE  ConversionIInv'
<1> USE DEF StartConverter
<1>1. Typed'
  BY DEF ConversionIInv, Typed
<1>2. RequestInv'
  BY DEF ConversionIInv, Typed, RequestInv
<1>3. ConversionInv(j)'
  BY DEF ConversionIInv, Typed, ConversionInv
<1>4. up' = up /\ \A k \in Jobs \ {j} : Same(k)
  BY DEF ConversionIInv, Typed, Same
<1> QED
  BY <1>1, <1>2, <1>3, <1>4, OneJob

\* The converter of a job begins, and the job has ended or goes on.
LEMMA BeginConverterKeeps ==
  ASSUME ConversionIInv, NEW j \in Jobs, WatchConverter(j)
  PROVE  /\ started' = [started EXCEPT ![j] = 1] /\ started[j] = 0
         /\ started' \in [Jobs -> Nat]
         /\ converter' \in [Jobs -> {"none", "exited", "dead"} \cup Alive]
         /\ RequestInv'
<1>1. started[j] = 0
  BY DEF ConversionIInv, ConversionInv, WatchConverter
<1>2. started' = [started EXCEPT ![j] = 1]
  <2>1. started' = [started EXCEPT ![j] = started[j] + 1]
    BY DEF WatchConverter
  <2>2. started[j] + 1 = 1
    BY <1>1
  <2> QED BY <2>1, <2>2, Zenon
<1>3. started' \in [Jobs -> Nat]
  <2>1. started \in [Jobs -> Nat] /\ 1 \in Nat
    BY DEF ConversionIInv, Typed
  <2> QED BY <1>2, <2>1, Zenon
<1>4. converter' \in [Jobs -> {"none", "exited", "dead"} \cup Alive]
  BY DEF WatchConverter, ConversionIInv, Typed
<1>5. RequestInv'
  BY DEF WatchConverter, ConversionIInv, RequestInv
<1> QED
  BY <1>1, <1>2, <1>3, <1>4, <1>5

LEMMA WatchConverterKeeps ==
  ASSUME ConversionIInv, NEW j \in Jobs, WatchConverter(j)
  PROVE  ConversionIInv'
<1> DEFINE Awaits == {"killing cancelled", "killing limited", "polling"}
<1>1. /\ started' = [started EXCEPT ![j] = 1] /\ started' \in [Jobs -> Nat]
      /\ converter' \in [Jobs -> {"none", "exited", "dead"} \cup Alive]
      /\ RequestInv'
  BY BeginConverterKeeps
<1>2. started \in [Jobs -> Nat] /\ started'[j] = 1
  BY <1>1 DEF ConversionIInv, Typed
<1>3. task[j] = "starting" /\ UNCHANGED <<saved, import, cancelled, up>>
  BY DEF WatchConverter
<1>4. CASE /\ \E next \in Awaits : Await(j, next)
           /\ UNCHANGED <<status, unused, outcomes>>
  <2>1. PICK next \in Awaits : task' = [task EXCEPT ![j] = next]
    BY <1>4
  <2>2. Typed'
    BY <1>1, <1>4, <2>1 DEF WatchConverter, ConversionIInv, Typed
  <2>3. task'[j] \notin {"none", "importing", "scheduled", "starting"}
    BY <2>1 DEF ConversionIInv, Typed
  <2>4. ConversionInv(j)'
    BY <1>2, <1>3, <1>4, <2>3 DEF ConversionIInv, Typed, ConversionInv
  <2>5. up' = up /\ \A k \in Jobs \ {j} : Same(k)
    BY <1>1, <1>2, <1>3, <1>4, <2>1 DEF ConversionIInv, Typed, Same
  <2> QED
    BY <1>1, <2>2, <2>4, <2>5, OneJob
<1>5. CASE j \notin cancelled /\ Fail(j)
  <2>1. Typed'
    BY <1>1, <1>5 DEF Fail, WatchConverter, ConversionIInv, Typed
  <2>2. ConversionInv(j)'
    BY <1>2, <1>3, <1>5 DEF Fail, ConversionIInv, Typed, ConversionInv
  <2>3. up' = up /\ \A k \in Jobs \ {j} : Same(k)
    BY <1>1, <1>2, <1>3, <1>5 DEF Fail, ConversionIInv, Typed, Same
  <2> QED
    BY <1>1, <2>1, <2>2, <2>3, OneJob
<1> QED
  BY <1>4, <1>5 DEF WatchConverter, Look

LEMMA PollConverterKeeps ==
  ASSUME ConversionIInv, NEW j \in Jobs, PollConverter(j)
  PROVE  ConversionIInv'
<1> DEFINE Awaits == {"killing cancelled", "killing limited", "polling"}
<1>1. /\ task[j] = "polling"
      /\ UNCHANGED <<converter, saved, import, cancelled, request, up, started>>
  BY DEF PollConverter
<1>2. CASE Fail(j)
  BY <1>1, <1>2, NotImporting, FailKeeps
<1>3. CASE /\ \E next \in Awaits : Await(j, next)
           /\ UNCHANGED <<status, unused, outcomes>>
  <2>1. PICK next \in Awaits : task' = [task EXCEPT ![j] = next]
    BY <1>3
  <2>2. Typed'
    BY <1>1, <1>3, <2>1 DEF ConversionIInv, Typed
  <2>3. RequestInv'
    BY <1>1 DEF ConversionIInv, RequestInv
  <2>4. task'[j] \notin {"none", "importing", "scheduled", "starting"}
    BY <2>1 DEF ConversionIInv, Typed
  <2>5. ConversionInv(j)'
    BY <1>1, <1>3, <2>4 DEF ConversionIInv, Typed, ConversionInv
  <2>6. up' = up /\ \A k \in Jobs \ {j} : Same(k)
    BY <1>1, <1>3, <2>1 DEF ConversionIInv, Typed, Same
  <2> QED
    BY <2>2, <2>3, <2>5, <2>6, OneJob
<1> QED
  BY <1>2, <1>3 DEF PollConverter, Look

LEMMA EndKilledKeeps ==
  ASSUME ConversionIInv, NEW j \in Jobs, EndKilled(j)
  PROVE  ConversionIInv'
<1>1. CASE task[j] = "killing cancelled"
  BY <1>1, NotImporting, ReturnKeeps DEF EndKilled
<1>2. CASE task[j] = "killing limited"
  BY <1>2, NotImporting, FailKeeps DEF EndKilled
<1> QED
  BY <1>1, <1>2 DEF EndKilled

LEMMA BeginImportKeeps ==
  ASSUME ConversionIInv, NEW j \in Jobs,
         task[j] = "polling",
         Write(j, "running"),
         Await(j, "importing"),
         import' = [import EXCEPT ![j] = "busy"],
         UNCHANGED <<unused, converter, saved, cancelled, request, up, told>>
  PROVE  ConversionIInv'
<1>1. Typed'
  BY DEF ConversionIInv, Typed
<1>2. RequestInv'
  BY DEF ConversionIInv, RequestInv
<1>3. ConversionInv(j)'
  BY DEF ConversionIInv, Typed, ConversionInv
<1>4. up' = up /\ \A k \in Jobs \ {j} : Same(k)
  BY DEF ConversionIInv, Typed, Same
<1> QED
  BY <1>1, <1>2, <1>3, <1>4, OneJob

LEMMA SeeExitKeeps ==
  ASSUME ConversionIInv, NEW j \in Jobs, SeeExit(j)
  PROVE  ConversionIInv'
<1>1. import = [import EXCEPT ![j] = "none"]
  BY NotImporting DEF SeeExit
<1>2. CASE /\ Await(j, "none")
           /\ UNCHANGED <<status, unused, import, outcomes>>
  BY <1>1, <1>2, ReturnKeeps DEF SeeExit
<1>3. CASE Fail(j) /\ UNCHANGED import
  BY <1>1, <1>3, FailKeeps DEF SeeExit
<1>4. CASE /\ Write(j, "running")
           /\ Await(j, "importing")
           /\ import' = [import EXCEPT ![j] = "busy"]
           /\ UNCHANGED <<unused, outcomes>>
  BY <1>4, BeginImportKeeps DEF SeeExit
<1> QED
  BY <1>2, <1>3, <1>4 DEF SeeExit

\* Nobody cancelled the job, so it has not ended before.
LEMMA SeeImportedKeeps ==
  ASSUME ConversionIInv, NEW j \in Jobs, SeeImported(j)
  PROVE  ConversionIInv'
<1> USE DEF SeeImported
<1>1. CASE j \in cancelled
  BY <1>1, ReturnKeeps
<1>2. CASE j \notin cancelled
  <2>1. Typed'
    <3>1. outcomes' \in [Jobs -> SUBSET Terminal]
      <4>1. outcomes' = [outcomes EXCEPT ![j] = outcomes[j] \cup {"succeeded"}]
        BY <1>2
      <4>2. outcomes \in [Jobs -> SUBSET Terminal]
        BY DEF ConversionIInv, Typed
      <4>3. outcomes[j] \cup {"succeeded"} \in SUBSET Terminal
        BY <4>2
      <4> QED BY <4>1, <4>2, <4>3
    <3>2. /\ status' \in [Jobs -> {"none", "awaiting_authorization"}
                                 \cup Unfinished \cup Terminal]
          /\ UNCHANGED <<unused, converter, saved, cancelled, request, up,
                         started>>
      BY <1>2 DEF ConversionIInv, Typed
    <3> QED BY <3>1, <3>2 DEF ConversionIInv, Typed
  <2>2. RequestInv'
    BY DEF ConversionIInv, RequestInv
  <2>3. ConversionInv(j)'
    <3>1. /\ status'[j] = "succeeded"
          /\ outcomes'[j] = outcomes[j] \cup {"succeeded"}
          /\ import'[j] = "none" /\ task'[j] = "none"
      BY <1>2 DEF ConversionIInv, Typed
    <3>2. outcomes[j] = {} /\ saved[j] = Datasets
      BY <1>2 DEF ConversionIInv, ConversionInv
    <3> QED BY <1>2, <3>1, <3>2 DEF ConversionIInv, ConversionInv
  <2>4. up' = up /\ \A k \in Jobs \ {j} : Same(k)
    BY <1>2 DEF ConversionIInv, Typed, Same
  <2> QED BY <2>1, <2>2, <2>3, <2>4, OneJob
<1> QED
  BY <1>1, <1>2

LEMMA SeeImportFailedKeeps ==
  ASSUME ConversionIInv, NEW j \in Jobs, SeeImportFailed(j)
  PROVE  ConversionIInv'
BY FailKeeps DEF SeeImportFailed

LEMMA SaveArtifactKeeps ==
  ASSUME ConversionIInv, NEW j \in Jobs, SaveArtifact(j)
  PROVE  ConversionIInv'
<1> USE DEF SaveArtifact
<1>1. Typed'
  <2>1. saved[j] \in 0 .. Datasets
    BY DEF ConversionIInv, Typed
  <2>2. saved[j] + 1 \in 0 .. Datasets
    BY <2>1
  <2>3. saved' \in [Jobs -> 0 .. Datasets]
    BY <2>2 DEF ConversionIInv, Typed
  <2> QED BY <2>3 DEF ConversionIInv, Typed
<1>2. RequestInv'
  BY DEF ConversionIInv, Typed, RequestInv
<1>3. ConversionInv(j)'
  BY DEF ConversionIInv, Typed, ConversionInv
<1>4. up' = up /\ \A k \in Jobs \ {j} : Same(k)
  BY DEF ConversionIInv, Typed, Same
<1> QED
  BY <1>1, <1>2, <1>3, <1>4, OneJob

LEMMA EndImportKeeps ==
  ASSUME ConversionIInv, NEW j \in Jobs, EndImport(j)
  PROVE  ConversionIInv'
<1> USE DEF EndImport
<1>1. Typed'
  BY DEF ConversionIInv, Typed
<1>2. RequestInv'
  BY DEF ConversionIInv, Typed, RequestInv
<1>3. ConversionInv(j)'
  BY DEF ConversionIInv, Typed, ConversionInv
<1>4. up' = up /\ \A k \in Jobs \ {j} : Same(k)
  BY DEF ConversionIInv, Typed, Same
<1> QED
  BY <1>1, <1>2, <1>3, <1>4, OneJob

LEMMA CancelKeeps ==
  ASSUME ConversionIInv, NEW r \in Requests, NEW j \in Jobs, Cancel(r, j)
  PROVE  ConversionIInv'
<1> USE DEF Cancel
<1>1. status[j] # "none" /\ "succeeded" \notin outcomes[j]
  BY DEF Cancellable, ConversionIInv, ConversionInv
<1>2. RequestInv'
  BY DEF ConversionIInv, Typed, RequestInv
<1>3. CASE Registered(j) /\ converter[j] \in Alive
  <2>1. UNCHANGED <<status, unused, outcomes>>
    BY <1>3
  <2>2. Typed'
    <3>1. request' = [request EXCEPT ![r] = j]
      BY <1>3
    <3>2. request \in [Requests -> Jobs \cup {NoJob}]
      BY DEF ConversionIInv, Typed
    <3>3. request' \in [Requests -> Jobs \cup {NoJob}]
      BY <3>1, <3>2
    <3> QED BY <2>1, <3>3 DEF ConversionIInv, Typed
  <2>3. ConversionInv(j)'
    BY <1>1, <1>3, <2>1 DEF ConversionIInv, ConversionInv, Registered
  <2>4. up' = up /\ \A k \in Jobs \ {j} : Same(k)
    BY <2>1 DEF ConversionIInv, Typed, Same
  <2> QED BY <1>2, <2>2, <2>3, <2>4, OneJob
<1>4. CASE ~(Registered(j) /\ converter[j] \in Alive)
  <2>1. request' \in [Requests -> Jobs \cup {NoJob}]
    BY <1>4 DEF ConversionIInv, Typed
  <2>2. WriteCancelled(j)
    BY <1>4
  <2> QED BY <1>1, <1>2, <2>1, <2>2, WriteCancelledKeeps
<1> QED
  BY <1>3, <1>4

LEMMA EndCancelKeeps ==
  ASSUME ConversionIInv, NEW r \in Requests, EndCancel(r)
  PROVE  ConversionIInv'
<1> USE DEF EndCancel
<1>1. PICK j \in Jobs : j = request[r]
  BY DEF ConversionIInv, Typed
<1>2. j \in cancelled /\ WriteCancelled(j)
  BY <1>1 DEF ConversionIInv, RequestInv
<1>3. status[j] # "none" /\ "succeeded" \notin outcomes[j]
  BY <1>2 DEF ConversionIInv, ConversionInv
<1>4. cancelled' = cancelled \cup {j}
  BY <1>2
<1>5. request' \in [Requests -> Jobs \cup {NoJob}]
  BY DEF ConversionIInv, Typed
<1>6. RequestInv'
  BY DEF ConversionIInv, Typed, RequestInv
<1> QED
  BY <1>2, <1>3, <1>4, <1>5, <1>6, WriteCancelledKeeps

\* The converter says nothing of the job.
LEMMA ConverterKeeps ==
  ASSUME ConversionIInv, NEW j \in Jobs, Exit(j) \/ Kill(j) \/ Die(j)
  PROVE  ConversionIInv'
<1>1. PICK outcome \in {"exited", "dead", "killed"} :
        converter' = [converter EXCEPT ![j] = outcome]
  BY DEF Exit, Kill, Die
<1>2. UNCHANGED <<status, unused, saved, memory, up, told>>
  BY DEF Exit, Kill, Die
<1>3. Typed'
  BY <1>1, <1>2 DEF ConversionIInv, Typed
<1>4. RequestInv' /\ \A k \in Jobs : ConversionInv(k)'
  BY <1>2 DEF ConversionIInv, RequestInv, ConversionInv
<1> QED
  BY <1>3, <1>4 DEF ConversionIInv

LEMMA ConversionCrashKeeps ==
  ASSUME ConversionIInv, ConversionCrash
  PROVE  ConversionIInv'
<1> USE DEF ConversionCrash
<1>1. Typed'
  BY DEF ConversionIInv, Typed
<1>2. RequestInv'
  BY DEF ConversionIInv, RequestInv
<1>3. \A j \in Jobs : ConversionInv(j)'
  BY DEF ConversionIInv, ConversionInv
<1> QED
  BY <1>1, <1>2, <1>3 DEF ConversionIInv

\* What is unfinished while the API is down has no coroutine.
LEMMA MarkInterruptedKeeps ==
  ASSUME ConversionIInv, MarkInterruptedJobs
  PROVE  ConversionIInv'
<1> USE DEF MarkInterruptedJobs, Interrupted
<1>1. Typed'
  BY DEF ConversionIInv, Typed
<1>2. RequestInv'
  BY DEF ConversionIInv, RequestInv
<1>3. ASSUME NEW j \in Jobs
      PROVE  ConversionInv(j)'
  <2>1. ConversionInv(j) /\ task[j] = "none" /\ task'[j] = "none"
    BY DEF ConversionIInv, ConversionInv
  <2>2. CASE j \in Interrupted
    <3>1. /\ status'[j] = "failed"
          /\ outcomes'[j] = outcomes[j] \cup {"failed"}
          /\ j \notin unused'
      BY <2>2
    <3> QED BY <2>1, <2>2, <3>1 DEF ConversionInv
  <2>3. CASE j \notin Interrupted
    <3>1. /\ status'[j] = status[j]
          /\ outcomes'[j] = outcomes[j]
          /\ j \in unused' <=> j \in unused
      BY <2>3
    <3> QED BY <2>1, <3>1 DEF ConversionInv
  <2> QED BY <2>2, <2>3
<1> QED
  BY <1>1, <1>2, <1>3 DEF ConversionIInv

LEMMA ConversionStutterKeeps ==
  ASSUME ConversionIInv, UNCHANGED conversionVars
  PROVE  ConversionIInv'
BY DEF ConversionIInv, conversionVars, Typed, RequestInv, ConversionInv

-----------------------------------------------------------------------------
(* The invariant of conversions: every job has ended at most once unless   *)
(* it was cancelled, and has had one converter.                            *)
THEOREM ConversionInductive == ConversionSpec => []ConversionIInv
<1>1. ASSUME ConversionIInv, [ConversionNext]_conversionVars
      PROVE  ConversionIInv'
  <2>1. ASSUME NEW j \in Jobs, Run(j)
        PROVE  ConversionIInv'
    BY <1>1, <2>1, FindNoConverterKeeps, StartConverterKeeps, FailStartKeeps,
       WatchConverterKeeps, PollConverterKeeps, EndKilledKeeps, SeeExitKeeps,
       SeeImportedKeeps, SeeImportFailedKeeps DEF Run
  <2>2. ASSUME NEW j \in Jobs, Thread(j)
        PROVE  ConversionIInv'
    BY <1>1, <2>2, SaveArtifactKeeps, EndImportKeeps DEF Thread
  <2> QED
    BY <1>1, <2>1, <2>2, InspectLocalKeeps, AuthorizeKeeps, ConverterKeeps,
       CancelKeeps, EndCancelKeeps, ConversionCrashKeeps,
       MarkInterruptedKeeps, ConversionStutterKeeps DEF ConversionNext
<1> QED
  BY InitConversionIInv, <1>1, PTL DEF ConversionSpec

(* Every variable keeps its type, and a thread imports only what the       *)
(* coroutine of the job waits for.                                         *)
THEOREM ConversionTypeCorrect == ConversionSpec => []ConversionTypeOK
<1>1. ASSUME ConversionIInv
      PROVE  ConversionTypeOK
  <2>1. Typed /\ \A j \in Jobs : ConversionInv(j)
    BY <1>1 DEF ConversionIInv
  <2>2. unused = {j \in Jobs : status[j] = "awaiting_authorization"}
    BY <2>1 DEF Typed, ConversionInv
  <2>3. \A j \in Jobs : import[j] # "none" <=> task[j] = "importing"
    BY <2>1 DEF ConversionInv
  <2> QED BY <2>1, <2>2, <2>3 DEF Typed, ConversionTypeOK
<1> QED
  BY <1>1, ConversionInductive, PTL

(* However a job is cancelled, interrupted or authorized again, its        *)
(* converter is started at most once (authorize, mark_interrupted_jobs).   *)
THEOREM ConvertedOnce == ConversionSpec => []StartedOnce
<1>1. ASSUME ConversionIInv
      PROVE  StartedOnce
  <2>1. ASSUME NEW j \in Jobs
        PROVE  started[j] + (IF task[j] \in {"scheduled", "starting"}
                             THEN 1 ELSE 0) <= 1
    <3>1. started[j] \in {0, 1}
      BY <1>1 DEF ConversionIInv, ConversionInv
    <3>2. CASE task[j] \in {"scheduled", "starting"}
      <4>1. started[j] = 0
        BY <1>1, <3>2 DEF ConversionIInv, ConversionInv
      <4> QED BY <3>2, <4>1
    <3>3. CASE task[j] \notin {"scheduled", "starting"}
      BY <3>1, <3>3
    <3> QED BY <3>2, <3>3
  <2> QED BY <2>1 DEF StartedOnce
<1> QED
  BY <1>1, ConversionInductive, PTL

(* A job that succeeded was not cancelled or failed before, stays          *)
(* succeeded, and all its datasets are imported (cancel, _run).            *)
THEOREM SucceededForGood == ConversionSpec => []SuccessIsFinal
<1>1. ASSUME ConversionIInv
      PROVE  SuccessIsFinal
  BY <1>1 DEF ConversionIInv, ConversionInv, SuccessIsFinal
<1> QED
  BY <1>1, ConversionInductive, PTL

\* A record that tells of success has been given that end, and no end is
\* forgotten.
SuccessIsAnEnd ==
  \A j \in Jobs : status[j] = "succeeded" => "succeeded" \in outcomes[j]

EndsAreKept(j) ==
  /\ outcomes[j] \subseteq outcomes'[j]
  /\ status'[j] = "succeeded" => status[j] = "succeeded" \/ "succeeded" \in outcomes'[j]

LEMMA EndsStay ==
  ASSUME ConversionIInv, [ConversionNext]_conversionVars
  PROVE  \A j \in Jobs : EndsAreKept(j)
<1>1. /\ status \in [Jobs -> {"none", "awaiting_authorization"} \cup Unfinished \cup Terminal]
      /\ outcomes \in [Jobs -> SUBSET Terminal]
  BY DEF ConversionIInv, Typed
<1>2. ASSUME NEW j \in Jobs, NEW s \in Terminal, End(j, s)
      PROVE  \A k \in Jobs : EndsAreKept(k)
  BY <1>1, <1>2 DEF EndsAreKept
<1>3. ASSUME NEW j \in Jobs, NEW s \in {"awaiting_authorization", "queued", "running"},
             Write(j, s), UNCHANGED outcomes
      PROVE  \A k \in Jobs : EndsAreKept(k)
  BY <1>1, <1>3 DEF EndsAreKept
<1>4. CASE MarkInterruptedJobs
  BY <1>1, <1>4 DEF MarkInterruptedJobs, EndsAreKept
<1>5. CASE UNCHANGED <<status, outcomes>>
  BY <1>5 DEF EndsAreKept
<1>6. ASSUME NEW j \in Jobs, Run(j)
      PROVE  \A k \in Jobs : EndsAreKept(k)
  <2>1. CASE FindNoConverter(j) \/ FailStart(j) \/ SeeImportFailed(j)
    BY <1>2, <2>1 DEF FindNoConverter, FailStart, SeeImportFailed, Fail
  <2>2. CASE StartConverter(j)
    BY <1>3, <2>2 DEF StartConverter
  <2>3. CASE WatchConverter(j) \/ PollConverter(j)
    BY <1>2, <1>5, <2>3 DEF WatchConverter, PollConverter, Look, Fail
  <2>4. CASE EndKilled(j) \/ SeeImported(j)
    BY <1>2, <1>5, <2>4 DEF EndKilled, SeeImported, Fail
  <2>5. CASE SeeExit(j)
    BY <1>2, <1>3, <1>5, <2>5 DEF SeeExit, Fail
  <2> QED BY <1>6, <2>1, <2>2, <2>3, <2>4, <2>5 DEF Run
<1>7. ASSUME NEW j \in Jobs,
             InspectLocal(j) \/ Authorize(j) \/ Thread(j) \/ Exit(j) \/ Kill(j) \/ Die(j)
      PROVE  \A k \in Jobs : EndsAreKept(k)
  BY <1>3, <1>5, <1>7 DEF InspectLocal, Authorize, Thread, SaveArtifact, EndImport,
                          Exit, Kill, Die
<1>8. ASSUME NEW r \in Requests, NEW j \in Jobs, Cancel(r, j)
      PROVE  \A k \in Jobs : EndsAreKept(k)
  BY <1>2, <1>5, <1>8 DEF Cancel, WriteCancelled
<1>9. ASSUME NEW r \in Requests, EndCancel(r)
      PROVE  \A k \in Jobs : EndsAreKept(k)
  <2>1. request[r] \in Jobs
    BY <1>9 DEF EndCancel, ConversionIInv, Typed
  <2> QED BY <1>2, <1>9, <2>1 DEF EndCancel, WriteCancelled
<1> QED
  BY <1>4, <1>5, <1>6, <1>7, <1>8, <1>9
     DEF ConversionNext, ConversionCrash, conversionVars

(* To those who ask for conversions the service is one as JobOutcomes      *)
(* tells it, for any number of jobs and of requests to cancel them: what   *)
(* has succeeded stays so, over restarts too, and its datasets are there   *)
(* from that moment on (_run, cancel, mark_interrupted_jobs).              *)
THEOREM ConversionOutcomes == ConversionSpec => ConversionsKeepOutcomes
<1>1. ConversionInit => Conversions!Init /\ SuccessIsAnEnd
  BY DEF ConversionInit, Conversions!Init, Converted, SuccessIsAnEnd
<1>2. ASSUME ConversionIInv, ConversionIInv', SuccessIsAnEnd, [ConversionNext]_conversionVars
      PROVE  SuccessIsAnEnd' /\ Conversions!Next
  <2> DEFINE States == {"none", "awaiting_authorization"} \cup Unfinished \cup Terminal
             changed == {j \in Jobs : status'[j] # status[j]}
             tells == [j \in changed |-> status'[j]]
  <2>1. status \in [Jobs -> States] /\ status' \in [Jobs -> States]
    BY <1>2 DEF ConversionIInv, Typed
  <2>2. \A j \in Jobs : EndsAreKept(j)
    BY <1>2, EndsStay
  <2>3. SuccessIsAnEnd'
    BY <1>2, <2>2 DEF SuccessIsAnEnd, EndsAreKept
  <2>4. \A j \in Jobs : "succeeded" \in outcomes'[j] =>
          status'[j] = "succeeded" /\ saved'[j] = Datasets
    BY <1>2 DEF ConversionIInv, ConversionInv
  <2>5. \A j \in changed : status[j] \notin {"succeeded"}
    BY <1>2, <2>2, <2>4 DEF SuccessIsAnEnd, EndsAreKept
  <2>6. Converted' = {j \in Jobs : status'[j] \in {"succeeded"}}
    BY <2>3, <2>4 DEF SuccessIsAnEnd, Converted
  <2>7. status' = [j \in Jobs |-> IF j \in changed THEN tells[j] ELSE status[j]]
    BY <2>1
  <2>8. changed \in SUBSET Jobs /\ tells \in [changed -> States]
    BY <2>1
  <2> HIDE DEF changed, tells
  <2>9. Conversions!Tell(changed)
    BY <2>5, <2>6, <2>7, <2>8 DEF Conversions!Tell
  <2> QED BY <2>3, <2>8, <2>9 DEF Conversions!Next
<1> QED
  BY <1>1, <1>2, ConversionInductive, PTL
     DEF ConversionSpec, ConversionsKeepOutcomes, Conversions!Spec

=============================================================================

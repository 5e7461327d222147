--------------------------- MODULE InspectionCache ---------------------------
(***************************************************************************)
(* The inspections the API keeps in memory between the upload of a dataset *)
(* and its commit (services/api/app/dataset_import/service.py): bounded in *)
(* number and bytes, and in bytes per project, with running totals beside  *)
(* the entries.                                                            *)
(*                                                                         *)
(* A method holds the lock until it returns, so that nothing comes between *)
(* its steps; each round of its loops is a step here, in the order of the  *)
(* code, since the totals the next round compares are those this one       *)
(* leaves.                                                                 *)
(*                                                                         *)
(* Abstractions: sizes are a few small numbers.  Which entries are expired *)
(* when a method begins is left open: an inspection takes its time before  *)
(* it waits for the lock, so that the oldest need not be the first.  What  *)
(* is committed leaves the cache whatever comes of it.                     *)
(***************************************************************************)
EXTENDS Integers, Sequences, FiniteSets

CONSTANTS
  Inspections,      \* their ids
  Projects,
  Sizes,            \* of the records to retain
  MaxStored,        \* MAX_STORED_INSPECTIONS
  MaxBytes,
  MaxProjectBytes,
  MaxEntryBytes,
  NoProject,
  NoMethod

Entries == [id : Inspections, project : Projects, bytes : 0..MaxEntryBytes]

\* What the lock may be held for: an inspection to store, or an id to release.
Methods ==
  LET Some == SUBSET Inspections IN
  [does : {"inspect"}, entry : Entries, expired : Some]
    \cup [does : {"take"}, expired : Some,
          entry : [id : Inspections, project : {NoProject}, bytes : {0}]]

\* Settings refuses an entry or a project that may be larger than the cache.
ASSUME CacheAssumption ==
  /\ IsFiniteSet(Inspections)
  /\ Sizes \subseteq Nat
  /\ MaxStored \in Nat \ {0}
  /\ MaxBytes \in Nat /\ MaxProjectBytes \in Nat /\ MaxEntryBytes \in Nat
  /\ MaxEntryBytes <= MaxBytes
  /\ NoProject \notin Projects
  /\ NoMethod \notin Methods

VARIABLES
  entries,   \* the inspections, oldest first
  bytes,     \* of all of them
  ofProject, \* of those of every project
  method     \* that holds the lock: its entry, and the expired ones to release

cacheVars == <<entries, bytes, ofProject, method>>

AtLeastZero(n) == IF n > 0 THEN n ELSE 0

CacheInit ==
  /\ entries = <<>>
  /\ bytes = 0
  /\ ofProject = [p \in Projects |-> 0]
  /\ method = NoMethod

Held == {entries[i] : i \in DOMAIN entries}
Stored == {e.id : e \in Held}
AllBut(i) == SubSeq(entries, 1, i - 1) \o SubSeq(entries, i + 1, Len(entries))

ReleaseAlone(i) ==  \* leaves the total of the project
  /\ entries' = AllBut(i)
  /\ bytes' = AtLeastZero(bytes - entries[i].bytes)
  /\ UNCHANGED ofProject

\* _release_inspection_locked
Release(i) ==
  /\ entries' = AllBut(i)
  /\ bytes' = AtLeastZero(bytes - entries[i].bytes)
  /\ ofProject' = [ofProject EXCEPT
                     ![entries[i].project] = AtLeastZero(@ - entries[i].bytes)]

-----------------------------------------------------------------------------
\* An id is not used twice; one that is free again stands for a new one.
Inspect(project, size) ==
  LET id == CHOOSE id \in Inspections : id \notin Stored IN
  /\ method = NoMethod
  /\ Stored # Inspections
  /\ size <= MaxEntryBytes
  /\ size <= MaxProjectBytes
  /\ \E expired \in SUBSET Stored :
       method' = [does |-> "inspect", expired |-> expired,
                  entry |-> [id |-> id, project |-> project, bytes |-> size]]
  /\ UNCHANGED <<entries, bytes, ofProject>>

\* commit and cancel_inspection.
Take(id) ==
  /\ method = NoMethod
  /\ \E expired \in SUBSET Stored :
       method' = [does |-> "take", expired |-> expired,
                  entry |-> [id |-> id, project |-> NoProject, bytes |-> 0]]
  /\ UNCHANGED <<entries, bytes, ofProject>>

-----------------------------------------------------------------------------
(* _prune_inspections_locked, a round at a time.                           *)

Own == {i \in DOMAIN entries : entries[i].project = method.entry.project}

LacksProjectRoom ==
  /\ method.does = "inspect"
  /\ ofProject[method.entry.project] + method.entry.bytes > MaxProjectBytes

LacksRoom ==
  \/ Len(entries) >= MaxStored
  \/ bytes + method.entry.bytes > MaxBytes

ReleaseExpired ==
  /\ method # NoMethod
  /\ \E i \in DOMAIN entries :
       /\ entries[i].id \in method.expired
       /\ Release(i)
       /\ method' = [method EXCEPT !.expired = @ \ {entries[i].id}]

MakeRoomInProject ==
  /\ method # NoMethod
  /\ method.expired = {}
  /\ LacksProjectRoom
  /\ \E i \in Own :
       /\ \A k \in Own : i <= k
       /\ Release(i)
  /\ UNCHANGED method

MakeRoom ==
  /\ method # NoMethod
  /\ method.expired = {}
  /\ ~(LacksProjectRoom /\ Own # {})
  /\ entries # <<>> /\ LacksRoom
  /\ Release(1)
  /\ UNCHANGED method

IsPruned ==
  /\ method # NoMethod
  /\ method.expired = {}
  /\ ~(LacksProjectRoom /\ Own # {})
  /\ ~(entries # <<>> /\ LacksRoom)

-----------------------------------------------------------------------------
\* There is room in the project and in all; 503 otherwise.
Fits ==
  /\ ofProject[method.entry.project] + method.entry.bytes <= MaxProjectBytes
  /\ bytes + method.entry.bytes <= MaxBytes

Store ==
  /\ IsPruned
  /\ method.does = "inspect"
  /\ IF Fits
     THEN /\ entries' = Append(entries, method.entry)
          /\ bytes' = bytes + method.entry.bytes
          /\ ofProject' = [ofProject EXCEPT ![method.entry.project] = @ + method.entry.bytes]
     ELSE UNCHANGED <<entries, bytes, ofProject>>
  /\ method' = NoMethod

\* 404 if there is none, and pruning may have removed it.
ReleaseTaken ==
  /\ IsPruned
  /\ method.does = "take"
  /\ IF method.entry.id \in Stored
     THEN \E i \in DOMAIN entries : entries[i].id = method.entry.id /\ Release(i)
     ELSE UNCHANGED <<entries, bytes, ofProject>>
  /\ method' = NoMethod

CacheNext ==
  \/ \E project \in Projects, size \in Sizes : Inspect(project, size)
  \/ \E id \in Inspections : Take(id)
  \/ ReleaseExpired
  \/ MakeRoomInProject
  \/ MakeRoom
  \/ Store
  \/ ReleaseTaken

CacheSpec == CacheInit /\ [][CacheNext]_cacheVars

-----------------------------------------------------------------------------
CacheTypeOK ==
  /\ entries \in Seq(Entries)
  /\ bytes \in Nat
  /\ ofProject \in [Projects -> Nat]
  /\ method \in Methods \cup {NoMethod}

\* The bytes of those entries, counted one by one.
BytesOf(these) == Cardinality({eb \in these \X (1..MaxEntryBytes) : eb[2] <= eb[1].bytes})

(* The running totals are those of the entries, no limit is exceeded, and  *)
(* an inspection within the limits finds room, however inspections arrive, *)
(* expire, are committed and cancelled (inspect, commit,                   *)
(* cancel_inspection).                                                     *)
CacheFits ==
  /\ bytes = BytesOf(Held)
  /\ \A p \in Projects :
       /\ ofProject[p] = BytesOf({e \in Held : e.project = p})
       /\ ofProject[p] <= MaxProjectBytes
  /\ bytes <= MaxBytes
  /\ Len(entries) <= MaxStored
  /\ IsPruned /\ method.does = "inspect" => Fits

=============================================================================

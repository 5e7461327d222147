------------------------------- MODULE ApiProofs -------------------------------
(***************************************************************************)
(* The cache of inspections: its running totals are those of its entries,  *)
(* and no limit is ever exceeded.  TotalsInv adds to CacheFits that the    *)
(* entries have distinct ids, without which an entry of a set would stand  *)
(* for two of the sequence; MethodInv adds what inspect has checked before *)
(* it takes the lock, on which the room left by the pruning depends.       *)
(*                                                                         *)
(* Then the API as the run explores it, its parts side by side: what is    *)
(* proved of each part alone holds of their composition, since a step of   *)
(* the one is a step of the part that takes it and leaves the others as    *)
(* they are.                                                               *)
(***************************************************************************)
EXTENDS MCApi, CaseIndexingProofs, DatasetProofs, FiniteSetTheorems,
        SequenceTheorems, TLAPS

OfProject(p) == {e \in Held : e.project = p}

\* What the cache holds, apart from who holds the lock.
TotalsInv ==
  /\ entries \in Seq(Entries)
  /\ \A i, j \in DOMAIN entries : entries[i].id = entries[j].id => i = j
  /\ bytes \in Nat /\ bytes = BytesOf(Held) /\ bytes <= MaxBytes
  /\ ofProject \in [Projects -> Nat]
  /\ \A p \in Projects :
       ofProject[p] = BytesOf(OfProject(p)) /\ ofProject[p] <= MaxProjectBytes
  /\ Len(entries) <= MaxStored

MethodInv ==
  /\ method \in Methods \cup {NoMethod}
  /\ method # NoMethod /\ method.does = "inspect" =>
       /\ method.entry.id \notin Stored
       /\ method.entry.bytes <= MaxProjectBytes

CacheInv == TotalsInv /\ MethodInv

-----------------------------------------------------------------------------
\* The bytes of an entry are as many as it says.
LEMMA OwnBytes ==
  ASSUME CacheAssumption, NEW e \in Entries
  PROVE  LET own == {eb \in {e} \X (1..MaxEntryBytes) : eb[2] <= eb[1].bytes}
         IN  IsFiniteSet(own) /\ Cardinality(own) = e.bytes
<1> DEFINE own == {eb \in {e} \X (1..MaxEntryBytes) : eb[2] <= eb[1].bytes}
           pair == [b \in 1..e.bytes |-> <<e, b>>]
<1>1. /\ e.bytes \in 0..MaxEntryBytes /\ MaxEntryBytes \in Nat
      /\ e.bytes \in Nat
  BY DEF Entries, CacheAssumption
<1>2. own = {<<e, b>> : b \in 1..e.bytes}
  BY <1>1
<1>3. pair \in Bijection(1..e.bytes, own)
  BY <1>2 DEF Bijection, Injection, Surjection, IsInjective
<1>4. IsFiniteSet(1..e.bytes) /\ Cardinality(1..e.bytes) = e.bytes
  <2> DEFINE n == e.bytes
  <2> HIDE DEF n
  <2>1. 1 \in Int /\ n \in Int
    BY <1>1 DEF n
  <2>2. IsFiniteSet(1..n) /\ Cardinality(1..n) = IF 1 > n THEN 0 ELSE n - 1 + 1
    BY <2>1, FS_Interval
  <2> QED
    BY <1>1, <2>2 DEF n
<1> QED
  BY <1>3, <1>4, FS_Bijection DEF ExistsBijection

LEMMA BytesFinite ==
  ASSUME CacheAssumption, NEW S, IsFiniteSet(S)
  PROVE  /\ IsFiniteSet({eb \in S \X (1..MaxEntryBytes) : eb[2] <= eb[1].bytes})
         /\ BytesOf(S) \in Nat
<1>1. IsFiniteSet(1..MaxEntryBytes)
  BY FS_Interval DEF CacheAssumption
<1>2. IsFiniteSet(S \X (1..MaxEntryBytes))
  BY <1>1, FS_Product
<1>3. IsFiniteSet({eb \in S \X (1..MaxEntryBytes) : eb[2] <= eb[1].bytes})
  BY <1>2, FS_Subset
<1> QED
  BY <1>3, FS_CardinalityType DEF BytesOf

LEMMA BytesAdd ==
  ASSUME CacheAssumption, NEW S, IsFiniteSet(S), NEW e \in Entries, e \notin S
  PROVE  BytesOf(S \cup {e}) = BytesOf(S) + e.bytes
<1> DEFINE These(T) == {eb \in T \X (1..MaxEntryBytes) : eb[2] <= eb[1].bytes}
<1>1. IsFiniteSet(These(S)) /\ BytesOf(S) \in Nat
  BY BytesFinite
<1>2. IsFiniteSet(These({e})) /\ Cardinality(These({e})) = e.bytes
  BY OwnBytes
<1>3. These(S \cup {e}) = These(S) \cup These({e}) /\ These(S) \cap These({e}) = {}
  OBVIOUS
<1>4. e.bytes \in Nat
  BY DEF Entries, CacheAssumption
<1> HIDE DEF These
<1>5. Cardinality(These(S \cup {e})) = Cardinality(These(S)) + e.bytes - Cardinality({})
  <2>1. Cardinality(These(S) \cup These({e})) =
          Cardinality(These(S)) + Cardinality(These({e})) - Cardinality(These(S) \cap These({e}))
    BY <1>1, <1>2, FS_Union
  <2> QED
    BY <1>2, <1>3, <2>1
<1>6. BytesOf(S) = Cardinality(These(S)) /\ BytesOf(S \cup {e}) = Cardinality(These(S \cup {e}))
  BY DEF BytesOf, These
<1>7. Cardinality({}) = 0
  BY FS_EmptySet
<1> QED
  BY <1>1, <1>4, <1>5, <1>6, <1>7

LEMMA BytesOfNone == BytesOf({}) = 0
<1>1. {eb \in {} \X (1..MaxEntryBytes) : eb[2] <= eb[1].bytes} = {}
  OBVIOUS
<1> QED
  BY <1>1, FS_EmptySet DEF BytesOf

LEMMA BytesRemove ==
  ASSUME CacheAssumption, NEW S, IsFiniteSet(S), NEW e \in Entries, e \in S
  PROVE  /\ BytesOf(S \ {e}) \in Nat
         /\ BytesOf(S) = BytesOf(S \ {e}) + e.bytes
<1>1. IsFiniteSet(S \ {e}) /\ (S \ {e}) \cup {e} = S /\ e \notin S \ {e}
  BY FS_RemoveElement
<1>2. BytesOf(S \ {e}) \in Nat
  BY <1>1, BytesFinite
<1>3. BytesOf((S \ {e}) \cup {e}) = BytesOf(S \ {e}) + e.bytes
  BY <1>1, BytesAdd
<1> QED
  BY <1>1, <1>2, <1>3

LEMMA HeldFinite ==
  ASSUME TotalsInv
  PROVE  /\ IsFiniteSet(Held) /\ Held \subseteq Entries
         /\ \A p : IsFiniteSet(OfProject(p)) /\ OfProject(p) \subseteq Entries
<1>1. /\ Len(entries) \in Nat /\ DOMAIN entries = 1..Len(entries)
      /\ \A i \in 1..Len(entries) : entries[i] \in Entries
  BY LenProperties, ElementOfSeq DEF TotalsInv
<1>2. Held \subseteq Entries
  BY <1>1 DEF Held
<1> DEFINE entry == [i \in 1..Len(entries) |-> entries[i]]
<1>3. entry \in Surjection(1..Len(entries), Held)
  BY <1>1 DEF Held, Surjection
<1>4. IsFiniteSet(1..Len(entries))
  BY <1>1, FS_Interval
<1>5. IsFiniteSet(Held)
  BY <1>3, <1>4, FS_Surjection
<1>6. \A p : OfProject(p) \in SUBSET Held
  BY DEF OfProject
<1> QED
  BY <1>2, <1>5, <1>6, FS_Subset

-----------------------------------------------------------------------------
\* The sequence without its i-th entry holds the others, in their order.
LEMMA WithoutOne ==
  ASSUME TotalsInv, NEW i \in DOMAIN entries, entries' = AllBut(i)
  PROVE  /\ entries' \in Seq(Entries)
         /\ Len(entries') = Len(entries) - 1
         /\ \A j, k \in DOMAIN entries' : entries'[j].id = entries'[k].id => j = k
         /\ Held' = Held \ {entries[i]}
         /\ Stored' = Stored \ {entries[i].id}
<1> DEFINE n == Len(entries)
           front == SubSeq(entries, 1, i - 1)
           back == SubSeq(entries, i + 1, n)
<1>1. /\ n \in Nat /\ DOMAIN entries = 1..n /\ i \in 1..n
      /\ \A k \in 1..n : entries[k] \in Entries
  BY LenProperties, ElementOfSeq DEF TotalsInv
<1>2. /\ front \in Seq(Entries) /\ Len(front) = i - 1
      /\ \A k \in 1..(i - 1) : front[k] = entries[k]
  <2>1. 1 \in Int /\ i - 1 \in Int /\ \A k \in 1..(i - 1) : entries[k] \in Entries
    BY <1>1
  <2>2. /\ front \in Seq(Entries)
        /\ Len(front) = IF 1 <= i - 1 THEN i - 1 - 1 + 1 ELSE 0
        /\ \A k \in 1..(i - 1 - 1 + 1) : front[k] = entries[1 + k - 1]
    BY <2>1, SubSeqProperties
  <2>3. Len(front) = i - 1
    BY <1>1, <2>2
  <2>4. \A k \in 1..(i - 1) : k \in 1..(i - 1 - 1 + 1) /\ 1 + k - 1 = k
    BY <1>1
  <2> QED
    BY <2>2, <2>3, <2>4
<1>3. /\ back \in Seq(Entries) /\ Len(back) = n - i
      /\ \A k \in 1..(n - i) : back[k] = entries[i + k]
  <2>1. i + 1 \in Int /\ n \in Int /\ \A k \in (i + 1)..n : entries[k] \in Entries
    BY <1>1
  <2>2. /\ back \in Seq(Entries)
        /\ Len(back) = IF i + 1 <= n THEN n - (i + 1) + 1 ELSE 0
        /\ \A k \in 1..(n - (i + 1) + 1) : back[k] = entries[i + 1 + k - 1]
    BY <2>1, SubSeqProperties
  <2>3. Len(back) = n - i
    BY <1>1, <2>2
  <2>4. \A k \in 1..(n - i) : k \in 1..(n - (i + 1) + 1) /\ i + 1 + k - 1 = i + k
    BY <1>1
  <2> QED
    BY <2>2, <2>3, <2>4
<1>4. /\ entries' \in Seq(Entries) /\ Len(entries') = n - 1
      /\ DOMAIN entries' = 1..(n - 1)
      /\ \A k \in 1..(n - 1) : entries'[k] = IF k < i THEN entries[k] ELSE entries[k + 1]
  <2> HIDE DEF front, back, n
  <2>1. entries' = front \o back
    BY DEF AllBut, front, back, n
  <2>2. /\ entries' \in Seq(Entries) /\ Len(entries') = (i - 1) + (n - i)
        /\ \A k \in 1..((i - 1) + (n - i)) :
             entries'[k] = IF k <= i - 1 THEN front[k] ELSE back[k - (i - 1)]
    BY <1>2, <1>3, <2>1, ConcatProperties
  <2>3. (i - 1) + (n - i) = n - 1
    BY <1>1
  <2>4. ASSUME NEW k \in 1..(n - 1)
        PROVE  entries'[k] = IF k < i THEN entries[k] ELSE entries[k + 1]
    <3>1. CASE k < i
      BY <1>1, <1>2, <2>2, <2>3, <3>1
    <3>2. CASE ~(k < i)
      <4>1. k - (i - 1) \in 1..(n - i) /\ i + (k - (i - 1)) = k + 1 /\ ~(k <= i - 1)
        BY <1>1, <3>2
      <4> QED
        BY <1>1, <1>3, <2>2, <2>3, <3>2, <4>1
    <3> QED
      BY <3>1, <3>2
  <2>5. DOMAIN entries' = 1..(n - 1)
    BY <2>2, <2>3, LenProperties
  <2> QED
    BY <2>2, <2>3, <2>4, <2>5
<1> DEFINE from == [k \in 1..(n - 1) |-> IF k < i THEN k ELSE k + 1]
<1>5. /\ \A k \in 1..(n - 1) : from[k] \in (1..n) \ {i} /\ entries'[k] = entries[from[k]]
      /\ \A j, k \in 1..(n - 1) : from[j] = from[k] => j = k
      /\ \A m \in (1..n) \ {i} : \E k \in 1..(n - 1) : from[k] = m
  <2>1. \A k \in 1..(n - 1) : from[k] \in (1..n) \ {i} /\ entries'[k] = entries[from[k]]
    BY <1>1, <1>4
  <2>2. \A j, k \in 1..(n - 1) : from[j] = from[k] => j = k
    BY <1>1
  <2>3. ASSUME NEW m \in (1..n) \ {i}
        PROVE  \E k \in 1..(n - 1) : from[k] = m
    <3>1. CASE m < i
      <4>1. m \in 1..(n - 1) /\ from[m] = m
        BY <1>1, <3>1
      <4> QED
        BY <4>1
    <3>2. CASE m > i
      <4>1. m - 1 \in 1..(n - 1) /\ from[m - 1] = m
        BY <1>1, <3>2
      <4> QED
        BY <4>1
    <3> QED
      BY <1>1, <3>1, <3>2
  <2> QED
    BY <2>1, <2>2, <2>3
<1>6. \A j, k \in DOMAIN entries : entries[j].id = entries[k].id => j = k
  BY DEF TotalsInv
<1>7. ASSUME NEW j \in DOMAIN entries', NEW k \in DOMAIN entries',
             entries'[j].id = entries'[k].id
      PROVE  j = k
  <2> HIDE DEF from, n
  <2>1. j \in 1..(n - 1) /\ k \in 1..(n - 1)
    BY <1>4
  <2>2. /\ from[j] \in 1..n /\ entries'[j] = entries[from[j]]
        /\ from[k] \in 1..n /\ entries'[k] = entries[from[k]]
    BY <1>5, <2>1
  <2>3. from[j] = from[k]
    BY <1>1, <1>6, <1>7, <2>2
  <2> QED
    BY <1>5, <2>1, <2>3
<1>8. Held' = Held \ {entries[i]}
  <2> HIDE DEF from, n
  <2>1. \A m \in 1..n : entries[m] = entries[i] => m = i
    BY <1>1, <1>6
  <2>2. Held = {entries[k] : k \in 1..n} /\ Held' = {entries'[k] : k \in 1..(n - 1)}
    BY <1>1, <1>4 DEF Held
  <2>3. ASSUME NEW e \in Held'
        PROVE  e \in Held \ {entries[i]}
    BY <1>1, <1>5, <2>1, <2>2
  <2>4. ASSUME NEW e \in Held \ {entries[i]}
        PROVE  e \in Held'
    <3>1. PICK m \in (1..n) \ {i} : e = entries[m]
      BY <1>1, <2>2
    <3>2. PICK k \in 1..(n - 1) : from[k] = m
      BY <1>5
    <3> QED
      BY <1>5, <2>2, <3>1, <3>2
  <2> QED
    BY <2>3, <2>4
<1>9. Stored' = Stored \ {entries[i].id}
  <2>1. \A e \in Held : e.id = entries[i].id => e = entries[i]
    BY <1>1, <1>6 DEF Held
  <2>2. Stored' = {e.id : e \in Held'} /\ entries[i] \in Held
    BY <1>1 DEF Stored, Held
  <2> QED
    BY <1>8, <2>1, <2>2 DEF Stored
<1> QED
  BY <1>4, <1>7, <1>8, <1>9

-----------------------------------------------------------------------------
\* The totals lose what the entry counted, and no other project is touched.
LEMMA ReleaseKeeps ==
  ASSUME CacheAssumption, TotalsInv, NEW i \in DOMAIN entries, Release(i)
  PROVE  TotalsInv' /\ Stored' = Stored \ {entries[i].id}
<1> DEFINE e == entries[i]
<1>1. e \in Entries /\ e \in Held
  BY LenProperties, ElementOfSeq DEF TotalsInv, Held
<1>2. e.bytes \in Nat /\ e.project \in Projects
  BY <1>1 DEF Entries, CacheAssumption
<1>3. /\ IsFiniteSet(Held) /\ Held \subseteq Entries
      /\ \A p : IsFiniteSet(OfProject(p)) /\ OfProject(p) \subseteq Entries
  BY HeldFinite
<1>4. /\ entries' \in Seq(Entries)
      /\ Len(entries') = Len(entries) - 1
      /\ \A j, k \in DOMAIN entries' : entries'[j].id = entries'[k].id => j = k
      /\ Held' = Held \ {e}
      /\ Stored' = Stored \ {e.id}
  BY WithoutOne DEF Release
<1>5. bytes' \in Nat /\ bytes' = BytesOf(Held') /\ bytes' <= MaxBytes
  <2>1. BytesOf(Held \ {e}) \in Nat /\ BytesOf(Held) = BytesOf(Held \ {e}) + e.bytes
    BY <1>1, <1>3, BytesRemove
  <2>2. bytes' = AtLeastZero(bytes - e.bytes)
    BY DEF Release
  <2>3. bytes \in Nat /\ bytes = BytesOf(Held) /\ bytes <= MaxBytes /\ MaxBytes \in Nat
    BY DEF TotalsInv, CacheAssumption
  <2>4. bytes' = BytesOf(Held \ {e}) /\ bytes' <= MaxBytes
    BY <1>2, <2>1, <2>2, <2>3 DEF AtLeastZero
  <2> QED
    BY <1>4, <2>1, <2>4
<1>6. ASSUME NEW p \in Projects
      PROVE  /\ ofProject'[p] \in Nat
             /\ ofProject'[p] = BytesOf(OfProject(p)')
             /\ ofProject'[p] <= MaxProjectBytes
  <2>1. /\ ofProject[p] \in Nat /\ ofProject[p] = BytesOf(OfProject(p))
        /\ ofProject[p] <= MaxProjectBytes /\ MaxProjectBytes \in Nat
    BY DEF TotalsInv, CacheAssumption
  <2>2. OfProject(p)' = OfProject(p) \ {e}
    BY <1>4 DEF OfProject
  <2>3. CASE p = e.project
    <3>1. e \in OfProject(p)
      BY <1>1, <2>3 DEF OfProject
    <3>2. /\ BytesOf(OfProject(p) \ {e}) \in Nat
          /\ BytesOf(OfProject(p)) = BytesOf(OfProject(p) \ {e}) + e.bytes
      BY <1>1, <1>3, <3>1, BytesRemove
    <3>3. ofProject'[p] = AtLeastZero(ofProject[p] - e.bytes)
      BY <1>2, <2>3 DEF Release, TotalsInv
    <3>4. ofProject'[p] = BytesOf(OfProject(p) \ {e}) /\ ofProject'[p] <= MaxProjectBytes
      BY <1>2, <2>1, <3>2, <3>3 DEF AtLeastZero
    <3> QED
      BY <2>2, <3>2, <3>4
  <2>4. CASE p # e.project
    <3>1. OfProject(p)' = OfProject(p)
      BY <2>2, <2>4 DEF OfProject
    <3>2. ofProject'[p] = ofProject[p]
      BY <2>4 DEF Release, TotalsInv
    <3> QED
      BY <2>1, <3>1, <3>2
  <2> QED
    BY <2>3, <2>4
<1>7. ofProject' \in [Projects -> Nat]
  <2>1. ofProject' = [ofProject EXCEPT ![e.project] = AtLeastZero(@ - e.bytes)]
    BY DEF Release
  <2>2. ofProject' = [p \in Projects |-> ofProject'[p]]
    BY <2>1 DEF TotalsInv
  <2> QED
    BY <1>6, <2>2
<1>8. Len(entries') <= MaxStored
  <2>1. Len(entries) \in Nat /\ Len(entries) <= MaxStored /\ MaxStored \in Nat
    BY LenProperties DEF TotalsInv, CacheAssumption
  <2> QED
    BY <1>4, <2>1
<1> QED
  BY <1>4, <1>5, <1>6, <1>7, <1>8 DEF TotalsInv

\* What is stored is new to the cache, and room has been made for it.
LEMMA AppendKeeps ==
  ASSUME CacheAssumption, TotalsInv, NEW e \in Entries,
         e.id \notin Stored,
         Len(entries) < MaxStored,
         bytes + e.bytes <= MaxBytes,
         ofProject[e.project] + e.bytes <= MaxProjectBytes,
         entries' = Append(entries, e),
         bytes' = bytes + e.bytes,
         ofProject' = [ofProject EXCEPT ![e.project] = @ + e.bytes]
  PROVE  TotalsInv'
<1>1. e.bytes \in Nat /\ e.project \in Projects
  BY DEF Entries, CacheAssumption
<1> DEFINE n == Len(entries)
<1>2. /\ n \in Nat /\ DOMAIN entries = 1..n
      /\ \A k \in 1..n : entries[k] \in Entries
  BY LenProperties, ElementOfSeq DEF TotalsInv
<1>3. /\ IsFiniteSet(Held) /\ Held \subseteq Entries
      /\ \A p : IsFiniteSet(OfProject(p)) /\ OfProject(p) \subseteq Entries
  BY HeldFinite
<1>4. /\ entries' \in Seq(Entries) /\ Len(entries') = n + 1
      /\ \A k \in 1..n : entries'[k] = entries[k]
      /\ entries'[n + 1] = e
      /\ DOMAIN entries' = 1..(n + 1)
  <2>1. entries \in Seq(Entries)
    BY DEF TotalsInv
  <2>2. /\ entries' \in Seq(Entries) /\ Len(entries') = n + 1
        /\ \A k \in 1..n : entries'[k] = entries[k]
        /\ entries'[n + 1] = e
    BY <2>1, AppendProperties
  <2>3. DOMAIN entries' = 1..(n + 1)
    BY <2>2, LenProperties
  <2> QED
    BY <2>2, <2>3
<1> HIDE DEF n
<1>5. Held' = Held \cup {e} /\ e \notin Held
  <2>1. 1..(n + 1) = (1..n) \cup {n + 1}
    BY <1>2
  <2>2. Held = {entries[k] : k \in 1..n} /\ Held' = {entries'[k] : k \in 1..(n + 1)}
    BY <1>2, <1>4 DEF Held
  <2>3. Held' = Held \cup {e}
    BY <1>2, <1>4, <2>1, <2>2
  <2> QED
    BY <2>3 DEF Stored
<1>6. ASSUME NEW j \in DOMAIN entries', NEW k \in DOMAIN entries',
             entries'[j].id = entries'[k].id
      PROVE  j = k
  <2>1. \A m \in 1..n : entries[m].id # e.id
    BY <1>2 DEF Stored, Held
  <2>2. \A a, b \in 1..n : entries[a].id = entries[b].id => a = b
    BY <1>2 DEF TotalsInv
  <2>3. (j \in 1..n \/ j = n + 1) /\ (k \in 1..n \/ k = n + 1)
    BY <1>2, <1>4
  <2> QED
    BY <1>4, <1>6, <2>1, <2>2, <2>3
<1>7. bytes' \in Nat /\ bytes' = BytesOf(Held') /\ bytes' <= MaxBytes
  <2>1. BytesOf(Held \cup {e}) = BytesOf(Held) + e.bytes
    BY <1>3, <1>5, BytesAdd
  <2>2. bytes \in Nat /\ bytes = BytesOf(Held)
    BY DEF TotalsInv
  <2> QED
    BY <1>1, <1>5, <2>1, <2>2
<1>8. ASSUME NEW p \in Projects
      PROVE  /\ ofProject'[p] \in Nat
             /\ ofProject'[p] = BytesOf(OfProject(p)')
             /\ ofProject'[p] <= MaxProjectBytes
  <2>1. /\ ofProject[p] \in Nat /\ ofProject[p] = BytesOf(OfProject(p))
        /\ ofProject[p] <= MaxProjectBytes
    BY DEF TotalsInv
  <2>2. CASE p = e.project
    <3>1. OfProject(p)' = OfProject(p) \cup {e} /\ e \notin OfProject(p)
      BY <1>5, <2>2 DEF OfProject
    <3>2. BytesOf(OfProject(p) \cup {e}) = BytesOf(OfProject(p)) + e.bytes
      BY <1>3, <3>1, BytesAdd
    <3>3. ofProject'[p] = ofProject[p] + e.bytes
      BY <1>1, <2>2 DEF TotalsInv
    <3>4. ofProject'[p] = BytesOf(OfProject(p)')
      BY <2>1, <3>1, <3>2, <3>3
    <3> QED
      BY <1>1, <2>1, <2>2, <3>3, <3>4
  <2>3. CASE p # e.project
    <3>1. OfProject(p)' = OfProject(p)
      BY <1>5, <2>3 DEF OfProject
    <3>2. ofProject'[p] = ofProject[p]
      BY <2>3 DEF TotalsInv
    <3> QED
      BY <2>1, <3>1, <3>2
  <2> QED
    BY <2>2, <2>3
<1>9. ofProject' \in [Projects -> Nat]
  <2>1. ofProject' = [p \in Projects |-> ofProject'[p]]
    BY DEF TotalsInv
  <2> QED
    BY <1>8, <2>1
<1>10. Len(entries') <= MaxStored
  BY <1>2, <1>4 DEF n, CacheAssumption
<1> QED
  BY <1>4, <1>6, <1>7, <1>8, <1>9, <1>10 DEF TotalsInv

-----------------------------------------------------------------------------
\* What the lock is held for, when it is held.
LEMMA Holding ==
  ASSUME MethodInv, method # NoMethod
  PROVE  /\ method.expired \in SUBSET Inspections
         /\ \/ /\ method.does = "inspect" /\ method.entry \in Entries
               /\ method.entry.id \notin Stored
               /\ method.entry.bytes <= MaxProjectBytes
            \/ /\ method.does = "take"
               /\ method.entry \in [id : Inspections, project : {NoProject}, bytes : {0}]
<1>1. method \in Methods
  BY DEF MethodInv
<1> QED
  BY <1>1 DEF Methods, MethodInv

(* Once the loops of the pruning have ended, an inspection within the      *)
(* limits has room: the 503 of an inspection that does not fit, after the  *)
(* pruning, is never the answer.                                           *)
LEMMA PrunedFits ==
  ASSUME CacheAssumption, CacheInv, IsPruned, method.does = "inspect"
  PROVE  Fits /\ Len(entries) < MaxStored
<1> DEFINE e == method.entry
<1>1. e \in Entries /\ e.bytes <= MaxProjectBytes
  BY Holding DEF CacheInv, IsPruned
<1>2. /\ e.project \in Projects /\ e.bytes \in Nat /\ e.bytes <= MaxEntryBytes
      /\ MaxEntryBytes \in Nat /\ MaxBytes \in Nat /\ MaxEntryBytes <= MaxBytes
      /\ MaxProjectBytes \in Nat /\ MaxStored \in Nat \ {0}
  BY <1>1 DEF Entries, CacheAssumption
<1>3. /\ bytes \in Nat /\ bytes = BytesOf(Held)
      /\ ofProject[e.project] \in Nat
      /\ ofProject[e.project] = BytesOf(OfProject(e.project))
      /\ Len(entries) \in Nat
  BY <1>2, LenProperties DEF CacheInv, TotalsInv
<1>4. ofProject[e.project] + e.bytes <= MaxProjectBytes
  <2>1. CASE Own = {}
    <3>1. OfProject(e.project) = {}
      BY <2>1 DEF OfProject, Own, Held
    <3>2. ofProject[e.project] = 0
      BY <1>3, <3>1, BytesOfNone
    <3> QED
      BY <1>1, <1>2, <3>2
  <2>2. CASE Own # {}
    BY <1>2, <1>3, <2>2 DEF IsPruned, LacksProjectRoom
  <2> QED
    BY <2>1, <2>2
<1>5. bytes + e.bytes <= MaxBytes /\ Len(entries) < MaxStored
  <2>1. CASE entries = <<>>
    <3>1. Held = {} /\ Len(entries) = 0
      BY <2>1 DEF Held
    <3>2. bytes = 0
      BY <1>3, <3>1, BytesOfNone
    <3> QED
      BY <1>2, <3>1, <3>2
  <2>2. CASE entries # <<>>
    BY <1>2, <1>3, <2>2 DEF IsPruned, LacksRoom
  <2> QED
    BY <2>1, <2>2
<1> QED
  BY <1>4, <1>5 DEF Fits

-----------------------------------------------------------------------------
LEMMA CacheStarts == ASSUME CacheAssumption PROVE CacheInit => CacheInv
<1> SUFFICES ASSUME CacheInit PROVE CacheInv
  OBVIOUS
<1>1. /\ entries = <<>> /\ bytes = 0 /\ ofProject = [p \in Projects |-> 0]
      /\ method = NoMethod
  BY DEF CacheInit
<1>2. Held = {} /\ \A p : OfProject(p) = {}
  BY <1>1 DEF Held, OfProject
<1>3. entries \in Seq(Entries) /\ Len(entries) = 0 /\ DOMAIN entries = {}
  BY <1>1
<1>4. MaxBytes \in Nat /\ MaxProjectBytes \in Nat /\ MaxStored \in Nat
  BY DEF CacheAssumption
<1>5. bytes \in Nat /\ bytes = BytesOf(Held) /\ bytes <= MaxBytes
  BY <1>1, <1>2, <1>4, BytesOfNone
<1>6. /\ ofProject \in [Projects -> Nat]
      /\ \A p \in Projects :
           ofProject[p] = BytesOf(OfProject(p)) /\ ofProject[p] <= MaxProjectBytes
  <2>1. ASSUME NEW p \in Projects
        PROVE  ofProject[p] = BytesOf(OfProject(p)) /\ ofProject[p] <= MaxProjectBytes
    <3>1. OfProject(p) = {}
      BY <1>2
    <3>2. ofProject[p] = 0 /\ 0 <= MaxProjectBytes
      BY <1>1, <1>4
    <3> QED
      BY <3>1, <3>2, BytesOfNone
  <2> QED
    BY <1>1, <2>1
<1>7. TotalsInv
  BY <1>3, <1>4, <1>5, <1>6 DEF TotalsInv
<1>8. MethodInv
  BY <1>1 DEF MethodInv
<1> QED
  BY <1>7, <1>8 DEF CacheInv

LEMMA CacheRests ==
  ASSUME TotalsInv, UNCHANGED <<entries, bytes, ofProject>>
  PROVE  TotalsInv' /\ Stored' = Stored
<1>1. Held' = Held /\ \A p : OfProject(p)' = OfProject(p)
  BY DEF Held, OfProject
<1> QED
  BY <1>1 DEF TotalsInv, Stored

\* The lock is free again.
LEMMA LockIsFree == ASSUME method' = NoMethod PROVE MethodInv'
  BY DEF MethodInv

\* Releases leave fewer ids, and the same entry to store.
LEMMA StillHolding ==
  ASSUME CacheAssumption, MethodInv, method # NoMethod,
         Stored' \subseteq Stored,
         NEW expired \in SUBSET method.expired,
         method' = [method EXCEPT !.expired = expired]
  PROVE  MethodInv'
<1>1. method \in Methods
  BY DEF MethodInv
<1>2. /\ method'.does = method.does /\ method'.entry = method.entry
      /\ method' \in Methods
  BY <1>1 DEF Methods
<1>3. method' # NoMethod
  BY <1>2 DEF CacheAssumption
<1> QED
  BY <1>2, <1>3 DEF MethodInv

LEMMA SameMethod ==
  ASSUME MethodInv, Stored' \subseteq Stored, UNCHANGED method
  PROVE  MethodInv'
  BY DEF MethodInv

(* Every step keeps the totals equal to what is held, within the limits.   *)
LEMMA CacheStep ==
  ASSUME CacheAssumption PROVE CacheInv /\ [CacheNext]_cacheVars => CacheInv'
<1> SUFFICES ASSUME CacheInv, [CacheNext]_cacheVars PROVE CacheInv'
  OBVIOUS
<1>0. TotalsInv /\ MethodInv
  BY DEF CacheInv
<1>1. ASSUME NEW project \in Projects, NEW size \in Sizes, Inspect(project, size)
      PROVE  CacheInv'
  <2> DEFINE id == CHOOSE id \in Inspections : id \notin Stored
             e == [id |-> id, project |-> project, bytes |-> size]
  <2>1. UNCHANGED <<entries, bytes, ofProject>> /\ Stored # Inspections
        /\ size <= MaxEntryBytes /\ size <= MaxProjectBytes
    BY <1>1 DEF Inspect
  <2>2. TotalsInv' /\ Stored' = Stored
    BY <1>0, <2>1, CacheRests
  <2>3. Stored \subseteq Inspections
    BY <1>0, HeldFinite DEF Stored, Entries
  <2>4. id \in Inspections /\ id \notin Stored
    BY <2>1, <2>3
  <2> HIDE DEF id
  <2>5. e \in Entries
    BY <2>1, <2>4 DEF Entries, CacheAssumption
  <2>6. PICK expired \in SUBSET Stored :
          method' = [does |-> "inspect", expired |-> expired, entry |-> e]
    BY <1>1 DEF Inspect, id
  <2>7. method' \in Methods
    BY <2>3, <2>5, <2>6 DEF Methods
  <2>8. MethodInv'
    BY <2>1, <2>2, <2>4, <2>6, <2>7 DEF MethodInv
  <2> QED
    BY <2>2, <2>8 DEF CacheInv
<1>2. ASSUME NEW id \in Inspections, Take(id) PROVE CacheInv'
  <2>1. TotalsInv' /\ Stored' = Stored
    BY <1>0, <1>2, CacheRests DEF Take
  <2>2. Stored \subseteq Inspections
    BY <1>0, HeldFinite DEF Stored, Entries
  <2>3. PICK expired \in SUBSET Stored :
          method' = [does |-> "take", expired |-> expired,
                     entry |-> [id |-> id, project |-> NoProject, bytes |-> 0]]
    BY <1>2 DEF Take
  <2>4. method' \in Methods /\ method'.does = "take"
    BY <2>2, <2>3 DEF Methods
  <2> QED
    BY <2>1, <2>4 DEF CacheInv, MethodInv
<1>3. CASE ReleaseExpired
  <2>1. PICK i \in DOMAIN entries :
          /\ Release(i)
          /\ method' = [method EXCEPT !.expired = @ \ {entries[i].id}]
    BY <1>3 DEF ReleaseExpired
  <2>2. TotalsInv' /\ Stored' \subseteq Stored
    BY <1>0, <2>1, ReleaseKeeps
  <2> DEFINE expired == method.expired \ {entries[i].id}
  <2>3. expired \in SUBSET method.expired /\ method' = [method EXCEPT !.expired = expired]
    BY <2>1
  <2>4. method # NoMethod
    BY <1>3 DEF ReleaseExpired
  <2> HIDE DEF expired
  <2>5. MethodInv'
    BY <1>0, <2>2, <2>3, <2>4, StillHolding
  <2> QED
    BY <2>2, <2>5 DEF CacheInv
<1>4. CASE MakeRoomInProject
  <2>1. PICK i \in Own : Release(i)
    BY <1>4 DEF MakeRoomInProject
  <2>2. i \in DOMAIN entries
    BY DEF Own
  <2>3. TotalsInv' /\ Stored' \subseteq Stored
    BY <1>0, <2>1, <2>2, ReleaseKeeps
  <2>4. MethodInv'
    BY <1>0, <1>4, <2>3, SameMethod DEF MakeRoomInProject
  <2> QED
    BY <2>3, <2>4 DEF CacheInv
<1>5. CASE MakeRoom
  <2>1. entries # <<>> /\ Release(1)
    BY <1>5 DEF MakeRoom
  <2>2. 1 \in DOMAIN entries
    <3>1. entries \in Seq(Entries)
      BY <1>0 DEF TotalsInv
    <3> QED
      BY <2>1, <3>1, EmptySeq, LenProperties
  <2>3. TotalsInv' /\ Stored' \subseteq Stored
    BY <1>0, <2>1, <2>2, ReleaseKeeps
  <2>4. MethodInv'
    BY <1>0, <1>5, <2>3, SameMethod DEF MakeRoom
  <2> QED
    BY <2>3, <2>4 DEF CacheInv
<1>6. CASE Store
  <2>1. IsPruned /\ method.does = "inspect" /\ method' = NoMethod
    BY <1>6 DEF Store
  <2>2. Fits /\ Len(entries) < MaxStored
    BY <2>1, PrunedFits
  <2>3. method.entry \in Entries /\ method.entry.id \notin Stored
    BY <1>0, <2>1, Holding DEF IsPruned
  <2> DEFINE e == method.entry
  <2>4. /\ entries' = Append(entries, e)
        /\ bytes' = bytes + e.bytes
        /\ ofProject' = [ofProject EXCEPT ![e.project] = @ + e.bytes]
    BY <1>6, <2>2 DEF Store
  <2>5. /\ bytes + e.bytes <= MaxBytes
        /\ ofProject[e.project] + e.bytes <= MaxProjectBytes
        /\ e \in Entries /\ e.id \notin Stored
    BY <2>2, <2>3 DEF Fits
  <2> HIDE DEF e
  <2>6. TotalsInv'
    BY <1>0, <2>2, <2>4, <2>5, AppendKeeps
  <2> QED
    BY <2>1, <2>6, LockIsFree DEF CacheInv
<1>7. CASE ReleaseTaken
  <2>1. method' = NoMethod
    BY <1>7 DEF ReleaseTaken
  <2>2. TotalsInv'
    <3>1. CASE method.entry.id \in Stored
      <4>1. PICK i \in DOMAIN entries : Release(i)
        BY <1>7, <3>1 DEF ReleaseTaken
      <4> QED
        BY <1>0, <4>1, ReleaseKeeps
    <3>2. CASE method.entry.id \notin Stored
      BY <1>0, <1>7, <3>2, CacheRests DEF ReleaseTaken
    <3> QED
      BY <3>1, <3>2
  <2> QED
    BY <2>1, <2>2, LockIsFree DEF CacheInv
<1>8. CASE UNCHANGED cacheVars
  <2>1. TotalsInv' /\ Stored' = Stored /\ UNCHANGED method
    BY <1>0, <1>8, CacheRests DEF cacheVars
  <2> QED
    BY <1>0, <2>1, SameMethod DEF CacheInv
<1> QED
  BY <1>1, <1>2, <1>3, <1>4, <1>5, <1>6, <1>7, <1>8 DEF CacheNext

(* The inductive invariant of the cache, whoever calls it and in whatever  *)
(* order.                                                                  *)
THEOREM CacheInductive == CacheInit /\ [][CacheNext]_cacheVars => []CacheInv
<1> USE CacheAssumption
<1> QED
  BY CacheStarts, CacheStep, PTL

LEMMA CacheFitsFollows == CacheInv => CacheTypeOK /\ CacheFits
<1> SUFFICES ASSUME CacheInv PROVE CacheTypeOK /\ CacheFits
  OBVIOUS
<1>1. CacheTypeOK
  BY DEF CacheInv, TotalsInv, MethodInv, CacheTypeOK
<1>2. \A p : OfProject(p) = {e \in Held : e.project = p}
  BY DEF OfProject
<1>3. IsPruned /\ method.does = "inspect" => Fits
  BY CacheAssumption, PrunedFits
<1>4. CacheFits
  BY <1>2, <1>3 DEF CacheInv, TotalsInv, CacheFits
<1> QED
  BY <1>1, <1>4

(* The totals the cache keeps beside its entries are theirs, no limit is   *)
(* exceeded, and an inspection within the limits finds room (service.py,   *)
(* inspect, commit, cancel_inspection and the pruning they begin with).    *)
THEOREM TotalsAreThose == CacheSpec => []CacheFits
  BY CacheInductive, CacheFitsFollows, PTL DEF CacheSpec

-----------------------------------------------------------------------------
(* The API as the run explores it.                                         *)

LEMMA PartsStart ==
  ApiInit => Init /\ StoreInit /\ ConversionInit /\ CacheInit
  BY DEF ApiInit

LEMMA PartsStep ==
  [ApiNext]_all => /\ [Next]_vars
                   /\ [StoreNext]_storeVars
                   /\ [ConversionNext]_conversionVars
                   /\ [CacheNext]_cacheVars
<1>1. UNCHANGED all => UNCHANGED <<vars, storeVars, conversionVars, cacheVars>>
  BY DEF all
<1> QED
  BY <1>1 DEF ApiNext

(* Each part of the API behaves as it does alone.                          *)
LEMMA ApiHasParts ==
  ApiSpec => /\ Init /\ [][Next]_vars
             /\ StoreInit /\ [][StoreNext]_storeVars
             /\ ConversionInit /\ [][ConversionNext]_conversionVars
             /\ CacheInit /\ [][CacheNext]_cacheVars
  BY PartsStart, PartsStep, PTL DEF ApiSpec

(* Every variable of the API's parts holds what the code may put there, in *)
(* the composition the run checks.                                         *)
THEOREM ApiTypeCorrect == ApiSpec => []ApiTypesOK
<1>1. TypeOK /\ StoreTypeOK /\ ConversionTypeOK /\ CacheTypeOK => ApiTypesOK
  BY DEF ApiTypesOK
<1>2. CacheInv => CacheTypeOK
  BY CacheFitsFollows
<1> QED
  BY <1>1, <1>2, ApiHasParts, TypeCorrect, StoreTypeCorrect, ConversionTypeCorrect,
     CacheInductive, PTL DEF Spec, StoreSpec, ConversionSpec

(* All the safety properties of the run, of the composition it explores:   *)
(* case indexing, datasets, conversions and inspections side by side.      *)
THEOREM ApiIsSafe ==
  ApiSpec => /\ [](LedgerIsValid /\ SucceededIsIndexed /\ TrueIsIndexed /\ ShownIsCoherent)
             /\ StaysVisible
             /\ [](BoundFilesStay /\ RegisteredIsKept /\ RegisteredOnShelf)
             /\ [](StartedOnce /\ SuccessIsFinal) /\ ConversionsKeepOutcomes
             /\ []CacheFits
  BY ApiHasParts, UsesLedger, Recorded, ReturnedTrue, ShownItem, Visible,
     BoundIsComplete, RegisteredNeverLost, RegisteredIsReadable,
     ConvertedOnce, SucceededForGood, ConversionOutcomes, TotalsAreThose, PTL
     DEF Spec, StoreSpec, ConversionSpec, CacheSpec

=============================================================================

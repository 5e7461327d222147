------------------------- MODULE CaseIndexingProofs -------------------------
(***************************************************************************)
(* What is recorded, returned and shown about an indexed case is true, for *)
(* any number of calls and conclusions.  The inductive invariant adds to   *)
(* the properties what every call and every request in flight knows: the   *)
(* version it was begun for, the attempt it waits for and, once the GFM    *)
(* process accepted it, that the record is its own evidence.               *)
(***************************************************************************)
EXTENDS CaseIndexing, TLAPS

LedgerInv == LedgerTypeOK /\ LedgerIsValid

(* One more event leaves the others, and what was indexed last before any  *)
(* of them, as they were.                                                  *)
LEMMA OneMore ==
  ASSUME NEW S \in Seq(Events), NEW x \in Events
  PROVE  LET T == Append(S, x) IN
         /\ T \in Seq(Events)
         /\ T # <<>>
         /\ Len(T) = Len(S) + 1
         /\ DOMAIN T = 1..(Len(S) + 1)
         /\ \A i \in 1..Len(S) : T[i] = S[i]
         /\ T[Len(S) + 1] = x
         /\ \A h : \A n \in 0..Len(S) :
              IsLastSuccess(h, T, n) <=> IsLastSuccess(h, S, n)
PROOF
  <1> DEFINE T == Append(S, x)
  <1>1. /\ T \in Seq(Events)
        /\ T # <<>>
        /\ Len(T) = Len(S) + 1
        /\ DOMAIN T = 1..(Len(S) + 1)
        /\ \A i \in 1..Len(S) : T[i] = S[i]
        /\ T[Len(S) + 1] = x
    OBVIOUS
  <1> HIDE DEF T
  <1>2. ASSUME NEW h, NEW n \in 0..Len(S)
        PROVE  IsLastSuccess(h, T, n) <=> IsLastSuccess(h, S, n)
    <2>1. n \in Nat /\ \A i \in 1..n : T[i] = S[i]
      BY <1>1
    <2>2. \A i \in 1..n : \A j \in (i + 1)..n : T[j] = S[j]
      BY <2>1
    <2> QED BY <2>1, <2>2 DEF IsLastSuccess
  <1> QED BY <1>1, <1>2 DEF T

(* What validation demands of the events, for any sequence of them.        *)
Valid(H) ==
  /\ H \in Seq(Events)
  /\ \A i \in 1..Len(H) :
       IF i = 1 THEN H[i].status = "pending"
       ELSE (H[i].status = "pending") # (H[i - 1].status = "pending")
  /\ \A i \in 1..Len(H) : H[i].status # "pending" => H[i].hash = H[i - 1].hash
  /\ \A i \in 1..Len(H) :
       H[i].status = "pending" => ~IsLastSuccess(H[i].hash, H, i - 1)

LEMMA ValidIsValid ==
  LedgerInv <=> /\ Valid(history)
                /\ claim \in Claims \cup {NoClaim}
                /\ ClaimIsOpen
PROOF
  <1>1. history \in Seq(Events) => DOMAIN history = 1..Len(history)
    OBVIOUS
  <1> QED
    BY <1>1 DEF LedgerInv, LedgerTypeOK, LedgerIsValid, Valid, InTurn,
       ClosesItsAttempt, NotIndexedAgain

LEMMA EventType ==
  ASSUME NEW s \in Statuses, NEW h \in Hashes
  PROVE  Event(s, h) \in Events /\ Event(s, h).status = s /\ Event(s, h).hash = h
  BY DEF Event, Events

(* A pending event may follow a history that is closed and whose last      *)
(* success it does not repeat.                                             *)
LEMMA PendingKeepsValid ==
  ASSUME NEW S, Valid(S), NEW h \in Hashes,
         ~IsLastSuccess(h, S, Len(S)),
         S = <<>> \/ S[Len(S)].status # "pending"
  PROVE  Valid(Append(S, Event("pending", h)))
PROOF
  <1> DEFINE e == Event("pending", h)
  <1> DEFINE T == Append(S, e)
  <1>1. e \in Events /\ e.status = "pending" /\ e.hash = h
    BY EventType DEF Statuses
  <1>2. S \in Seq(Events)
    BY DEF Valid
  <1>3. /\ T \in Seq(Events)
        /\ Len(S) \in Nat /\ Len(T) = Len(S) + 1
        /\ \A i \in 1..Len(S) : T[i] = S[i]
        /\ T[Len(S) + 1] = e
        /\ \A g : \A n \in 0..Len(S) :
             IsLastSuccess(g, T, n) <=> IsLastSuccess(g, S, n)
    BY <1>1, <1>2, OneMore
  <1>4. S = <<>> => Len(S) = 0
    BY <1>2
  <1> HIDE DEF T, e
  <1>5. ASSUME NEW i \in 1..Len(T)
        PROVE  /\ IF i = 1 THEN T[i].status = "pending"
                  ELSE (T[i].status = "pending") # (T[i - 1].status = "pending")
               /\ T[i].status # "pending" => T[i].hash = T[i - 1].hash
               /\ T[i].status = "pending" => ~IsLastSuccess(T[i].hash, T, i - 1)
    <2>1. CASE i = Len(S) + 1
      BY <1>1, <1>3, <1>4, <2>1
    <2>2. CASE i \in 1..Len(S)
      <3>1. T[i] = S[i] /\ (i # 1 => T[i - 1] = S[i - 1])
        BY <1>3, <2>2
      <3>2. IsLastSuccess(T[i].hash, T, i - 1)
              <=> IsLastSuccess(T[i].hash, S, i - 1)
        BY <1>3, <2>2
      <3> QED BY <2>2, <3>1, <3>2 DEF Valid
    <2> QED BY <1>3, <2>1, <2>2
  <1> QED BY <1>3, <1>5 DEF Valid, T, e

(* A terminal event with its hash may follow a pending event.              *)
LEMMA TerminalKeepsValid ==
  ASSUME NEW S, Valid(S), NEW s \in {"succeeded", "failed"},
         S # <<>>, S[Len(S)].status = "pending"
  PROVE  Valid(Append(S, Event(s, S[Len(S)].hash)))
PROOF
  <1> DEFINE e == Event(s, S[Len(S)].hash)
  <1> DEFINE T == Append(S, e)
  <1>1. /\ S \in Seq(Events) /\ Len(S) \in Nat \ {0}
        /\ S[Len(S)] \in Events
    BY DEF Valid
  <1>2. S[Len(S)].hash \in Hashes
    BY <1>1 DEF Events
  <1>3. e \in Events /\ e.status = s /\ e.hash = S[Len(S)].hash
    BY <1>2, EventType DEF Statuses
  <1>4. /\ T \in Seq(Events)
        /\ Len(T) = Len(S) + 1
        /\ \A i \in 1..Len(S) : T[i] = S[i]
        /\ T[Len(S) + 1] = e
        /\ \A g : \A n \in 0..Len(S) :
             IsLastSuccess(g, T, n) <=> IsLastSuccess(g, S, n)
    BY <1>1, <1>3, OneMore
  <1> HIDE DEF T, e
  <1>5. ASSUME NEW i \in 1..Len(T)
        PROVE  /\ IF i = 1 THEN T[i].status = "pending"
                  ELSE (T[i].status = "pending") # (T[i - 1].status = "pending")
               /\ T[i].status # "pending" => T[i].hash = T[i - 1].hash
               /\ T[i].status = "pending" => ~IsLastSuccess(T[i].hash, T, i - 1)
    <2>1. CASE i = Len(S) + 1
      BY <1>1, <1>3, <1>4, <2>1
    <2>2. CASE i \in 1..Len(S)
      <3>1. T[i] = S[i] /\ (i # 1 => T[i - 1] = S[i - 1])
        BY <1>4, <2>2
      <3>2. IsLastSuccess(T[i].hash, T, i - 1)
              <=> IsLastSuccess(T[i].hash, S, i - 1)
        BY <1>4, <2>2
      <3> QED BY <2>2, <3>1, <3>2 DEF Valid
    <2> QED BY <1>1, <1>4, <2>1, <2>2
  <1> QED BY <1>4, <1>5 DEF Valid, T, e

(* A new attempt, after a closed history, is what the claim is bound to.   *)
LEMMA OpenKeepsValid ==
  ASSUME NEW owner \in Owners, NEW h \in Hashes, NEW S, Valid(S),
         S = <<>> \/ S[Len(S)].status # "pending",
         OpenAttempt(owner, h, S)
  PROVE  LedgerInv'
PROOF
  <1> DEFINE e == Event("pending", h)
  <1>1. e \in Events /\ e.status = "pending" /\ e.hash = h
    BY EventType DEF Statuses
  <1>2. Valid(history')
    BY PendingKeepsValid DEF OpenAttempt
  <1>3. S \in Seq(Events)
    BY DEF Valid
  <1>4. /\ Len(S) \in Nat /\ history' # <<>>
        /\ Len(history') = Len(S) + 1
        /\ history'[Len(S) + 1] = e
    BY <1>1, <1>3, OneMore DEF OpenAttempt
  <1>5. claim' \in Claims
    BY <1>4 DEF OpenAttempt, Claims
  <1>6. ClaimIsOpen'
    BY <1>1, <1>4 DEF ClaimIsOpen, OpenAttempt, Open, Last
  <1>7. (Valid(history) /\ claim \in Claims \cup {NoClaim} /\ ClaimIsOpen)'
    BY <1>2, <1>5, <1>6 DEF Valid, IsLastSuccess
  <1> QED BY <1>7, ValidIsValid, PTL

(* One step of any method keeps the ledger valid.                          *)
LEMMA LedgerStep ==
  ASSUME LedgerInv, [LedgerNext]_ledger
  PROVE  LedgerInv'
PROOF
  <1>1. CASE UNCHANGED ledger
    BY <1>1 DEF ledger, LedgerInv, LedgerTypeOK, LedgerIsValid, InTurn,
       ClosesItsAttempt, NotIndexedAgain, ClaimIsOpen, Open, Last
  <1>2. ASSUME claim # NoClaim, UNCHANGED history,
               NEW b \in BOOLEAN, claim' = [claim EXCEPT !.live = b]
        PROVE  LedgerInv'
    <2>1. claim \in Claims
      BY <1>2 DEF LedgerInv, LedgerTypeOK
    <2>2. /\ claim' \in Claims
          /\ claim'.hash = claim.hash /\ claim'.attempt = claim.attempt
      BY <1>2, <2>1 DEF Claims
    <2> QED
      BY <1>2, <2>1, <2>2, LedgerAssumption DEF LedgerInv, LedgerTypeOK, LedgerIsValid,
         InTurn, ClosesItsAttempt, NotIndexedAgain, ClaimIsOpen, Open, Last
  <1>3. CASE LeaseRunsOut
    BY <1>2, <1>3 DEF LeaseRunsOut
  <1>4. ASSUME NEW owner \in Owners, NEW h \in Hashes,
               NEW a \in 0..Len(history), Reserve(owner, h, a)
        PROVE  LedgerInv'
    BY <1>4, ValidIsValid, OpenKeepsValid DEF Reserve, Open, Last
  <1>5. ASSUME NEW owner \in Owners, NEW h \in Hashes,
               NEW a \in 0..Len(history), TakeOver(owner, h, a)
        PROVE  LedgerInv'
    <2> DEFINE S == Append(history, Event("failed", Last.hash))
    <2>1. Valid(S)
      BY <1>5, ValidIsValid, TerminalKeepsValid DEF TakeOver, Open, Last
    <2>2. history \in Seq(Events) /\ Last \in Events
      BY <1>5 DEF LedgerInv, LedgerTypeOK, TakeOver, Open, Last
    <2>3. S[Len(S)].status # "pending"
      BY <2>2 DEF Event
    <2> QED BY <1>5, <2>1, <2>3, OpenKeepsValid DEF TakeOver
  <1>6. ASSUME NEW owner \in Owners, NEW a \in 0..Len(history), Renew(owner, a)
        PROVE  LedgerInv'
    BY <1>2, <1>6 DEF Renew, Holds
  <1>7. ASSUME NEW owner \in Owners, NEW h \in Hashes,
               NEW a \in 0..Len(history), NEW s \in {"succeeded", "failed"},
               Finish(owner, h, a, s)
        PROVE  LedgerInv'
    <2>1. Valid(history')
      BY <1>7, ValidIsValid, TerminalKeepsValid
      DEF Finish, MayFinish, Open, Last
    <2>2. (Valid(history) /\ claim \in Claims \cup {NoClaim} /\ ClaimIsOpen)'
      BY <1>7, <2>1 DEF Valid, IsLastSuccess, Finish, ClaimIsOpen
    <2> QED BY <2>2, ValidIsValid, PTL
  <1> QED BY <1>1, <1>3, <1>4, <1>5, <1>6, <1>7 DEF LedgerNext

LEMMA LedgerStart == LedgerInit => LedgerInv
PROOF
  <1> SUFFICES ASSUME LedgerInit PROVE LedgerInv
    OBVIOUS
  <1>1. claim \in Claims \cup {NoClaim} /\ ClaimIsOpen
    BY DEF LedgerInit, ClaimIsOpen
  <1>2. Valid(<<>>)
    BY DEF Valid
  <1>3. ASSUME NEW h \in Hashes PROVE Valid(<<Event("pending", h)>>)
    <2>1. ~IsLastSuccess(h, <<>>, 0)
      BY DEF IsLastSuccess
    <2>2. Valid(Append(<<>>, Event("pending", h)))
      BY <1>2, <2>1, PendingKeepsValid
    <2> QED BY <2>2
  <1> QED BY <1>1, <1>2, <1>3, ValidIsValid DEF LedgerInit

(* For every set of callers and hashes, what the store wrote passes the    *)
(* validation every one of its methods begins with.                        *)
THEOREM LedgerStaysValid == LedgerSpec => [](LedgerTypeOK /\ LedgerIsValid)
  <1>1. LedgerInit => LedgerInv
    BY LedgerStart
  <1>2. LedgerInv /\ [LedgerNext]_ledger => LedgerInv'
    BY LedgerStep
  <1>3. LedgerInv => LedgerTypeOK /\ LedgerIsValid
    BY DEF LedgerInv
  <1> QED BY <1>1, <1>2, <1>3, PTL DEF LedgerSpec

-----------------------------------------------------------------------------
(* Calls.  What every call in flight knows.                                *)

CaseInv == state \in {"concluded", "archived"} => conclusions # 0

CallInv ==
  \A c \in Owners :
    /\ pc[c] # "new" => seen[c] \in Hashes /\ seen[c] <= conclusions
    /\ pc[c] = "waiting" =>
         attempt[c] # 0 /\ history[attempt[c]].status = "pending"

NotSent == {"new", "waiting", "preparing"}

WireInv ==
  \A c \in Owners :
    /\ pc[c] \in NotSent => wire[c] = "unused"
    /\ wire[c] # "unused" =>
         /\ evidence[c] \in Evidence
         /\ evidence[c].of = seen[c]
         /\ seen[c] <= evidence[c].at
         /\ evidence[c].at <= conclusions
    /\ wire[c] \in {"entered"} \cup Receipts => record = evidence[c]

RecordInv ==
  /\ record # Absent => record.of <= record.at /\ record.at <= conclusions
  /\ found # Absent => found = record

IInv ==
  /\ TypeOK
  /\ LedgerIsValid
  /\ CaseInv
  /\ CallInv
  /\ WireInv
  /\ RecordInv
  /\ SucceededIsIndexed
  /\ TrueIsIndexed
  /\ ShownIsCoherent

-----------------------------------------------------------------------------
(* What one transaction does to the events.                                *)

(* Events are only ever added: positions remembered by a caller stay good. *)
LEMMA EventsAreKept ==
  ASSUME LedgerTypeOK, [LedgerNext]_ledger, LedgerTypeOK'
  PROVE  /\ Len(history) \in Nat /\ Len(history') \in Nat
         /\ Len(history) <= Len(history')
         /\ \A i \in 1..Len(history) : history'[i] = history[i]
PROOF
  <1>1. history \in Seq(Events) /\ history' \in Seq(Events)
    BY DEF LedgerTypeOK
  <1>2. CASE UNCHANGED history
    BY <1>1, <1>2
  <1>3. ASSUME NEW e, history' = Append(history, e)
        PROVE  /\ Len(history) <= Len(history')
               /\ \A i \in 1..Len(history) : history'[i] = history[i]
    BY <1>1, <1>3
  <1>4. ASSUME NEW d, NEW e, history' = Append(Append(history, d), e)
        PROVE  /\ Len(history) <= Len(history')
               /\ \A i \in 1..Len(history) : history'[i] = history[i]
    BY <1>1, <1>4
  <1> QED
    BY <1>1, <1>2, <1>3, <1>4
    DEF LedgerNext, ledger, LeaseRunsOut, Reserve, TakeOver, OpenAttempt,
        Renew, Finish

(* What an answer of claim_index_attempt tells its caller.                 *)
LEMMA ClaimFacts ==
  ASSUME LedgerTypeOK, LedgerIsValid,
         pc \in [Owners -> {"new"} \cup Running \cup Returned],
         attempt \in [Owners -> 0..Len(history)],
         NEW c \in Owners, NEW hash \in Hashes,
         NEW expected \in 0..Len(history),
         Claim(c, hash, expected)
  PROVE  /\ [LedgerNext]_ledger
         /\ history' \in Seq(Events)
         /\ \E place \in {"waiting", "preparing", "true", "false", "raised"} :
              pc' = [pc EXCEPT ![c] = place]
         /\ \E a \in 0..Len(history') : attempt' = [attempt EXCEPT ![c] = a]
         /\ pc'[c] = "true" =>
              \E i \in DOMAIN history :
                history[i].status = "succeeded" /\ history[i].hash = hash
         /\ pc'[c] = "waiting" =>
              attempt'[c] # 0 /\ history'[attempt'[c]].status = "pending"
         /\ \A i \in DOMAIN history' :
              history'[i].status = "succeeded" => i \in DOMAIN history
PROOF
  <1>1. history \in Seq(Events) /\ Len(history) \in Nat
    BY DEF LedgerTypeOK
  <1>2. CASE /\ IsAnswered(hash, expected)
             /\ GoTo(c, IF Answer(hash, expected) = "succeeded"
                        THEN "true" ELSE "false")
             /\ UNCHANGED <<ledger, attempt>>
    <2>1. pc'[c] = (IF Answer(hash, expected) = "succeeded"
                    THEN "true" ELSE "false")
      BY <1>2 DEF GoTo
    <2>2. ASSUME Answer(hash, expected) = "succeeded"
          PROVE  \E i \in DOMAIN history :
                   history[i].status = "succeeded" /\ history[i].hash = hash
      <3>1. CASE expected # 0
        BY <1>1, <1>2, <2>2, <3>1 DEF Answer, TerminalState, IsAnswered
      <3>2. CASE expected = 0
        BY <1>1, <1>2, <3>2 DEF IsAnswered, LastIs, Last, Event
      <3> QED BY <3>1, <3>2
    <2>3. attempt' = [attempt EXCEPT ![c] = attempt[c]]
      BY <1>2
    <2> QED BY <1>1, <1>2, <2>1, <2>2, <2>3 DEF GoTo, ledger
  <1>3. CASE /\ MustWait(hash, expected)
             /\ GoTo(c, "waiting")
             /\ attempt' = [attempt EXCEPT ![c] = Len(history)]
             /\ UNCHANGED ledger
    <2>1. history' = history /\ [LedgerNext]_ledger
      BY <1>3 DEF ledger
    <2>2. pc'[c] = "waiting"
      BY <1>3 DEF GoTo
    <2>3. attempt'[c] = Len(history) /\ attempt'[c] \in 0..Len(history')
      BY <1>1, <1>3, <2>1
    <2>4. attempt'[c] # 0 /\ history'[attempt'[c]].status = "pending"
      BY <1>1, <1>3, <2>1, <2>3 DEF MustWait, Open, Last
    <2>5. pc' = [pc EXCEPT ![c] = "waiting"]
      BY <1>3 DEF GoTo
    <2>6. \E a \in 0..Len(history') : attempt' = [attempt EXCEPT ![c] = a]
      BY <1>3, <2>3
    <2> QED BY <1>1, <2>1, <2>2, <2>4, <2>5, <2>6
  <1>4. CASE /\ Reserve(c, hash, expected) \/ TakeOver(c, hash, expected)
             /\ GoTo(c, "preparing")
             /\ attempt' = [attempt EXCEPT ![c] = Len(history')]
    <2>1. LedgerNext
      BY <1>4 DEF LedgerNext
    <2>2. history' \in Seq(Events)
      BY <2>1, LedgerStep DEF LedgerInv, LedgerTypeOK
    <2>3. ASSUME NEW i \in DOMAIN history', history'[i].status = "succeeded"
          PROVE  i \in DOMAIN history
      <3>1. CASE Reserve(c, hash, expected)
        BY <1>1, <2>3, <3>1 DEF Reserve, OpenAttempt, Event
      <3>2. CASE TakeOver(c, hash, expected)
        BY <1>1, <2>3, <3>2 DEF TakeOver, OpenAttempt, Event
      <3> QED BY <1>4, <3>1, <3>2
    <2>4. pc'[c] = "preparing" /\ pc' = [pc EXCEPT ![c] = "preparing"]
      BY <1>4 DEF GoTo
    <2>5. \E a \in 0..Len(history') : attempt' = [attempt EXCEPT ![c] = a]
      <3>1. Len(history') \in 0..Len(history')
        BY <2>2
      <3> QED BY <1>4, <3>1
    <2> QED BY <2>1, <2>2, <2>3, <2>4, <2>5
  <1>5. CASE GoTo(c, "raised") /\ UNCHANGED <<ledger, attempt>>
    <2>1. attempt' = [attempt EXCEPT ![c] = attempt[c]]
      BY <1>5
    <2> QED BY <1>1, <1>5, <2>1 DEF GoTo, ledger
  <1> QED BY <1>2, <1>3, <1>4, <1>5 DEF Claim

(* What the handler of an exception does: it records no success, and       *)
(* returns True only if the ledger shows one for the call's own version.   *)
LEMMA FailFacts ==
  ASSUME LedgerTypeOK, LedgerIsValid,
         pc \in [Owners -> {"new"} \cup Running \cup Returned],
         attempt \in [Owners -> 0..Len(history)],
         NEW c \in Owners, seen[c] \in Hashes,
         FailAttempt(c)
  PROVE  /\ [LedgerNext]_ledger
         /\ history' \in Seq(Events)
         /\ \E place \in {"true", "false", "raised"} :
              pc' = [pc EXCEPT ![c] = place]
         /\ pc'[c] = "true" =>
              \E i \in DOMAIN history :
                history[i].status = "succeeded" /\ history[i].hash = seen[c]
         /\ \A i \in DOMAIN history' :
              history'[i].status = "succeeded" => i \in DOMAIN history
PROOF
  <1>1. history \in Seq(Events) /\ Len(history) \in Nat
    BY DEF LedgerTypeOK
  <1>2. CASE Finish(c, seen[c], attempt[c], "failed") /\ GoTo(c, "false")
    <2>1. LedgerNext
      BY <1>2 DEF LedgerNext
    <2>2. history' \in Seq(Events)
      BY <2>1, LedgerStep DEF LedgerInv, LedgerTypeOK
    <2>3. \A i \in DOMAIN history' :
            history'[i].status = "succeeded" => i \in DOMAIN history
      BY <1>1, <1>2 DEF Finish, Event
    <2> QED BY <1>2, <2>1, <2>2, <2>3 DEF GoTo
  <1>3. CASE /\ GoTo(c, IF LastIs("succeeded", seen[c]) THEN "true" ELSE "false")
             /\ UNCHANGED ledger
    <2>1. pc'[c] = "true" => LastIs("succeeded", seen[c])
      BY <1>3 DEF GoTo
    <2>2. LastIs("succeeded", seen[c]) =>
            \E i \in DOMAIN history :
              history[i].status = "succeeded" /\ history[i].hash = seen[c]
      BY <1>1 DEF LastIs, Last, Event
    <2> QED BY <1>1, <1>3, <2>1, <2>2 DEF GoTo, ledger
  <1>4. CASE GoTo(c, "raised") /\ UNCHANGED ledger
    BY <1>1, <1>4 DEF GoTo, ledger
  <1> QED BY <1>2, <1>3, <1>4 DEF FailAttempt

(* Hashes are numbers of conclusions, and so is what the calls remember.   *)
LEMMA Numbers ==
  ASSUME IInv
  PROVE  /\ \A h \in Hashes : h \in Nat /\ h # 0
         /\ conclusions \in Nat
         /\ conclusions # 0 => conclusions \in Hashes
         /\ \A c \in Owners : seen[c] \in Nat
         /\ \A e \in Evidence : e.of \in Nat /\ e.at \in Nat
PROOF
  <1>1. \A h \in Hashes : h \in Nat /\ h # 0
    BY ConclusionsAssumption
  <1>2. conclusions \in Hashes \cup {0} /\ seen \in [Owners -> Hashes \cup {0}]
    BY DEF IInv, TypeOK
  <1>3. \A e \in Evidence : e.of \in Nat /\ e.at \in Nat
    BY <1>1 DEF Evidence
  <1> QED BY <1>1, <1>2, <1>3

-----------------------------------------------------------------------------
(* One action at a time.                                                   *)

(* A turn of the loop of one call: it may use the ledger once and moves on *)
(* with a version, an attempt and, if it returns True, a good reason.      *)
LEMMA TurnOfCall ==
  ASSUME IInv, [LedgerNext]_ledger,
         NEW c \in Owners, NEW place \in Running \cup Returned,
         NEW h \in Hashes, NEW a \in 0..Len(history'),
         history' \in Seq(Events),
         pc' = [pc EXCEPT ![c] = place],
         place \in NotSent => pc[c] \in NotSent,
         seen' = [seen EXCEPT ![c] = h],
         pc[c] = "new" \/ h = seen[c],
         attempt' = [attempt EXCEPT ![c] = a],
         place = "waiting" => a # 0 /\ history'[a].status = "pending",
         place = "true" => record # Absent /\ record.of = h,
         \A i \in DOMAIN history' :
           history'[i].status = "succeeded" =>
             \/ i \in DOMAIN history
             \/ record # Absent /\ record.of = history'[i].hash,
         UNCHANGED <<evidence, wire, record, search>>,
         state' \in States, conclusions' \in Hashes,
         conclusions <= conclusions', h <= conclusions'
  PROVE  IInv'
PROOF
  <1>0. /\ Hashes \subseteq Nat
        /\ conclusions \in Nat /\ conclusions' \in Nat
        /\ \A d \in Owners : seen[d] \in Nat
    BY Numbers
  <1>1. LedgerInv'
    BY LedgerStep DEF IInv, TypeOK, LedgerInv
  <1>2. /\ Len(history) \in Nat /\ Len(history') \in Nat
        /\ Len(history) <= Len(history')
        /\ \A i \in 1..Len(history) : history'[i] = history[i]
    BY <1>1, EventsAreKept DEF IInv, TypeOK, LedgerInv
  <1>3. history \in Seq(Events) /\ DOMAIN history = 1..Len(history)
    BY DEF IInv, TypeOK, LedgerTypeOK
  <1>4. TypeOK'
    BY <1>1, <1>2 DEF IInv, TypeOK, LedgerInv, search
  <1>5. LedgerIsValid'
    BY <1>1 DEF LedgerInv
  <1>6. CaseInv'
    BY ConclusionsAssumption DEF CaseInv
  <1>7. CallInv'
    <2> SUFFICES ASSUME NEW d \in Owners
                 PROVE  /\ pc'[d] # "new" =>
                             seen'[d] \in Hashes /\ seen'[d] <= conclusions'
                        /\ pc'[d] = "waiting" =>
                             /\ attempt'[d] # 0
                             /\ history'[attempt'[d]].status = "pending"
      BY DEF CallInv
    <2>1. CASE d = c
      BY <2>1 DEF IInv, TypeOK
    <2>2. CASE d # c
      <3>1. pc'[d] = pc[d] /\ seen'[d] = seen[d] /\ attempt'[d] = attempt[d]
        BY <2>2 DEF IInv, TypeOK
      <3>2. attempt[d] \in 0..Len(history)
        BY DEF IInv, TypeOK
      <3>3. pc[d] = "waiting" => history'[attempt[d]] = history[attempt[d]]
        BY <1>2, <3>2 DEF IInv, CallInv
      <3> QED BY <1>0, <3>1, <3>3 DEF IInv, CallInv
    <2> QED BY <2>1, <2>2
  <1>8. WireInv'
    <2> SUFFICES ASSUME NEW d \in Owners
                 PROVE  /\ pc'[d] \in NotSent => wire[d] = "unused"
                        /\ wire[d] # "unused" =>
                             /\ evidence[d] \in Evidence
                             /\ evidence[d].of = seen'[d]
                             /\ seen'[d] <= evidence[d].at
                             /\ evidence[d].at <= conclusions'
                        /\ wire[d] \in {"entered"} \cup Receipts => record = evidence[d]
      BY DEF WireInv
    <2>1. wire[d] # "unused" => pc[d] # "new" /\ seen'[d] = seen[d]
      BY DEF IInv, TypeOK, WireInv, NotSent
    <2>2. pc'[d] \in NotSent => pc[d] \in NotSent
      BY DEF IInv, TypeOK, Running, Returned
    <2>3. evidence[d] \in Evidence => evidence[d].at \in Nat
      BY <1>0 DEF Evidence
    <2> QED BY <1>0, <2>1, <2>2, <2>3 DEF IInv, WireInv
  <1>9. RecordInv'
    <2>1. record # Absent => record.at \in Nat
      BY <1>0 DEF IInv, TypeOK, Evidence
    <2> QED BY <1>0, <2>1 DEF IInv, RecordInv, search
  <1>10. SucceededIsIndexed'
    BY <1>2, <1>3 DEF IInv, SucceededIsIndexed
  <1>11. TrueIsIndexed'
    BY DEF IInv, TypeOK, TrueIsIndexed
  <1>12. ShownIsCoherent'
    BY DEF IInv, ShownIsCoherent, search
  <1> QED
    BY <1>4, <1>5, <1>6, <1>7, <1>8, <1>9, <1>10, <1>11, <1>12 DEF IInv

LEMMA BeginStep ==
  ASSUME IInv, NEW c \in Owners, Begin(c, conclusions'),
         state' \in States, conclusions' \in Hashes,
         conclusions <= conclusions'
  PROVE  IInv' /\ [LedgerNext]_ledger
PROOF
  <1> DEFINE h == conclusions'
  <1>1. 0 \in 0..Len(history)
    BY DEF IInv, TypeOK, LedgerTypeOK
  <1>2. Claim(c, h, 0) /\ pc[c] = "new" /\ seen' = [seen EXCEPT ![c] = h]
    BY DEF Begin
  <1>3. PICK place \in {"waiting", "preparing", "true", "false", "raised"} :
          pc' = [pc EXCEPT ![c] = place]
    BY <1>1, <1>2, ClaimFacts DEF IInv, TypeOK
  <1>4. PICK a \in 0..Len(history') : attempt' = [attempt EXCEPT ![c] = a]
    BY <1>1, <1>2, ClaimFacts DEF IInv, TypeOK
  <1>5. pc'[c] = place /\ attempt'[c] = a
    BY <1>3, <1>4 DEF IInv, TypeOK
  <1>6. /\ [LedgerNext]_ledger
        /\ history' \in Seq(Events)
        /\ place = "true" =>
             \E i \in DOMAIN history :
               history[i].status = "succeeded" /\ history[i].hash = h
        /\ place = "waiting" => a # 0 /\ history'[a].status = "pending"
        /\ \A i \in DOMAIN history' :
             history'[i].status = "succeeded" => i \in DOMAIN history
    BY <1>1, <1>2, <1>5, ClaimFacts DEF IInv, TypeOK
  <1>7. place = "true" => record # Absent /\ record.of = h
    BY <1>6 DEF IInv, SucceededIsIndexed
  <1>8. place \in Running \cup Returned
    BY DEF Running, Returned
  <1>9. h <= conclusions'
    BY ConclusionsAssumption
  <1>10. UNCHANGED <<evidence, wire, record, search>>
    BY DEF Begin
  <1> HIDE DEF h
  <1>11. h \in Hashes
    BY DEF h
  <1>12. pc[c] \in NotSent
    BY <1>2 DEF NotSent
  <1> QED
    BY <1>2, <1>3, <1>4, <1>6, <1>7, <1>8, <1>9, <1>10, <1>11, <1>12, TurnOfCall

(* The calls that fail an attempt, or record its success.                  *)
LEMMA FailStep ==
  ASSUME IInv, NEW c \in Owners, pc[c] \in {"preparing", "sent"},
         FailAttempt(c),
         UNCHANGED <<state, conclusions, seen, attempt, evidence, wire, record,
                     search>>
  PROVE  IInv' /\ [LedgerNext]_ledger
PROOF
  <1>1. seen[c] \in Hashes /\ seen[c] <= conclusions
    BY DEF IInv, CallInv
  <1>2. PICK place \in {"true", "false", "raised"} :
          pc' = [pc EXCEPT ![c] = place]
    BY <1>1, FailFacts DEF IInv, TypeOK
  <1>3. pc'[c] = place
    BY <1>2 DEF IInv, TypeOK
  <1>4. /\ [LedgerNext]_ledger
        /\ history' \in Seq(Events)
        /\ place = "true" =>
             \E i \in DOMAIN history :
               history[i].status = "succeeded" /\ history[i].hash = seen[c]
        /\ \A i \in DOMAIN history' :
             history'[i].status = "succeeded" => i \in DOMAIN history
    BY <1>1, <1>3, FailFacts DEF IInv, TypeOK
  <1>5. place = "true" => record # Absent /\ record.of = seen[c]
    BY <1>4 DEF IInv, SucceededIsIndexed
  <1>6. LedgerTypeOK /\ LedgerTypeOK' /\ Len(history) <= Len(history')
    BY <1>4, LedgerStep, EventsAreKept DEF IInv, TypeOK, LedgerInv
  <1>7. attempt[c] \in 0..Len(history') /\ attempt' = [attempt EXCEPT ![c] = attempt[c]]
    BY <1>4, <1>6 DEF IInv, TypeOK, LedgerTypeOK
  <1>8. seen' = [seen EXCEPT ![c] = seen[c]]
    BY DEF IInv, TypeOK
  <1>9. /\ state' \in States /\ conclusions' \in Hashes
        /\ conclusions <= conclusions' /\ seen[c] <= conclusions'
    BY <1>1, Numbers DEF IInv, TypeOK
  <1>10. place \in Running \cup Returned /\ place # "waiting" /\ place \notin NotSent
    BY DEF Running, Returned, NotSent
  <1> QED
    BY <1>1, <1>2, <1>4, <1>5, <1>7, <1>8, <1>9, <1>10, TurnOfCall

LEMMA SucceedStep ==
  ASSUME IInv, NEW c \in Owners, pc[c] = "sent", wire[c] \in Receipts,
         Finish(c, seen[c], attempt[c], "succeeded"), GoTo(c, "true"),
         UNCHANGED <<state, conclusions, seen, attempt, evidence, wire, record,
                     search>>
  PROVE  IInv' /\ [LedgerNext]_ledger
PROOF
  <1>1. seen[c] \in Hashes /\ seen[c] <= conclusions
    BY DEF IInv, CallInv
  <1>2. record # Absent /\ record.of = seen[c]
    BY ConclusionsAssumption DEF IInv, WireInv, Evidence, Receipts
  <1>3. LedgerNext
    BY <1>1 DEF LedgerNext, IInv, TypeOK
  <1>4. LedgerTypeOK /\ LedgerTypeOK' /\ Len(history) <= Len(history')
    BY <1>3, LedgerStep, EventsAreKept DEF IInv, TypeOK, LedgerInv
  <1>5. \A i \in DOMAIN history' :
          history'[i].status = "succeeded" =>
            \/ i \in DOMAIN history
            \/ record # Absent /\ record.of = history'[i].hash
    BY <1>2, <1>4 DEF Finish, Event, LedgerTypeOK
  <1>6. attempt[c] \in 0..Len(history') /\ attempt' = [attempt EXCEPT ![c] = attempt[c]]
    BY <1>4 DEF IInv, TypeOK, LedgerTypeOK
  <1>7. seen' = [seen EXCEPT ![c] = seen[c]]
    BY DEF IInv, TypeOK
  <1>8. /\ state' \in States /\ conclusions' \in Hashes
        /\ conclusions <= conclusions' /\ seen[c] <= conclusions'
    BY <1>1, Numbers DEF IInv, TypeOK
  <1>9. /\ "true" \in Running \cup Returned /\ "true" \notin NotSent
        /\ pc' = [pc EXCEPT ![c] = "true"]
        /\ history' \in Seq(Events)
    BY <1>4 DEF Running, Returned, NotSent, GoTo, LedgerTypeOK
  <1> QED
    BY <1>1, <1>2, <1>3, <1>5, <1>6, <1>7, <1>8, <1>9, TurnOfCall

LEMMA PollStep ==
  ASSUME IInv, NEW c \in Owners, Poll(c)
  PROVE  IInv' /\ [LedgerNext]_ledger
PROOF
  <1>1. /\ pc[c] = "waiting" /\ Claim(c, seen[c], attempt[c])
        /\ seen[c] \in Hashes /\ seen[c] <= conclusions
        /\ attempt[c] \in 0..Len(history)
    BY DEF Poll, IInv, CallInv, TypeOK
  <1>2. PICK place \in {"waiting", "preparing", "true", "false", "raised"} :
          pc' = [pc EXCEPT ![c] = place]
    BY <1>1, ClaimFacts DEF IInv, TypeOK
  <1>3. PICK a \in 0..Len(history') : attempt' = [attempt EXCEPT ![c] = a]
    BY <1>1, ClaimFacts DEF IInv, TypeOK
  <1>4. pc'[c] = place /\ attempt'[c] = a
    BY <1>2, <1>3 DEF IInv, TypeOK
  <1>5. /\ [LedgerNext]_ledger
        /\ history' \in Seq(Events)
        /\ place = "true" =>
             \E i \in DOMAIN history :
               history[i].status = "succeeded" /\ history[i].hash = seen[c]
        /\ place = "waiting" => a # 0 /\ history'[a].status = "pending"
        /\ \A i \in DOMAIN history' :
             history'[i].status = "succeeded" => i \in DOMAIN history
    BY <1>1, <1>4, ClaimFacts DEF IInv, TypeOK
  <1>6. place = "true" => record # Absent /\ record.of = seen[c]
    BY <1>5 DEF IInv, SucceededIsIndexed
  <1>7. place \in Running \cup Returned /\ pc[c] \in NotSent
    BY <1>1 DEF Running, Returned, NotSent
  <1>8. /\ state' \in States /\ conclusions' \in Hashes
        /\ conclusions <= conclusions' /\ seen[c] <= conclusions'
    BY <1>1, Numbers DEF Poll, IInv, TypeOK
  <1>9. /\ seen' = [seen EXCEPT ![c] = seen[c]]
        /\ UNCHANGED <<evidence, wire, record, search>>
    BY DEF Poll, IInv, TypeOK
  <1> QED
    BY <1>1, <1>2, <1>3, <1>5, <1>6, <1>7, <1>8, <1>9, TurnOfCall

(* Steps that leave the ledger and the progress of the calls alone, or     *)
(* only end calls and the lease.                                           *)
LEMMA OtherSteps ==
  ASSUME IInv, [LedgerNext]_ledger, UNCHANGED <<history, seen, attempt, record>>,
         evidence' \in [Owners -> Evidence \cup {Absent}],
         wire' \in [Owners -> {"unused", "requested", "entered"} \cup Answers],
         found' \in {Absent, record},
         shown' \in [hash : Hashes, item : Evidence] \cup {Absent},
         state' \in States, conclusions' \in Hashes \cup {0},
         conclusions <= conclusions',
         CaseInv', WireInv', ShownIsCoherent',
         pc' \in [Owners -> {"new"} \cup Running \cup Returned],
         \A c \in Owners :
           \/ pc'[c] = pc[c]
           \/ pc[c] # "new" /\ pc'[c] \in {"sent", "died"}
  PROVE  IInv'
PROOF
  <1>1. LedgerInv'
    BY LedgerStep DEF IInv, TypeOK, LedgerInv
  <1>2. TypeOK'
    BY <1>1 DEF IInv, TypeOK, LedgerInv
  <1>3. conclusions' \in Nat /\ conclusions \in Nat /\ Hashes \subseteq Nat
    BY Numbers
  <1>4. CallInv'
    BY <1>3 DEF IInv, CallInv
  <1>5. RecordInv'
    <2>1. record # Absent => record.at \in Nat
      BY Numbers DEF IInv, TypeOK
    <2> QED BY <1>3, <2>1 DEF IInv, RecordInv
  <1>6. SucceededIsIndexed' /\ TrueIsIndexed'
    BY DEF IInv, SucceededIsIndexed, TrueIsIndexed
  <1> QED BY <1>1, <1>2, <1>4, <1>5, <1>6 DEF IInv, LedgerInv

LEMMA SendStep ==
  ASSUME IInv, NEW c \in Owners, Send(c)
  PROVE  IInv' /\ [LedgerNext]_ledger
PROOF
  <1>1. /\ UNCHANGED <<history, claim, seen, attempt, record, found, shown,
                       state, conclusions>>
        /\ [LedgerNext]_ledger
    BY DEF Send, ledger, search
  <1>2. seen[c] \in Hashes /\ seen[c] <= conclusions /\ pc[c] = "preparing"
    BY DEF Send, IInv, CallInv
  <1>3. conclusions \in Hashes
    BY <1>2, Numbers
  <1>4. [of |-> seen[c], at |-> conclusions] \in Evidence
    BY <1>2, <1>3 DEF Evidence
  <1>5. /\ evidence' \in [Owners -> Evidence \cup {Absent}]
        /\ wire' \in [Owners -> {"unused", "requested", "entered"} \cup Answers]
        /\ pc' \in [Owners -> {"new"} \cup Running \cup Returned]
        /\ \A d \in Owners :
             pc'[d] = pc[d] \/ (pc[d] # "new" /\ pc'[d] \in {"sent", "died"})
    BY <1>2, <1>4 DEF IInv, TypeOK, Send, GoTo, Running
  <1>6. WireInv'
    <2> SUFFICES ASSUME NEW d \in Owners
                 PROVE  /\ pc'[d] \in NotSent => wire'[d] = "unused"
                        /\ wire'[d] # "unused" =>
                             /\ evidence'[d] \in Evidence
                             /\ evidence'[d].of = seen[d]
                             /\ seen[d] <= evidence'[d].at
                             /\ evidence'[d].at <= conclusions
                        /\ wire'[d] \in {"entered"} \cup Receipts =>
                             record = evidence'[d]
      BY <1>1 DEF WireInv
    <2>1. CASE d = c
      <3>1. /\ pc'[d] = "sent" /\ wire'[d] = "requested"
            /\ evidence'[d] = [of |-> seen[c], at |-> conclusions]
        BY <2>1 DEF Send, GoTo, IInv, TypeOK
      <3>2. conclusions \in Nat
        BY Numbers
      <3> QED BY <1>2, <1>4, <2>1, <3>1, <3>2 DEF NotSent, Receipts
    <2>2. CASE d # c
      <3>1. pc'[d] = pc[d] /\ wire'[d] = wire[d] /\ evidence'[d] = evidence[d]
        BY <2>2 DEF Send, GoTo, IInv, TypeOK
      <3> QED BY <3>1 DEF IInv, WireInv
    <2> QED BY <2>1, <2>2
  <1>7. CaseInv' /\ ShownIsCoherent'
    BY <1>1 DEF IInv, CaseInv, ShownIsCoherent
  <1>8. /\ found' \in {Absent, record}
        /\ shown' \in [hash : Hashes, item : Evidence] \cup {Absent}
        /\ state' \in States /\ conclusions' \in Hashes \cup {0}
        /\ conclusions <= conclusions'
    BY <1>1, Numbers DEF IInv, TypeOK, RecordInv
  <1> QED BY <1>1, <1>5, <1>6, <1>7, <1>8, OtherSteps

(* Whatever the GFM process does with a request, a record that is there    *)
(* stays as it is.                                                         *)
LEMMA GfmStep ==
  ASSUME IInv, NEW c \in Owners, GfmIndexes(c)
  PROVE  IInv' /\ [LedgerNext]_ledger
PROOF
  <1>1. /\ UNCHANGED <<history, claim, state, conclusions, pc, seen, attempt,
                       evidence, found, shown>>
        /\ [LedgerNext]_ledger
    BY DEF GfmIndexes, ledger, search
  <1>2. wire[c] \in {"requested", "entered"}
    BY DEF GfmIndexes, GfmEnters, GfmAnswers, GfmFails
  <1>3. /\ evidence[c] \in Evidence /\ evidence[c] # Absent
        /\ evidence[c].of <= evidence[c].at
        /\ evidence[c].at <= conclusions
        /\ evidence[c].of = seen[c] /\ seen[c] <= evidence[c].at
    BY <1>2, ConclusionsAssumption DEF IInv, WireInv, Evidence
  <1>4. record' = record \/ (record = Absent /\ record' = evidence[c])
    BY DEF GfmIndexes, GfmEnters, GfmAnswers, GfmFails
  <1>5. PICK w \in {"entered"} \cup Answers :
          /\ wire' = [wire EXCEPT ![c] = w]
          /\ w \in {"entered"} \cup Receipts => record' = evidence[c]
    <2>1. CASE GfmEnters(c)
      BY <2>1 DEF GfmEnters, Answered
    <2>2. CASE GfmAnswers(c)
      BY <2>2 DEF GfmAnswers, Answered, Answers, Receipts, IInv, WireInv
    <2>3. CASE GfmFails(c)
      BY <2>3 DEF GfmFails, Answered, Answers, Receipts
    <2> QED BY <2>1, <2>2, <2>3 DEF GfmIndexes
  <1>6. TypeOK'
    BY <1>1, <1>3, <1>4, <1>5 DEF IInv, TypeOK, LedgerTypeOK
  <1>7. LedgerIsValid' /\ CaseInv' /\ CallInv'
    <2>1. LedgerInv'
      BY <1>1, LedgerStep DEF IInv, TypeOK, LedgerInv
    <2> QED BY <1>1, <2>1 DEF IInv, CaseInv, CallInv, LedgerInv
  <1>8. WireInv'
    <2> SUFFICES ASSUME NEW d \in Owners
                 PROVE  /\ pc[d] \in NotSent => wire'[d] = "unused"
                        /\ wire'[d] # "unused" =>
                             /\ evidence[d] \in Evidence
                             /\ evidence[d].of = seen[d]
                             /\ seen[d] <= evidence[d].at
                             /\ evidence[d].at <= conclusions
                        /\ wire'[d] \in {"entered"} \cup Receipts => record' = evidence[d]
      BY <1>1 DEF WireInv
    <2>1. CASE d = c
      <3>1. wire'[c] = w
        BY <1>5 DEF IInv, TypeOK
      <3>2. pc[c] \notin NotSent
        BY <1>2 DEF IInv, WireInv
      <3> QED BY <1>3, <1>5, <2>1, <3>1, <3>2
    <2>2. CASE d # c
      <3>1. wire'[d] = wire[d]
        BY <1>5, <2>2 DEF IInv, TypeOK
      <3>2. wire[d] \in {"entered"} \cup Receipts => record # Absent
        BY ConclusionsAssumption DEF IInv, WireInv, Evidence, Receipts
      <3> QED BY <1>4, <3>1, <3>2 DEF IInv, WireInv
    <2> QED BY <2>1, <2>2
  <1>9. RecordInv'
    BY <1>1, <1>3, <1>4 DEF IInv, RecordInv
  <1>10. SucceededIsIndexed' /\ TrueIsIndexed' /\ ShownIsCoherent'
    BY <1>1, <1>4 DEF IInv, SucceededIsIndexed, TrueIsIndexed, ShownIsCoherent
  <1> QED BY <1>1, <1>6, <1>7, <1>8, <1>9, <1>10 DEF IInv

(* An item is shown only beside a success for the present conclusion; its  *)
(* time can be neither before that conclusion nor after the present.       *)
LEMMA ShowStep ==
  ASSUME IInv, Show
  PROVE  IInv' /\ [LedgerNext]_ledger
PROOF
  <1>1. /\ UNCHANGED <<history, claim, state, conclusions, pc, seen, attempt,
                       evidence, wire, record>>
        /\ [LedgerNext]_ledger
        /\ found # Absent /\ found' = Absent
    BY DEF Show, ledger, calls
  <1>2. found = record /\ record # Absent /\ record \in Evidence
    BY <1>1 DEF IInv, TypeOK, RecordInv
  <1>3. ASSUME Shows
        PROVE  /\ conclusions \in Hashes
               /\ found = [of |-> conclusions, at |-> conclusions]
    <2>1. conclusions \in Hashes /\ conclusions \in Nat
      BY <1>3, Numbers DEF IInv, CaseInv, Shows
    <2>2. record.of = conclusions
      <3>1. /\ Len(history) \in DOMAIN history
            /\ history[Len(history)].status = "succeeded"
            /\ history[Len(history)].hash = conclusions
        BY <1>3 DEF Shows, LastIs, Last, Event, IInv, TypeOK, LedgerTypeOK
      <3> QED BY <3>1 DEF IInv, SucceededIsIndexed
    <2>3. record.at = conclusions
      BY <1>2, <2>1, <2>2, Numbers DEF IInv, RecordInv
    <2> QED BY <1>2, <2>1, <2>2, <2>3 DEF Evidence
  <1>4. /\ shown' \in [hash : Hashes, item : Evidence] \cup {Absent}
        /\ ShownIsCoherent'
    <2>1. CASE Shows
      <3>1. shown' = [hash |-> conclusions, item |-> found]
        BY <2>1 DEF Show
      <3> QED BY <1>2, <1>3, <2>1, <3>1 DEF ShownIsCoherent
    <2>2. CASE ~Shows
      BY <2>2 DEF Show, ShownIsCoherent, IInv, TypeOK
    <2> QED BY <2>1, <2>2
  <1>5. CaseInv' /\ WireInv'
    BY <1>1 DEF IInv, CaseInv, WireInv
  <1>6. /\ conclusions <= conclusions'
        /\ evidence' \in [Owners -> Evidence \cup {Absent}]
        /\ wire' \in [Owners -> {"unused", "requested", "entered"} \cup Answers]
        /\ found' \in {Absent, record}
        /\ state' \in States /\ conclusions' \in Hashes \cup {0}
        /\ pc' \in [Owners -> {"new"} \cup Running \cup Returned]
    BY <1>1, Numbers DEF IInv, TypeOK
  <1> QED BY <1>1, <1>4, <1>5, <1>6, OtherSteps

(* The steps of the case, of the clock and of a dying process.             *)
LEMMA SurroundingSteps ==
  ASSUME IInv,
         \/ \E c \in Owners : Heartbeat(c)
         \/ LeaseEnds \/ (\E to \in States : Move(to)) \/ Crash
         \/ CrashAfterConclusion \/ Search
  PROVE  IInv' /\ [LedgerNext]_ledger
PROOF
  <1>1. /\ [LedgerNext]_ledger
        /\ UNCHANGED <<history, seen, attempt, evidence, wire, record, shown>>
    <2>1. ASSUME NEW c \in Owners, Heartbeat(c) PROVE Renew(c, attempt[c])
      BY <2>1 DEF Heartbeat
    <2>2. \A c \in Owners : attempt[c] \in 0..Len(history)
      BY DEF IInv, TypeOK
    <2>3. ASSUME NEW c \in Owners, Heartbeat(c) PROVE LedgerNext
      <3>1. seen[c] \in Hashes
        BY <2>3 DEF Heartbeat, IInv, CallInv
      <3> QED BY <2>1, <2>2, <2>3, <3>1 DEF LedgerNext
    <2>4. LeaseEnds => LedgerNext
      BY DEF LeaseEnds, LedgerNext
    <2> QED
      BY <2>3, <2>4
      DEF Heartbeat, Renew, LeaseEnds, LeaseRunsOut, Move, Crash,
          CrashAfterConclusion, ProcessDies, Search, ledger, calls, search
  <1>2. found' \in {Absent, record}
    BY DEF Heartbeat, LeaseEnds, Move, Crash, CrashAfterConclusion,
           ProcessDies, Search, calls, search, IInv, RecordInv
  <1>3. /\ conclusions' \in Hashes \cup {0} /\ conclusions <= conclusions'
        /\ state' \in States
        /\ CaseInv'
    <2>1. CASE CommitConclusion
      <3>1. /\ conclusions' = conclusions + 1 /\ conclusions' \in Hashes
            /\ state' = "concluded"
        BY <2>1 DEF CommitConclusion
      <3> QED BY <3>1, Numbers DEF CaseInv, States
    <2>2. CASE UNCHANGED <<state, conclusions>>
      BY <2>2, Numbers DEF IInv, TypeOK, CaseInv
    <2>3. ASSUME NEW to \in States, Move(to)
          PROVE  /\ conclusions' \in Hashes \cup {0} /\ conclusions <= conclusions'
                 /\ state' \in States
                 /\ CaseInv'
      <3>1. /\ to \in Transitions[state] /\ to # "concluded"
            /\ state' = to /\ conclusions' = conclusions
        BY <2>3 DEF Move
      <3>2. state' = "archived" => state = "concluded"
        BY <3>1 DEF Transitions, IInv, TypeOK, States
      <3> QED BY <3>1, <3>2, Numbers DEF IInv, TypeOK, CaseInv
    <2> QED
      BY <2>1, <2>2, <2>3 DEF Heartbeat, LeaseEnds, Crash, CrashAfterConclusion, Search
  <1>4. /\ pc' \in [Owners -> {"new"} \cup Running \cup Returned]
        /\ \A c \in Owners :
             pc'[c] = pc[c] \/ (pc[c] # "new" /\ pc'[c] \in {"sent", "died"})
    <2>1. CASE UNCHANGED pc
      BY <2>1 DEF IInv, TypeOK
    <2>2. CASE ProcessDies
      BY <2>2 DEF ProcessDies, IInv, TypeOK, Running, Returned
    <2> QED
      BY <2>1, <2>2 DEF Heartbeat, LeaseEnds, Move, Crash, CrashAfterConclusion,
                        Search, calls
  <1>5. WireInv'
    <2>1. /\ conclusions \in Nat /\ conclusions' \in Nat /\ conclusions <= conclusions'
          /\ \A e \in Evidence : e.at \in Nat
      BY <1>3, Numbers
    <2>2. ASSUME NEW c \in Owners PROVE pc'[c] \in NotSent => pc[c] \in NotSent
      BY <1>4 DEF NotSent
    <2>3. ASSUME NEW c \in Owners, evidence[c] \in Evidence,
                 evidence[c].at <= conclusions
          PROVE  evidence[c].at <= conclusions'
      BY <2>1, <2>3
    <2> QED BY <1>1, <2>2, <2>3 DEF IInv, WireInv
  <1>6. ShownIsCoherent'
    BY <1>1 DEF IInv, ShownIsCoherent
  <1>7. /\ evidence' \in [Owners -> Evidence \cup {Absent}]
        /\ wire' \in [Owners -> {"unused", "requested", "entered"} \cup Answers]
        /\ shown' \in [hash : Hashes, item : Evidence] \cup {Absent}
    BY <1>1 DEF IInv, TypeOK
  <1> QED BY <1>1, <1>2, <1>3, <1>4, <1>5, <1>6, <1>7, OtherSteps

LEMMA Initially ==
  ASSUME Init
  PROVE  IInv
PROOF
  <1>1. history = <<>> \/ (1 \in Hashes /\ history = <<Event("pending", 1)>>)
    BY DEF Init
  <1>2. LedgerInit
    BY <1>1 DEF Init, LedgerInit
  <1>3. LedgerInv
    BY <1>2, LedgerStart
  <1>4. \A i \in DOMAIN history : history[i].status # "succeeded"
    BY <1>1 DEF Event
  <1>5. record \in Evidence \cup {Absent}
    BY DEF Init, Evidence
  <1>6. conclusions \in Hashes \cup {0} /\ state \in States
    BY DEF Init, States
  <1>7. TypeOK
    <2>1. history \in Seq(Events)
      BY <1>3 DEF LedgerInv, LedgerTypeOK
    <2> QED BY <1>3, <1>5, <1>6, <2>1 DEF Init, TypeOK, LedgerInv
  <1>8. CaseInv /\ CallInv /\ WireInv
    BY DEF Init, CaseInv, CallInv, WireInv, Receipts
  <1>9. RecordInv
    BY DEF Init, RecordInv
  <1>10. SucceededIsIndexed /\ TrueIsIndexed /\ ShownIsCoherent
    BY <1>4 DEF Init, SucceededIsIndexed, TrueIsIndexed, ShownIsCoherent
  <1> QED BY <1>3, <1>7, <1>8, <1>9, <1>10 DEF IInv, LedgerInv

LEMMA EveryStep ==
  ASSUME IInv, [Next]_vars
  PROVE  IInv' /\ [LedgerNext]_ledger
PROOF
  <1>1. ASSUME NEW c \in Owners, Conclude(c) PROVE IInv' /\ [LedgerNext]_ledger
    <2>1. /\ conclusions' \in Hashes /\ conclusions <= conclusions'
          /\ state' \in States /\ Begin(c, conclusions')
      BY <1>1, Numbers DEF Conclude, CommitConclusion, States
    <2> QED BY <2>1, BeginStep
  <1>2. ASSUME NEW c \in Owners, Backfill(c) PROVE IInv' /\ [LedgerNext]_ledger
    <2>1. /\ conclusions' = conclusions /\ conclusions # 0
          /\ state' = state /\ Begin(c, conclusions)
      BY <1>2 DEF Backfill, IInv, CaseInv
    <2>2. conclusions' \in Hashes /\ conclusions <= conclusions' /\ state' \in States
      BY <2>1, Numbers DEF IInv, TypeOK
    <2> QED BY <2>1, <2>2, BeginStep
  <1>3. ASSUME NEW c \in Owners, GiveUp(c) PROVE IInv' /\ [LedgerNext]_ledger
    BY <1>3, FailStep DEF GiveUp
  <1>4. ASSUME NEW c \in Owners, AcceptReceipt(c)
        PROVE  IInv' /\ [LedgerNext]_ledger
    BY <1>4, FailStep, SucceedStep DEF AcceptReceipt
  <1>5. CASE UNCHANGED vars
    <2>1. LedgerInv'
      BY <1>5, LedgerStep DEF vars, IInv, TypeOK, LedgerInv
    <2> QED
      BY <1>5, <2>1
      DEF vars, ledger, calls, search, IInv, TypeOK, LedgerInv, CaseInv,
          CallInv, WireInv, RecordInv, SucceededIsIndexed, TrueIsIndexed,
          ShownIsCoherent
  <1> QED
    BY <1>1, <1>2, <1>3, <1>4, <1>5, PollStep, SendStep, GfmStep, ShowStep,
       SurroundingSteps
    DEF Next

(* Whatever is shown stays the last event of the ledger: every call that   *)
(* may still write has an attempt that ended before.                       *)
LEMMA VisibleStep ==
  ASSUME IInv, [Next]_vars, Shows, state' = "concluded",
         conclusions' = conclusions
  PROVE  Shows'
PROOF
  <1>1. /\ history \in Seq(Events) /\ history # <<>>
        /\ Last = Event("succeeded", conclusions)
        /\ ~Open /\ LastIs("succeeded", conclusions)
        /\ conclusions \in Nat
    BY Numbers DEF Shows, LastIs, Open, Event, IInv, TypeOK, LedgerTypeOK
  <1>2. \A c \in Owners, h \in Hashes \cup {0}, a \in 0..Len(history),
           s \in {"succeeded", "failed"} :
          ~Finish(c, h, a, s) /\ ~TakeOver(c, h, a)
    BY <1>1 DEF Finish, MayFinish, TakeOver
  <1>3. \A c \in Owners : /\ seen[c] \in Hashes \cup {0}
                          /\ attempt[c] \in 0..Len(history)
    BY DEF IInv, TypeOK
  <1>4. history' = history
    <2>1. ASSUME NEW c \in Owners, Poll(c) PROVE history' = history
      <3>1. attempt[c] # 0
        BY <2>1 DEF Poll, IInv, CallInv
      <3>2. ~Reserve(c, seen[c], attempt[c])
        BY <3>1 DEF Reserve
      <3> QED BY <1>2, <1>3, <2>1, <3>2 DEF Poll, Claim, ledger
    <2>2. ASSUME NEW c \in Owners, GiveUp(c) \/ AcceptReceipt(c)
          PROVE  history' = history
      BY <1>2, <1>3, <2>2 DEF GiveUp, AcceptReceipt, FailAttempt, ledger
    <2>3. ~CommitConclusion
      BY <1>1 DEF CommitConclusion
    <2>4. \A c \in Owners : ~Backfill(c) /\ ~Conclude(c)
      BY <1>1, <2>3 DEF Backfill, Conclude
    <2>5. ASSUME NEW c \in Owners,
                 Send(c) \/ Heartbeat(c) \/ GfmIndexes(c)
          PROVE  history' = history
      BY <2>5 DEF Send, Heartbeat, Renew, GfmIndexes, ledger
    <2>6. CASE \/ \E to \in States : Move(to)
               \/ LeaseEnds \/ Crash \/ Search \/ Show \/ UNCHANGED vars
      BY <2>6 DEF Move, LeaseEnds, LeaseRunsOut, Crash, ProcessDies, Search,
                  Show, vars, ledger
    <2> QED
      BY <2>1, <2>2, <2>3, <2>4, <2>5, <2>6 DEF Next, CrashAfterConclusion
  <1> QED BY <1>4 DEF Shows, LastIs, Last, Event

-----------------------------------------------------------------------------
(* The theorems.                                                           *)

(* What the calls, the requests on their way, the ledger and the index know  *)
(* of each other holds in every state of the gateway.                        *)
THEOREM Inductive == Spec => []IInv
  <1>1. Init => IInv
    BY Initially
  <1>2. IInv /\ [Next]_vars => IInv'
    BY EveryStep
  <1> QED BY <1>1, <1>2, PTL DEF Spec

(* Every variable always holds a value of its type.                        *)
THEOREM TypeCorrect == Spec => []TypeOK
  <1>1. IInv => TypeOK
    BY DEF IInv
  <1> QED BY <1>1, Inductive, PTL

(* The API only ever uses the ledger as its transactions allow, so the     *)
(* validation before every transaction passes throughout.                  *)
THEOREM UsesLedger == Spec => LedgerSpec /\ []LedgerIsValid
  <1>1. Init => LedgerInit
    BY DEF Init, LedgerInit
  <1>2. IInv /\ [Next]_vars => [LedgerNext]_ledger
    BY EveryStep
  <1>3. IInv => LedgerIsValid
    BY DEF IInv
  <1> QED BY <1>1, <1>2, <1>3, Inductive, PTL DEF Spec, LedgerSpec

(* A success in the ledger is a record in the index, for any number of     *)
(* calls and conclusions and whatever is lost on the way.                  *)
THEOREM Recorded == Spec => []SucceededIsIndexed
  <1>1. IInv => SucceededIsIndexed
    BY DEF IInv
  <1> QED BY <1>1, Inductive, PTL

(* True means: the version of the case this call was made for is indexed.  *)
THEOREM ReturnedTrue == Spec => []TrueIsIndexed
  <1>1. IInv => TrueIsIndexed
    BY DEF IInv
  <1> QED BY <1>1, Inductive, PTL

(* A shown item is the present conclusion, with the present time.          *)
THEOREM ShownItem == Spec => []ShownIsCoherent
  <1>1. IInv => ShownIsCoherent
    BY DEF IInv
  <1> QED BY <1>1, Inductive, PTL

(* No call takes an indexed case out of sight.                             *)
THEOREM Visible == Spec => StaysVisible
  <1>1. IInv /\ [Next]_vars =>
          [Shows /\ state' = "concluded" /\ conclusions' = conclusions
             => Shows']_vars
    BY VisibleStep
  <1> QED BY <1>1, Inductive, PTL DEF Spec, StaysVisible

-----------------------------------------------------------------------------
(* The index behind the calls.  ReviewedCaseIndex implements the book of   *)
(* ReviewedCaseBook; the theorems below say that the calls need no more of *)
(* it, and grant it no less.                                               *)

Wires == {"unused", "requested", "entered"} \cup Answers

\* What becomes of the request of one call, as the book sees it.
LEMMA OneRequest ==
  ASSUME IInv, NEW c \in Owners, NEW w \in Wires, wire' = [wire EXCEPT ![c] = w],
         \A d \in Owners \ {c} : evidence'[d] = evidence[d]
  PROVE  /\ wire'[c] = w
         /\ Phases' = [Phases EXCEPT ![c] = PhaseOf(w)]
         /\ Replied' = [Replied EXCEPT ![c] = ReplyOf(w, evidence'[c])]
  <1>1. /\ wire'[c] = w
        /\ \A d \in Owners \ {c} : wire'[d] = wire[d]
    BY DEF IInv, TypeOK
  <1>2. Phases' = [Phases EXCEPT ![c] = PhaseOf(w)]
    BY <1>1 DEF Phases, PhaseOf
  <1>3. \A d \in Owners \ {c} : ReplyOf(wire'[d], evidence'[d]) = ReplyOf(wire[d], evidence[d])
    BY <1>1
  <1>4. ASSUME NEW d \in Owners
        PROVE  ReplyOf(wire'[d], evidence'[d]) =
                 IF d = c THEN ReplyOf(w, evidence'[c]) ELSE ReplyOf(wire[d], evidence[d])
    BY <1>1, <1>3
  <1>5. Replied' = [d \in Owners |-> IF d = c THEN ReplyOf(w, evidence'[c])
                                              ELSE ReplyOf(wire[d], evidence[d])]
    BY <1>4, Zenon DEF Replied
  <1>6. Replied' = [Replied EXCEPT ![c] = ReplyOf(w, evidence'[c])]
    BY <1>5, Zenon DEF Replied
  <1> QED BY <1>1, <1>2, <1>6

LEMMA SameRequests ==
  ASSUME UNCHANGED <<record, wire, evidence>>
  PROVE  UNCHANGED Index!bookVars
  <1>1. Phases' = Phases /\ Replied' = Replied
    BY DEF Phases, Replied
  <1>2. Requested' = Requested
    BY DEF Requested, RequestOf
  <1>3. Booked' = Booked
    BY DEF Booked
  <1> QED BY <1>1, <1>2, <1>3 DEF Index!bookVars

LEMMA SendCalls ==
  ASSUME IInv, IInv', NEW c \in Owners, Send(c)
  PROVE  Index!Call(c)
  <1>1. wire[c] = "unused"
    BY DEF Send, IInv, WireInv, NotSent
  <1>2. /\ wire' = [wire EXCEPT ![c] = "requested"]
        /\ UNCHANGED record
        /\ \A d \in Owners \ {c} : evidence'[d] = evidence[d]
    BY DEF Send, IInv, TypeOK
  <1>3. "requested" \in Wires
    BY DEF Wires
  <1>4. /\ wire'[c] = "requested"
        /\ Phases' = [Phases EXCEPT ![c] = PhaseOf("requested")]
        /\ Replied' = [Replied EXCEPT ![c] = ReplyOf("requested", evidence'[c])]
    BY <1>2, <1>3, OneRequest
  <1>5. \A d \in Owners \ {c} : wire'[d] = wire[d]
    BY <1>2 DEF IInv, TypeOK
  <1>6. Replied' = Replied
    <2>1. ReplyOf("requested", evidence'[c]) = ReplyOf("unused", evidence[c])
      BY DEF ReplyOf, Answers, Receipts
    <2>2. Replied[c] = ReplyOf("requested", evidence'[c])
      BY <1>1, <2>1 DEF Replied
    <2>3. Replied = [Replied EXCEPT ![c] = Replied[c]]
      BY DEF Replied
    <2> QED BY <1>4, <2>2, <2>3
  <1>7. evidence'[c] \in Evidence
    BY <1>4 DEF IInv, WireInv
  <1>8. RequestOf(c)' \in Index!Requestable
    BY <1>7 DEF RequestOf, Index!Requestable
  <1>9. Requested' = [Requested EXCEPT ![c] = RequestOf(c)']
    BY <1>2, <1>4, <1>5 DEF Requested, RequestOf
  <1>10. Phases[c] = "idle" /\ PhaseOf("requested") = "called"
    BY <1>1 DEF Phases, PhaseOf
  <1>11. Booked' = Booked
    BY <1>2 DEF Booked
  <1> QED BY <1>4, <1>6, <1>8, <1>9, <1>10, <1>11 DEF Index!Call

\* What the book knows of a request that is on its way.
LEMMA OnItsWay ==
  ASSUME IInv, NEW c \in Owners, wire[c] \in {"requested", "entered"}
  PROVE  /\ Phases[c] = PhaseOf(wire[c])
         /\ Requested[c] = RequestOf(c)
         /\ Requested[c] # NoRequest
         /\ Requested[c].case = "the case" /\ Requested[c].evidence = evidence[c]
         /\ Booked[Requested[c].case] = record
  BY DEF Phases, Requested, RequestOf, NoRequest, Booked

LEMMA GfmIsTheBook ==
  ASSUME IInv, NEW c \in Owners, GfmIndexes(c)
  PROVE  Index!Next
  <1> USE OnItsWay
  <1>1. evidence' = evidence
    BY DEF GfmIndexes
  <1>2. ASSUME NEW w \in Wires \ {"unused"}, Answered(c, w),
               wire[c] \in {"requested", "entered"}
        PROVE  /\ Phases' = [Phases EXCEPT ![c] = PhaseOf(w)]
               /\ Replied' = [Replied EXCEPT ![c] = ReplyOf(w, evidence[c])]
               /\ Requested' = Requested
    <2>1. wire' = [wire EXCEPT ![c] = w]
      BY <1>2 DEF Answered
    <2>2. \A d \in Owners : wire'[d] = "unused" <=> wire[d] = "unused"
      BY <1>2, <2>1 DEF IInv, TypeOK
    <2>3. Requested' = Requested
      BY <1>1, <2>2 DEF Requested, RequestOf
    <2> QED BY <1>1, <2>1, <2>3, OneRequest
  <1>3. CASE GfmEnters(c)
    <2>1. wire[c] = "requested" /\ Answered(c, "entered") /\ "entered" \in Wires \ {"unused"}
      BY <1>3 DEF GfmEnters, Wires
    <2>2. /\ Phases' = [Phases EXCEPT ![c] = "entered"]
          /\ Replied' = [Replied EXCEPT ![c] = ReplyOf("entered", evidence[c])]
          /\ Requested' = Requested
          /\ Phases[c] = "called"
      BY <1>2, <2>1 DEF PhaseOf
    <2>3. Replied' = Replied
      <3>1. ReplyOf("entered", evidence[c]) = ReplyOf("requested", evidence[c])
        BY DEF ReplyOf, Answers, Receipts
      <3>2. Replied[c] = ReplyOf("entered", evidence[c])
        BY <2>1, <3>1 DEF Replied
      <3>3. Replied = [Replied EXCEPT ![c] = Replied[c]]
        BY DEF Replied
      <3> QED BY <2>2, <3>2, <3>3
    <2>4. /\ Booked["the case"] = Absent
          /\ Booked' = [Booked EXCEPT !["the case"] = evidence[c]]
      BY <1>3 DEF GfmEnters, Booked
    <2>5. Index!Enter(c)
      BY <2>1, <2>2, <2>3, <2>4 DEF Index!Enter
    <2> QED BY <2>5 DEF Index!Next
  <1>4. ASSUME NEW w \in Answers, Answered(c, w), UNCHANGED record,
               wire[c] \in {"requested", "entered"}
        PROVE  /\ Phases' = [Phases EXCEPT ![c] = "idle"]
               /\ Replied' = [Replied EXCEPT ![c] = ReplyOf(w, evidence[c])]
               /\ UNCHANGED <<Booked, Requested>>
    <2>1. w \in Wires \ {"unused"} /\ PhaseOf(w) = "idle"
      BY <1>4 DEF Wires, Answers, Receipts, PhaseOf
    <2>2. Booked' = Booked
      BY <1>4 DEF Booked
    <2> QED BY <1>2, <1>4, <2>1, <2>2
  <1>5. CASE wire[c] = "entered" /\ Answered(c, "indexed") /\ UNCHANGED record
    <2>1. record = evidence[c]
      BY <1>5 DEF IInv, WireInv
    <2>2. ReplyOf("indexed", evidence[c]) = Index!Reply("indexed", Booked)
      BY <2>1 DEF ReplyOf, Answers, Receipts, Booked, Index!Reply
    <2>3. Index!Finish(c, "indexed", Booked)
      BY <1>4, <1>5, <2>2 DEF Index!Finish, Answers, Receipts
    <2>4. Index!AnswerEntered(c)
      BY <1>5, <2>3 DEF Index!AnswerEntered, PhaseOf
    <2> QED BY <2>4 DEF Index!Next
  <1>6. CASE /\ wire[c] = "requested" /\ record = evidence[c]
             /\ Answered(c, "already") /\ UNCHANGED record
    <2>1. ReplyOf("already", evidence[c]) = Index!Reply("already", Booked)
      BY <1>6 DEF ReplyOf, Answers, Receipts, Booked, Index!Reply
    <2>2. Index!Finish(c, "already", Booked)
      BY <1>4, <1>6, <2>1 DEF Index!Finish, Answers, Receipts
    <2>3. Index!AnswerAlready(c)
      BY <1>6, <2>2 DEF Index!AnswerAlready, PhaseOf
    <2> QED BY <2>3 DEF Index!Next
  <1>7. CASE /\ wire[c] = "requested" /\ record \notin {Absent, evidence[c]}
             /\ Answered(c, "conflict") /\ UNCHANGED record
    <2>1. ReplyOf("conflict", evidence[c]) = Index!Reply("conflict", Index!EmptyBook)
      BY DEF ReplyOf, Answers, Receipts, Index!Reply, Index!EmptyBook
    <2>2. Index!Finish(c, "conflict", Index!EmptyBook)
      BY <1>4, <1>7, <2>1 DEF Index!Finish, Answers, Receipts
    <2>3. Index!AnswerConflict(c)
      BY <1>7, <2>2 DEF Index!AnswerConflict, PhaseOf
    <2> QED BY <2>3 DEF Index!Next
  <1>8. CASE GfmFails(c)
    <2>1. ReplyOf("failed", evidence[c]) = Index!Reply("failed", Index!EmptyBook)
      BY DEF ReplyOf, Answers, Receipts, Index!Reply, Index!EmptyBook
    <2>2. Index!Finish(c, "failed", Index!EmptyBook)
      BY <1>4, <1>8, <2>1 DEF GfmFails, Index!Finish, Answers, Receipts
    <2>3. Index!Fail(c)
      BY <1>8, <2>2 DEF GfmFails, Index!Fail, PhaseOf
    <2> QED BY <2>3 DEF Index!Next
  <1> QED BY <1>3, <1>5, <1>6, <1>7, <1>8 DEF GfmIndexes, GfmAnswers

(* To the index, the calls of ensure_case_indexed are callers like any     *)
(* others, for any number of them and whatever becomes of their requests:  *)
(* every step of the API and of the GFM process is a step of the book, or  *)
(* none (client.index_governance_case, ReviewedCaseIndex.index).           *)
THEOREM CallsUseTheBook == Spec => UsesTheBook
  <1>1. ASSUME IInv, IInv', [Next]_vars
        PROVE  [Index!Next]_(Index!bookVars)
    <2>1. ASSUME NEW c \in Owners, Send(c) PROVE Index!Next
      BY <1>1, <2>1, SendCalls DEF Index!Next
    <2>2. ASSUME NEW c \in Owners, GfmIndexes(c) PROVE Index!Next
      BY <1>1, <2>2, GfmIsTheBook
    <2>3. ASSUME NEW c \in Owners,
                 \/ Conclude(c) \/ Backfill(c) \/ Poll(c) \/ GiveUp(c)
                 \/ AcceptReceipt(c) \/ Heartbeat(c)
          PROVE  UNCHANGED <<record, wire, evidence>>
      BY <2>3 DEF Conclude, Backfill, Begin, Poll, GiveUp, AcceptReceipt, Heartbeat, calls
    <2>4. CASE \/ \E to \in States : Move(to)
               \/ LeaseEnds \/ Crash \/ CrashAfterConclusion \/ Search \/ Show
               \/ UNCHANGED vars
      BY <2>4, SameRequests
         DEF Move, LeaseEnds, Crash, CrashAfterConclusion, ProcessDies, Search, Show, vars, calls
    <2> QED BY <1>1, <2>1, <2>2, <2>3, <2>4, SameRequests DEF Next
  <1> QED BY <1>1, Inductive, PTL DEF Spec, UsesTheBook

(* And the calls expect every answer the book may give them, at any time:  *)
(* what a step of the book does to a request is something the GFM process  *)
(* may do here.  So an index that implements the book, as                  *)
(* ReviewedCaseIndex does, can be put behind the calls (Spec then holds of *)
(* them, with all that is proved of it).                                   *)
THEOREM CallsExpectTheBook ==
  ASSUME IInv, NEW c \in Owners,
         \/ Index!Enter(c) \/ Index!AnswerQuery(c) \/ Index!AnswerEntered(c)
         \/ Index!AnswerAlready(c) \/ Index!AnswerConflict(c) \/ Index!Fail(c),
         wire' \in [Owners -> Wires],
         UNCHANGED <<ledger, state, conclusions, pc, seen, attempt, evidence, search>>
  PROVE  GfmIndexes(c)
  <1>1. wire \in [Owners -> Wires]
    BY DEF IInv, TypeOK, Wires
  <1>2. Phases[c] # "idle"
    BY DEF Index!Enter, Index!AnswerQuery, Index!AnswerEntered, Index!AnswerAlready,
           Index!AnswerConflict, Index!Fail
  <1>3. wire[c] \in {"requested", "entered"}
    BY <1>2 DEF Phases, PhaseOf
  <1>4. /\ Requested[c] # NoRequest
        /\ Requested[c].case = "the case" /\ Requested[c].evidence = evidence[c]
        /\ Booked[Requested[c].case] = record
        /\ Phases[c] = PhaseOf(wire[c])
    BY <1>3, OnItsWay
  <1>5. ASSUME NEW d \in Owners
        PROVE  /\ Phases'[d] = PhaseOf(wire'[d]) /\ Phases[d] = PhaseOf(wire[d])
               /\ Replied'[d] = ReplyOf(wire'[d], evidence[d])
               /\ Replied[d] = ReplyOf(wire[d], evidence[d])
    BY DEF Phases, Replied
  \* What the book sees of a request tells what became of it.
  <1>6. ASSUME NEW v \in Wires, NEW w \in Wires, NEW e,
               PhaseOf(v) = PhaseOf(w), ReplyOf(v, e).outcome = ReplyOf(w, e).outcome
        PROVE  v = w
    BY <1>6 DEF Wires, Answers, Receipts, PhaseOf, ReplyOf
  <1>7. ASSUME NEW phase, NEW answer,
               Phases' = [Phases EXCEPT ![c] = phase],
               \A d \in Owners \ {c} : Replied'[d] = Replied[d],
               NEW w \in Wires, phase = PhaseOf(w),
               ReplyOf(wire'[c], evidence[c]).outcome = ReplyOf(w, evidence[c]).outcome
        PROVE  Answered(c, w)
    <2>1. ASSUME NEW d \in Owners \ {c} PROVE wire'[d] = wire[d]
      <3>1. PhaseOf(wire'[d]) = PhaseOf(wire[d])
        BY <1>5, <1>7 DEF Phases
      <3>2. ReplyOf(wire'[d], evidence[d]) = ReplyOf(wire[d], evidence[d])
        BY <1>5, <1>7
      <3> QED BY <1>1, <1>6, <3>1, <3>2
    <2>2. wire'[c] = w
      <3>1. PhaseOf(wire'[c]) = PhaseOf(w)
        BY <1>5, <1>7 DEF Phases
      <3> QED BY <1>6, <1>7, <3>1
    <2> QED BY <1>1, <2>1, <2>2 DEF Answered
  <1>8. Booked' = Booked => record' = record
    BY DEF Booked
  <1>9. UNCHANGED <<ledger, state, conclusions, pc, seen, attempt, evidence, search>>
    OBVIOUS
  <1>10. CASE Index!Enter(c)
    <2>1. wire[c] = "requested" /\ record = Absent
      BY <1>3, <1>4, <1>10 DEF Index!Enter, PhaseOf
    <2>2. /\ Phases' = [Phases EXCEPT ![c] = "entered"] /\ Replied' = Replied
          /\ Booked' = [Booked EXCEPT !["the case"] = evidence[c]]
      BY <1>4, <1>10 DEF Index!Enter
    <2>3. record' = evidence[c]
      BY <2>2 DEF Booked
    <2>4. ReplyOf(wire'[c], evidence[c]).outcome = ReplyOf("entered", evidence[c]).outcome
      <3>1. ReplyOf(wire'[c], evidence[c]) = ReplyOf("requested", evidence[c])
        BY <1>5, <2>1, <2>2
      <3> QED BY <3>1 DEF ReplyOf, Answers, Receipts
    <2>5. Answered(c, "entered")
      BY <1>7, <2>2, <2>4 DEF Wires, PhaseOf
    <2> QED BY <1>9, <2>1, <2>3, <2>5 DEF GfmIndexes, GfmEnters
  <1>11. ASSUME NEW outcome \in Answers, NEW records, Index!Finish(c, outcome, records)
         PROVE  UNCHANGED record /\ Answered(c, outcome)
    <2>1. /\ Phases' = [Phases EXCEPT ![c] = "idle"]
          /\ Replied' = [Replied EXCEPT ![c] = Index!Reply(outcome, records)]
          /\ Booked' = Booked
      BY <1>11 DEF Index!Finish
    <2>2. Replied'[c] = Index!Reply(outcome, records)
      BY <2>1 DEF Replied
    <2>3. ReplyOf(wire'[c], evidence[c]).outcome = ReplyOf(outcome, evidence[c]).outcome
      <3>1. ReplyOf(wire'[c], evidence[c]) = Index!Reply(outcome, records)
        BY <1>5, <2>2
      <3>2. Index!Reply(outcome, records).outcome = outcome
        BY DEF Index!Reply
      <3>3. ReplyOf(outcome, evidence[c]).outcome = outcome
        BY DEF ReplyOf
      <3> QED BY <3>1, <3>2, <3>3
    <2>4. outcome \in Wires /\ PhaseOf(outcome) = "idle"
      BY DEF Wires, Answers, Receipts, PhaseOf
    <2>5. \A d \in Owners \ {c} : Replied'[d] = Replied[d]
      BY <2>1 DEF Replied
    <2> QED BY <1>7, <1>8, <2>1, <2>3, <2>4, <2>5
  <1>12. CASE Index!AnswerQuery(c)
    BY <1>4, <1>12 DEF Index!AnswerQuery
  <1>13. CASE Index!AnswerEntered(c)
    <2>1. wire[c] = "entered" /\ Index!Finish(c, "indexed", Booked)
      BY <1>3, <1>4, <1>13 DEF Index!AnswerEntered, PhaseOf
    <2> QED BY <1>9, <1>11, <2>1 DEF GfmIndexes, GfmAnswers, Answers, Receipts
  <1>14. CASE Index!AnswerAlready(c)
    <2>1. /\ wire[c] = "requested" /\ record = evidence[c]
          /\ Index!Finish(c, "already", Booked)
      BY <1>3, <1>4, <1>14 DEF Index!AnswerAlready, PhaseOf
    <2> QED BY <1>9, <1>11, <2>1 DEF GfmIndexes, GfmAnswers, Answers, Receipts
  <1>15. CASE Index!AnswerConflict(c)
    <2>1. /\ wire[c] = "requested" /\ record \notin {Absent, evidence[c]}
          /\ Index!Finish(c, "conflict", Index!EmptyBook)
      BY <1>3, <1>4, <1>15 DEF Index!AnswerConflict, PhaseOf
    <2> QED BY <1>9, <1>11, <2>1 DEF GfmIndexes, GfmAnswers, Answers
  <1>16. CASE Index!Fail(c)
    <2>1. Index!Finish(c, "failed", Index!EmptyBook)
      BY <1>16 DEF Index!Fail
    <2> QED BY <1>3, <1>9, <1>11, <2>1 DEF GfmIndexes, GfmFails, Answers
  <1> QED BY <1>10, <1>12, <1>13, <1>14, <1>15, <1>16

=============================================================================

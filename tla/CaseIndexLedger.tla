-------------------------- MODULE CaseIndexLedger ---------------------------
(***************************************************************************)
(* The API's ledger of attempts to index one concluded case                *)
(* (services/api/app/governance_skill_runtime/audit_store.py, tables       *)
(* case_index_events and case_index_claims).  An attempt is a "pending"    *)
(* event that a terminal event, "succeeded" or "failed", must follow; the  *)
(* claim names the caller that owns the open attempt and leases it.  A     *)
(* caller whose lease ran out may be replaced: its attempt is closed as    *)
(* failed and a new one opened in the same transaction.                    *)
(*                                                                         *)
(* Every public method runs in one BEGIN IMMEDIATE transaction, so it is   *)
(* one action.  Both tables are keyed by case and no method touches two    *)
(* cases; the module is the ledger of one of them.  An event's hash is its *)
(* position; the hash chain, which only outside tampering can break, error *)
(* codes, index hashes and times are left out.  A lease is live or not:    *)
(* it may run out at any moment (LeaseRunsOut).                            *)
(***************************************************************************)
EXTENDS Naturals, Sequences

CONSTANTS
  Owners,   \* a fresh owner id per call of ensure_case_indexed
  Hashes,   \* case hashes a caller may bind an attempt to
  NoClaim

VARIABLES
  history,  \* the events of the case, oldest first
  claim     \* the owner, attempt and lease of the open attempt, or NoClaim

ledger == <<history, claim>>

Statuses == {"pending", "succeeded", "failed"}
Events == [status : Statuses, hash : Hashes]
Event(status, hash) == [status |-> status, hash |-> hash]

\* attempt is the position of the pending event the claim is bound to.
Claims == [attempt : Nat, hash : Hashes, owner : Owners, live : BOOLEAN]

ASSUME LedgerAssumption == NoClaim \notin Claims

Last == history[Len(history)]
Open == history # <<>> /\ Last.status = "pending"
LastIs(status, hash) == history # <<>> /\ Last = Event(status, hash)

\* hash is the one indexed last among the first n events.
IsLastSuccess(hash, events, n) ==
  \E i \in 1..n :
    /\ events[i] = Event("succeeded", hash)
    /\ \A j \in (i + 1)..n : events[j].status # "succeeded"

LedgerInit ==
  /\ history \in {<<>>} \cup {<<Event("pending", h)>> : h \in Hashes}
  /\ claim = NoClaim  \* an open attempt older than the claims table has none

-----------------------------------------------------------------------------
(* claim_index_attempt.  expected is the attempt an earlier answer told    *)
(* the caller to wait for, 0 for none.                                     *)

TerminalStateIgnoringHash(event, hash) ==  \* does not compare the case hash
  IF event.status = "succeeded" THEN "succeeded" ELSE "failed"

TerminalState(event, hash) ==
  IF event.status = "succeeded" /\ event.hash = hash
    THEN "succeeded" ELSE "failed"

\* The attempt waited for has ended, or the case is indexed already.
IsAnswered(hash, expected) ==
  \/ expected # 0 /\ expected < Len(history)
  \/ expected = 0 /\ LastIs("succeeded", hash)

Answer(hash, expected) ==
  IF expected # 0
    THEN TerminalState(history[expected + 1], hash)
    ELSE "succeeded"

MustWaitForever(hash, expected) ==  \* never compares the lease with the clock
  /\ ~IsAnswered(hash, expected)
  /\ Open
  /\ claim # NoClaim

MustWait(hash, expected) ==
  /\ ~IsAnswered(hash, expected)
  /\ Open
  /\ claim # NoClaim
  /\ claim.live

\* An attempt for the hash indexed last is refused, the transaction undone.
OpenAttempt(owner, hash, closed) ==
  /\ ~IsLastSuccess(hash, closed, Len(closed))
  /\ history' = Append(closed, Event("pending", hash))
  /\ claim' = [attempt |-> Len(closed) + 1, hash |-> hash,
               owner |-> owner, live |-> TRUE]

Reserve(owner, hash, expected) ==
  /\ expected = 0
  /\ ~IsAnswered(hash, expected)
  /\ ~Open
  /\ OpenAttempt(owner, hash, history)

TakeOverUnclosed(owner, hash, expected) ==  \* forgets to close the attempt
  /\ ~IsAnswered(hash, expected)
  /\ Open
  /\ ~MustWait(hash, expected)
  /\ OpenAttempt(owner, hash, history)

TakeOver(owner, hash, expected) ==
  /\ ~IsAnswered(hash, expected)
  /\ Open
  /\ ~MustWait(hash, expected)
  /\ OpenAttempt(owner, hash, Append(history, Event("failed", Last.hash)))

-----------------------------------------------------------------------------
(* renew_index_lease, finish_index_attempt and the passing of time.        *)

Holds(owner, attempt) ==
  /\ claim # NoClaim
  /\ claim.owner = owner
  /\ claim.attempt = attempt

MayFinish(owner, hash, attempt) ==
  /\ Holds(owner, attempt)
  /\ claim.hash = hash
  /\ Open
  /\ Last.hash = hash
  /\ attempt = Len(history)

FinishUnheld(owner, hash, attempt, status) ==  \* ends an attempt it lost
  /\ history' = Append(history, Event(status, hash))
  /\ claim' = NoClaim

Finish(owner, hash, attempt, status) ==
  /\ MayFinish(owner, hash, attempt)
  /\ history' = Append(history, Event(status, hash))
  /\ claim' = NoClaim

\* Renewing does not look at the clock: a lease that ran out lives again.
Renew(owner, attempt) ==
  /\ Holds(owner, attempt)
  /\ claim' = [claim EXCEPT !.live = TRUE]
  /\ UNCHANGED history

LeaseRunsOut ==
  /\ claim # NoClaim
  /\ claim.live
  /\ claim' = [claim EXCEPT !.live = FALSE]
  /\ UNCHANGED history

\* Any caller, with any hash and any attempt it may still remember.
LedgerNext ==
  \/ LeaseRunsOut
  \/ \E owner \in Owners, hash \in Hashes, attempt \in 0..Len(history) :
       \/ Reserve(owner, hash, attempt)
       \/ TakeOver(owner, hash, attempt)
       \/ Renew(owner, attempt)
       \/ \E status \in {"succeeded", "failed"} :
            Finish(owner, hash, attempt, status)

LedgerSpec == LedgerInit /\ [][LedgerNext]_ledger

-----------------------------------------------------------------------------
(* Both tables hold what their columns may hold.                           *)
LedgerTypeOK ==
  /\ history \in Seq(Events)
  /\ claim \in Claims \cup {NoClaim}

(* What _validate_index_events and _validate_index_claims demand at the    *)
(* start of every transaction of the store.  Were it ever false, every     *)
(* later call of every method, on every case, would end in                 *)
(* GOVERNANCE_SKILL_AUDIT_INVALID: attempts open and close in turn, a      *)
(* terminal event closes the attempt before it, no attempt is opened for   *)
(* the hash that was indexed last, and a claim is bound to the open        *)
(* attempt.                                                                *)
InTurn ==
  \A i \in DOMAIN history :
    IF i = 1 THEN history[i].status = "pending"
    ELSE (history[i].status = "pending") # (history[i - 1].status = "pending")
ClosesItsAttempt ==
  \A i \in DOMAIN history :
    history[i].status # "pending" => history[i].hash = history[i - 1].hash
NotIndexedAgain ==
  \A i \in DOMAIN history :
    history[i].status = "pending" =>
      ~IsLastSuccess(history[i].hash, history, i - 1)
ClaimIsOpen ==
  claim # NoClaim =>
    /\ Open
    /\ claim.hash = Last.hash
    /\ claim.attempt = Len(history)
LedgerIsValid == InTurn /\ ClosesItsAttempt /\ NotIndexedAgain /\ ClaimIsOpen

=============================================================================

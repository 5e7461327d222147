---------------------------- MODULE CaseIndexing ----------------------------
(***************************************************************************)
(* How a concluded case gets into, and is shown from, the index of         *)
(* reviewed cases: the case (services/api/app/gfm_governance_store.py),    *)
(* the calls of ensure_case_indexed and similar_cases in the API           *)
(* (governance_skill_runtime/gateway.py), the ledger they share            *)
(* (CaseIndexLedger) and the GFM process that keeps the index              *)
(* (ReviewedCaseIndex, here through what ReviewedCaseBook promises: a case *)
(* is entered once and never changed).                                     *)
(*                                                                         *)
(* The API is one event loop in one process: an action is the code between *)
(* two awaits.  The whole process may die between two actions and, where   *)
(* the code commits twice in one action, between the two commits.  A       *)
(* request to the GFM process may be lost, fail after it took effect, or   *)
(* take effect after its caller has given up.                              *)
(*                                                                         *)
(* Abstractions: a case has items; its hash covers the time of its last    *)
(* transition, so every conclusion has a hash of its own and is numbered.  *)
(* The evidence sent for a case is the conclusion it was read at and the   *)
(* conclusion whose time it carries as concludedAt.                        *)
(***************************************************************************)
EXTENDS CaseIndexLedger

CONSTANT Absent  \* no record in the index, nothing found, nothing shown

VARIABLES
  state,        \* the state of the case
  conclusions,  \* how often it was concluded
  pc,           \* where each call of ensure_case_indexed is, or how it ended
  seen,         \* the case hash the call read when it began
  attempt,      \* the pending event it waits for or owns
  evidence,     \* what it sent to the GFM process
  wire,         \* what became of that request
  record,       \* the record of the case in the index
  found,        \* the item an unfinished search got from the GFM process
  shown         \* the item last shown and the hash of the case at that time

calls == <<pc, seen, attempt, evidence, wire>>
search == <<found, shown>>
vars == <<ledger, state, conclusions, calls, record, search>>

ASSUME ConclusionsAssumption ==
  /\ Hashes \subseteq Nat \ {0}
  /\ Absent \notin [of : Hashes, at : Hashes]
  /\ Absent \notin [hash : Hashes, item : [of : Hashes, at : Hashes]]

Evidence == [of : Hashes, at : Hashes]
Running == {"waiting", "preparing", "sent"}
Returned == {"true", "false", "raised", "died"}
Receipts == {"indexed", "already"}
Answers == Receipts \cup {"conflict", "failed"}

States == {"draft", "active", "concluded", "archived"}
Transitions == [draft |-> {"active"}, active |-> {"concluded"},
                concluded |-> {"archived"}, archived |-> {"active"}]

Init ==
  /\ \/ state = "draft" /\ conclusions = 0 /\ history = <<>> /\ record = Absent
     \/ /\ state = "concluded" /\ conclusions = 1 /\ 1 \in Hashes
        /\ history = <<Event("pending", 1)>>  \* by an API without claims
        /\ record \in {Absent, [of |-> 1, at |-> 1]}
  /\ claim = NoClaim
  /\ pc = [c \in Owners |-> "new"]
  /\ seen = [c \in Owners |-> 0]
  /\ attempt = [c \in Owners |-> 0]
  /\ evidence = [c \in Owners |-> Absent]
  /\ wire = [c \in Owners |-> "unused"]
  /\ found = Absent
  /\ shown = Absent

-----------------------------------------------------------------------------
(* ensure_case_indexed.                                                    *)

GoTo(c, place) == pc' = [pc EXCEPT ![c] = place]

\* One turn of the loop: claim_index_attempt and what its answer leads to.
Claim(c, hash, expected) ==
  \/ /\ IsAnswered(hash, expected)
     /\ GoTo(c, IF Answer(hash, expected) = "succeeded" THEN "true" ELSE "false")
     /\ UNCHANGED <<ledger, attempt>>
  \/ /\ MustWait(hash, expected)
     /\ GoTo(c, "waiting")
     /\ attempt' = [attempt EXCEPT ![c] = Len(history)]
     /\ UNCHANGED ledger
  \/ /\ Reserve(c, hash, expected) \/ TakeOver(c, hash, expected)
     /\ GoTo(c, "preparing")
     /\ attempt' = [attempt EXCEPT ![c] = Len(history')]
  \/ /\ GoTo(c, "raised")  \* the ledger refuses the attempt or cannot be used
     /\ UNCHANGED <<ledger, attempt>>

Begin(c, hash) ==
  /\ pc[c] = "new"
  /\ seen' = [seen EXCEPT ![c] = hash]
  /\ Claim(c, hash, 0)
  /\ UNCHANGED <<evidence, wire, record, search>>

\* backfill_concluded_cases, for a case that is not indexed yet or any longer.
Backfill(c) ==
  /\ state = "concluded"
  /\ ~LastIs("succeeded", conclusions)
  /\ Begin(c, conclusions)
  /\ UNCHANGED <<state, conclusions>>

\* After a sleep, with the case as it was read before the first one.
Poll(c) ==
  /\ pc[c] = "waiting"
  /\ Claim(c, seen[c], attempt[c])
  /\ UNCHANGED <<state, conclusions, seen, evidence, wire, record, search>>

\* The run's result has arrived.  The time of the conclusion is read only now.
Send(c) ==
  /\ pc[c] = "preparing"
  /\ GoTo(c, "sent")
  /\ evidence' = [evidence EXCEPT ![c] = [of |-> seen[c], at |-> conclusions]]
  /\ wire' = [wire EXCEPT ![c] = "requested"]
  /\ UNCHANGED <<ledger, state, conclusions, seen, attempt, record, search>>

\* The handler of every exception.  The store may fail it once more.
FailAttempt(c) ==
  \/ /\ Finish(c, seen[c], attempt[c], "failed")
     /\ GoTo(c, "false")
  \/ /\ ~MayFinish(c, seen[c], attempt[c])
     /\ GoTo(c, IF LastIs("succeeded", seen[c]) THEN "true" ELSE "false")
     /\ UNCHANGED ledger
  \/ /\ GoTo(c, "raised")
     /\ UNCHANGED ledger

\* No result, no answer in time, or an answer that is not the receipt.
GiveUp(c) ==
  /\ pc[c] \in {"preparing", "sent"}
  /\ FailAttempt(c)
  /\ UNCHANGED <<state, conclusions, seen, attempt, evidence, wire, record,
                 search>>

\* The receipt has arrived.  If it cannot be recorded the attempt fails.
AcceptReceiptUnchecked(c) ==  \* takes any answer for the receipt
  /\ pc[c] = "sent"
  /\ wire[c] \in Answers
  /\ \/ /\ Finish(c, seen[c], attempt[c], "succeeded")
        /\ GoTo(c, "true")
     \/ FailAttempt(c)
  /\ UNCHANGED <<state, conclusions, seen, attempt, evidence, wire, record,
                 search>>

AcceptReceipt(c) ==
  /\ pc[c] = "sent"
  /\ wire[c] \in Receipts
  /\ \/ /\ Finish(c, seen[c], attempt[c], "succeeded")
        /\ GoTo(c, "true")
     \/ FailAttempt(c)
  /\ UNCHANGED <<state, conclusions, seen, attempt, evidence, wire, record,
                 search>>

Heartbeat(c) ==
  /\ pc[c] \in {"preparing", "sent"}
  /\ Renew(c, attempt[c])
  /\ UNCHANGED <<state, conclusions, calls, record, search>>

LeaseEnds ==
  /\ LeaseRunsOut
  /\ UNCHANGED <<state, conclusions, calls, record, search>>

-----------------------------------------------------------------------------
(* The case, and the death of the API process.                             *)

Move(to) ==
  /\ to \in Transitions[state]
  /\ to # "concluded"
  /\ state' = to
  /\ UNCHANGED <<ledger, conclusions, calls, record, search>>

CommitConclusion ==
  /\ "concluded" \in Transitions[state]
  /\ conclusions + 1 \in Hashes  \* the bound on conclusions
  /\ state' = "concluded"
  /\ conclusions' = conclusions + 1

\* The route commits the transition and goes on to index the case.
Conclude(c) ==
  /\ CommitConclusion
  /\ Begin(c, conclusions')

ProcessDies ==
  /\ pc' = [c \in Owners |-> IF pc[c] \in Running THEN "died" ELSE pc[c]]
  /\ found' = Absent
  /\ UNCHANGED <<ledger, seen, attempt, evidence, wire, record, shown>>

Crash ==
  /\ ProcessDies
  /\ UNCHANGED <<state, conclusions>>

CrashAfterConclusion ==
  /\ CommitConclusion
  /\ ProcessDies

-----------------------------------------------------------------------------
(* The GFM process.                                                        *)

Answered(c, answer) == wire' = [wire EXCEPT ![c] = answer]

GfmEnters(c) ==
  /\ wire[c] = "requested"
  /\ record = Absent
  /\ record' = evidence[c]
  /\ Answered(c, "entered")

\* The receipt tells whether the case was there already.
GfmAnswers(c) ==
  /\ \/ wire[c] = "entered" /\ Answered(c, "indexed")
     \/ /\ wire[c] = "requested"
        /\ record = evidence[c]
        /\ Answered(c, "already")
     \/ /\ wire[c] = "requested"
        /\ record \notin {Absent, evidence[c]}
        /\ Answered(c, "conflict")
  /\ UNCHANGED record

\* It refuses, fails, or is lost on its way there or back.
GfmFails(c) ==
  /\ wire[c] \in {"requested", "entered"}
  /\ Answered(c, "failed")
  /\ UNCHANGED record

GfmIndexes(c) ==
  /\ GfmEnters(c) \/ GfmAnswers(c) \/ GfmFails(c)
  /\ UNCHANGED <<ledger, state, conclusions, pc, seen, attempt, evidence, search>>

-----------------------------------------------------------------------------
(* similar_cases.                                                          *)

Search ==
  /\ found = Absent
  /\ found' = record
  /\ UNCHANGED <<ledger, state, conclusions, calls, record, shown>>

ShowsUncompared == state = "concluded" /\ history # <<>> /\ Last.status = "succeeded"
Shows == state = "concluded" /\ LastIs("succeeded", conclusions)

Show ==
  /\ found # Absent
  /\ shown' = IF Shows THEN [hash |-> conclusions, item |-> found] ELSE shown
  /\ found' = Absent
  /\ UNCHANGED <<ledger, state, conclusions, calls, record>>

-----------------------------------------------------------------------------
Next ==
  \/ \E c \in Owners :
       \/ Conclude(c)
       \/ Backfill(c)
       \/ Poll(c)
       \/ Send(c)
       \/ GiveUp(c)
       \/ AcceptReceipt(c)
       \/ Heartbeat(c)
       \/ GfmIndexes(c)
  \/ \E to \in States : Move(to)
  \/ LeaseEnds
  \/ Crash
  \/ CrashAfterConclusion
  \/ Search
  \/ Show

Spec == Init /\ [][Next]_vars

\* A sleep ends (a poll that has to wait again changes nothing), an awaited
\* request answers or times out, and the lease of a call that is no longer
\* there to renew it runs out.
OwnerIsGone == claim # NoClaim /\ pc[claim.owner] \notin {"preparing", "sent"}
Fairness ==
  /\ \A c \in Owners :
       /\ WF_vars(~MustWait(seen[c], attempt[c]) /\ Poll(c))
       /\ WF_vars(Send(c) \/ GiveUp(c))
  /\ WF_vars(OwnerIsGone /\ LeaseEnds)

-----------------------------------------------------------------------------
(* Every variable holds what the code may put there.                       *)
TypeOK ==
  /\ LedgerTypeOK
  /\ state \in States
  /\ conclusions \in Hashes \cup {0}
  /\ pc \in [Owners -> {"new"} \cup Running \cup Returned]
  /\ seen \in [Owners -> Hashes \cup {0}]
  /\ attempt \in [Owners -> 0..Len(history)]
  /\ evidence \in [Owners -> Evidence \cup {Absent}]
  /\ wire \in [Owners -> {"unused", "requested", "entered"} \cup Answers]
  /\ record \in Evidence \cup {Absent}
  /\ found \in Evidence \cup {Absent}
  /\ shown \in [hash : Hashes, item : Evidence] \cup {Absent}

(* An attempt the ledger records as succeeded is in the index, with the    *)
(* evidence of the case it was opened for, whatever was lost, taken over,  *)
(* answered late or repeated on the way (_ensure_case_indexed_owned).      *)
SucceededIsIndexed ==
  \A i \in DOMAIN history :
    history[i].status = "succeeded" =>
      record # Absent /\ record.of = history[i].hash

(* A call that returns True has its own version of the case in the index,  *)
(* also when another call did the work or it lost its lease meanwhile      *)
(* (_index_terminal_state and the handler of                               *)
(* _ensure_case_indexed_owned).                                            *)
TrueIsIndexed ==
  \A c \in Owners :
    pc[c] = "true" => record # Absent /\ record.of = seen[c]

(* What similar_cases shows of a case describes that very conclusion: the  *)
(* targets and decisions it was read with and the time it was concluded,   *)
(* although the item was fetched before the case and the ledger were read  *)
(* and the time was read after the targets.                                *)
ShownIsCoherent ==
  shown # Absent => shown.item = [of |-> shown.hash, at |-> shown.hash]

(* An indexed case stays visible until it is moved: no late, repeated or   *)
(* stale call takes it out of sight.  (claim_index_attempt would never     *)
(* accept it again: its hash is the one indexed last.)                     *)
StaysVisible ==
  [][Shows /\ state' = "concluded" /\ conclusions' = conclusions => Shows']_vars

(* Every call of ensure_case_indexed returns or dies, and none polls for   *)
(* ever for an attempt whose owner is gone.                                *)
CallsReturn ==
  \A c \in Owners : pc[c] \in Running ~> pc[c] \in Returned

(* A failed attempt to index the present conclusion can be repeated with   *)
(* success: the index would accept the case as it now is.                  *)
FailedRemainsRetryable ==
  state = "concluded" /\ LastIs("failed", conclusions) =>
    record \in {Absent, [of |-> conclusions, at |-> conclusions]}

-----------------------------------------------------------------------------
(* The requests to the GFM process as the calls of ReviewedCaseBook, which *)
(* ReviewedCaseIndex implements; the book has one case.                    *)

Booked == [k \in {"the case"} |-> record]
RequestOf(c) == [case |-> "the case", evidence |-> evidence[c]]
NoRequest == [case |-> "none"]

PhaseOf(w) == IF w = "requested" THEN "called" ELSE IF w = "entered" THEN "entered" ELSE "idle"
ReplyOf(w, e) ==
  [outcome |-> IF w \in Answers THEN w ELSE "none",
   records |-> [k \in {"the case"} |-> IF w \in Receipts THEN e ELSE Absent]]

Phases == [c \in Owners |-> PhaseOf(wire[c])]
Requested == [c \in Owners |-> IF wire[c] = "unused" THEN NoRequest ELSE RequestOf(c)]
Replied == [c \in Owners |-> ReplyOf(wire[c], evidence[c])]

Index == INSTANCE ReviewedCaseBook
         WITH Procs <- Owners, Cases <- {"the case"}, Query <- NoRequest,
              book <- Booked, phase <- Phases, request <- Requested, reply <- Replied

(* To the index, the calls are callers like any others: every step is one  *)
(* of the book's, or none (client.index_governance_case).                  *)
UsesTheBook == [][Index!Next]_(Index!bookVars)

=============================================================================

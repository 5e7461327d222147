-------------------------- MODULE ReviewedCaseBook --------------------------
(***************************************************************************)
(* What the index of reviewed cases promises its callers, whatever it does *)
(* to files: a book that maps a case to the evidence it was concluded on.  *)
(* A case is entered once and never changed or removed; entering the same  *)
(* evidence again is idempotent, other evidence is refused, and a call     *)
(* that is interrupted has either entered its case or not touched the      *)
(* book.  ReviewedCaseIndex implements this with five kinds of files.      *)
(***************************************************************************)

CONSTANTS
  Procs,     \* callers: threads and processes that open the index
  Cases,     \* case identifiers
  Evidence,  \* what a request binds to a case (request hash and vectors)
  Absent,    \* "no entry"
  Query      \* the request of a reader

VARIABLES
  book,      \* the entered evidence of every case
  phase,     \* per caller: "idle", "called" or "entered"
  request,   \* the request of the caller's current or last call
  reply      \* the answer to the caller's last finished call

bookVars == <<book, phase, request, reply>>

Books == [Cases -> Evidence \cup {Absent}]
EmptyBook == [c \in Cases |-> Absent]
Requestable == [case : Cases, evidence : Evidence] \cup {Query}
Outcomes == {"none", "answered", "indexed", "already", "conflict", "failed"}
Reply(outcome, records) == [outcome |-> outcome, records |-> records]

Init ==
  /\ book = EmptyBook
  /\ phase = [p \in Procs |-> "idle"]
  /\ request = [p \in Procs |-> Query]
  /\ reply = [p \in Procs |-> Reply("none", EmptyBook)]

Call(p) ==
  /\ phase[p] = "idle"
  /\ \E r \in Requestable : request' = [request EXCEPT ![p] = r]
  /\ phase' = [phase EXCEPT ![p] = "called"]
  /\ UNCHANGED <<book, reply>>

\* The single step at which a new case becomes part of the book.
Enter(p) ==
  /\ phase[p] = "called"
  /\ request[p] # Query
  /\ book[request[p].case] = Absent
  /\ book' = [book EXCEPT ![request[p].case] = request[p].evidence]
  /\ phase' = [phase EXCEPT ![p] = "entered"]
  /\ UNCHANGED <<request, reply>>

Finish(p, outcome, records) ==
  /\ phase' = [phase EXCEPT ![p] = "idle"]
  /\ reply' = [reply EXCEPT ![p] = Reply(outcome, records)]
  /\ UNCHANGED <<book, request>>

AnswerQuery(p) ==
  /\ phase[p] = "called"
  /\ request[p] = Query
  /\ Finish(p, "answered", book)

AnswerEntered(p) ==
  /\ phase[p] = "entered"
  /\ Finish(p, "indexed", book)

AnswerAlready(p) ==
  /\ phase[p] = "called"
  /\ request[p] # Query
  /\ book[request[p].case] = request[p].evidence
  /\ Finish(p, "already", book)

AnswerConflict(p) ==
  /\ phase[p] = "called"
  /\ request[p] # Query
  /\ book[request[p].case] \notin {Absent, request[p].evidence}
  /\ Finish(p, "conflict", EmptyBook)

\* The call raises or its process dies: the caller learns nothing.
Fail(p) ==
  /\ phase[p] # "idle"
  /\ Finish(p, "failed", EmptyBook)

Next ==
  \E p \in Procs :
    \/ Call(p)
    \/ Enter(p)
    \/ AnswerQuery(p)
    \/ AnswerEntered(p)
    \/ AnswerAlready(p)
    \/ AnswerConflict(p)
    \/ Fail(p)

Spec == Init /\ [][Next]_bookVars

=============================================================================

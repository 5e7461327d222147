----------------------------- MODULE OpenAlexFetch -----------------------------
(***************************************************************************)
(* The acquisition of the OpenAlex corpus, page by page, and how it is     *)
(* resumed (fetch_openalex of                                              *)
(* packages/gfm/src/socialgraph_gfm/gfm/corpus/openalex.py).               *)
(*                                                                         *)
(* For every stratum the works are sampled until its quota is filled.  The *)
(* rows of a page are appended to the raw file first, then the resume file *)
(* is replaced: it alone says what is fetched.  The next call truncates    *)
(* the page that was appended after it, if it looks like one.              *)
(*                                                                         *)
(* Abstractions: a row is the place it was drawn from and whether it has   *)
(* an author, which the audit counts; the service answers a request with   *)
(* at most what it asks for, and may answer the same request otherwise     *)
(* the next time.  A death in the middle of an append leaves some of the   *)
(* lines, and perhaps part of one more.  An error ends the call, like a    *)
(* death; the lock admits one call at a time.  Legacy resume files, from   *)
(* before the audit, are left out.                                         *)
(***************************************************************************)
EXTENDS Naturals, Sequences, FiniteSets

CONSTANTS
  Strata,    \* their number
  Quota,     \* of each
  PerPage,   \* rows of a page
  Budget,    \* MAX_FETCH_REQUESTS
  NoResume

VARIABLES
  works,     \* the rows of the raw file
  torn,      \* and part of a line after them
  resume,    \* the resume file
  fetch,     \* the state in the memory of the call
  call       \* what the call does next

fetchVars == <<works, torn, resume, fetch, call>>

Fresh == [stratum |-> 1, draw |-> 0, received |-> 0, rows |-> 0, accepted |-> 0,
          requests |-> 0, strata |-> <<>>, complete |-> FALSE]

FetchStates ==
  [stratum : 1..(Strata + 1), draw : Nat, received : 0..Quota, rows : Nat,
   accepted : Nat, requests : 0..Budget, strata : Seq(0..Quota), complete : BOOLEAN]

ASSUME FetchAssumption ==
  /\ Strata \in Nat /\ Quota \in Nat /\ PerPage \in Nat /\ Budget \in Nat
  /\ NoResume \notin FetchStates

Smaller(m, n) == IF m < n THEN m ELSE n
Remaining(s) == Quota - s.received
DrawSize(s) == Smaller(PerPage, Remaining(s))

\* The rows an answer to the next request holds.
Answers(s) ==
  LET Row(k, authors) == [stratum |-> s.stratum, draw |-> s.draw, place |-> k,
                          accepted |-> authors[k]]
  IN {[k \in 1..n |-> Row(k, authors)] : n \in 0..DrawSize(s),
                                         authors \in [1..DrawSize(s) -> BOOLEAN]}

AcceptedRows(rows) == Cardinality({i \in DOMAIN rows : rows[i].accepted})

FetchInit ==
  /\ works = <<>>
  /\ torn = FALSE
  /\ resume = NoResume
  /\ fetch = Fresh
  /\ call = "none"

-----------------------------------------------------------------------------
(* The call begins: _rollback_uncommitted_raw_tail and                     *)
(* _migrate_or_validate_work_eligibility_state.                            *)

Committed(s) == SubSeq(works, 1, s.rows)
After(s) == SubSeq(works, s.rows + 1, Len(works))

IsOnePage(s) ==
  /\ ~s.complete
  /\ s.stratum <= Strata
  /\ Len(After(s)) <= DrawSize(s)
  /\ \A i \in 1..Len(After(s)) : After(s)[i].stratum = s.stratum

IsAudited(s) == s.rows <= Len(works) /\ AcceptedRows(Committed(s)) = s.accepted

Accepts ==
  /\ ~torn
  /\ IF resume = NoResume
     THEN works = <<>>
     ELSE IsAudited(resume) /\ (After(resume) = <<>> \/ IsOnePage(resume))

StartFetchOnTail ==  \* goes on after the tail
  /\ call = "none"
  /\ Accepts
  /\ fetch' = IF resume = NoResume THEN Fresh ELSE resume
  /\ call' = "loop"
  /\ UNCHANGED <<works, torn, resume>>

StartFetch ==
  /\ call = "none"
  /\ Accepts
  /\ fetch' = IF resume = NoResume THEN Fresh ELSE resume
  /\ works' = Committed(fetch')
  /\ call' = "loop"
  /\ UNCHANGED <<torn, resume>>

-----------------------------------------------------------------------------
(* The loop over the pages of a stratum.                                   *)

FetchPage(rows) ==
  /\ call = "loop"
  /\ ~fetch.complete
  /\ fetch.stratum <= Strata
  /\ Remaining(fetch) > 0
  /\ fetch.requests < Budget
  /\ works' = works \o rows
  /\ fetch' = [fetch EXCEPT !.draw = @ + 1,
                            !.received = @ + AcceptedRows(rows),
                            !.rows = @ + Len(rows),
                            !.accepted = @ + AcceptedRows(rows),
                            !.requests = @ + 1]
  /\ call' = IF rows = <<>> THEN "write last page" ELSE "write page"
  /\ UNCHANGED <<torn, resume>>

\* The call dies while it appends.
TearPage(rows) ==
  /\ call = "loop"
  /\ ~fetch.complete
  /\ fetch.stratum <= Strata
  /\ Remaining(fetch) > 0
  /\ fetch.requests < Budget
  /\ \E n \in 0..Len(rows) : works' = works \o SubSeq(rows, 1, n)
  /\ torn' \in BOOLEAN
  /\ call' = "none"
  /\ UNCHANGED <<resume, fetch>>

WritePage ==
  /\ call \in {"write page", "write last page"}
  /\ resume' = fetch
  /\ call' = IF call = "write page" THEN "loop" ELSE "end stratum"
  /\ UNCHANGED <<works, torn, fetch>>

EndStratum ==
  /\ \/ call = "end stratum"
     \/ call = "loop" /\ ~fetch.complete /\ fetch.stratum <= Strata /\ Remaining(fetch) = 0
  /\ fetch' = [fetch EXCEPT !.strata = Append(@, fetch.received),
                            !.stratum = @ + 1, !.draw = 0, !.received = 0]
  /\ resume' = fetch'
  /\ call' = "loop"
  /\ UNCHANGED <<works, torn>>

Complete ==
  /\ call = "loop"
  /\ ~fetch.complete
  /\ fetch.stratum > Strata
  /\ fetch' = [fetch EXCEPT !.complete = TRUE]
  /\ resume' = fetch'
  /\ call' = "none"
  /\ UNCHANGED <<works, torn>>

\* The call raises or dies, or finds the corpus complete.
LeaveFetch ==
  /\ call # "none"
  /\ call' = "none"
  /\ UNCHANGED <<works, torn, resume, fetch>>

FetchNext ==
  \/ StartFetch
  \/ \E rows \in Answers(fetch) : FetchPage(rows) \/ TearPage(rows)
  \/ WritePage
  \/ EndStratum
  \/ Complete
  \/ LeaveFetch

\* Somebody calls again.
FetchFairness == WF_fetchVars(StartFetch)
FetchSpec == FetchInit /\ [][FetchNext]_fetchVars /\ FetchFairness

-----------------------------------------------------------------------------
FetchTypeOK ==
  /\ torn \in BOOLEAN
  /\ resume \in FetchStates \cup {NoResume}
  /\ fetch \in FetchStates
  /\ call \in {"none", "loop", "write page", "write last page", "end stratum"}

\* Accepted rows of a stratum among those.
Of(s, rows) == Cardinality({i \in DOMAIN rows : rows[i].accepted /\ rows[i].stratum = s})

(* Wherever calls die, the rows that the resume file accounts for are      *)
(* there, none of them twice, and each stratum has as many with an author  *)
(* as it says, never above its quota; and unless a line is torn, the next  *)
(* call accepts what a call left after them (fetch_openalex,               *)
(* _rollback_uncommitted_raw_tail: "the durable resume remains the sole    *)
(* commit authority").                                                     *)
FetchedOnce ==
  resume # NoResume =>
    LET rows == Committed(resume) IN
    /\ resume.rows <= Len(works)
    /\ \A i, j \in DOMAIN rows :
         /\ rows[i].stratum = rows[j].stratum
         /\ rows[i].draw = rows[j].draw
         /\ rows[i].place = rows[j].place
         => i = j
    /\ \A s \in DOMAIN resume.strata : resume.strata[s] = Of(s, rows) /\ Of(s, rows) <= Quota
    /\ resume.stratum <= Strata => Of(resume.stratum, rows) = resume.received
    /\ ~torn => call # "none" \/ Accepts

\* The rows the resume file accounts for.
Accounted == IF resume = NoResume THEN <<>> ELSE Committed(resume)

\* At most one answer's rows have been added, at the end.
GrowsByPage(before, after) ==
  /\ Len(before) <= Len(after)
  /\ before = SubSeq(after, 1, Len(before))
  /\ Len(after) <= Len(before) + PerPage
  /\ \A i, j \in (Len(before) + 1)..Len(after) :
       after[i].stratum = after[j].stratum /\ after[i].draw = after[j].draw

(* What the resume file accounts for is never lost or changed again, by no *)
(* death, rollback or later call, and grows by the rows of one answer at a *)
(* time, the first page included (fetch_openalex).                         *)
AccountedGrows == [][GrowsByPage(Accounted, Accounted')]_fetchVars

(* Whoever calls again after a call that died or raised goes on with the   *)
(* pages (openalex.py: "acquisition with resumable, allowlisted API        *)
(* pages"; "Roll back one complete page appended after the last durable    *)
(* resume").  Unless a line is torn: that is refused on purpose.           *)
PagesAreResumable == []<>(torn \/ call # "none")

=============================================================================

---------------------------- MODULE Confirmations ----------------------------
(***************************************************************************)
(* Actions that a user has to confirm: how execute prepares one and issues *)
(* a grant for it, and how confirm consumes the grant and carries it out   *)
(* (services/api/app/governance_skill_runtime/gateway.py), with the grants,*)
(* reports and audit events of the store (audit_store.py beside it), the   *)
(* reviews of a case (services/api/app/gfm_governance_store.py) and the    *)
(* runs the GFM process creates (services/api/app/gfm_governance.py).      *)
(*                                                                         *)
(* The API is one event loop in one process.  An action is one transaction *)
(* or one stretch of code without; loop names who holds the loop between   *)
(* two of them that no await separates, and the others have to wait.  The  *)
(* process may die between any two.  Whatever a user does to the case over *)
(* other routes is ChangeCase.                                             *)
(*                                                                         *)
(* Abstractions: of the case only its version, which stands for its hash   *)
(* and grows with every change, and whether it is active; of a payload the *)
(* version it was read from and the text of a draft; a run has no case.    *)
(* The audit chain is kept as the status that each execution and each      *)
(* confirmation appended to it.                                            *)
(***************************************************************************)
EXTENDS Naturals

CONSTANTS
  RunGrants,     \* executions of run_governance_analysis
  ReportGrants,  \* executions of draft_review_report
  ReviewGrants,  \* submit_review: issued before this version of the program,
                 \* which consumes such grants but issues none
  Calls,         \* requests to confirm
  Texts,         \* narratives of a draft, with what it cites
  NoGrant,
  Free,          \* nobody holds the event loop
  MaxVersion     \* the bound on versions of the case

Grants == RunGrants \cup ReportGrants \cup ReviewGrants

ASSUME ConfirmationsAssumption ==
  /\ RunGrants \cap ReportGrants = {}
  /\ (RunGrants \cup ReportGrants) \cap ReviewGrants = {}
  /\ Grants \cap Calls = {}
  /\ Free \notin Grants \cup Calls
  /\ Texts # {}
  /\ MaxVersion \in Nat \ {0}
  /\ NoGrant \notin Grants
  /\ NoGrant \notin [used : BOOLEAN, expired : BOOLEAN,
                     version : 1..MaxVersion, text : Texts]

VARIABLES
  grant,         \* confirmation_grants and confirmation_events
  reports,       \* the calls that added a row to confirmed_reports
  skillAudit,    \* skill_audit_events: the status of each execution
  confirmAudit,  \* skill_audit_events: the status of each confirmation
  version,       \* of the case
  active,        \* the case is active
  reviews,       \* the version each call added its review to, 0 if none
  runs,          \* the calls for which the GFM process created a run
  bound,         \* the calls that stored the binding of their run
  wire,          \* what became of a call's request to the GFM process
  prep,          \* where each execution is, or how it ended
  seen,          \* the version of the case it read
  pc,            \* where each confirmation is, or how it ended
  token,         \* the grant it was sent for
  loop           \* who holds the event loop

case == <<version, active, reviews>>
gfm == <<runs, bound, wire>>
store == <<grant, reports, skillAudit, confirmAudit>>
execution == <<prep, seen>>
confirmation == <<pc, token>>
vars == <<store, case, gfm, execution, confirmation, loop>>

Payloads == [used : BOOLEAN, expired : BOOLEAN, version : 1..MaxVersion,
             text : Texts]
Unused(v, text) ==
  [used |-> FALSE, expired |-> FALSE, version |-> v, text |-> text]

Init ==
  /\ version = 1
  /\ active \in BOOLEAN
  /\ grant \in [Grants -> {NoGrant} \cup {Unused(1, t) : t \in Texts}]
  /\ \A g \in Grants : grant[g] # NoGrant <=> g \in ReviewGrants
  /\ reports = {}
  /\ skillAudit = [g \in Grants |-> "none"]
  /\ confirmAudit = [c \in Calls |-> "none"]
  /\ reviews = [c \in Calls |-> 0]
  /\ runs = {}
  /\ bound = {}
  /\ wire = [c \in Calls |-> "unused"]
  /\ prep = [g \in Grants |-> IF g \in ReviewGrants THEN "answered" ELSE "none"]
  /\ seen = [g \in Grants |-> 0]
  /\ pc = [c \in Calls |-> "new"]
  /\ token = [c \in Calls |-> NoGrant]
  /\ loop = Free

\* x runs: it holds the loop, or nobody does.  It goes on to hold it, or yields.
MayRun(x) == loop \in {Free, x}
Keeps(x) == MayRun(x) /\ loop' = x
Yields(x) == MayRun(x) /\ loop' = Free

-----------------------------------------------------------------------------
(* execute, for a skill whose effect has to be confirmed.                  *)

At(g, place) == prep' = [prep EXCEPT ![g] = place]

PrepareUnread(g) ==  \* takes the draft of whatever case there is
  /\ prep[g] = "none"
  /\ Yields(g)
  /\ At(g, "working")
  /\ UNCHANGED <<store, case, gfm, seen, confirmation>>

\* The case is read; its result, the skill and the narrative are awaited.
Prepare(g) ==
  /\ prep[g] = "none"
  /\ Yields(g)
  /\ At(g, "working")
  /\ seen' = [seen EXCEPT ![g] = version]
  /\ UNCHANGED <<store, case, gfm, confirmation>>

\* issue_confirmation.
IssueConfirmation(g, text) ==
  /\ prep[g] = "working"
  /\ Keeps(g)
  /\ At(g, "issued")
  /\ grant' = [grant EXCEPT ![g] = Unused(seen[g], text)]
  /\ UNCHANGED <<reports, skillAudit, confirmAudit, case, gfm, seen,
                 confirmation>>

\* Only now does anybody get to know the token.
AnswerPrepared(g) ==
  /\ prep[g] = "issued"
  /\ Yields(g)
  /\ At(g, "answered")
  /\ skillAudit' = [skillAudit EXCEPT ![g] = "confirmation_required"]
  /\ UNCHANGED <<grant, reports, confirmAudit, case, gfm, seen, confirmation>>

\* The handler of every exception, that of append_audit included.
FailPreparationAnswering(g) ==  \* answers with the token nevertheless
  /\ prep[g] \in {"working", "issued"}
  /\ Yields(g)
  /\ At(g, IF prep[g] = "issued" THEN "answered" ELSE "failed")
  /\ \/ skillAudit' = [skillAudit EXCEPT ![g] = "failed"]
     \/ UNCHANGED skillAudit
  /\ UNCHANGED <<grant, reports, confirmAudit, case, gfm, seen, confirmation>>

FailPreparation(g) ==
  /\ prep[g] \in {"working", "issued"}
  /\ Yields(g)
  /\ At(g, "failed")
  /\ \/ skillAudit' = [skillAudit EXCEPT ![g] = "failed"]
     \/ UNCHANGED skillAudit
  /\ UNCHANGED <<grant, reports, confirmAudit, case, gfm, seen, confirmation>>

-----------------------------------------------------------------------------
(* confirm.                                                                *)

GoTo(c, place) == pc' = [pc EXCEPT ![c] = place]

ConsumableUnexpired(g) == ~grant[g].expired  \* does not look at the events
Consumable(g) == ~grant[g].used /\ ~grant[g].expired

\* consume_confirmation: the grant is spent before anything is done for it.
ConsumeConfirmation(c, g) ==
  /\ pc[c] = "new"
  /\ prep[g] = "answered"
  /\ Consumable(g)
  /\ Keeps(c)
  /\ GoTo(c, "consumed")
  /\ token' = [token EXCEPT ![c] = g]
  /\ grant' = [grant EXCEPT ![g].used = TRUE]
  /\ UNCHANGED <<reports, skillAudit, confirmAudit, case, gfm, execution>>

\* The grant is used or expired, or the store fails.
RefuseConfirmation(c, g) ==
  /\ pc[c] = "new"
  /\ prep[g] = "answered"
  /\ Yields(c)
  /\ GoTo(c, "refused")
  /\ token' = [token EXCEPT ![c] = g]
  /\ UNCHANGED <<store, case, gfm, execution>>

\* create_run checks the artifact and awaits the capabilities of the model.
CheckModel(c) ==
  /\ pc[c] = "consumed"
  /\ token[c] \in RunGrants
  /\ Yields(c)
  /\ GoTo(c, "checking")
  /\ UNCHANGED <<store, case, gfm, execution, token>>

AskForRun(c) ==
  /\ pc[c] = "checking"
  /\ Yields(c)
  /\ GoTo(c, "asking")
  /\ wire' = [wire EXCEPT ![c] = "requested"]
  /\ UNCHANGED <<store, case, runs, bound, execution, token>>

BindRunOrNot(c) ==  \* swallows a failure to store the binding
  /\ pc[c] = "asking"
  /\ wire[c] = "created"
  /\ Keeps(c)
  /\ GoTo(c, "effected")
  /\ bound' \in {bound, bound \cup {c}}
  /\ UNCHANGED <<store, case, runs, wire, execution, token>>

\* The run has been answered and is what was asked for.
BindRun(c) ==
  /\ pc[c] = "asking"
  /\ wire[c] = "created"
  /\ Keeps(c)
  /\ GoTo(c, "effected")
  /\ bound' = bound \cup {c}
  /\ UNCHANGED <<store, case, runs, wire, execution, token>>

\* A draft is saved once: two reports with one hash would break the table.
Draft(c) == <<grant[token[c]].version, grant[token[c]].text>>

SaveReport(c) ==
  /\ pc[c] = "consumed"
  /\ token[c] \in ReportGrants
  /\ \A d \in reports : Draft(d) # Draft(c)
  /\ Keeps(c)
  /\ GoTo(c, "effected")
  /\ reports' = reports \cup {c}
  /\ UNCHANGED <<grant, skillAudit, confirmAudit, case, gfm, execution, token>>

\* The identity of graph and model and the run's result are awaited.
VerifyIdentity(c) ==
  /\ pc[c] = "consumed"
  /\ token[c] \in ReviewGrants
  /\ Yields(c)
  /\ GoTo(c, "verifying")
  /\ UNCHANGED <<store, case, gfm, execution, token>>

CompareCaseEarly(c) ==  \* and awaits something before it stores the review
  /\ pc[c] = "verifying"
  /\ version = grant[token[c]].version
  /\ Yields(c)
  /\ GoTo(c, "compared")
  /\ UNCHANGED <<store, case, gfm, execution, token>>

CompareRunOnly(c) ==  \* compares the run and its result but not the case
  /\ pc[c] = "verifying"
  /\ Keeps(c)
  /\ GoTo(c, "compared")
  /\ UNCHANGED <<store, case, gfm, execution, token>>

CompareCase(c) ==
  /\ pc[c] = "verifying"
  /\ version = grant[token[c]].version
  /\ Keeps(c)
  /\ GoTo(c, "compared")
  /\ UNCHANGED <<store, case, gfm, execution, token>>

\* add_review reads the case again after the commit, which may fail.
AddReview(c) ==
  /\ pc[c] = "compared"
  /\ active
  /\ version < MaxVersion
  /\ Keeps(c)
  /\ reviews' = [reviews EXCEPT ![c] = version]
  /\ version' = version + 1
  /\ GoTo(c, "effected") \/ GoTo(c, "failing")
  /\ UNCHANGED <<store, active, gfm, execution, token>>

AnswerConfirmed(c) ==
  /\ pc[c] = "effected"
  /\ Yields(c)
  /\ GoTo(c, "done")
  /\ confirmAudit' = [confirmAudit EXCEPT ![c] = "completed"]
  /\ UNCHANGED <<grant, reports, skillAudit, case, gfm, execution, token>>

\* The handler of every exception: a check, an await, a transaction or the
\* audit of what has been done.
FailConfirmation(c) ==
  /\ pc[c] \in {"consumed", "checking", "asking", "verifying", "compared",
                "effected", "failing"}
  /\ Yields(c)
  /\ GoTo(c, "failed")
  /\ \/ confirmAudit' = [confirmAudit EXCEPT ![c] = "failed"]
     \/ UNCHANGED confirmAudit
  /\ UNCHANGED <<grant, reports, skillAudit, case, gfm, execution, token>>

-----------------------------------------------------------------------------
(* What happens around them.                                               *)

GfmCreatesRun(c) ==
  /\ wire[c] = "requested"
  /\ runs' = runs \cup {c}
  /\ wire' = [wire EXCEPT ![c] = "created"]
  /\ UNCHANGED <<store, case, bound, execution, confirmation, loop>>

\* It refuses, or the request or its answer is lost.
GfmRefusesRun(c) ==
  /\ wire[c] = "requested"
  /\ runs' \in {runs, runs \cup {c}}
  /\ wire' = [wire EXCEPT ![c] = "refused"]
  /\ UNCHANGED <<store, case, bound, execution, confirmation, loop>>

ChangeCase ==
  /\ loop = Free
  /\ version < MaxVersion
  /\ version' = version + 1
  /\ active' \in BOOLEAN
  /\ UNCHANGED <<store, reviews, gfm, execution, confirmation, loop>>

\* confirmation_ttl_seconds have passed.
Expire(g) ==
  /\ grant[g] # NoGrant
  /\ ~grant[g].expired
  /\ grant' = [grant EXCEPT ![g].expired = TRUE]
  /\ UNCHANGED <<reports, skillAudit, confirmAudit, case, gfm, execution,
                 confirmation, loop>>

Ended == {"done", "failed", "refused", "died"}

Crash ==
  /\ prep' = [g \in Grants |->
                IF prep[g] \in {"working", "issued"} THEN "died" ELSE prep[g]]
  /\ pc' = [c \in Calls |->
              IF pc[c] \in Ended \cup {"new"} THEN pc[c] ELSE "died"]
  /\ loop' = Free
  /\ UNCHANGED <<store, case, gfm, seen, token>>

-----------------------------------------------------------------------------
Execute(g) ==
  \/ Prepare(g)
  \/ \E text \in Texts : IssueConfirmation(g, text)
  \/ AnswerPrepared(g)
  \/ FailPreparation(g)

Confirm(c) ==
  \/ \E g \in Grants : ConsumeConfirmation(c, g) \/ RefuseConfirmation(c, g)
  \/ CheckModel(c)
  \/ AskForRun(c)
  \/ BindRun(c)
  \/ SaveReport(c)
  \/ VerifyIdentity(c)
  \/ CompareCase(c)
  \/ AddReview(c)
  \/ AnswerConfirmed(c)
  \/ FailConfirmation(c)
  \/ GfmCreatesRun(c)
  \/ GfmRefusesRun(c)

Next ==
  \/ \E g \in Grants : Execute(g) \/ Expire(g)
  \/ \E c \in Calls : Confirm(c)
  \/ ChangeCase
  \/ Crash

Spec == Init /\ [][Next]_vars

-----------------------------------------------------------------------------
(* Every variable holds what the code may put there; a grant is issued for *)
(* a case that was read (issue_confirmation).                              *)
TypeOK ==
  /\ grant \in [Grants -> Payloads \cup {NoGrant}]
  /\ reports \subseteq Calls
  /\ skillAudit \in [Grants -> {"none", "confirmation_required", "failed"}]
  /\ confirmAudit \in [Calls -> {"none", "completed", "failed"}]
  /\ version \in 1..MaxVersion
  /\ active \in BOOLEAN
  /\ reviews \in [Calls -> 0..MaxVersion]
  /\ runs \subseteq Calls
  /\ bound \subseteq Calls
  /\ wire \in [Calls -> {"unused", "requested", "created", "refused"}]
  /\ prep \in [Grants -> {"none", "working", "issued", "answered", "failed",
                          "died"}]
  /\ seen \in [Grants -> 0..MaxVersion]
  /\ pc \in [Calls -> {"new", "consumed", "checking", "asking", "verifying",
                       "compared", "effected", "failing"} \cup Ended]
  /\ token \in [Calls -> Grants \cup {NoGrant}]
  /\ loop \in Grants \cup Calls \cup {Free}

HasEffect(c) == c \in runs \/ c \in reports \/ reviews[c] # 0

(* Of all the requests sent with one token at most one has an effect: one  *)
(* run, one report or one review, however they interleave, whatever is     *)
(* lost, and also after the process died between the consumption of the    *)
(* grant and its effect (consume_confirmation, confirm).                   *)
OncePerGrant ==
  \A c, d \in Calls :
    HasEffect(c) /\ HasEffect(d) /\ token[c] = token[d] => c = d

(* A confirmed review is added to the very version of the case the user    *)
(* saw when it was prepared, although the case is compared after two       *)
(* awaits and in a transaction of its own (confirm, add_review).           *)
ReviewFitsCase ==
  \A c \in Calls :
    reviews[c] # 0 =>
      /\ token[c] \in ReviewGrants
      /\ reviews[c] = grant[token[c]].version

(* Of several reviews prepared for one version of a case only one gets in: *)
(* the others were decided without knowing it (confirm).                   *)
OneReviewPerVersion ==
  \A c, d \in Calls :
    /\ reviews[c] # 0
    /\ reviews[d] # 0
    /\ grant[token[c]].version = grant[token[d]].version
    => c = d

(* What the audit chain reports as completed has happened and is on        *)
(* record: the run exists and is bound, the report or the review is stored *)
(* (confirm, append_audit).                                                *)
CompletedIsDone ==
  \A c \in Calls :
    confirmAudit[c] = "completed" =>
      \/ token[c] \in RunGrants /\ c \in runs \cap bound
      \/ token[c] \in ReportGrants /\ c \in reports
      \/ token[c] \in ReviewGrants /\ reviews[c] # 0

(* Nothing is carried out whose preparation the audit chain does not have: *)
(* a token is only known once the audit event of its execution is          *)
(* committed (execute, append_audit).                                      *)
PreparedIsAudited ==
  \A c \in Calls :
    HasEffect(c) /\ token[c] \notin ReviewGrants =>
      skillAudit[token[c]] = "confirmation_required"

=============================================================================

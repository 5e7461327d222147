------------------------ MODULE ConfirmationsProofs ------------------------
(***************************************************************************)
(* What Confirmations promises, for any number of executions and of        *)
(* requests to confirm.  The inductive invariant adds to the properties    *)
(* whose grant a request has spent, what each place of execute and confirm *)
(* tells of the stores, and that the versions reviews were added to lie    *)
(* behind the present one.                                                 *)
(***************************************************************************)
EXTENDS Confirmations, TLAPS

(* The requests that have consumed a grant.                                *)
Spent(c) == pc[c] \notin {"new", "refused"}

(* Where an execution is tells what there is of its grant.                 *)
GrantInv ==
  \A g \in Grants :
    /\ prep[g] \in {"none", "working"} => grant[g] = NoGrant /\ g \notin ReviewGrants
    /\ prep[g] \in {"issued", "answered"} => grant[g] \in Payloads
    /\ prep[g] = "working" => seen[g] # 0
    /\ prep[g] = "answered" /\ g \notin ReviewGrants =>
         skillAudit[g] = "confirmation_required"

(* A request that has spent a grant has spent it alone; one that has not   *)
(* has done nothing.                                                       *)
SpentInv ==
  \A c \in Calls :
    /\ Spent(c) =>
         /\ token[c] \in Grants
         /\ prep[token[c]] = "answered"
         /\ grant[token[c]].used
         /\ \A d \in Calls : Spent(d) /\ token[d] = token[c] => d = c
    /\ ~Spent(c) =>
         /\ ~HasEffect(c)
         /\ wire[c] = "unused"
         /\ confirmAudit[c] = "none"

(* What a request asks of the GFM process and stores fits its grant.       *)
KindInv ==
  \A c \in Calls :
    /\ pc[c] \in {"checking", "asking"} \/ wire[c] # "unused" \/ c \in runs =>
         token[c] \in RunGrants
    /\ c \in reports => token[c] \in ReportGrants
    /\ pc[c] \in {"verifying", "compared"} \/ reviews[c] # 0 =>
         token[c] \in ReviewGrants
    /\ wire[c] = "created" => c \in runs

(* Its effect is there and on record.                                      *)
Done(c) ==
  \/ token[c] \in RunGrants /\ c \in runs \cap bound
  \/ token[c] \in ReportGrants /\ c \in reports
  \/ token[c] \in ReviewGrants /\ reviews[c] # 0

DoneInv ==
  \A c \in Calls :
    pc[c] = "effected" \/ confirmAudit[c] = "completed" => Done(c)

(* No version gets two confirmed reviews, and a request that has compared  *)
(* the case holds the event loop until it stores its own.                  *)
ReviewInv ==
  \A c \in Calls :
    /\ reviews[c] < version
    /\ reviews[c] # 0 => reviews[c] = grant[token[c]].version
    /\ \A d \in Calls : reviews[c] # 0 /\ reviews[d] = reviews[c] => d = c
    /\ pc[c] = "compared" => loop = c /\ version = grant[token[c]].version

IInv ==
  /\ TypeOK
  /\ GrantInv
  /\ SpentInv
  /\ KindInv
  /\ DoneInv
  /\ ReviewInv

-----------------------------------------------------------------------------
LEMMA Initially == Init => IInv
PROOF
  <1> SUFFICES ASSUME Init PROVE IInv
    OBVIOUS
  <1>1. \A g \in Grants : grant[g] \in Payloads \cup {NoGrant}
    <2>1. \A t \in Texts : Unused(1, t) \in Payloads
      BY ConfirmationsAssumption DEF Unused, Payloads
    <2> QED BY <2>1 DEF Init
  <1>2. TypeOK
    BY <1>1, ConfirmationsAssumption DEF Init, TypeOK, Ended, Grants
  <1>3. GrantInv
    BY <1>1, ConfirmationsAssumption DEF Init, GrantInv
  <1>4. SpentInv /\ KindInv /\ DoneInv
    BY DEF Init, SpentInv, Spent, HasEffect, KindInv, DoneInv
  <1>5. ReviewInv
    BY DEF Init, ReviewInv
  <1> QED BY <1>2, <1>3, <1>4, <1>5 DEF IInv

-----------------------------------------------------------------------------
(* execute.                                                                *)

LEMMA PrepareStep ==
  ASSUME IInv, NEW g \in Grants, Prepare(g)
  PROVE  IInv'
PROOF
  <1>1. TypeOK'
    BY DEF Prepare, Yields, At, store, case, gfm, confirmation, IInv, TypeOK
  <1>2. GrantInv'
    BY DEF Prepare, Yields, At, store, case, gfm, confirmation, IInv, TypeOK,
       GrantInv
  <1>3. SpentInv'
    BY DEF Prepare, Yields, At, store, case, gfm, confirmation, IInv, TypeOK,
       SpentInv, Spent, HasEffect, GrantInv
  <1>4. ReviewInv'
    BY ConfirmationsAssumption DEF Prepare, Yields, At, store, case, gfm,
       confirmation, IInv, TypeOK, ReviewInv, SpentInv, Spent, HasEffect,
       KindInv, MayRun
  <1>5. KindInv' /\ DoneInv'
    BY DEF Prepare, store, case, gfm, confirmation, IInv, KindInv, DoneInv,
       Done
  <1> QED BY <1>1, <1>2, <1>3, <1>4, <1>5 DEF IInv

LEMMA IssueConfirmationStep ==
  ASSUME IInv, NEW g \in Grants, NEW text \in Texts, IssueConfirmation(g, text)
  PROVE  IInv'
PROOF
  <1>1. TypeOK'
    <2>1. seen[g] \in 1..MaxVersion
      BY ConfirmationsAssumption DEF IssueConfirmation, IInv, TypeOK, GrantInv
    <2>2. Unused(seen[g], text) \in Payloads
      BY <2>1 DEF Unused, Payloads
    <2> QED
      BY <2>2 DEF IssueConfirmation, Keeps, At, case, gfm, confirmation, IInv,
         TypeOK
  <1>2. GrantInv'
    <2>1. seen[g] \in 1..MaxVersion
      BY ConfirmationsAssumption DEF IssueConfirmation, IInv, TypeOK, GrantInv
    <2>2. Unused(seen[g], text) \in Payloads
      BY <2>1 DEF Unused, Payloads
    <2> QED
      BY <2>2 DEF IssueConfirmation, Keeps, At, case, gfm, confirmation, IInv,
         TypeOK, GrantInv
  <1>3. SpentInv'
    BY DEF IssueConfirmation, Keeps, At, case, gfm, confirmation, Unused,
       IInv, TypeOK, SpentInv, Spent, HasEffect, GrantInv
  <1>4. ReviewInv'
    BY ConfirmationsAssumption DEF IssueConfirmation, Keeps, At, case, gfm,
       confirmation, Unused, IInv, TypeOK, ReviewInv, SpentInv, Spent, HasEffect,
       KindInv, MayRun
  <1>5. KindInv' /\ DoneInv'
    BY DEF IssueConfirmation, case, gfm, confirmation, IInv, KindInv, DoneInv,
       Done
  <1> QED BY <1>1, <1>2, <1>3, <1>4, <1>5 DEF IInv

LEMMA AnswerPreparedStep ==
  ASSUME IInv, NEW g \in Grants, AnswerPrepared(g)
  PROVE  IInv'
PROOF
  <1>1. TypeOK'
    BY DEF AnswerPrepared, Yields, At, case, gfm, confirmation, IInv, TypeOK
  <1>2. GrantInv'
    BY DEF AnswerPrepared, Yields, At, case, gfm, confirmation, IInv, TypeOK,
       GrantInv
  <1>3. SpentInv'
    BY DEF AnswerPrepared, Yields, At, case, gfm, confirmation, IInv, TypeOK,
       SpentInv, Spent, HasEffect, GrantInv
  <1>4. ReviewInv'
    BY ConfirmationsAssumption DEF AnswerPrepared, Yields, At, case, gfm,
       confirmation, IInv, TypeOK, ReviewInv, SpentInv, Spent, HasEffect,
       KindInv, MayRun
  <1>5. KindInv' /\ DoneInv'
    BY DEF AnswerPrepared, case, gfm, confirmation, IInv, KindInv, DoneInv,
       Done
  <1> QED BY <1>1, <1>2, <1>3, <1>4, <1>5 DEF IInv

LEMMA FailPreparationStep ==
  ASSUME IInv, NEW g \in Grants, FailPreparation(g)
  PROVE  IInv'
PROOF
  <1>1. TypeOK'
    BY DEF FailPreparation, Yields, At, case, gfm, confirmation, IInv, TypeOK
  <1>2. GrantInv'
    BY DEF FailPreparation, Yields, At, case, gfm, confirmation, IInv, TypeOK,
       GrantInv
  <1>3. SpentInv'
    BY DEF FailPreparation, Yields, At, case, gfm, confirmation, IInv, TypeOK,
       SpentInv, Spent, HasEffect, GrantInv
  <1>4. ReviewInv'
    BY ConfirmationsAssumption DEF FailPreparation, Yields, At, case, gfm,
       confirmation, IInv, TypeOK, ReviewInv, SpentInv, Spent, HasEffect,
       KindInv, MayRun
  <1>5. KindInv' /\ DoneInv'
    BY DEF FailPreparation, case, gfm, confirmation, IInv, KindInv, DoneInv,
       Done
  <1> QED BY <1>1, <1>2, <1>3, <1>4, <1>5 DEF IInv

(* The store only marks a grant as used or expired.                        *)
LEMMA Marked ==
  ASSUME TypeOK, NEW g \in Grants, grant[g] # NoGrant, NEW value,
         \/ value = [grant[g] EXCEPT !.used = TRUE]
         \/ value = [grant[g] EXCEPT !.expired = TRUE],
         grant' = [grant EXCEPT ![g] = value]
  PROVE  /\ value \in Payloads
         /\ grant' \in [Grants -> Payloads \cup {NoGrant}]
         /\ \A h \in Grants : grant[h] \in Payloads => grant'[h] \in Payloads
         /\ \A h \in Grants : grant[h] = NoGrant => grant'[h] = NoGrant
         /\ \A h \in Grants : grant'[h].version = grant[h].version
         /\ \A h \in Grants : grant[h] # NoGrant /\ grant[h].used => grant'[h].used
PROOF
  <1>1. grant[g] \in Payloads
    BY DEF TypeOK
  <1>2. value \in Payloads /\ value.version = grant[g].version
    BY <1>1 DEF Payloads
  <1> QED BY <1>1, <1>2 DEF TypeOK, Payloads

LEMMA ExpireStep ==
  ASSUME IInv, NEW g \in Grants, Expire(g)
  PROVE  IInv'
PROOF
  <1>1. TypeOK'
    BY Marked DEF Expire, case, gfm, execution, confirmation, IInv, TypeOK
  <1>2. GrantInv'
    BY Marked DEF Expire, case, gfm, execution, confirmation, IInv, TypeOK,
       GrantInv
  <1>3. SpentInv'
    BY DEF Expire, case, gfm, execution, confirmation, IInv, TypeOK, SpentInv,
       Spent, HasEffect, GrantInv
  <1>4. ReviewInv'
    BY DEF Expire, case, gfm, execution, confirmation, IInv, TypeOK,
       ReviewInv, SpentInv, Spent, HasEffect, KindInv
  <1>5. KindInv' /\ DoneInv'
    BY DEF Expire, case, gfm, execution, confirmation, IInv, KindInv, DoneInv,
       Done
  <1> QED BY <1>1, <1>2, <1>3, <1>4, <1>5 DEF IInv

-----------------------------------------------------------------------------
(* confirm.                                                                *)

LEMMA ConsumeConfirmationStep ==
  ASSUME IInv, NEW c \in Calls, NEW g \in Grants, ConsumeConfirmation(c, g)
  PROVE  IInv'
PROOF
  <1>1. TypeOK'
    <2>1. grant[g] # NoGrant
      BY ConfirmationsAssumption
      DEF ConsumeConfirmation, IInv, GrantInv, Payloads
    <2> QED
      BY <2>1, Marked DEF ConsumeConfirmation, Keeps, GoTo, case, gfm, execution,
         IInv, TypeOK
  <1>2. GrantInv'
    <2>1. grant[g] # NoGrant
      BY ConfirmationsAssumption
      DEF ConsumeConfirmation, IInv, GrantInv, Payloads
    <2> QED
      BY <2>1, Marked DEF ConsumeConfirmation, Keeps, GoTo, case, gfm, execution,
         IInv, TypeOK, GrantInv
  <1>3. SpentInv'
    BY DEF ConsumeConfirmation, Keeps, GoTo, case, gfm, execution, Consumable,
       IInv, TypeOK, SpentInv, Spent, HasEffect, GrantInv
  <1>4. KindInv'
    BY DEF ConsumeConfirmation, Keeps, GoTo, case, gfm, execution, Consumable,
       IInv, TypeOK, KindInv, SpentInv, Spent, HasEffect
  <1>5. DoneInv'
    BY DEF ConsumeConfirmation, Keeps, GoTo, case, gfm, execution, Consumable,
       IInv, TypeOK, DoneInv, Done, SpentInv, Spent, HasEffect, KindInv
  <1>6. ReviewInv'
    BY ConfirmationsAssumption DEF ConsumeConfirmation, Keeps, GoTo, case,
       gfm, execution, Consumable, IInv, TypeOK, ReviewInv, SpentInv, Spent,
       HasEffect, KindInv, MayRun
  <1> QED BY <1>1, <1>2, <1>3, <1>4, <1>5, <1>6 DEF IInv

LEMMA RefuseConfirmationStep ==
  ASSUME IInv, NEW c \in Calls, NEW g \in Grants, RefuseConfirmation(c, g)
  PROVE  IInv'
PROOF
  <1>1. TypeOK'
    BY DEF RefuseConfirmation, Yields, GoTo, store, case, gfm, execution,
       IInv, TypeOK, Ended
  <1>2. SpentInv'
    BY DEF RefuseConfirmation, Yields, GoTo, store, case, gfm, execution,
       IInv, TypeOK, SpentInv, Spent, HasEffect, GrantInv
  <1>3. KindInv'
    BY DEF RefuseConfirmation, Yields, GoTo, store, case, gfm, execution,
       IInv, TypeOK, KindInv, SpentInv, Spent, HasEffect
  <1>4. DoneInv'
    BY DEF RefuseConfirmation, Yields, GoTo, store, case, gfm, execution,
       IInv, TypeOK, DoneInv, Done, SpentInv, Spent, HasEffect, KindInv
  <1>5. ReviewInv'
    BY ConfirmationsAssumption DEF RefuseConfirmation, Yields, GoTo, store,
       case, gfm, execution, IInv, TypeOK, ReviewInv, SpentInv, Spent, HasEffect,
       KindInv, MayRun
  <1>6. GrantInv'
    BY DEF RefuseConfirmation, store, case, gfm, execution, IInv, GrantInv
  <1> QED BY <1>1, <1>2, <1>3, <1>4, <1>5, <1>6 DEF IInv

LEMMA CheckModelStep ==
  ASSUME IInv, NEW c \in Calls, CheckModel(c)
  PROVE  IInv'
PROOF
  <1>1. TypeOK'
    BY DEF CheckModel, Yields, GoTo, store, case, gfm, execution, IInv, TypeOK
  <1>2. SpentInv'
    BY DEF CheckModel, Yields, GoTo, store, case, gfm, execution, IInv,
       TypeOK, SpentInv, Spent, HasEffect, GrantInv
  <1>3. KindInv'
    BY DEF CheckModel, Yields, GoTo, store, case, gfm, execution, IInv,
       TypeOK, KindInv, SpentInv, Spent, HasEffect
  <1>4. DoneInv'
    BY DEF CheckModel, Yields, GoTo, store, case, gfm, execution, IInv,
       TypeOK, DoneInv, Done, SpentInv, Spent, HasEffect, KindInv
  <1>5. ReviewInv'
    BY ConfirmationsAssumption DEF CheckModel, Yields, GoTo, store, case, gfm,
       execution, IInv, TypeOK, ReviewInv, SpentInv, Spent, HasEffect, KindInv,
       MayRun
  <1>6. GrantInv'
    BY DEF CheckModel, store, case, gfm, execution, IInv, GrantInv
  <1> QED BY <1>1, <1>2, <1>3, <1>4, <1>5, <1>6 DEF IInv

LEMMA AskForRunStep ==
  ASSUME IInv, NEW c \in Calls, AskForRun(c)
  PROVE  IInv'
PROOF
  <1>1. TypeOK'
    BY DEF AskForRun, Yields, GoTo, store, case, execution, IInv, TypeOK
  <1>2. SpentInv'
    BY DEF AskForRun, Yields, GoTo, store, case, execution, IInv, TypeOK,
       SpentInv, Spent, HasEffect, GrantInv
  <1>3. KindInv'
    BY DEF AskForRun, Yields, GoTo, store, case, execution, IInv, TypeOK,
       KindInv, SpentInv, Spent, HasEffect
  <1>4. DoneInv'
    BY DEF AskForRun, Yields, GoTo, store, case, execution, IInv, TypeOK,
       DoneInv, Done, SpentInv, Spent, HasEffect, KindInv
  <1>5. ReviewInv'
    BY ConfirmationsAssumption DEF AskForRun, Yields, GoTo, store, case,
       execution, IInv, TypeOK, ReviewInv, SpentInv, Spent, HasEffect, KindInv,
       MayRun
  <1>6. GrantInv'
    BY DEF AskForRun, store, case, execution, IInv, GrantInv
  <1> QED BY <1>1, <1>2, <1>3, <1>4, <1>5, <1>6 DEF IInv

LEMMA BindRunStep ==
  ASSUME IInv, NEW c \in Calls, BindRun(c)
  PROVE  IInv'
PROOF
  <1>1. TypeOK'
    BY DEF BindRun, Keeps, GoTo, store, case, execution, IInv, TypeOK
  <1>2. SpentInv'
    BY DEF BindRun, Keeps, GoTo, store, case, execution, IInv, TypeOK,
       SpentInv, Spent, HasEffect, GrantInv
  <1>3. KindInv'
    BY DEF BindRun, Keeps, GoTo, store, case, execution, IInv, TypeOK,
       KindInv, SpentInv, Spent, HasEffect
  <1>4. DoneInv'
    BY DEF BindRun, Keeps, GoTo, store, case, execution, IInv, TypeOK,
       DoneInv, Done, SpentInv, Spent, HasEffect, KindInv
  <1>5. ReviewInv'
    BY ConfirmationsAssumption DEF BindRun, Keeps, GoTo, store, case,
       execution, IInv, TypeOK, ReviewInv, SpentInv, Spent, HasEffect, KindInv,
       MayRun
  <1>6. GrantInv'
    BY DEF BindRun, store, case, execution, IInv, GrantInv
  <1> QED BY <1>1, <1>2, <1>3, <1>4, <1>5, <1>6 DEF IInv

LEMMA SaveReportStep ==
  ASSUME IInv, NEW c \in Calls, SaveReport(c)
  PROVE  IInv'
PROOF
  <1>1. TypeOK'
    BY DEF SaveReport, Keeps, GoTo, case, gfm, execution, IInv, TypeOK
  <1>2. SpentInv'
    BY DEF SaveReport, Keeps, GoTo, case, gfm, execution, IInv, TypeOK,
       SpentInv, Spent, HasEffect, GrantInv
  <1>3. KindInv'
    BY DEF SaveReport, Keeps, GoTo, case, gfm, execution, IInv, TypeOK,
       KindInv, SpentInv, Spent, HasEffect
  <1>4. DoneInv'
    BY DEF SaveReport, Keeps, GoTo, case, gfm, execution, IInv, TypeOK,
       DoneInv, Done, SpentInv, Spent, HasEffect, KindInv
  <1>5. ReviewInv'
    BY ConfirmationsAssumption DEF SaveReport, Keeps, GoTo, case, gfm,
       execution, IInv, TypeOK, ReviewInv, SpentInv, Spent, HasEffect, KindInv,
       MayRun
  <1>6. GrantInv'
    BY DEF SaveReport, case, gfm, execution, IInv, GrantInv
  <1> QED BY <1>1, <1>2, <1>3, <1>4, <1>5, <1>6 DEF IInv

LEMMA VerifyIdentityStep ==
  ASSUME IInv, NEW c \in Calls, VerifyIdentity(c)
  PROVE  IInv'
PROOF
  <1>1. TypeOK'
    BY DEF VerifyIdentity, Yields, GoTo, store, case, gfm, execution, IInv,
       TypeOK
  <1>2. SpentInv'
    BY DEF VerifyIdentity, Yields, GoTo, store, case, gfm, execution, IInv,
       TypeOK, SpentInv, Spent, HasEffect, GrantInv
  <1>3. KindInv'
    BY DEF VerifyIdentity, Yields, GoTo, store, case, gfm, execution, IInv,
       TypeOK, KindInv, SpentInv, Spent, HasEffect
  <1>4. DoneInv'
    BY DEF VerifyIdentity, Yields, GoTo, store, case, gfm, execution, IInv,
       TypeOK, DoneInv, Done, SpentInv, Spent, HasEffect, KindInv
  <1>5. ReviewInv'
    BY ConfirmationsAssumption DEF VerifyIdentity, Yields, GoTo, store, case,
       gfm, execution, IInv, TypeOK, ReviewInv, SpentInv, Spent, HasEffect,
       KindInv, MayRun
  <1>6. GrantInv'
    BY DEF VerifyIdentity, store, case, gfm, execution, IInv, GrantInv
  <1> QED BY <1>1, <1>2, <1>3, <1>4, <1>5, <1>6 DEF IInv

LEMMA CompareCaseStep ==
  ASSUME IInv, NEW c \in Calls, CompareCase(c)
  PROVE  IInv'
PROOF
  <1>1. TypeOK'
    BY DEF CompareCase, Keeps, GoTo, store, case, gfm, execution, IInv, TypeOK
  <1>2. SpentInv'
    BY DEF CompareCase, Keeps, GoTo, store, case, gfm, execution, IInv,
       TypeOK, SpentInv, Spent, HasEffect, GrantInv
  <1>3. KindInv'
    BY DEF CompareCase, Keeps, GoTo, store, case, gfm, execution, IInv,
       TypeOK, KindInv, SpentInv, Spent, HasEffect
  <1>4. DoneInv'
    BY DEF CompareCase, Keeps, GoTo, store, case, gfm, execution, IInv,
       TypeOK, DoneInv, Done, SpentInv, Spent, HasEffect, KindInv
  <1>5. ReviewInv'
    BY ConfirmationsAssumption DEF CompareCase, Keeps, GoTo, store, case, gfm,
       execution, IInv, TypeOK, ReviewInv, SpentInv, Spent, HasEffect, KindInv,
       MayRun
  <1>6. GrantInv'
    BY DEF CompareCase, store, case, gfm, execution, IInv, GrantInv
  <1> QED BY <1>1, <1>2, <1>3, <1>4, <1>5, <1>6 DEF IInv

LEMMA AddReviewStep ==
  ASSUME IInv, NEW c \in Calls, AddReview(c)
  PROVE  IInv'
PROOF
  <1>1. TypeOK'
    BY ConfirmationsAssumption DEF AddReview, Keeps, GoTo, store, gfm,
       execution, IInv, TypeOK
  <1>2. SpentInv'
    BY DEF AddReview, Keeps, GoTo, store, gfm, execution, IInv, TypeOK,
       SpentInv, Spent, HasEffect, GrantInv
  <1>3. KindInv'
    BY DEF AddReview, Keeps, GoTo, store, gfm, execution, IInv, TypeOK,
       KindInv, SpentInv, Spent, HasEffect
  <1>4. DoneInv'
    BY DEF AddReview, Keeps, GoTo, store, gfm, execution, IInv, TypeOK,
       DoneInv, Done, SpentInv, Spent, HasEffect, KindInv
  <1>5. ReviewInv'
    BY ConfirmationsAssumption DEF AddReview, Keeps, GoTo, store, gfm,
       execution, IInv, TypeOK, ReviewInv, SpentInv, Spent, HasEffect, KindInv,
       MayRun
  <1>6. GrantInv'
    BY DEF AddReview, store, gfm, execution, IInv, GrantInv
  <1> QED BY <1>1, <1>2, <1>3, <1>4, <1>5, <1>6 DEF IInv

LEMMA AnswerConfirmedStep ==
  ASSUME IInv, NEW c \in Calls, AnswerConfirmed(c)
  PROVE  IInv'
PROOF
  <1>1. TypeOK'
    BY DEF AnswerConfirmed, Yields, GoTo, case, gfm, execution, IInv, TypeOK,
       Ended
  <1>2. SpentInv'
    BY DEF AnswerConfirmed, Yields, GoTo, case, gfm, execution, IInv, TypeOK,
       SpentInv, Spent, HasEffect, GrantInv
  <1>3. KindInv'
    BY DEF AnswerConfirmed, Yields, GoTo, case, gfm, execution, IInv, TypeOK,
       KindInv, SpentInv, Spent, HasEffect
  <1>4. DoneInv'
    BY DEF AnswerConfirmed, Yields, GoTo, case, gfm, execution, IInv, TypeOK,
       DoneInv, Done, SpentInv, Spent, HasEffect, KindInv
  <1>5. ReviewInv'
    BY ConfirmationsAssumption DEF AnswerConfirmed, Yields, GoTo, case, gfm,
       execution, IInv, TypeOK, ReviewInv, SpentInv, Spent, HasEffect, KindInv,
       MayRun
  <1>6. GrantInv'
    BY DEF AnswerConfirmed, case, gfm, execution, IInv, GrantInv
  <1> QED BY <1>1, <1>2, <1>3, <1>4, <1>5, <1>6 DEF IInv

LEMMA FailConfirmationStep ==
  ASSUME IInv, NEW c \in Calls, FailConfirmation(c)
  PROVE  IInv'
PROOF
  <1>1. TypeOK'
    BY DEF FailConfirmation, Yields, GoTo, case, gfm, execution, IInv, TypeOK,
       Ended
  <1>2. SpentInv'
    BY DEF FailConfirmation, Yields, GoTo, case, gfm, execution, IInv, TypeOK,
       SpentInv, Spent, HasEffect, GrantInv
  <1>3. KindInv'
    BY DEF FailConfirmation, Yields, GoTo, case, gfm, execution, IInv, TypeOK,
       KindInv, SpentInv, Spent, HasEffect
  <1>4. DoneInv'
    BY DEF FailConfirmation, Yields, GoTo, case, gfm, execution, IInv, TypeOK,
       DoneInv, Done, SpentInv, Spent, HasEffect, KindInv
  <1>5. ReviewInv'
    BY ConfirmationsAssumption DEF FailConfirmation, Yields, GoTo, case, gfm,
       execution, IInv, TypeOK, ReviewInv, SpentInv, Spent, HasEffect, KindInv,
       MayRun
  <1>6. GrantInv'
    BY DEF FailConfirmation, case, gfm, execution, IInv, GrantInv
  <1> QED BY <1>1, <1>2, <1>3, <1>4, <1>5, <1>6 DEF IInv

-----------------------------------------------------------------------------
(* The GFM process, the case and the death of the API.                     *)

LEMMA GfmCreatesRunStep ==
  ASSUME IInv, NEW c \in Calls, GfmCreatesRun(c)
  PROVE  IInv'
PROOF
  <1>1. TypeOK'
    BY DEF GfmCreatesRun, store, case, execution, confirmation, IInv, TypeOK
  <1>2. SpentInv'
    BY DEF GfmCreatesRun, store, case, execution, confirmation, IInv, TypeOK,
       SpentInv, Spent, HasEffect, GrantInv
  <1>3. KindInv'
    BY DEF GfmCreatesRun, store, case, execution, confirmation, IInv, TypeOK,
       KindInv, SpentInv, Spent, HasEffect
  <1>4. DoneInv'
    BY DEF GfmCreatesRun, store, case, execution, confirmation, IInv, TypeOK,
       DoneInv, Done, SpentInv, Spent, HasEffect, KindInv
  <1>5. GrantInv' /\ ReviewInv'
    BY DEF GfmCreatesRun, store, case, execution, confirmation, IInv,
       GrantInv, ReviewInv
  <1> QED BY <1>1, <1>2, <1>3, <1>4, <1>5 DEF IInv

LEMMA GfmRefusesRunStep ==
  ASSUME IInv, NEW c \in Calls, GfmRefusesRun(c)
  PROVE  IInv'
PROOF
  <1>1. TypeOK'
    BY DEF GfmRefusesRun, store, case, execution, confirmation, IInv, TypeOK
  <1>2. SpentInv'
    BY DEF GfmRefusesRun, store, case, execution, confirmation, IInv, TypeOK,
       SpentInv, Spent, HasEffect, GrantInv
  <1>3. KindInv'
    BY DEF GfmRefusesRun, store, case, execution, confirmation, IInv, TypeOK,
       KindInv, SpentInv, Spent, HasEffect
  <1>4. DoneInv'
    BY DEF GfmRefusesRun, store, case, execution, confirmation, IInv, TypeOK,
       DoneInv, Done, SpentInv, Spent, HasEffect, KindInv
  <1>5. GrantInv' /\ ReviewInv'
    BY DEF GfmRefusesRun, store, case, execution, confirmation, IInv,
       GrantInv, ReviewInv
  <1> QED BY <1>1, <1>2, <1>3, <1>4, <1>5 DEF IInv

LEMMA ChangeCaseStep ==
  ASSUME IInv, ChangeCase
  PROVE  IInv'
PROOF
  <1>1. TypeOK'
    BY ConfirmationsAssumption DEF ChangeCase, store, gfm, execution,
       confirmation, IInv, TypeOK
  <1>2. ReviewInv'
    BY ConfirmationsAssumption DEF ChangeCase, store, gfm, execution,
       confirmation, IInv, TypeOK, ReviewInv, SpentInv, Spent, HasEffect, KindInv
  <1>3. GrantInv' /\ SpentInv' /\ KindInv' /\ DoneInv'
    BY DEF ChangeCase, store, gfm, execution, confirmation, IInv, GrantInv,
       SpentInv, Spent, HasEffect, KindInv, DoneInv, Done
  <1> QED BY <1>1, <1>2, <1>3 DEF IInv

LEMMA CrashStep ==
  ASSUME IInv, Crash
  PROVE  IInv'
PROOF
  <1>1. TypeOK'
    BY DEF Crash, store, case, gfm, Ended, IInv, TypeOK
  <1>2. GrantInv'
    BY DEF Crash, store, case, gfm, Ended, IInv, TypeOK, GrantInv
  <1>3. SpentInv'
    BY DEF Crash, store, case, gfm, Ended, IInv, TypeOK, SpentInv, Spent,
       HasEffect, GrantInv
  <1>4. KindInv'
    BY DEF Crash, store, case, gfm, Ended, IInv, TypeOK, KindInv, SpentInv,
       Spent, HasEffect
  <1>5. DoneInv'
    BY DEF Crash, store, case, gfm, Ended, IInv, TypeOK, DoneInv, Done,
       SpentInv, Spent, HasEffect, KindInv
  <1>6. ReviewInv'
    BY DEF Crash, store, case, gfm, Ended, IInv, TypeOK, ReviewInv, SpentInv,
       Spent, HasEffect, KindInv
  <1> QED BY <1>1, <1>2, <1>3, <1>4, <1>5, <1>6 DEF IInv

LEMMA StutterStep ==
  ASSUME IInv, UNCHANGED vars
  PROVE  IInv'
  BY DEF vars, store, case, gfm, execution, confirmation, IInv, TypeOK,
     GrantInv, SpentInv, Spent, HasEffect, KindInv, DoneInv, Done, ReviewInv

LEMMA EveryStep == IInv /\ [Next]_vars => IInv'
PROOF
  <1> SUFFICES ASSUME IInv, [Next]_vars PROVE IInv'
    OBVIOUS
  <1>1. ASSUME NEW g \in Grants, Execute(g) \/ Expire(g) PROVE IInv'
    BY <1>1, PrepareStep, IssueConfirmationStep, AnswerPreparedStep,
       FailPreparationStep, ExpireStep DEF Execute
  <1>2. ASSUME NEW c \in Calls, Confirm(c) PROVE IInv'
    <2>1. CASE \E g \in Grants :
                 ConsumeConfirmation(c, g) \/ RefuseConfirmation(c, g)
      BY <2>1, ConsumeConfirmationStep, RefuseConfirmationStep
    <2>2. CASE CheckModel(c) \/ AskForRun(c) \/ BindRun(c) \/ SaveReport(c)
      BY <2>2, CheckModelStep, AskForRunStep, BindRunStep, SaveReportStep
    <2>3. CASE VerifyIdentity(c) \/ CompareCase(c) \/ AddReview(c)
      BY <2>3, VerifyIdentityStep, CompareCaseStep, AddReviewStep
    <2>4. CASE AnswerConfirmed(c) \/ FailConfirmation(c)
      BY <2>4, AnswerConfirmedStep, FailConfirmationStep
    <2>5. CASE GfmCreatesRun(c) \/ GfmRefusesRun(c)
      BY <2>5, GfmCreatesRunStep, GfmRefusesRunStep
    <2> QED BY <1>2, <2>1, <2>2, <2>3, <2>4, <2>5 DEF Confirm
  <1> QED
    BY <1>1, <1>2, ChangeCaseStep, CrashStep, StutterStep DEF Next

-----------------------------------------------------------------------------
(* The theorems.                                                           *)

(* What grants, requests, stores and the event loop know of each other     *)
(* holds in every state of the gateway.                                    *)
THEOREM Inductive == Spec => []IInv
  <1>1. Init => IInv
    BY Initially
  <1>2. IInv /\ [Next]_vars => IInv'
    BY EveryStep
  <1> QED BY <1>1, <1>2, PTL DEF Spec

(* Every table and every call holds what the code may put there, however   *)
(* many executions and requests there are.                                 *)
THEOREM TypeCorrect == Spec => []TypeOK
  <1>1. IInv => TypeOK
    BY DEF IInv
  <1> QED BY <1>1, Inductive, PTL

(* One token has at most one effect, however many requests carry it: the   *)
(* one transaction of consume_confirmation decides.                        *)
THEOREM Once == Spec => []OncePerGrant
  <1>1. IInv => OncePerGrant
    BY DEF IInv, SpentInv, OncePerGrant
  <1> QED BY <1>1, Inductive, PTL

(* A confirmed review is added to the version of the case it was prepared  *)
(* for: between the comparison in confirm and the insertion in add_review  *)
(* nothing else runs.                                                      *)
THEOREM ReviewsFit == Spec => []ReviewFitsCase
  <1>1. IInv => ReviewFitsCase
    BY DEF IInv, KindInv, ReviewInv, ReviewFitsCase
  <1> QED BY <1>1, Inductive, PTL

(* Reviews prepared for one version of a case exclude each other, since    *)
(* the first to be added makes a new version.                              *)
THEOREM ReviewsExclude == Spec => []OneReviewPerVersion
  <1>1. IInv => OneReviewPerVersion
    BY DEF IInv, ReviewInv, OneReviewPerVersion
  <1> QED BY <1>1, Inductive, PTL

(* What append_audit records as completed by confirm has happened and is   *)
(* stored.                                                                 *)
THEOREM Completed == Spec => []CompletedIsDone
  <1>1. IInv => CompletedIsDone
    BY DEF IInv, DoneInv, Done, CompletedIsDone
  <1> QED BY <1>1, Inductive, PTL

(* confirm carries out only what execute has audited as prepared.          *)
THEOREM Prepared == Spec => []PreparedIsAudited
  <1>1. IInv => PreparedIsAudited
    BY DEF IInv, GrantInv, SpentInv, PreparedIsAudited
  <1> QED BY <1>1, Inductive, PTL

=============================================================================

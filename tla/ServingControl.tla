---------------------------- MODULE ServingControl ----------------------------
(***************************************************************************)
(* The serving control: the file that names the registry and the catalog   *)
(* that are served, how a promotion replaces it                            *)
(* (packages/gfm/src/socialgraph_gfm/core/promotion.py) and how processes  *)
(* acquire it (core/serving_control.py, and for the API                    *)
(* services/api/app/gfm_core_serving_control.py).                          *)
(*                                                                         *)
(* A process captures the control and then accepts it: its own high water, *)
(* a file, rises to it and never falls.  A promotion writes immutable      *)
(* files and its receipt first, exchanges the control for its own, checks  *)
(* what it did, and accepts last; if it fails before it begins to accept,  *)
(* it exchanges the control back.  The lock of the publication admits one  *)
(* promotion at a time; an operator may replace the control at any time.   *)
(*                                                                         *)
(* Abstractions: a control is its generation and who made it, which        *)
(* determine its hashes; the registry and the catalog it names have its    *)
(* generation.  A candidate comes with its sealed smoke report.  The       *)
(* exchange is that of Linux.                                              *)
(***************************************************************************)
EXTENDS Naturals

CONSTANTS
  Candidates,
  Processes,  \* that serve, each with a high water of its own
  Operator,
  Origin,     \* made the control that is installed
  NoControl,
  Generations \* the last generation that is explored

VARIABLES
  control,    \* the file
  receipts,   \* the controls whose receipt is published
  promoter,   \* the high water of the process that promotes
  promotion,  \* the promotion under way
  highWater,  \* of every process that serves
  captured,   \* what it captured and has yet to accept
  promoted,   \* the controls that promotions have returned the receipt of
  replaced    \* the operator has replaced the control

servingVars == <<control, receipts, promoter, promotion, highWater, captured,
                 promoted, replaced>>

Control == [generation : 0 .. Generations, by : Candidates \cup {Operator, Origin}]

ASSUME ServingAssumption ==
  /\ Generations \in Nat
  /\ NoControl \notin Control

Idle == [at |-> "idle", original |-> NoControl, new |-> NoControl, backup |-> NoControl]

ServingInit ==
  /\ control = [generation |-> 0, by |-> Origin]
  /\ receipts = {}
  /\ promoter = NoControl
  /\ promotion = Idle
  /\ highWater = [p \in Processes |-> NoControl]
  /\ captured = [p \in Processes |-> NoControl]
  /\ promoted = {}
  /\ replaced = FALSE

-----------------------------------------------------------------------------
(* A control is captured, and accepted by a high water.                    *)

Acceptable(c, high) ==
  \/ high = NoControl
  \/ c.generation > high.generation
  \/ c = high

Capture(p) ==
  /\ captured[p] = NoControl
  /\ captured' = [captured EXCEPT ![p] = control]
  /\ UNCHANGED <<control, receipts, promoter, promotion, highWater, promoted, replaced>>

Accept(p) ==
  /\ captured[p] # NoControl
  /\ IF Acceptable(captured[p], highWater[p])
     THEN highWater' = [highWater EXCEPT ![p] = captured[p]]
     ELSE UNCHANGED highWater
  /\ captured' = [captured EXCEPT ![p] = NoControl]
  /\ UNCHANGED <<control, receipts, promoter, promotion, promoted, replaced>>

-----------------------------------------------------------------------------
(* promote_serving_ready.                                                  *)

Successor(c, by) == [generation |-> c.generation + 1, by |-> by]

GoTo(place) == promotion' = [promotion EXCEPT !.at = place]

End == promotion' = Idle

Unserved == <<highWater, captured, replaced>>

\* A receipt of this candidate for the live control: its promotion is recovered.
Recoverable(by) == control \in receipts /\ control.by = by

\* Nothing is left of a promotion, and the live control is the accepted one.
Clean ==
  /\ control \notin receipts
  /\ IF promoter = NoControl THEN control.generation = 0 ELSE promoter = control

BeginRecovery(by) ==
  /\ promotion = Idle
  /\ Recoverable(by)
  /\ promotion' = [Idle EXCEPT !.at = "recover", !.new = control]
  /\ UNCHANGED <<control, receipts, promoter, promoted, Unserved>>

AcceptRecovered ==
  /\ promotion.at = "recover"
  /\ control = promotion.new
  /\ Acceptable(control, promoter)
  /\ promoter' = control
  /\ GoTo("recovered")
  /\ UNCHANGED <<control, receipts, promoted, Unserved>>

ReturnRecovered ==
  /\ promotion.at = "recovered"
  /\ control = promotion.new
  /\ promoted' = promoted \cup {control}
  /\ End
  /\ UNCHANGED <<control, receipts, promoter, Unserved>>

BeginPromotion(by) ==
  /\ promotion = Idle
  /\ Clean
  /\ control.generation < Generations
  /\ promoter' = control
  /\ promotion' = [Idle EXCEPT !.at = "publish",
                               !.original = control,
                               !.new = Successor(control, by)]
  /\ UNCHANGED <<control, receipts, promoted, Unserved>>

PublishReceiptLater ==  \* leaves the receipt to the end
  /\ promotion.at = "publish"
  /\ GoTo("swap")
  /\ UNCHANGED <<control, receipts, promoter, promoted, Unserved>>

PublishReceipt ==
  /\ promotion.at = "publish"
  /\ receipts' = receipts \cup {promotion.new}
  /\ GoTo("swap")
  /\ UNCHANGED <<control, promoter, promoted, Unserved>>

FindUnchanged ==
  /\ promotion.at = "swap"
  /\ control = promotion.original
  /\ GoTo("exchange")
  /\ UNCHANGED <<control, receipts, promoter, promoted, Unserved>>

Exchange ==
  /\ promotion.at = "exchange"
  /\ control' = promotion.new
  /\ promotion' = [promotion EXCEPT !.at = "verify", !.backup = control]
  /\ UNCHANGED <<receipts, promoter, promoted, Unserved>>

\* The swap is what was meant, and the control can be served.
Verify ==
  /\ promotion.at = "verify"
  /\ control = promotion.new
  /\ promotion.backup = promotion.original
  /\ GoTo("accept")
  /\ UNCHANGED <<control, receipts, promoter, promoted, Unserved>>

AcceptPromotedRevocably ==  \* rolls back also once it has begun to accept
  /\ promotion.at = "accept"
  /\ Acceptable(promotion.new, promoter)
  /\ promoter' = promotion.new
  /\ \/ End /\ promoted' = promoted \cup {promotion.new}
     \/ GoTo("roll back") /\ UNCHANGED promoted
  /\ UNCHANGED <<control, receipts, Unserved>>

\* accept may also fail after it has written, and before.
AcceptPromoted ==
  /\ promotion.at = "accept"
  /\ Acceptable(promotion.new, promoter)
  /\ promoter' = promotion.new
  /\ \E returned \in {{promotion.new}, {}} : promoted' = promoted \cup returned
  /\ End
  /\ UNCHANGED <<control, receipts, Unserved>>

\* An error, at any place.
FailPromotion ==
  /\ \/ promotion.at \in {"recover", "recovered", "publish", "swap", "exchange",
                          "accept"}
        /\ End
     \/ promotion.at = "verify" /\ GoTo("roll back")
  /\ UNCHANGED <<control, receipts, promoter, promoted, Unserved>>

\* rollback_owned gives up a control that is no longer its own.
FindOwned ==
  /\ promotion.at = "roll back"
  /\ IF control = promotion.new THEN GoTo("exchange back") ELSE End
  /\ UNCHANGED <<control, receipts, promoter, promoted, Unserved>>

ExchangeBack ==
  /\ promotion.at = "exchange back"
  /\ control' = promotion.backup
  /\ End
  /\ UNCHANGED <<receipts, promoter, promoted, Unserved>>

\* The process that promotes dies; its lock is released.
Die ==
  /\ promotion # Idle
  /\ End
  /\ UNCHANGED <<control, receipts, promoter, promoted, Unserved>>

-----------------------------------------------------------------------------
\* The operator installs a control of the next generation.
Replace ==
  /\ control.generation < Generations
  /\ control' = Successor(control, Operator)
  /\ replaced' = TRUE
  /\ UNCHANGED <<receipts, promoter, promotion, highWater, captured, promoted>>

Promote ==
  \/ \E by \in Candidates : BeginRecovery(by) \/ BeginPromotion(by)
  \/ AcceptRecovered
  \/ ReturnRecovered
  \/ PublishReceipt
  \/ FindUnchanged
  \/ Exchange
  \/ Verify
  \/ AcceptPromoted
  \/ FailPromotion
  \/ FindOwned
  \/ ExchangeBack
  \/ Die

ServingNext ==
  \/ Promote
  \/ Replace
  \/ \E p \in Processes : Capture(p) \/ Accept(p)

ServingSpec == ServingInit /\ [][ServingNext]_servingVars

-----------------------------------------------------------------------------
ServingTypeOK ==
  /\ control \in Control
  /\ receipts \subseteq Control
  /\ promoter \in Control \cup {NoControl}
  /\ promotion.at \in {"idle", "recover", "recovered", "publish", "swap", "exchange",
                       "verify", "accept", "roll back", "exchange back"}
  /\ {promotion.original, promotion.new, promotion.backup} \subseteq Control \cup {NoControl}
  /\ highWater \in [Processes -> Control \cup {NoControl}]
  /\ captured \in [Processes -> Control \cup {NoControl}]
  /\ promoted \subseteq Control
  /\ replaced \in BOOLEAN

(* A promotion that returned its receipt holds: the high water of the      *)
(* process that promotes has risen to it, its receipt is there to be       *)
(* recovered, and unless the operator replaces it nothing takes the        *)
(* control back, no rollback of a later attempt either                     *)
(* (promote_serving_ready).                                                *)
PromotedHolds ==
  \A c \in promoted :
    /\ c \in receipts
    /\ promoter # NoControl /\ promoter.generation >= c.generation
    /\ ~replaced => control.generation >= c.generation

(* Wherever a promotion stopped, by an error or by the death of its        *)
(* process, promotions can go on, unless the operator has replaced the     *)
(* control: either the live control has a receipt to recover it by, or it  *)
(* is the one accepted (_recover_published_promotion; "live serving        *)
(* control has an incomplete unaccepted promotion").                       *)
PromotionsGoOn ==
  promotion = Idle /\ ~replaced =>
    \/ Clean
    \/ \E by \in Candidates : Recoverable(by) /\ Acceptable(control, promoter)

(* The accepted control can be promoted over: only a promotion that was    *)
(* not accepted stands in the way of the next (promote_serving_ready: "live *)
(* serving control has an incomplete unaccepted promotion").               *)
AcceptedIsPromotedOver ==
  promotion = Idle /\ promoter = control => Clean

=============================================================================

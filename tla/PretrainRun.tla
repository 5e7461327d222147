------------------------------ MODULE PretrainRun ------------------------------
(***************************************************************************)
(* One pretraining run and its checkpoints (_train_run of                  *)
(* packages/gfm/src/socialgraph_gfm/workflows/pretrain.py, with            *)
(* gfm/checkpoint.py and record_completed_run of gfm/registry.py), and how *)
(* gfm-resume goes on with it after its process died (resume_gfm of        *)
(* workflows/adaptation.py).                                               *)
(*                                                                         *)
(* Training proceeds from one evaluation to the next.  After each the      *)
(* latest checkpoint is copied to a recovery checkpoint, a new latest one  *)
(* is saved and, if the validation loss improved, a new best one.  A       *)
(* checkpoint is two files, the artifact and then its manifest; only then  *)
(* the older checkpoints of its role are removed, artifact first.  At the  *)
(* end the best checkpoint is registered with the run in one transaction.  *)
(*                                                                         *)
(* Abstractions: a step is an evaluation; training is deterministic, also  *)
(* across a resume, so that a step determines the loss, the contents of    *)
(* its checkpoint and the best step up to it.  An exception ends the       *)
(* process, like a death.  One process works on a run at a time.  A run of *)
(* the dev phase, which has no test reports.                               *)
(***************************************************************************)
EXTENDS Naturals

CONSTANTS
  MaxStep,   \* max_steps
  Minimum,   \* minimum_steps
  Patience,  \* patience_evaluations
  Losses,    \* numbers
  NoStep

Steps == 1..MaxStep

ASSUME TrainAssumption == MaxStep \in Nat \ {0} /\ NoStep \notin Steps

Roles == {"latest", "recovery", "best"}
Checkpoints == Roles \X Steps

VARIABLES
  loss,       \* the validation loss after each step
  artifacts,  \* the checkpoints whose artifact is there
  manifests,  \* those whose manifest is there
  runState,   \* that run-state.json tells
  manifest,   \* run-manifest.json is written
  registered, \* the step of the best checkpoint in the registry
  trainer,    \* what the process does next
  step,       \* of the trainer
  best,       \* the step of the best checkpoint it knows of
  reached     \* the last step that was ever saved

runFiles == <<artifacts, manifests>>
trainVars ==
  <<loss, runFiles, runState, manifest, registered, trainer, step, best, reached>>

Down == [role |-> "none", next |-> "down"]
At(next) == [role |-> "none", next |-> next]
Save(role) == [role |-> role, next |-> "artifact"]

\* The first step with the lowest loss up to s: best_state of a checkpoint.
BestStep(s) ==
  CHOOSE b \in 1..s :
    /\ \A t \in 1..s : loss[b] <= loss[t]
    /\ \A t \in 1..(b - 1) : loss[b] < loss[t]

Improved == BestStep(step) = step

Intact == artifacts \cap manifests
OfRole(role) == {c \in manifests : c[1] = role}

Go(where) == trainer' = where

TrainInit ==
  /\ loss \in [Steps -> Losses]
  /\ artifacts = {}
  /\ manifests = {}
  /\ runState = "absent"
  /\ manifest = FALSE
  /\ registered = NoStep
  /\ trainer = Down
  /\ step = 0
  /\ best = NoStep
  /\ reached = 0

-----------------------------------------------------------------------------
(* The run begins: _probe_with_durable_preflight.                          *)

Preflight ==
  /\ runState' = "preflight"
  /\ Go(At("probe"))
  /\ step' = 0
  /\ best' = NoStep
  /\ UNCHANGED <<loss, runFiles, manifest, registered, reached>>

Launch ==
  /\ trainer = Down
  /\ runState = "absent"
  /\ Preflight

Probe ==
  /\ trainer.next = "probe"
  /\ runState' = "running"
  /\ Go(At("train"))
  /\ UNCHANGED <<loss, runFiles, manifest, registered, step, best, reached>>

-----------------------------------------------------------------------------
(* An epoch, its evaluation and its checkpoints.                           *)

\* _rotate_latest_to_recovery raises on two latest checkpoints.
Train ==
  /\ trainer.next = "train"
  /\ step < MaxStep
  /\ step' = step + 1
  /\ \/ OfRole("latest") = {} /\ Go(Save("latest"))
     \/ OfRole("latest") # {} /\ Go(Save("recovery"))
  /\ UNCHANGED <<loss, runFiles, runState, manifest, registered, best, reached>>

\* What is saved: the recovery checkpoint is a copy of the latest.
Saved ==
  IF trainer.role = "recovery"
  THEN CHOOSE c \in {<<"recovery", d[2]>> : d \in OfRole("latest")} : TRUE
  ELSE <<trainer.role, step>>

MoveArtifact ==  \* moves the latest artifact instead of copying it
  /\ trainer.next = "artifact"
  /\ artifacts' = (artifacts \ {<<"latest", Saved[2]>>}) \cup {Saved}
  /\ Go([trainer EXCEPT !.next = "manifest"])
  /\ UNCHANGED <<loss, manifests, runState, manifest, registered, step, best, reached>>

SaveArtifact ==
  /\ trainer.next = "artifact"
  /\ artifacts' = artifacts \cup {Saved}
  /\ Go([trainer EXCEPT !.next = "manifest"])
  /\ UNCHANGED <<loss, manifests, runState, manifest, registered, step, best, reached>>

SaveManifest ==
  /\ trainer.next = "manifest"
  /\ manifests' = manifests \cup {Saved}
  /\ reached' = IF step > reached /\ trainer.role = "latest" THEN step ELSE reached
  /\ best' = IF trainer.role = "best" THEN step ELSE best
  /\ Go([trainer EXCEPT !.next = "retain"])
  /\ UNCHANGED <<loss, artifacts, runState, manifest, registered, step>>

\* _retain_checkpoint_roles
Stale == OfRole(trainer.role) \ {Saved}

RemoveArtifact ==
  /\ trainer.next = "retain"
  /\ \E c \in Stale \cap artifacts : artifacts' = artifacts \ {c}
  /\ UNCHANGED <<loss, manifests, runState, manifest, registered, trainer, step, best,
                 reached>>

RemoveManifest ==
  /\ trainer.next = "retain"
  /\ \E c \in Stale \ artifacts : manifests' = manifests \ {c}
  /\ UNCHANGED <<loss, artifacts, runState, manifest, registered, trainer, step, best,
                 reached>>

StopsHere ==
  \/ step = MaxStep
  \/ step >= Minimum /\ step - BestStep(step) >= Patience

Retained ==
  /\ trainer.next = "retain"
  /\ Stale = {}
  /\ Go(CASE trainer.role = "recovery" -> Save("latest")
          [] trainer.role = "latest" /\ Improved -> Save("best")
          [] OTHER -> At(IF StopsHere THEN "finish" ELSE "train"))
  /\ UNCHANGED <<loss, runFiles, runState, manifest, registered, step, best, reached>>

-----------------------------------------------------------------------------
(* The end of the run: its files and the registry.                         *)

Finish ==
  /\ \/ trainer.next = "finish"
     \/ trainer.next = "train" /\ step = MaxStep
  /\ best # NoStep
  /\ <<"best", best>> \in artifacts
  /\ manifest' = TRUE
  /\ Go(At("register"))
  /\ UNCHANGED <<loss, runFiles, runState, registered, step, best, reached>>

Register ==
  /\ trainer.next = "register"
  /\ registered' = best
  /\ Go(At("succeed"))
  /\ UNCHANGED <<loss, runFiles, runState, manifest, step, best, reached>>

EndSucceeded ==
  /\ trainer.next = "succeed"
  /\ runState' = "succeeded"
  /\ Go(Down)
  /\ UNCHANGED <<loss, runFiles, manifest, registered, step, best, reached>>

\* The process dies, or raises.
TrainerDies ==
  /\ trainer # Down
  /\ Go(Down)
  /\ UNCHANGED <<loss, runFiles, runState, manifest, registered, step, best, reached>>

-----------------------------------------------------------------------------
(* resume_gfm.                                                             *)

InterruptedRun ==
  /\ trainer = Down
  /\ registered = NoStep
  /\ runState \in {"preflight", "running"}

\* The checkpoint-free retry accepts no file in the directory.
CanRetry == artifacts = {} /\ manifests = {}

Unambiguous == \A c, d \in manifests : c[1] = d[1] => c = d

Priority == [recovery |-> 0, best |-> 1, latest |-> 2]

\* The intact checkpoint of the highest step, and of the highest priority.
IsNewest(c) ==
  /\ c \in Intact
  /\ \A d \in Intact :
       \/ c[2] > d[2]
       \/ c[2] = d[2] /\ Priority[c[1]] >= Priority[d[1]]

\* The best checkpoint to go on with: c itself, or the only one.
IsBestFor(b, c) ==
  /\ b \in Intact /\ b[1] = "best"
  /\ IF c[1] = "best" THEN b = c ELSE b[2] <= c[2]

CanResume(c) ==
  /\ runState = "running"
  /\ Unambiguous
  /\ IsNewest(c)
  /\ \E b \in Intact : IsBestFor(b, c)

Retry ==
  /\ InterruptedRun
  /\ CanRetry
  /\ Preflight

Resume ==
  /\ InterruptedRun
  /\ \E c \in Intact :
       /\ CanResume(c)
       /\ step' = c[2]
       /\ \E b \in Intact : IsBestFor(b, c) /\ best' = b[2]
  /\ Go(At("train"))
  /\ UNCHANGED <<loss, runFiles, runState, manifest, registered, reached>>

\* _reconcile_pretrain_terminal_state: the registry is the authority.
Reconcile ==
  /\ trainer = Down
  /\ registered # NoStep
  /\ runState = "running"
  /\ manifest
  /\ <<"best", registered>> \in Intact
  /\ BestStep(registered) = registered
  /\ runState' = "succeeded"
  /\ UNCHANGED <<loss, runFiles, manifest, registered, trainer, step, best, reached>>

TrainNext ==
  \/ Launch
  \/ Probe
  \/ Train
  \/ SaveArtifact
  \/ SaveManifest
  \/ RemoveArtifact
  \/ RemoveManifest
  \/ Retained
  \/ Finish
  \/ Register
  \/ EndSucceeded
  \/ TrainerDies
  \/ Retry
  \/ Resume
  \/ Reconcile

TrainSpec == TrainInit /\ [][TrainNext]_trainVars

-----------------------------------------------------------------------------
TrainTypeOK ==
  /\ loss \in [Steps -> Losses]
  /\ artifacts \subseteq Checkpoints
  /\ manifests \subseteq Checkpoints
  /\ runState \in {"absent", "preflight", "running", "succeeded"}
  /\ manifest \in BOOLEAN
  /\ registered \in Steps \cup {NoStep}
  /\ trainer.role \in Roles \cup {"none"}
  /\ trainer.next \in {"down", "probe", "train", "artifact", "manifest", "retain",
                     "finish", "register", "succeed"}
  /\ step \in 0..MaxStep
  /\ best \in Steps \cup {NoStep}
  /\ reached \in 0..MaxStep

(* Wherever the process dies, while it saves, copies or removes            *)
(* checkpoints, one of the last step that was saved, or of a later one, is *)
(* intact; and what the registry holds can be made the end of the run: its *)
(* checkpoint stays intact, and no other one is ever registered            *)
(* (_rotate_latest_to_recovery, _retain_checkpoint_roles,                  *)
(* _reconcile_pretrain_terminal_state).                                    *)
ProgressIsKept ==
  /\ reached > 0 => \E c \in Intact : c[2] >= reached
  /\ runState = "succeeded" => registered # NoStep
  /\ registered # NoStep =>
       manifest /\ <<"best", registered>> \in Intact /\ BestStep(registered) = registered

(* A run that was interrupted before it was registered can be resumed      *)
(* (record_completed_run: "a crash can leave either no registry authority  *)
(* (and therefore a resumable run) or ...").                               *)
InterruptedIsResumed ==
  InterruptedRun => CanRetry \/ \E c \in Intact : CanResume(c)

(* The checkpoint that is registered is the best of all that were          *)
(* evaluated (_train_run: "the validation-selected checkpoint").           *)
BestIsSelected ==
  registered # NoStep => \A t \in 1..step : loss[registered] <= loss[t]

=============================================================================

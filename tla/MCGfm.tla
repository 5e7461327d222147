-------------------------------- MODULE MCGfm --------------------------------
(***************************************************************************)
(* The launcher, three parts of the GFM process and two batch jobs share   *)
(* no variable: the runs of the core model, the serving control that       *)
(* promotions replace, the jobs of the research model; a pretraining run   *)
(* and the acquisition of the corpus.  The run explores each of them, the  *)
(* others at rest: the sum of their state spaces, not the product.         *)
(***************************************************************************)
EXTENDS Launcher, CoreRuns, ServingControl, ResearchJobs, PretrainRun,
        OpenAlexFetch

VARIABLE part

all == <<part, launcherVars, runVars, servingVars, jobVars, trainVars,
         fetchVars>>

GfmInit ==
  /\ part \in {"launcher", "core", "control", "research", "pretrain", "corpus"}
  /\ LauncherInit
  /\ CoreRunsInit
  /\ ServingInit
  /\ JobsInit
  /\ TrainInit
  /\ part # "pretrain" => loss \in [1..MaxStep -> {1}]
  /\ FetchInit

GfmNext ==
  /\ \/ /\ part = "launcher"
        /\ LauncherNext
        /\ UNCHANGED <<runVars, servingVars, jobVars, trainVars,
                      fetchVars>>
     \/ /\ part = "core"
        /\ CoreRunsNext
        /\ UNCHANGED <<launcherVars, servingVars, jobVars, trainVars,
                      fetchVars>>
     \/ /\ part = "control"
        /\ ServingNext
        /\ UNCHANGED <<launcherVars, runVars, jobVars, trainVars,
                      fetchVars>>
     \/ /\ part = "research"
        /\ JobsNext
        /\ UNCHANGED <<launcherVars, runVars, servingVars, trainVars,
                      fetchVars>>
     \/ /\ part = "pretrain"
        /\ TrainNext
        /\ UNCHANGED <<launcherVars, runVars, servingVars, jobVars,
                      fetchVars>>
     \/ /\ part = "corpus"
        /\ FetchNext
        /\ UNCHANGED <<launcherVars, runVars, servingVars, jobVars,
                      trainVars>>
  /\ UNCHANGED part

GfmSpec ==
  /\ GfmInit /\ [][GfmNext]_all
  /\ CoreRunsFairness
  /\ JobsFairness

(* Every variable of the parts holds what the code may put there.          *)
GfmTypesOK ==
  /\ LauncherTypeOK
  /\ CoreRunsTypeOK
  /\ ServingTypeOK
  /\ JobsTypeOK
  /\ TrainTypeOK
  /\ FetchTypeOK

=============================================================================

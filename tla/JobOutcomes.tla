------------------------------ MODULE JobOutcomes ------------------------------
(***************************************************************************)
(* What a service that executes jobs promises those who ask for them,      *)
(* whatever its threads, its workers and its restarts do: a final state is *)
(* never changed, and when a job is told to have succeeded its result is   *)
(* complete and in place, and remains so.                                  *)
(*                                                                         *)
(* Four services of this repository implement it, each with its own files, *)
(* queue and recovery: the governance runs, the runs of the core model,    *)
(* the jobs of the research model and trusted conversions.  They differ in *)
(* what is final: of the runs of the core model and of conversions only    *)
(* success is.                                                             *)
(***************************************************************************)

CONSTANTS
  Jobs,
  States,      \* "none" before the job is accepted
  Final,       \* the states that are never changed
  Successful   \* those that come with a result

VARIABLES
  state,       \* of every job, as it is told
  results      \* the jobs told to have succeeded whose result is in place

outcomeVars == <<state, results>>

Init ==
  /\ state = [j \in Jobs |-> "none"]
  /\ results = {}

\* Usually of one job; the start of a process may end several.
Tell(jobs) ==
  /\ \A j \in jobs : state[j] \notin Final
  /\ \E told \in [jobs -> States] :
       state' = [j \in Jobs |-> IF j \in jobs THEN told[j] ELSE state[j]]
  /\ results' = {j \in Jobs : state'[j] \in Successful}

Next == \E jobs \in SUBSET Jobs : Tell(jobs)

Spec == Init /\ [][Next]_outcomeVars

=============================================================================

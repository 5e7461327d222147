----------------------------- MODULE MCGovernance -----------------------------
(***************************************************************************)
(* Confirmations and GovernanceRuns, which share no variable: each is      *)
(* explored while the other rests.  At most two grants are in play, the    *)
(* others stay as they are.                                                *)
(***************************************************************************)
EXTENDS Confirmations, GovernanceRuns, TLC

VARIABLES
  part,
  play  \* the grants in play, none in the part of the runs

all == <<part, play, vars, runsVars>>

\* Two requests are sent with two tokens at most.
Plays == {{g, h} : g, h \in Grants}

GovernanceInit ==
  /\ Init
  /\ RunsInit
  /\ \/ part = "confirmations" /\ play \in Plays
     \/ part = "runs" /\ play = {} /\ active

GovernanceNext ==
  /\ \/ /\ part = "confirmations"
        /\ Next
        /\ \A g \in Grants \ play : grant'[g] = grant[g] /\ prep'[g] = prep[g]
        /\ \A c \in Calls : token'[c] \in play \cup {NoGrant}
        /\ UNCHANGED runsVars
     \/ /\ part = "runs"
        /\ RunsNext
        /\ UNCHANGED vars
  /\ UNCHANGED <<part, play>>

GovernanceSpec == GovernanceInit /\ [][GovernanceNext]_all

\* Callers are the same model values as Calls, and Runs as ReportGrants: fewer
\* permutations to try on every state.
Symmetry == Permutations(Calls) \cup Permutations(ReportGrants)
              \cup Permutations(ReviewGrants)

(* Every variable of the parts holds what the code may put there.          *)
GovernanceTypesOK == TypeOK /\ RunsTypeOK

=============================================================================

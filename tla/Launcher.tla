------------------------------- MODULE Launcher -------------------------------
(***************************************************************************)
(* How the launcher starts and stops one service of the stack and what it  *)
(* keeps of it on disk (class ProcessManager of packages/runtime/src/      *)
(* socialgraph_fm_runtime/processes.py).  A service is the process that    *)
(* was started, its root, with the processes of its group, one of which    *)
(* listens on the port of the service.  A record names the root by its PID *)
(* and by an identity that no other process has.                           *)
(*                                                                         *)
(* Processes come and go meanwhile: the root may exit and leave the port   *)
(* to a process of its group, a foreign process may get its PID or the     *)
(* port.  A PID is not reused while there is a group of that number.       *)
(*                                                                         *)
(* Abstractions: identities are numbers in the order of the processes; of  *)
(* a group there are the root and the process that listens; every process  *)
(* leads one.  POSIX.  One launcher is at work at a time and the           *)
(* configuration does not change.  Answers and refusals that change        *)
(* nothing are left out.                                                   *)
(***************************************************************************)
EXTENDS Naturals

CONSTANTS
  Pids,
  MaxBorn,  \* the bound on processes
  Nobody    \* no process, no record, a closed port

ASSUME LauncherAssumption ==
  /\ MaxBorn \in Nat
  /\ Nobody \notin Nat \cup [pid : Pids, id : Nat]

VARIABLES
  process,  \* the identity of the process with each PID
  born,     \* the identities given out
  ours,     \* those of the roots that were started
  port,     \* the identity of the root whose group listens, or of a stranger
  record,   \* the PID and the identity it names
  doing,    \* what the launcher does next
  child,    \* the PID and the identity of the root it started
  orphans   \* the roots whose launcher died before it wrote the record

launcherVars == <<process, born, ours, port, record, doing, child, orphans>>
processes == <<process, born, ours, port>>

Identities == 1..MaxBorn
Roots == [pid : Pids, id : Identities]

LauncherInit ==
  /\ process = [p \in Pids |-> Nobody]
  /\ born = 0
  /\ ours = {}
  /\ port = Nobody
  /\ record = Nobody
  /\ doing = "nothing"
  /\ child = Nobody
  /\ orphans = {}

-----------------------------------------------------------------------------
(* The processes.                                                          *)

IsAlive(root) == process[root.pid] = root.id

\* A group that only listens still occupies the PID of its root.
IsUnused(p) ==
  /\ process[p] = Nobody
  /\ \A root \in {record, child} \ {Nobody} : root.pid = p => port # root.id

Spawn(p) ==
  /\ IsUnused(p)
  /\ born < MaxBorn
  /\ born' = born + 1
  /\ process' = [process EXCEPT ![p] = born']

ForeignStarts(p) ==
  /\ Spawn(p)
  /\ UNCHANGED <<ours, port, record, doing, child, orphans>>

\* The port may stay with another process of the group.
Exits(p) ==
  /\ process[p] # Nobody
  /\ process' = [process EXCEPT ![p] = Nobody]
  /\ port' \in {port, IF port = process[p] THEN Nobody ELSE port}
  /\ UNCHANGED <<born, ours, record, doing, child, orphans>>

Listens(p) ==
  /\ process[p] # Nobody
  /\ port = Nobody
  /\ port' = process[p]
  /\ UNCHANGED <<process, born, ours, record, doing, child, orphans>>

Closes ==
  /\ port # Nobody
  /\ port' = Nobody
  /\ UNCHANGED <<process, born, ours, record, doing, child, orphans>>

\* killpg with SIGKILL, whoever leads that group by now.
KillGroup(root) ==
  /\ process' = [process EXCEPT ![root.pid] = Nobody]
  /\ port' = IF port \in {root.id, process[root.pid]} THEN Nobody ELSE port
  /\ UNCHANGED <<born, ours>>

-----------------------------------------------------------------------------
(* start                                                                   *)

BeginStart ==
  /\ doing = "nothing"
  /\ port = Nobody
  /\ record # Nobody => process[record.pid] = Nobody
  /\ record' = Nobody  \* a stale one is archived
  /\ doing' = "popen"
  /\ UNCHANGED <<processes, child, orphans>>

Popen(p) ==
  /\ doing = "popen"
  /\ Spawn(p)
  /\ ours' = ours \cup {born'}
  /\ child' = [pid |-> p, id |-> born']
  /\ doing' = "record"
  /\ UNCHANGED <<port, record, orphans>>

WriteRecord ==
  /\ doing = "record"
  /\ IsAlive(child)
  /\ record' = child
  /\ doing' = "wait"
  /\ UNCHANGED <<processes, child, orphans>>

\* No identity to bind, or the record cannot be written.
FailRecord ==
  /\ doing = "record"
  /\ KillGroup(child)
  /\ child' = Nobody
  /\ doing' = "nothing"
  /\ UNCHANGED <<record, orphans>>

Ready ==
  /\ doing = "wait"
  /\ port # Nobody
  /\ IsAlive(child)
  /\ child' = Nobody
  /\ doing' = "nothing"
  /\ UNCHANGED <<processes, record, orphans>>

Exited ==
  /\ doing = "wait"
  /\ ~IsAlive(child)
  /\ record' = IF port = Nobody THEN Nobody ELSE record
  /\ child' = Nobody
  /\ doing' = "nothing"
  /\ UNCHANGED <<processes, orphans>>

-----------------------------------------------------------------------------
(* stop, also of a service that does not get ready in time.                *)

Stops ==
  \/ doing = "wait"
  \/ doing = "nothing" /\ record # Nobody

\* The root is gone, or its PID is another process's by now.
DiscardRecord ==
  /\ Stops
  /\ ~IsAlive(record)
  /\ port = Nobody
  /\ record' = Nobody
  /\ child' = Nobody
  /\ doing' = "nothing"
  /\ UNCHANGED <<processes, orphans>>

\* It may end by SIGTERM, as by itself.
Terminate ==
  /\ Stops
  /\ IsAlive(record)
  /\ child' = Nobody
  /\ doing' = "terminate"
  /\ UNCHANGED <<processes, record, orphans>>

Kill ==
  /\ doing = "terminate"
  /\ KillGroup(record)
  /\ doing' = "kill"
  /\ UNCHANGED <<record, child, orphans>>

SeeRootGone ==  \* looks at the root only
  /\ doing \in {"terminate", "kill"}
  /\ process[record.pid] = Nobody
  /\ record' = Nobody
  /\ doing' = "nothing"
  /\ UNCHANGED <<processes, child, orphans>>

SeeGone ==
  /\ doing \in {"terminate", "kill"}
  /\ process[record.pid] = Nobody
  /\ port = Nobody
  /\ record' = Nobody
  /\ doing' = "nothing"
  /\ UNCHANGED <<processes, child, orphans>>

\* The port remained active, or the PID; or the launcher dies.
Abandon ==
  /\ doing # "nothing"
  /\ doing' = "nothing"
  /\ child' = Nobody
  /\ orphans' = IF doing = "record" THEN orphans \cup {child.id} ELSE orphans
  /\ UNCHANGED <<processes, record>>

LauncherNext ==
  \/ \E p \in Pids : ForeignStarts(p) \/ Exits(p) \/ Listens(p) \/ Popen(p)
  \/ Closes
  \/ BeginStart
  \/ WriteRecord
  \/ FailRecord
  \/ Ready
  \/ Exited
  \/ DiscardRecord
  \/ Terminate
  \/ Kill
  \/ SeeGone
  \/ Abandon

LauncherSpec == LauncherInit /\ [][LauncherNext]_launcherVars

-----------------------------------------------------------------------------
LauncherTypeOK ==
  /\ process \in [Pids -> Identities \cup {Nobody}]
  /\ ours \subseteq 1..born
  /\ port \in 1..born \cup {Nobody}
  /\ record \in Roots \cup {Nobody}
  /\ doing \in {"nothing", "popen", "record", "wait", "terminate", "kill"}
  /\ child \in Roots \cup {Nobody}
  /\ orphans \subseteq ours

(* Every service that runs, or still has the port, can be found: the       *)
(* record names its root, however starts fail, processes exit, PIDs are    *)
(* reused and stops time out, unless the launcher died before it wrote the *)
(* record (start, stop).                                                   *)
Lives(id) == port = id \/ \E p \in Pids : process[p] = id
ServicesAreRecorded ==
  \A id \in ours \ orphans :
    Lives(id) =>
      \/ record # Nobody /\ record.id = id
      \/ doing = "record" /\ child.id = id

=============================================================================

------------------------------ MODULE NodeSync ------------------------------
(***************************************************************************)
(* One remote node and the control plane that configures it.               *)
(*                                                                         *)
(* The control side is the store (module Store) and the two ways a bundle  *)
(* leaves it: the answer to the agent's periodic GET /api/agent/bundle,    *)
(* and the POST /api/agent/apply of pushRemoteNodes.  A bundle is built by *)
(* two separate reads of the store, travels, waits for the agent's syncMu, *)
(* and is applied by SyncNPSState whatever its age.                        *)
(*                                                                         *)
(* The node side is the state of the embedded NPS server that SyncNPSState *)
(* edits: its clients, its port tasks, its HTTP hosts and its run list.    *)
(* SyncNPSState is taken one tunnel at a time, because it returns at the   *)
(* first error and because the goroutine that opens a task's port runs     *)
(* beside it.                                                              *)
(*                                                                         *)
(* The JSON files of NPS are taken to be current (they are replaced by a   *)
(* rename after each change).  Verify keys are those the store generates,  *)
(* so never shared by two users.  A tunnel's target address is payload.    *)
(***************************************************************************)
EXTENDS Store

CONSTANTS
  Here,      \* the node
  PushSlot,  \* the pushes of the control that may be under way at a time
  MaxEdits,  \* bound on the changes of the store
  MaxFaults  \* bound on lost bundles and on agent crashes

VARIABLES
  slot,     \* per delivery: None, or the bundle being built or carried
  sync,     \* who holds syncMu: None, or the SyncNPSState call in progress
  nps,      \* "off" (npsfile.Db is nil), "db" (no Bridge yet), "bridge"
            \* (InitFromCsv has yet to begin) or "up"
  clients,  \* NPS clients: the port pool of each user, or None
  tasks,    \* NPS tasks with remark tc:<id>
  hosts,    \* NPS hosts with remark tc:<id>:<domain>
  run,      \* RunList: per tunnel None, or its server
  boot,     \* what InitFromCsv has yet to do
  twin,     \* per tunnel None, or a second server of its task, which RunList
            \* does not have: nothing can find it, and nothing closes it
  beside,   \* history: a bundle was applied while NPS was starting
  edits, faults

start   == <<boot, twin, beside>>
agent   == <<sync, nps, clients, tasks, hosts, run, start>>
nodeVars == <<slot, agent, edits, faults>>
allVars == <<vars, nodeVars>>

Pull == "pull"
Slot == {Pull} \cup PushSlot

\* What travels, and what the NPS server keeps.
Client == [ports: SUBSET Nat]
Task   == [user: UserName, mode: PortMode, port: Nat]
Host   == [user: UserName, scheme: DomainMode]
Server == [state: {"starting", "listening", "loose"}, port: Nat, transport: {"tcp", "udp"}]
Boot   == [todo: SUBSET TunnelID, at: SUBSET TunnelID, server: Server \cup {None}]
Bundle == [stage: {"building", "sent"}, users: [UserName -> User \cup {None}],
           tunnels: [TunnelID -> Tunnel \cup {None}]]
Call   == [slot: Slot, users: [UserName -> User \cup {None}],
           tunnels: [TunnelID -> Tunnel \cup {None}],
           todo: SUBSET TunnelID, doing: SUBSET Domain]

ASSUME NodeAssumption ==
  /\ Here \in NodeID \ {DefaultNodeID}
  /\ None \notin Task \cup Host \cup Server \cup Bundle \cup Call \cup Client
  /\ TunnelID \subseteq Nat   \* ListTunnels sorts by id
  /\ Pull \notin PushSlot
  /\ MaxEdits \in Nat /\ MaxFaults \in Nat

NoHosts == [td \in TunnelID \X Domain |-> None]
NoRun   == [t \in TunnelID |-> None]
NoBoot  == [todo |-> {}, at |-> {}, server |-> None]

NodeInit ==
  /\ Init
  /\ slot = [s \in Slot |-> None]
  /\ sync = None /\ nps = "off"
  /\ clients = NoUsers /\ tasks = NoTunnels /\ hosts = NoHosts /\ run = NoRun
  /\ boot = NoBoot /\ twin = NoRun /\ beside = FALSE
  /\ edits = 0 /\ faults = 0

----------------------------------------------------------------------------
(* The control: changes, and the bundles built from them *)

ControlStart == \E o \in SaveOutcome : Start(o) /\ UNCHANGED nodeVars

ControlEdit ==
  /\ edits < MaxEdits /\ edits' = edits + 1
  /\ \E o \in SaveOutcome : UserStep(o) \/ NodeStep(o) \/ TunnelStep(o)
  /\ UNCHANGED <<slot, agent, faults>>

\* agentBundle answers, and pushRemoteNodes pushes, for an enabled node only.
NodeServed == phase = "up" /\ HasNode(Here) /\ nodes[Here].enabled

\* The agent's loop pulls again only after it has applied the last answer.
PullApplying == sync # None /\ sync.slot = Pull

\* Mutant: a node without tunnels is left alone.
ReadTunnelsIfAny(s) ==
  /\ NodeServed /\ slot[s] = None
  /\ ~(s = Pull /\ PullApplying)
  /\ \E t \in TunnelID : HasTunnel(t) /\ tunnels[t].node = Here
  /\ slot' = [slot EXCEPT ![s] =
       [stage |-> "building", users |-> NoUsers,
        tunnels |-> [t \in TunnelID |->
          IF HasTunnel(t) /\ tunnels[t].node = Here THEN tunnels[t] ELSE None]]]
  /\ UNCHANGED <<vars, agent, edits, faults>>

\* bundleForNode, first read: ListTunnels, filtered by node.
ReadTunnels(s) ==
  /\ NodeServed /\ slot[s] = None
  /\ ~(s = Pull /\ PullApplying)
  /\ slot' = [slot EXCEPT ![s] =
       [stage |-> "building", users |-> NoUsers,
        tunnels |-> [t \in TunnelID |->
          IF HasTunnel(t) /\ tunnels[t].node = Here THEN tunnels[t] ELSE None]]]
  /\ UNCHANGED <<vars, agent, edits, faults>>

Owners(ts) == {ts[t].user : t \in {x \in TunnelID : ts[x] # None}}

\* bundleForNode, second read: usersForTunnels.
ReadUsers(s) ==
  /\ phase = "up" /\ slot[s] # None /\ slot[s].stage = "building"
  /\ slot' = [slot EXCEPT ![s].stage = "sent",
       ![s].users = [n \in UserName |->
         IF n \in Owners(slot[s].tunnels) THEN users[n] ELSE None]]
  /\ UNCHANGED <<vars, agent, edits, faults>>

\* A timeout, a refused connection or a broken answer.
Lose(s) ==
  /\ faults < MaxFaults /\ slot[s] # None
  /\ slot' = [slot EXCEPT ![s] = None] /\ faults' = faults + 1
  /\ UNCHANGED <<vars, agent, edits>>

----------------------------------------------------------------------------
(* The NPS server *)

Transport(m) == portTransport(m)

\* TestServerPortInPool: the client's pool, if it has one, and a trial bind.
PortOpens(task, pool, servers) ==
  /\ pool = {} \/ task.port \in pool
  /\ \A s \in TunnelID : \A v \in {servers[s], twin[s]} \ {None} :
       v.state = "listening" /\ v.port = task.port => v.transport # Transport(task.mode)

\* What AddTask puts into RunList; its goroutine has yet to open the port.
NewServer(task) ==
  [state |-> "starting", port |-> task.port, transport |-> Transport(task.mode)]

\* The goroutine of AddTask opens the port its task has by then.
OpensAt(t, server) ==
  PortOpens([port |-> tasks[t].port, mode |-> server.transport], {}, run)
Opened(t, server) == [server EXCEPT !.state = "listening", !.port = tasks[t].port]

\* When it cannot, it removes the entry.
Listen(t) ==
  /\ run[t] # None /\ run[t].state = "starting"
  /\ run' = [run EXCEPT ![t] = IF OpensAt(t, run[t]) THEN Opened(t, run[t]) ELSE None]
  /\ UNCHANGED <<vars, slot, sync, nps, clients, tasks, hosts, start, edits, faults>>

\* The goroutine of a second server: the entry it removes is the other's, which
\* goes on without one.
ListenTwin(t) ==
  /\ twin[t] # None
  /\ \/ /\ twin[t].state = "starting"
        /\ IF OpensAt(t, twin[t])
           THEN twin' = [twin EXCEPT ![t] = Opened(t, twin[t])] /\ UNCHANGED run
           ELSE twin' = [twin EXCEPT ![t] = run[t]] /\ run' = [run EXCEPT ![t] = None]
     \/ /\ twin[t].state = "loose" /\ UNCHANGED run
        /\ twin' = [twin EXCEPT ![t] =
             IF PortOpens([port |-> @.port, mode |-> @.transport], {}, run)
             THEN [@ EXCEPT !.state = "listening"] ELSE None]
  /\ UNCHANGED <<vars, slot, sync, nps, clients, tasks, hosts, boot, beside, edits, faults>>

\* RunNPS: npsfile.GetDb loads the files.
OpenDb ==
  /\ nps = "off" /\ nps' = "db"
  /\ UNCHANGED <<vars, slot, sync, clients, tasks, hosts, run, start, edits, faults>>

\* StartNewServer sets Bridge: from here on SyncNPSState starts servers.
StartNewServer ==
  /\ nps = "db" /\ nps' = "bridge"
  /\ UNCHANGED <<vars, slot, sync, clients, tasks, hosts, run, start, edits, faults>>

\* InitFromCsv ranges over the stored tasks, in an unspecified order.  Those
\* stored meanwhile are not met, those deleted meanwhile are skipped.
InitFromCsv ==
  /\ nps = "bridge" /\ nps' = "up"
  /\ boot' = [NoBoot EXCEPT !.todo = {t \in TunnelID : tasks[t] # None}]
  /\ UNCHANGED <<vars, slot, sync, clients, tasks, hosts, run, twin, beside, edits, faults>>

\* Its AddTask tests the port; the error is ignored.
InitTest(t) ==
  /\ t \in boot.todo /\ boot.at = {}
  /\ boot' = [boot EXCEPT !.todo = @ \ {t},
       !.at = IF PortOpens(tasks[t], clients[tasks[t].user].ports, run) THEN {t} ELSE {}]
  /\ UNCHANGED <<vars, slot, sync, nps, clients, tasks, hosts, run, twin, beside, edits, faults>>

\* AddTask stores the server, over whatever entry there is by then, or under the
\* id of a task that is gone by then.
InitAdd(t) ==
  /\ t \in boot.at
  /\ boot' = [boot EXCEPT !.at = {}, !.server = None]
  /\ IF boot.server # None
     THEN twin' = [twin EXCEPT ![t] = [boot.server EXCEPT !.state = "loose"]] /\ UNCHANGED run
     ELSE /\ run' = [run EXCEPT ![t] = NewServer(tasks[t])]
          /\ twin' = [twin EXCEPT ![t] = IF run[t] = None THEN @ ELSE run[t]]
  /\ UNCHANGED <<vars, slot, sync, nps, clients, tasks, hosts, beside, edits, faults>>

InitStep == InitFromCsv \/ \E t \in TunnelID : InitTest(t) \/ InitAdd(t)

\* NPS is starting while a bundle is applied.
Booting  == nps = "bridge" \/ boot.todo \cup boot.at # {}
Overlap  == beside' = (beside \/ Booting)
HasBridge == nps \in {"bridge", "up"}

\* The process dies and is started again (restart: unless-stopped).
Restarted ==
  /\ faults < MaxFaults /\ faults' = faults + 1
  /\ sync' = None /\ nps' = "off" /\ run' = NoRun
  /\ boot' = NoBoot /\ twin' = NoRun /\ beside' = FALSE
  /\ slot' = [slot EXCEPT ![Pull] = None]

AgentCrash == Restarted /\ UNCHANGED <<vars, clients, tasks, hosts, edits>>

----------------------------------------------------------------------------
(* SyncNPSState *)

\* The users of a bundle that get a client, and the tunnels that get a task or
\* hosts: enabled ones of such users.
Active(b) == {n \in UserName : b.users[n] # None /\ b.users[n].enabled}

Wanted(b) == {t \in TunnelID : /\ b.tunnels[t] # None /\ b.tunnels[t].enabled
                               /\ b.tunnels[t].user \in Active(b)}
WantedTasks(b) == {t \in Wanted(b) : isPortMode(b.tunnels[t].mode)}
WantedHosts(b) ==
  {td \in Wanted(b) \X Domain : /\ isDomainMode(b.tunnels[td[1]].mode)
                                /\ td[2] \in b.tunnels[td[1]].domains}

TaskOf(tunnel) == [user |-> tunnel.user, mode |-> tunnel.mode, port |-> tunnel.port]

ClientOf(user) == [ports |-> user.ports]

HostOf(tunnel) == [user |-> tunnel.user, scheme |-> tunnel.mode]

\* applyBundle locks syncMu; the first loop of SyncNPSState then creates or
\* updates a client for every active user.  Without a database it is a no-op.
\* Once the faults are spent, a goroutine of AddTask is assumed to have run by
\* the time the next bundle is applied.
BeginSync(s) ==
  /\ sync = None /\ slot[s] # None /\ slot[s].stage = "sent"
  /\ faults < MaxFaults \/ \A t \in TunnelID : run[t] # None => run[t].state = "listening"
  /\ slot' = [slot EXCEPT ![s] = None]
  /\ LET b == slot[s]
     IN  IF nps = "off" THEN UNCHANGED <<sync, clients>>
         ELSE /\ clients' = [n \in UserName |->
                   IF n \in Active(b) THEN ClientOf(b.users[n]) ELSE clients[n]]
              /\ sync' = [slot |-> s, users |-> b.users, tunnels |-> b.tunnels,
                          todo |-> WantedTasks(b) \cup {td[1] : td \in WantedHosts(b)},
                          doing |-> {}]
  /\ UNCHANGED <<vars, nps, tasks, hosts, run, start, edits, faults>>

\* The tunnel the second loop is at.
Current(t) ==
  /\ sync # None /\ t \in sync.todo
  /\ \A s \in sync.todo : t <= s

Done(t) == sync' = [sync EXCEPT !.todo = @ \ {t}, !.doing = {}]

\* Whether SyncNPSState succeeds or fails, syncMu is free again.  After an
\* error what was done stays, and nothing is pruned.
Return == sync' = None

\* StopServer closes a listener that is still nil: the panic ends the push's
\* handler, which net/http recovers, or the whole agent if it is a pull.
Panic ==
  \/ /\ sync.slot # Pull /\ Return
     /\ Overlap /\ UNCHANGED <<slot, nps, run, boot, twin, faults>>
  \/ sync.slot = Pull /\ Restarted

\* Mutant: a task that exists is restarted but not edited.
SyncTaskUnedited(t) ==
  /\ Current(t) /\ isPortMode(sync.tunnels[t].mode)
  /\ LET task == IF tasks[t] = None THEN TaskOf(sync.tunnels[t]) ELSE tasks[t]
         stopped == [run EXCEPT ![t] = None]
     IN  /\ tasks' = [tasks EXCEPT ![t] = task]
         /\ IF HasBridge /\ PortOpens(task, clients[task.user].ports, stopped)
            THEN run' = [run EXCEPT ![t] = NewServer(task)] ELSE run' = stopped
  /\ Overlap /\ Done(t)
  /\ UNCHANGED <<vars, slot, nps, clients, hosts, boot, twin, edits, faults>>

SyncTask(t) ==
  /\ Current(t) /\ isPortMode(sync.tunnels[t].mode)
  /\ LET task    == TaskOf(sync.tunnels[t])
         stopped == [run EXCEPT ![t] = None]
     IN  /\ tasks' = [tasks EXCEPT ![t] = task]
         /\ IF ~HasBridge
            THEN Done(t) /\ UNCHANGED <<slot, nps, run, start, faults>>
            ELSE IF run[t] # None /\ run[t].state = "starting"
            THEN Panic
            ELSE /\ Overlap /\ UNCHANGED <<slot, nps, boot, twin, faults>>
                 /\ IF PortOpens(task, clients[task.user].ports, stopped)
                    THEN run' = [run EXCEPT ![t] = NewServer(task)] /\ Done(t)
                    ELSE run' = stopped /\ Return
  /\ UNCHANGED <<vars, clients, hosts, edits>>

\* findNPSHostByDomain: another tunnel's host for the domain and scheme.
HostTaken(t, d, scheme) ==
  \E s \in TunnelID \ {t} : hosts[s, d] # None /\ hosts[s, d].scheme = scheme

\* One domain of tunnel t.  A host that exists is edited in place before the
\* check, so the edit stays when the check fails.
SyncHost(t, d) ==
  /\ Current(t) /\ <<t, d>> \in WantedHosts(sync) /\ d \notin sync.doing
  /\ LET tunnel == sync.tunnels[t]
         rest   == tunnel.domains \ (sync.doing \cup {d})
     IN  IF HostTaken(t, d, tunnel.mode)
         THEN /\ hosts' = [hosts EXCEPT ![<<t, d>>] =
                             IF @ = None THEN None ELSE HostOf(tunnel)]
              /\ Return
         ELSE /\ hosts' = [hosts EXCEPT ![<<t, d>>] = HostOf(tunnel)]
              /\ IF rest = {} THEN Done(t)
                 ELSE sync' = [sync EXCEPT !.doing = @ \cup {d}]
  /\ UNCHANGED <<vars, slot, nps, clients, tasks, run, start, edits, faults>>

\* The last three loops: unwanted tasks are stopped and deleted, then unwanted
\* hosts, then clients of users the bundle does not have, with all they own.
Unwanted == {t \in TunnelID : tasks[t] # None} \ WantedTasks(sync)
Unopened == {t \in Unwanted : run[t] # None /\ run[t].state = "starting"}

\* A task that goes is out of reach of InitFromCsv, unless AddTask has it already,
\* and of a goroutine that has yet to open its port.
Delete(gone) ==
  /\ tasks' = [t \in TunnelID |-> IF t \in gone THEN None ELSE tasks[t]]
  /\ boot' = [boot EXCEPT !.todo = @ \ gone,
       !.server = IF boot.at \cap gone = {} \/ @ # None THEN @
                  ELSE NewServer(tasks[CHOOSE t \in boot.at : TRUE])]
  /\ twin' = [t \in TunnelID |->
       IF t \in gone /\ twin[t] # None /\ twin[t].state = "starting"
       THEN [twin[t] EXCEPT !.state = "loose"] ELSE twin[t]]

\* Mutant: deletes tasks without StopServer.
PruneRunning ==
  /\ sync # None /\ sync.todo = {}
  /\ Delete(Unwanted)
  /\ hosts' = [td \in TunnelID \X Domain |->
                 IF td \in WantedHosts(sync) THEN hosts[td] ELSE None]
  /\ clients' = [n \in UserName |-> IF n \in Active(sync) THEN clients[n] ELSE None]
  /\ Return /\ Overlap /\ UNCHANGED <<vars, slot, nps, run, edits, faults>>

Prune ==
  /\ sync # None /\ sync.todo = {} /\ Unopened = {}
  /\ Delete(Unwanted)
  /\ run' = [t \in TunnelID |-> IF t \in Unwanted THEN None ELSE run[t]]
  /\ hosts' = [td \in TunnelID \X Domain |->
                 IF td \in WantedHosts(sync) THEN hosts[td] ELSE None]
  /\ clients' = [n \in UserName |-> IF n \in Active(sync) THEN clients[n] ELSE None]
  /\ Return /\ Overlap /\ UNCHANGED <<vars, slot, nps, edits, faults>>

\* StopServer panics at one of the tasks, some of the others being gone by then.
PrunePanics ==
  /\ sync # None /\ sync.todo = {} /\ Unopened # {}
  /\ \E gone \in SUBSET (Unwanted \ Unopened) :
       \/ /\ sync.slot # Pull /\ Return /\ Delete(gone) /\ Overlap
          /\ run' = [t \in TunnelID |-> IF t \in gone THEN None ELSE run[t]]
          /\ UNCHANGED <<slot, nps, faults>>
       \/ /\ sync.slot = Pull /\ Restarted
          /\ tasks' = [t \in TunnelID |-> IF t \in gone THEN None ELSE tasks[t]]
  /\ UNCHANGED <<vars, clients, hosts, edits>>

----------------------------------------------------------------------------

SyncStep ==
  \/ \E t \in TunnelID : SyncTask(t) \/ \E d \in Domain : SyncHost(t, d)
  \/ Prune \/ PrunePanics

NodeNext ==
  \/ ControlStart \/ ControlEdit
  \/ \E s \in Slot : ReadTunnels(s) \/ ReadUsers(s) \/ Lose(s) \/ BeginSync(s)
  \/ OpenDb \/ StartNewServer \/ InitStep \/ AgentCrash
  \/ \E t \in TunnelID : Listen(t) \/ ListenTwin(t)
  \/ SyncStep

NodeSpec == NodeInit /\ [][NodeNext]_allVars

\* The agent pulls every 10 seconds and Go's mutex starves no waiter, so a
\* pulled bundle gets its turn however many pushes compete; goroutines run; the
\* processes are restarted.  Nothing makes anybody edit or push.
NodeFairness ==
  /\ WF_allVars(ControlStart)
  /\ WF_allVars(ReadTunnels(Pull))
  /\ \A s \in Slot : WF_allVars(ReadUsers(s)) /\ SF_allVars(BeginSync(s))
  /\ WF_allVars(OpenDb) /\ WF_allVars(StartNewServer)
  /\ WF_allVars(InitStep)
  /\ WF_allVars(SyncStep)
  /\ \A t \in TunnelID : WF_allVars(Listen(t)) /\ WF_allVars(ListenTwin(t))

----------------------------------------------------------------------------
(* Properties *)

\* The node's state and everything on its way to it is well formed.
NodeTypeOK ==
  /\ slot \in [Slot -> Bundle \cup {None}]
  /\ sync \in Call \cup {None}
  /\ nps \in {"off", "db", "bridge", "up"}
  /\ clients \in [UserName -> Client \cup {None}]
  /\ tasks \in [TunnelID -> Task \cup {None}]
  /\ hosts \in [TunnelID \X Domain -> Host \cup {None}]
  /\ run \in [TunnelID -> Server \cup {None}]
  /\ boot \in Boot /\ twin \in [TunnelID -> Server \cup {None}] /\ beside \in BOOLEAN
  /\ edits \in 0..MaxEdits /\ faults \in 0..MaxFaults

\* Whatever bundles, errors, panics and restarts went before, no task or host
\* of the node belongs to a client that is gone, no server of the run list is
\* there for a task that is gone, and there is no listener that a later sync
\* could not find: except that one may be left, until the agent restarts, if a
\* bundle was applied between the Bridge and the end of InitFromCsv
\* (server.go:90-114, 203-216), when two AddTask of one task meet.
NothingDangles ==
  /\ \A t \in TunnelID : tasks[t] # None => clients[tasks[t].user] # None
  /\ \A td \in TunnelID \X Domain : hosts[td] # None => clients[hosts[td].user] # None
  /\ \A t \in TunnelID : run[t] # None => tasks[t] # None
  /\ \A t \in TunnelID : twin[t] # None => beside

\* The node's database says exactly what bundle b says.
AppliedTo(b) ==
  /\ tasks = [t \in TunnelID |->
                IF t \in WantedTasks(b) THEN TaskOf(b.tunnels[t]) ELSE None]
  /\ hosts = [td \in TunnelID \X Domain |->
                IF td \in WantedHosts(b) THEN HostOf(b.tunnels[td[1]]) ELSE None]
  /\ clients = [n \in UserName |-> IF n \in Active(b) THEN ClientOf(b.users[n]) ELSE None]

\* When SyncNPSState returns success, the node's database is exactly the bundle,
\* although other goroutines (InitFromCsv, the servers) ran meanwhile.
SuccessMeansApplied == [][\A b \in {sync} : Prune => AppliedTo(b)']_allVars

\* The bundle the store would yield now.
Desired ==
  LET ts == [t \in TunnelID |-> IF HasTunnel(t) /\ tunnels[t].node = Here
                                THEN tunnels[t] ELSE None]
  IN  [tunnels |-> ts,
       users |-> [n \in UserName |-> IF n \in Owners(ts) THEN users[n] ELSE None]]

Applied == AppliedTo(Desired) /\ \A t \in WantedTasks(Desired) : run[t] # None

\* A listener that start-up left holds a port that is wanted.
PortLost ==
  \E t \in WantedTasks(Desired) : \E s \in TunnelID :
    /\ twin[s] # None /\ twin[s].state = "listening"
    /\ twin[s].port = Desired.tunnels[t].port
    /\ twin[s].transport = Transport(Desired.tunnels[t].mode)

\* README.md:98 "the node starts NPS and pulls the configuration from the control
\* periodically": once the edits stop and the node is served, it comes to run
\* exactly what the store holds, whatever was lost, late or out of order before;
\* unless start-up left a listener on a port that is wanted.
EventuallyApplied == <>[]NodeServed => <>[](Applied \/ PortLost)

\* What the node has is well formed and has its owner, at every point of a sync.
NodeSound == NodeTypeOK /\ NothingDangles
=============================================================================

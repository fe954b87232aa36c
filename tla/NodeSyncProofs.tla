--------------------------- MODULE NodeSyncProofs ---------------------------
(***************************************************************************)
(* Proofs about NodeSync, for every set of users, tunnels and pushes, and  *)
(* whatever is lost, late or restarted.                                    *)
(***************************************************************************)
EXTENDS NodeSync, StoreProofs

----------------------------------------------------------------------------
(* The invariant                                                            *)

\* What SyncNPSState has done of the bundle it is at: every active user has its
\* client, and what is no longer to be done says what the bundle says.
InHand ==
  /\ sync.todo \subseteq WantedTasks(sync) \cup {td[1] : td \in WantedHosts(sync)}
  /\ \A n \in Active(sync) : clients[n] = ClientOf(sync.users[n])
  /\ \A t \in WantedTasks(sync) \ sync.todo : tasks[t] = TaskOf(sync.tunnels[t])
  /\ \A td \in WantedHosts(sync) :
       td[1] \notin sync.todo \/ (Current(td[1]) /\ td[2] \in sync.doing)
         => hosts[td] = HostOf(sync.tunnels[td[1]])

\* InitFromCsv: what it has yet to add is stored and, while no bundle came
\* beside it, not running; a second server of a task comes of a bundle beside it.
BootInv ==
  /\ nps # "up" => boot.todo = {} /\ boot.at = {}
  /\ ~HasBridge \/ (nps = "bridge" /\ ~beside) => \A t \in TunnelID : run[t] = None
  /\ boot.at \cap boot.todo = {} /\ \A s, t \in boot.at : s = t
  /\ \A t \in boot.todo : tasks[t] # None
  /\ \A t \in boot.at : tasks[t] # None \/ boot.server # None
  /\ boot.server # None => beside
  /\ \A t \in boot.todo \cup boot.at : run[t] # None => beside
  /\ \A t \in TunnelID :
       twin[t] # None /\ twin[t].state = "starting" => tasks[t] # None

NodeInv == /\ TypeOK /\ NodeTypeOK /\ NothingDangles /\ BootInv
           /\ sync # None => InHand

\* The node at first: nothing there.
LEMMA NodeInvInit == NodeInit => NodeInv
<1> SUFFICES ASSUME NodeInit PROVE NodeInv
  OBVIOUS
<1>1. TypeOK
  BY TypeInit DEF NodeInit
<1>2. NodeTypeOK
  <2>1. boot \in Boot
    BY DEF NodeInit, NoBoot, Boot
  <2>2. /\ clients \in [UserName -> Client \cup {None}]
        /\ tasks \in [TunnelID -> Task \cup {None}]
        /\ hosts \in [TunnelID \X Domain -> Host \cup {None}]
    BY DEF NodeInit, NoUsers, NoTunnels, NoHosts
  <2>3. /\ run \in [TunnelID -> Server \cup {None}] /\ twin \in [TunnelID -> Server \cup {None}]
        /\ slot \in [Slot -> Bundle \cup {None}]
    BY DEF NodeInit, NoRun
  <2>4. edits \in 0..MaxEdits /\ faults \in 0..MaxFaults
    BY NodeAssumption DEF NodeInit
  <2>5. beside \in BOOLEAN /\ sync \in Call \cup {None} /\ nps \in {"off", "db", "bridge", "up"}
    BY DEF NodeInit
  <2> QED BY <2>1, <2>2, <2>3, <2>4, <2>5 DEF NodeTypeOK
<1>3. NothingDangles /\ sync = None
  BY DEF NodeInit, NothingDangles, NoTunnels, NoHosts, NoRun
<1>4. BootInv
  BY DEF NodeInit, BootInv, NoBoot, NoRun, NoTunnels, HasBridge
<1> QED BY <1>1, <1>2, <1>3, <1>4 DEF NodeInv

\* The invariant is about the node and what is on its way to it.
LEMMA NodeFrame ==
  ASSUME NodeInv, TypeOK', UNCHANGED <<slot, agent>>, edits' \in 0..MaxEdits,
         faults' \in 0..MaxFaults
  PROVE  NodeInv'
<1> USE DEF agent, start
<1>1. NodeTypeOK' /\ NothingDangles' /\ BootInv'
  BY DEF NodeInv, NodeTypeOK, NothingDangles, BootInv, HasBridge
<1>2. sync # None => InHand'
  BY DEF NodeInv, InHand, Current
<1> QED BY <1>1, <1>2 DEF NodeInv

\* The steps of the control, which leave the node alone.
LEMMA ControlKeeps ==
  ASSUME NodeInv, ControlStart \/ ControlEdit
  PROVE  NodeInv'
<1>1. TypeOK'
  BY StartType, UserStepType, NodeStepType, TunnelStepType
  DEF ControlStart, ControlEdit, NodeInv
<1>2. edits' \in 0..MaxEdits /\ faults' \in 0..MaxFaults
  BY NodeAssumption DEF ControlStart, ControlEdit, NodeInv, NodeTypeOK, nodeVars
<1>3. UNCHANGED <<slot, agent>>
  BY DEF ControlStart, ControlEdit, nodeVars
<1> QED BY <1>1, <1>2, <1>3, NodeFrame

\* A bundle that is built or lost is none of the node's business.
LEMMA BundleKeeps ==
  ASSUME NodeInv, NEW s \in Slot, ReadTunnels(s) \/ ReadUsers(s) \/ Lose(s)
  PROVE  NodeInv'
<1> USE DEF NodeInv
<1>1. TypeOK'
  BY DEF ReadTunnels, ReadUsers, Lose, TypeOK, vars
<1>2. UNCHANGED agent
  BY DEF ReadTunnels, ReadUsers, Lose
<1>3. slot' \in [Slot -> Bundle \cup {None}]
  <2> DEFINE Out == Bundle \cup {None}
  <2>1. slot \in [Slot -> Out] /\ users \in [UserName -> User \cup {None}]
        /\ tunnels \in [TunnelID -> Tunnel \cup {None}]
    BY DEF NodeTypeOK, TypeOK, Users, Tunnels
  <2>2. \E b \in Out : slot' = [slot EXCEPT ![s] = b]
    <3>1. CASE ReadTunnels(s)
      <4> DEFINE b == [stage |-> "building", users |-> NoUsers,
                       tunnels |-> [t \in TunnelID |->
                         IF HasTunnel(t) /\ tunnels[t].node = Here
                         THEN tunnels[t] ELSE None]]
      <4>1. b \in Out
        BY <2>1 DEF Bundle, NoUsers
      <4>2. slot' = [slot EXCEPT ![s] = b]
        BY <3>1 DEF ReadTunnels
      <4> QED BY <4>1, <4>2
    <3>2. CASE ReadUsers(s)
      <4> DEFINE us == [n \in UserName |->
                         IF n \in Owners(slot[s].tunnels) THEN users[n] ELSE None]
                 b == [slot[s] EXCEPT !.stage = "sent", !.users = us]
      <4>1. us \in [UserName -> User \cup {None}]
        BY <2>1
      <4>2. slot[s] \in Bundle
        BY <2>1, <3>2 DEF ReadUsers
      <4>3. b \in Out
        <5> HIDE DEF us
        <5> QED BY <4>1, <4>2 DEF Bundle
      <4>4. slot' = [slot EXCEPT ![s] = b]
        <5>1. slot' = [slot EXCEPT ![s].stage = "sent", ![s].users = us]
          BY <3>2 DEF ReadUsers
        <5> HIDE DEF us
        <5> QED BY <5>1, <2>1, <4>2 DEF Bundle
      <4> QED BY <4>3, <4>4
    <3>3. CASE Lose(s)
      BY <3>3 DEF Lose
    <3> QED BY <3>1, <3>2, <3>3
  <2> HIDE DEF Out
  <2>3. slot' \in [Slot -> Out]
    BY <2>1, <2>2
  <2> QED BY <2>3 DEF Out
<1>4. edits' \in 0..MaxEdits /\ faults' \in 0..MaxFaults
  BY NodeAssumption DEF ReadTunnels, ReadUsers, Lose, NodeTypeOK
<1>5. NodeTypeOK' /\ NothingDangles' /\ BootInv'
  BY <1>2, <1>3, <1>4 DEF NodeTypeOK, NothingDangles, BootInv, HasBridge, agent, start
<1>6. sync # None => InHand'
  BY <1>2 DEF InHand, Current, agent
<1> QED BY <1>1, <1>2, <1>5, <1>6 DEF agent

----------------------------------------------------------------------------
(* The steps of the node                                                    *)

\* A step of the node alone keeps the store, and with it its types.
LEMMA StoreKept == ASSUME TypeOK, UNCHANGED vars PROVE TypeOK'
BY DEF TypeOK, vars

\* What a goroutine opens is a server, and it keeps the task it serves.
LEMMA OpenedType ==
  ASSUME NEW t \in TunnelID, NEW server \in Server, tasks[t] \in Task
  PROVE  Opened(t, server) \in Server /\ Opened(t, server).state = "listening"
BY DEF Opened, Task, Server

\* The goroutine of AddTask: the task it serves is there.
LEMMA ListenKeeps ==
  ASSUME NodeInv, NEW t \in TunnelID, Listen(t)
  PROVE  NodeInv'
<1> USE DEF NodeInv
<1> DEFINE On == Server \cup {None}
<1>1. run \in [TunnelID -> On] /\ tasks[t] \in Task /\ run[t] \in Server
  BY DEF NodeTypeOK, NothingDangles, Listen
<1>2. PICK v \in On : run' = [run EXCEPT ![t] = v]
  BY <1>1, OpenedType DEF Listen
<1>3. run' \in [TunnelID -> On]
  <2> HIDE DEF On
  <2> QED BY <1>1, <1>2
<1>4. \A s \in TunnelID : run'[s] # None => run[s] # None
  BY <1>1, <1>2 DEF Listen
<1>5. NodeTypeOK' /\ NothingDangles'
  BY <1>3, <1>4 DEF NodeTypeOK, NothingDangles, Listen, start
<1>6. BootInv'
  BY <1>4 DEF BootInv, NodeTypeOK, Boot, HasBridge, Listen, start
<1>7. TypeOK' /\ (sync # None => InHand')
  BY StoreKept DEF Listen, InHand, Current
<1> QED BY <1>5, <1>6, <1>7 DEF Listen

\* The goroutine of a second server, which may leave the first without its entry.
LEMMA ListenTwinKeeps ==
  ASSUME NodeInv, NEW t \in TunnelID, ListenTwin(t)
  PROVE  NodeInv'
<1> USE DEF NodeInv
<1> DEFINE On == Server \cup {None}
<1>0. UNCHANGED <<vars, slot, sync, nps, clients, tasks, hosts, boot, beside, edits, faults>>
  BY DEF ListenTwin
<1>1. /\ run \in [TunnelID -> On] /\ twin \in [TunnelID -> On]
      /\ twin[t] \in Server /\ twin[t] # None /\ beside
      /\ twin[t].state = "starting" => tasks[t] \in Task
  BY DEF NodeTypeOK, NothingDangles, BootInv, ListenTwin
<1>2. \E v \in On, w \in On :
        /\ twin' = [twin EXCEPT ![t] = v] /\ run' = [run EXCEPT ![t] = w]
        /\ v # None /\ v.state = "starting" => tasks[t] # None
        /\ w # None => run[t] # None
  <2>1. ASSUME twin[t].state = "starting" PROVE <1>2
    <3>1. CASE OpensAt(t, twin[t])
      <4>1. twin' = [twin EXCEPT ![t] = Opened(t, twin[t])] /\ run' = [run EXCEPT ![t] = run[t]]
        BY <1>1, <2>1, <3>1 DEF ListenTwin
      <4> QED BY <1>1, <2>1, <4>1, OpenedType
    <3>2. CASE ~OpensAt(t, twin[t])
      <4>1. twin' = [twin EXCEPT ![t] = run[t]] /\ run' = [run EXCEPT ![t] = None]
        BY <2>1, <3>2 DEF ListenTwin
      <4>2. tasks[t] # None
        BY <1>1, <2>1, NodeAssumption
      <4> QED BY <1>1, <4>1, <4>2
    <3> QED BY <3>1, <3>2
  <2>2. ASSUME twin[t].state # "starting" PROVE <1>2
    <3> DEFINE v == IF PortOpens([port |-> twin[t].port, mode |-> twin[t].transport], {}, run)
                    THEN [twin[t] EXCEPT !.state = "listening"] ELSE None
    <3>1. twin' = [twin EXCEPT ![t] = v] /\ run' = [run EXCEPT ![t] = run[t]]
      BY <1>1, <2>2 DEF ListenTwin
    <3>2. v \in On /\ (v # None => v.state = "listening")
      BY <1>1 DEF Server
    <3> HIDE DEF v
    <3> QED BY <1>1, <3>1, <3>2
  <2> QED BY <2>1, <2>2
<1>3. /\ run' \in [TunnelID -> On] /\ twin' \in [TunnelID -> On]
      /\ \A s \in TunnelID : run'[s] # None => run[s] # None
      /\ \A s \in TunnelID :
           twin'[s] # None /\ twin'[s].state = "starting" => tasks[s] # None
  <2>1. \A s \in TunnelID :
          twin[s] # None /\ twin[s].state = "starting" => tasks[s] # None
    BY DEF BootInv
  <2> HIDE DEF On
  <2> QED BY <1>1, <1>2, <2>1
<1>4. NodeTypeOK' /\ NothingDangles'
  BY <1>0, <1>1, <1>3 DEF NodeTypeOK, NothingDangles
<1>5. BootInv'
  BY <1>0, <1>1, <1>3 DEF BootInv, NodeTypeOK, Boot, HasBridge
<1>6. TypeOK' /\ (sync # None => InHand')
  BY <1>0, StoreKept DEF InHand, Current
<1> QED BY <1>0, <1>4, <1>5, <1>6

\* GetDb and the Bridge, which change nothing but nps.
LEMMA OpenKeeps == ASSUME NodeInv, OpenDb \/ StartNewServer PROVE NodeInv'
<1> USE DEF NodeInv, OpenDb, StartNewServer
<1>1. NodeTypeOK' /\ NothingDangles' /\ TypeOK'
  BY StoreKept DEF NodeTypeOK, NothingDangles, start
<1>2. BootInv'
  BY DEF BootInv, HasBridge, start
<1>3. sync # None => InHand'
  BY DEF InHand, Current
<1> QED BY <1>1, <1>2, <1>3

\* What AddTask puts into the run list is a server.
LEMMA NewServerType ==
  ASSUME NEW task \in Task PROVE NewServer(task) \in Server /\ NewServer(task) # None
BY NodeAssumption DEF NewServer, Task, Server, Transport, portTransport

\* InitFromCsv begins with the stored tasks, none of them running unless a bundle
\* came first.
LEMMA InitFromCsvKeeps == ASSUME NodeInv, InitFromCsv PROVE NodeInv'
<1> USE DEF NodeInv
<1>1. /\ boot'.todo = {t \in TunnelID : tasks[t] # None} /\ boot'.at = {}
      /\ boot'.server = None /\ boot' \in Boot
  BY DEF InitFromCsv, NoBoot, Boot
<1>2. UNCHANGED <<vars, slot, sync, clients, tasks, hosts, run, twin, beside, edits, faults>>
      /\ nps = "bridge" /\ nps' = "up"
  BY DEF InitFromCsv
<1>3. NodeTypeOK' /\ NothingDangles' /\ TypeOK'
  BY <1>1, <1>2, StoreKept DEF NodeTypeOK, NothingDangles
<1>4. BootInv'
  BY <1>1, <1>2 DEF BootInv, HasBridge
<1>5. sync # None => InHand'
  BY <1>2 DEF InHand, Current
<1> QED BY <1>2, <1>3, <1>4, <1>5

\* It takes the next task, whose port is free or not.
LEMMA InitTestKeeps ==
  ASSUME NodeInv, NEW t \in TunnelID, InitTest(t) PROVE NodeInv'
<1> USE DEF NodeInv
<1>1. PICK at \in {{t}, {}} : boot' = [boot EXCEPT !.todo = @ \ {t}, !.at = at]
  BY DEF InitTest
<1>2. /\ t \in boot.todo /\ boot.at = {}
      /\ UNCHANGED <<vars, slot, sync, nps, clients, tasks, hosts, run, twin, beside,
                     edits, faults>>
  BY DEF InitTest
<1>3. /\ boot'.todo = boot.todo \ {t} /\ boot'.at \subseteq {t}
      /\ boot'.server = boot.server /\ boot' \in Boot
  BY <1>1 DEF NodeTypeOK, Boot
<1>4. NodeTypeOK' /\ NothingDangles' /\ TypeOK'
  BY <1>2, <1>3, StoreKept DEF NodeTypeOK, NothingDangles
<1>5. BootInv'
  BY <1>2, <1>3 DEF BootInv, HasBridge, NoBoot
<1>6. sync # None => InHand'
  BY <1>2 DEF InHand, Current
<1> QED BY <1>2, <1>4, <1>5, <1>6

\* It adds the server of the task, which may be the second one, or of a task that
\* is gone: only if a bundle was applied meanwhile.
LEMMA InitAddKeeps ==
  ASSUME NodeInv, NEW t \in TunnelID, InitAdd(t) PROVE NodeInv'
<1> USE DEF NodeInv
<1> DEFINE On == Server \cup {None}
<1>1. /\ t \in boot.at /\ boot' = [boot EXCEPT !.at = {}, !.server = None]
      /\ UNCHANGED <<vars, slot, sync, nps, clients, tasks, hosts, beside, edits, faults>>
  BY DEF InitAdd
<1>2. /\ boot'.todo = boot.todo /\ boot'.at = {}
      /\ boot'.server = None /\ boot' \in Boot /\ nps = "up"
  BY <1>1 DEF NodeTypeOK, Boot, BootInv, NoBoot
<1>3. run \in [TunnelID -> On] /\ twin \in [TunnelID -> On] /\ boot.server \in On
  BY DEF NodeTypeOK, Boot
<1>4. \E v \in On, w \in On :
        /\ twin' = [twin EXCEPT ![t] = v] /\ run' = [run EXCEPT ![t] = w]
        /\ v # None => beside /\ (v.state = "starting" => tasks[t] # None)
        /\ w # None => tasks[t] # None
  <2>1. CASE boot.server # None
    <3> DEFINE v == [boot.server EXCEPT !.state = "loose"]
    <3>1. v \in On /\ v.state = "loose" /\ beside
      BY <1>3, <2>1 DEF Server, BootInv
    <3>2. twin' = [twin EXCEPT ![t] = v] /\ run' = [run EXCEPT ![t] = run[t]]
      BY <1>3, <2>1 DEF InitAdd
    <3> HIDE DEF v
    <3> QED BY <1>3, <3>1, <3>2 DEF NothingDangles
  <2>2. CASE boot.server = None
    <3> DEFINE w == NewServer(tasks[t])
               v == IF run[t] = None THEN twin[t] ELSE run[t]
    <3>1. tasks[t] # None /\ tasks[t] \in Task
      BY <1>1, <2>2 DEF BootInv, NodeTypeOK
    <3>2. w \in On /\ v \in On
      BY <1>3, <3>1, NewServerType
    <3>3. twin' = [twin EXCEPT ![t] = v] /\ run' = [run EXCEPT ![t] = w]
      BY <1>3, <2>2 DEF InitAdd
    <3>4. v # None => beside
      BY <1>1 DEF BootInv, NothingDangles
    <3> HIDE DEF w, v
    <3> QED BY <3>1, <3>2, <3>3, <3>4
  <2> QED BY <2>1, <2>2
<1>5. /\ run' \in [TunnelID -> On] /\ twin' \in [TunnelID -> On]
      /\ \A s \in TunnelID : run'[s] # None => run[s] # None \/ (s = t /\ tasks[s] # None)
      /\ \A s \in TunnelID : s # t => run'[s] = run[s]
      /\ \A s \in TunnelID :
           twin'[s] # None => beside /\ (twin'[s].state = "starting" => tasks[s] # None)
  <2>1. \A s \in TunnelID :
          twin[s] # None => beside /\ (twin[s].state = "starting" => tasks[s] # None)
    BY DEF BootInv, NothingDangles
  <2> HIDE DEF On
  <2> QED BY <1>3, <1>4, <2>1
<1>6. NodeTypeOK' /\ NothingDangles'
  BY <1>1, <1>2, <1>5 DEF NodeTypeOK, NothingDangles
<1>7. t \notin boot.todo
  BY <1>1 DEF BootInv
<1>8. BootInv'
  BY <1>1, <1>2, <1>5, <1>7 DEF BootInv, NodeTypeOK, Boot, HasBridge
<1>9. TypeOK' /\ (sync # None => InHand')
  BY <1>1, StoreKept DEF InHand, Current
<1> QED BY <1>1, <1>6, <1>8, <1>9

\* The process dies: syncMu and the servers go with it.
LEMMA RestartedIs ==
  ASSUME NodeTypeOK, Restarted
  PROVE  /\ sync' = None /\ nps' = "off" /\ run' = NoRun
         /\ boot' = NoBoot /\ twin' = NoRun /\ beside' = FALSE
         /\ slot' \in [Slot -> Bundle \cup {None}] /\ faults' \in 0..MaxFaults
         /\ BootInv'
<1>1. faults' \in 0..MaxFaults
  BY NodeAssumption DEF Restarted, NodeTypeOK
<1>2. slot' \in [Slot -> Bundle \cup {None}]
  <2> DEFINE Out == Bundle \cup {None}
  <2>1. slot \in [Slot -> Out] /\ None \in Out /\ slot' = [slot EXCEPT ![Pull] = None]
    BY DEF NodeTypeOK, Restarted
  <2> HIDE DEF Out
  <2>2. slot' \in [Slot -> Out]
    BY <2>1
  <2> QED BY <2>2 DEF Out
<1>3. BootInv'
  BY DEF Restarted, BootInv, NoBoot, NoRun, HasBridge
<1> QED BY <1>1, <1>2, <1>3 DEF Restarted

\* Nothing of InitFromCsv or of a second server in the process that starts.
LEMMA RestartedType ==
  /\ NoBoot \in Boot
  /\ NoRun \in [TunnelID -> Server \cup {None}] /\ \A t \in TunnelID : NoRun[t] = None
BY DEF NoBoot, Boot, NoRun

\* The agent dies and starts again.
LEMMA CrashKeeps == ASSUME NodeInv, AgentCrash PROVE NodeInv'
<1> USE DEF NodeInv, AgentCrash
<1>1. TypeOK' /\ NodeTypeOK'
  BY StoreKept, RestartedIs, RestartedType DEF NodeTypeOK
<1>2. NothingDangles' /\ BootInv' /\ sync' = None
  BY RestartedIs, RestartedType DEF NothingDangles
<1> QED BY <1>1, <1>2

----------------------------------------------------------------------------
(* SyncNPSState                                                             *)

\* What is wanted has a tunnel of the bundle, with an active user.
LEMMA WantedIs ==
  ASSUME NEW b, b.users \in [UserName -> User \cup {None}],
         b.tunnels \in [TunnelID -> Tunnel \cup {None}]
  PROVE  /\ \A t \in WantedTasks(b) :
              /\ t \in TunnelID /\ b.tunnels[t] \in Tunnel
              /\ TaskOf(b.tunnels[t]) \in Task
              /\ TaskOf(b.tunnels[t]).user \in Active(b)
         /\ \A td \in WantedHosts(b) :
              /\ td \in TunnelID \X Domain /\ b.tunnels[td[1]] \in Tunnel
              /\ HostOf(b.tunnels[td[1]]) \in Host
              /\ HostOf(b.tunnels[td[1]]).user \in Active(b)
              /\ td[2] \in b.tunnels[td[1]].domains
              /\ isDomainMode(b.tunnels[td[1]].mode)
         /\ \A n \in Active(b) : n \in UserName /\ ClientOf(b.users[n]) \in Client
<1>1. \A t \in Wanted(b) : /\ t \in TunnelID /\ b.tunnels[t] \in Tunnel
                           /\ b.tunnels[t].user \in Active(b)
  BY DEF Wanted
<1>2. ASSUME NEW t \in WantedTasks(b)
      PROVE  TaskOf(b.tunnels[t]) \in Task /\ TaskOf(b.tunnels[t]).user \in Active(b)
  BY <1>1 DEF WantedTasks, TaskOf, Task, Tunnel, isPortMode
<1>3. ASSUME NEW td \in WantedHosts(b)
      PROVE  /\ td \in TunnelID \X Domain /\ b.tunnels[td[1]] \in Tunnel
             /\ td[2] \in b.tunnels[td[1]].domains
             /\ isDomainMode(b.tunnels[td[1]].mode) /\ td[1] \in Wanted(b)
  BY <1>1 DEF WantedHosts
<1>4. ASSUME NEW td \in WantedHosts(b)
      PROVE  /\ HostOf(b.tunnels[td[1]]) \in Host
             /\ HostOf(b.tunnels[td[1]]).user \in Active(b)
  BY <1>1, <1>3 DEF HostOf, Host, Tunnel, isDomainMode
<1>5. \A n \in Active(b) : n \in UserName /\ ClientOf(b.users[n]) \in Client
  BY DEF Active, ClientOf, Client, User
<1>6. \A t \in WantedTasks(b) : t \in Wanted(b)
  BY DEF WantedTasks
<1> QED BY <1>1, <1>2, <1>3, <1>4, <1>5, <1>6

\* The bundle in hand, and the tunnel the second loop is at.
LEMMA InHandIs ==
  ASSUME NodeInv, sync # None
  PROVE  /\ sync \in Call /\ InHand
         /\ sync.users \in [UserName -> User \cup {None}]
         /\ sync.tunnels \in [TunnelID -> Tunnel \cup {None}]
         /\ \A s, t \in TunnelID : Current(s) /\ Current(t) => s = t
         /\ \A n \in Active(sync) : clients[n] # None
<1>1. sync \in Call /\ InHand
  BY DEF NodeInv, NodeTypeOK
<1>2. /\ sync.users \in [UserName -> User \cup {None}]
      /\ sync.tunnels \in [TunnelID -> Tunnel \cup {None}]
  BY <1>1 DEF Call
<1>3. \A s, t \in TunnelID : Current(s) /\ Current(t) => s = t
  BY NodeAssumption DEF Current
<1>4. \A n \in Active(sync) : clients[n] \in Client
  BY <1>1, <1>2, WantedIs DEF InHand
<1>5. \A n \in Active(sync) : clients[n] # None
  BY <1>4, NodeAssumption
<1> QED BY <1>1, <1>2, <1>3, <1>5

\* A bundle is taken from its slot, and every active user gets a client.
LEMMA BeginKeeps ==
  ASSUME NodeInv, NEW s \in Slot, BeginSync(s)
  PROVE  NodeInv'
<1> USE DEF NodeInv
<1> DEFINE b == slot[s]
<1>1. b \in Bundle
  BY DEF BeginSync, NodeTypeOK
<1>2. slot' \in [Slot -> Bundle \cup {None}]
  <2> DEFINE Out == Bundle \cup {None}
  <2>1. slot \in [Slot -> Out] /\ None \in Out /\ slot' = [slot EXCEPT ![s] = None]
    BY DEF NodeTypeOK, BeginSync
  <2> HIDE DEF Out
  <2>2. slot' \in [Slot -> Out]
    BY <2>1
  <2> QED BY <2>2 DEF Out
<1>0. BootInv'
  BY DEF BeginSync, BootInv, HasBridge, start
<1>3. CASE nps = "off"
  <2>1. NodeTypeOK' /\ NothingDangles' /\ TypeOK' /\ sync' = None
    BY <1>2, <1>3, StoreKept DEF NodeTypeOK, NothingDangles, BeginSync, start
  <2> QED BY <1>0, <2>1
<1>4. CASE nps # "off"
  <2>1. /\ b.users \in [UserName -> User \cup {None}]
        /\ b.tunnels \in [TunnelID -> Tunnel \cup {None}]
    BY <1>1 DEF Bundle
  <2> DEFINE todo == WantedTasks(b) \cup {td[1] : td \in WantedHosts(b)}
  <2>2. todo \subseteq TunnelID
    BY <2>1, WantedIs
  <2>3. /\ sync' = [slot |-> s, users |-> b.users, tunnels |-> b.tunnels,
                    todo |-> todo, doing |-> {}]
        /\ clients' = [n \in UserName |->
                         IF n \in Active(b) THEN ClientOf(b.users[n]) ELSE clients[n]]
        /\ UNCHANGED <<vars, nps, tasks, hosts, run, start, edits, faults>>
    BY <1>4 DEF BeginSync
  <2> HIDE DEF b, todo
  <2>4. sync' \in Call /\ sync' # None
    BY <2>1, <2>2, <2>3, NodeAssumption DEF Call
  <2>5. \A n \in Active(b) : ClientOf(b.users[n]) \in Client
    BY <2>1, WantedIs
  <2>6. \A n \in UserName : /\ clients'[n] \in Client \cup {None}
                            /\ clients[n] # None => clients'[n] # None
    BY <2>3, <2>5, NodeAssumption DEF NodeTypeOK
  <2>7. NodeTypeOK' /\ TypeOK'
    BY <1>2, <2>3, <2>4, <2>6, StoreKept DEF NodeTypeOK, start
  <2>8. NothingDangles'
    BY <2>3, <2>6 DEF NothingDangles, NodeTypeOK, Task, Host, start
  <2>9. /\ Active(sync') = Active(b) /\ WantedTasks(sync') = WantedTasks(b)
        /\ WantedHosts(sync') = WantedHosts(b)
    BY <2>3 DEF Active, WantedTasks, WantedHosts, Wanted
  <2>10. InHand'
    <3>1. \A n \in Active(b) : clients'[n] = ClientOf(sync'.users[n])
      BY <2>1, <2>3, WantedIs
    <3>2. \A td \in WantedHosts(b) : td[1] \in todo
      BY DEF todo
    <3>3. sync'.doing = {} /\ sync'.todo = todo
      BY <2>3
    <3> QED BY <2>9, <3>1, <3>2, <3>3 DEF InHand, todo
  <2> QED BY <1>0, <2>4, <2>7, <2>8, <2>10
<1> QED BY <1>3, <1>4

\* When a tunnel is done the next one begins; what was done of it stays.
LEMMA DoneKeeps ==
  ASSUME NodeInv, NEW t \in TunnelID, Current(t), Done(t), UNCHANGED clients,
         \A u \in TunnelID \ {t} : tasks'[u] = tasks[u],
         \A td \in TunnelID \X Domain : td[1] # t => hosts'[td] = hosts[td],
         t \in WantedTasks(sync) => tasks'[t] = TaskOf(sync.tunnels[t]),
         \A td \in WantedHosts(sync) : td[1] = t => hosts'[td] = HostOf(sync.tunnels[t])
  PROVE  sync' \in Call /\ sync' # None /\ InHand'
<1>1. sync # None
  BY DEF Current
<1>2. /\ sync'.slot = sync.slot /\ sync'.users = sync.users
      /\ sync'.tunnels = sync.tunnels
      /\ sync'.todo = sync.todo \ {t} /\ sync'.doing = {} /\ sync' \in Call
  BY <1>1, InHandIs DEF Done, Call
<1>3. /\ Active(sync') = Active(sync) /\ WantedTasks(sync') = WantedTasks(sync)
      /\ WantedHosts(sync') = WantedHosts(sync)
  BY <1>2 DEF Active, WantedTasks, WantedHosts, Wanted
<1>4. ASSUME NEW u \in WantedTasks(sync) \ sync'.todo
      PROVE  tasks'[u] = TaskOf(sync.tunnels[u])
  BY <1>1, <1>2, <1>4, InHandIs, WantedIs DEF InHand
<1>5. ASSUME NEW td \in WantedHosts(sync), td[1] \notin sync'.todo
      PROVE  hosts'[td] = HostOf(sync.tunnels[td[1]])
  BY <1>1, <1>2, <1>5, InHandIs, WantedIs DEF InHand
<1>6. InHand'
  BY <1>1, <1>2, <1>3, <1>4, <1>5, InHandIs DEF InHand
<1> QED BY <1>2, <1>6, NodeAssumption

\* A bundle that edits a task while NPS is starting is one beside it.
LEMMA OverlapKeeps ==
  ASSUME NodeInv, HasBridge, Overlap, UNCHANGED <<nps, boot, twin>>,
         \A s \in TunnelID : tasks[s] # None => tasks'[s] # None
  PROVE  BootInv' /\ beside' \in BOOLEAN /\ (beside => beside')
<1>1. beside \in BOOLEAN /\ nps \in {"bridge", "up"} /\ boot \in Boot /\ BootInv
  BY DEF NodeInv, NodeTypeOK, HasBridge
<1>2. beside' \in BOOLEAN /\ (beside => beside')
  BY <1>1 DEF Overlap, Booting
<1>3. ~beside' => nps = "up" /\ boot.todo = {} /\ boot.at = {}
  BY <1>1 DEF Overlap, Booting, Boot
<1>4. BootInv'
  BY <1>1, <1>2, <1>3 DEF BootInv, HasBridge, Boot
<1> QED BY <1>2, <1>4

\* A task: edited, and its server stopped and started, or not started.
LEMMA SyncTaskIs ==
  ASSUME NodeInv, NEW t \in TunnelID, SyncTask(t)
  PROVE  /\ t \in WantedTasks(sync) /\ Current(t)
         /\ tasks' = [tasks EXCEPT ![t] = TaskOf(sync.tunnels[t])]
         /\ UNCHANGED <<vars, clients, hosts, edits>>
         /\ slot' \in [Slot -> Bundle \cup {None}] /\ faults' \in 0..MaxFaults
         /\ nps' \in {"off", "db", "bridge", "up"}
         /\ run' \in [TunnelID -> Server \cup {None}]
         /\ \A s \in TunnelID \ {t} : run'[s] # None => run[s] # None
         /\ sync' = None \/ Done(t)
         /\ boot' \in Boot /\ twin' \in [TunnelID -> Server \cup {None}]
         /\ beside' \in BOOLEAN /\ \A s \in TunnelID : twin'[s] # None => beside'
         /\ BootInv'
<1> USE DEF NodeInv
<1>0. sync # None /\ Current(t) /\ t \in sync.todo
  BY DEF SyncTask, Current
<1>1. t \in WantedTasks(sync)
  BY <1>0, InHandIs, WantedIs DEF SyncTask, InHand, isPortMode, isDomainMode, PortMode,
                                  DomainMode
<1> DEFINE On == Server \cup {None}
           task == TaskOf(sync.tunnels[t])
<1>2. NewServer(task) \in On /\ None \in On
  BY <1>0, <1>1, InHandIs, WantedIs, NewServerType
<1>3. run \in [TunnelID -> On] /\ NodeTypeOK
  BY DEF NodeTypeOK
<1>4. /\ tasks' = [tasks EXCEPT ![t] = task]
      /\ UNCHANGED <<vars, clients, hosts, edits>>
  BY DEF SyncTask
<1>5. CASE Restarted
  <2>1. NoRun \in [TunnelID -> On] /\ \A s \in TunnelID : NoRun[s] = None
    BY DEF NoRun
  <2>2. /\ sync' = None /\ nps' = "off" /\ run' = NoRun
        /\ boot' = NoBoot /\ twin' = NoRun /\ beside' = FALSE /\ BootInv'
        /\ slot' \in [Slot -> Bundle \cup {None}] /\ faults' \in 0..MaxFaults
    BY <1>3, <1>5, RestartedIs
  <2> QED BY <1>0, <1>1, <1>4, <2>1, <2>2, RestartedType
<1>6. CASE ~Restarted
  <2>1. UNCHANGED <<slot, nps, faults>> /\ (sync' = None \/ Done(t))
    BY <1>6 DEF SyncTask, Panic, Return
  <2>2. run' = run \/ \E v \in On : run' = [run EXCEPT ![t] = v]
    <3>1. \/ run' = run \/ run' = [[run EXCEPT ![t] = None] EXCEPT ![t] = NewServer(task)]
          \/ run' = [run EXCEPT ![t] = None]
      BY <1>6 DEF SyncTask, Panic
    <3> HIDE DEF On
    <3> QED BY <1>2, <1>3, <3>1
  <2>3. /\ run' \in [TunnelID -> On]
        /\ \A s \in TunnelID \ {t} : run'[s] = run[s]
    <3> HIDE DEF On
    <3> QED BY <1>3, <2>2
  <2>4. \A s \in TunnelID : tasks[s] # None => tasks'[s] # None
    <3>1. tasks \in [TunnelID -> Task \cup {None}] /\ task # None
      BY <1>0, <1>1, <1>3, InHandIs, WantedIs, NodeAssumption DEF NodeTypeOK
    <3> HIDE DEF task
    <3> QED BY <1>4, <3>1
  <2>5. UNCHANGED <<boot, twin>> /\ BootInv' /\ beside' \in BOOLEAN /\ (beside => beside')
    <3>1. CASE HasBridge
      <4>1. Overlap /\ UNCHANGED <<nps, boot, twin>>
        BY <1>6, <3>1 DEF SyncTask, Panic, start
      <4> QED BY <2>4, <3>1, <4>1, OverlapKeeps
    <3>2. CASE ~HasBridge
      <4>1. UNCHANGED <<run, start, nps>>
        BY <3>2 DEF SyncTask
      <4> QED BY <1>3, <2>4, <3>2, <4>1 DEF BootInv, HasBridge, start, NodeTypeOK, Boot
    <3> QED BY <3>1, <3>2
  <2>6. \A s \in TunnelID : twin'[s] # None => beside'
    BY <2>5 DEF NothingDangles
  <2> QED BY <1>0, <1>1, <1>3, <1>4, <2>1, <2>3, <2>5, <2>6 DEF NodeTypeOK
<1> QED BY <1>5, <1>6

\* One task of NPS is brought in line with the bundle.
LEMMA SyncTaskKeeps ==
  ASSUME NodeInv, NEW t \in TunnelID, SyncTask(t)
  PROVE  NodeInv'
<1> USE SyncTaskIs DEF NodeInv
<1> DEFINE task == TaskOf(sync.tunnels[t])
<1>1. sync # None /\ sync \in Call
  BY InHandIs DEF Current
<1>2. task \in Task /\ task.user \in Active(sync) /\ t \in TunnelID
  BY <1>1, InHandIs, WantedIs
<1>3. tasks' \in [TunnelID -> Task \cup {None}]
  <2> DEFINE Out == Task \cup {None}
  <2>1. tasks \in [TunnelID -> Out] /\ task \in Out
    BY <1>2 DEF NodeTypeOK
  <2> HIDE DEF Out, task
  <2>2. tasks' \in [TunnelID -> Out]
    BY <2>1 DEF task
  <2> QED BY <2>2 DEF Out
<1>4. /\ tasks'[t] = task /\ \A u \in TunnelID \ {t} : tasks'[u] = tasks[u]
  BY DEF NodeTypeOK
<1>5. Done(t) => sync' \in Call /\ sync' # None /\ InHand'
  <2>1. \A td \in WantedHosts(sync) : td[1] # t
    BY <1>1, InHandIs, WantedIs
    DEF WantedTasks, isPortMode, isDomainMode, PortMode, DomainMode
  <2> QED BY <1>4, <2>1, DoneKeeps
<1>6. TypeOK' /\ NodeTypeOK'
  BY <1>3, <1>5, StoreKept DEF NodeTypeOK
<1>7. NothingDangles'
  <2>1. clients[task.user] # None /\ task # None
    BY <1>1, <1>2, InHandIs, NodeAssumption
  <2> QED BY <1>4, <2>1 DEF NothingDangles
<1> QED BY <1>5, <1>6, <1>7

\* A host: edited or made; at the last domain the tunnel is done.
LEMMA SyncHostKeeps ==
  ASSUME NodeInv, NEW t \in TunnelID, NEW d \in Domain, SyncHost(t, d)
  PROVE  NodeInv'
<1> USE DEF NodeInv
<1> DEFINE tunnel == sync.tunnels[t]
           host == HostOf(tunnel)
           rest == tunnel.domains \ (sync.doing \cup {d})
<1>1. sync # None /\ sync \in Call /\ Current(t) /\ <<t, d>> \in WantedHosts(sync)
  BY InHandIs DEF SyncHost, Current
<1>2. host \in Host /\ host.user \in Active(sync) /\ host # None
  BY <1>1, InHandIs, WantedIs, NodeAssumption
<1>3. clients[host.user] # None
  BY <1>1, <1>2, InHandIs
<1>4. UNCHANGED <<vars, slot, nps, clients, tasks, run, start, edits, faults>>
  BY DEF SyncHost
<1>5. \/ /\ hosts' = [hosts EXCEPT ![<<t, d>>] = IF @ = None THEN None ELSE host]
         /\ sync' = None
      \/ /\ hosts' = [hosts EXCEPT ![<<t, d>>] = host]
         /\ rest = {} /\ Done(t)
      \/ /\ hosts' = [hosts EXCEPT ![<<t, d>>] = host]
         /\ rest # {} /\ sync' = [sync EXCEPT !.doing = @ \cup {d}]
  BY DEF SyncHost, Return
<1>6. /\ hosts' \in [TunnelID \X Domain -> Host \cup {None}]
      /\ \A td \in TunnelID \X Domain : td # <<t, d>> => hosts'[td] = hosts[td]
      /\ hosts'[<<t, d>>] \in {host, None} /\ (sync' # None => hosts'[<<t, d>>] = host)
  <2> DEFINE Out == Host \cup {None}
             Names == TunnelID \X Domain
  <2>1. hosts \in [Names -> Out] /\ host \in Out /\ None \in Out /\ <<t, d>> \in Names
    BY <1>2 DEF NodeTypeOK
  <2>2. \/ hosts' = [hosts EXCEPT ![<<t, d>>] = host]
        \/ hosts' = [hosts EXCEPT ![<<t, d>>] = None] /\ sync' = None
    BY <1>5
  <2> HIDE DEF Out, Names, host
  <2>3. /\ hosts' \in [Names -> Out]
        /\ \A td \in Names : td # <<t, d>> => hosts'[td] = hosts[td]
        /\ hosts'[<<t, d>>] \in {host, None} /\ (sync' # None => hosts'[<<t, d>>] = host)
    BY <2>1, <2>2
  <2> QED BY <2>3 DEF Out, Names
<1> HIDE DEF host
<1>7. NothingDangles' /\ BootInv'
  BY <1>3, <1>4, <1>6 DEF NothingDangles, BootInv, HasBridge, start
<1>8. sync' # None => sync' \in Call /\ InHand'
  <2>1. CASE Done(t)
    <3>1. ASSUME NEW td \in WantedHosts(sync), td[1] = t, rest = {}
          PROVE  hosts'[td] = host
      <4>1. td \in TunnelID \X Domain /\ td[2] \in tunnel.domains
        BY <1>1, <3>1, InHandIs, WantedIs
      <4>2. td = <<t, d>> \/ (td # <<t, d>> /\ td[2] \in sync.doing)
        BY <3>1, <4>1
      <4>3. sync' # None
        BY <1>1, <2>1, NodeAssumption DEF Done, Call
      <4> QED BY <1>1, <1>6, <3>1, <4>1, <4>2, <4>3, InHandIs DEF InHand, host
    <3>2. \A td \in TunnelID \X Domain : td[1] # t => hosts'[td] = hosts[td]
      BY <1>6
    <3>3. t \notin WantedTasks(sync)
      BY <1>1, InHandIs, WantedIs
      DEF WantedTasks, isPortMode, isDomainMode, PortMode, DomainMode
    <3>4. sync' # None => rest = {}
      BY <1>1, <1>5, <2>1, InHandIs DEF Done, Call, Current
    <3> QED BY <1>1, <1>4, <2>1, <3>1, <3>2, <3>3, <3>4, DoneKeeps DEF host
  <2>2. CASE sync' = [sync EXCEPT !.doing = @ \cup {d}]
    <3>1. /\ sync'.slot = sync.slot /\ sync'.users = sync.users
          /\ sync'.tunnels = sync.tunnels /\ sync'.todo = sync.todo
          /\ sync'.doing = sync.doing \cup {d} /\ sync' \in Call /\ sync' # None
      BY <1>1, <2>2, NodeAssumption DEF Call
    <3>2. /\ Active(sync') = Active(sync) /\ WantedTasks(sync') = WantedTasks(sync)
          /\ WantedHosts(sync') = WantedHosts(sync)
      BY <3>1 DEF Active, WantedTasks, WantedHosts, Wanted
    <3>3. ASSUME NEW td \in WantedHosts(sync),
                 \/ td[1] \notin sync.todo
                 \/ Current(td[1]) /\ td[2] \in sync.doing \cup {d}
          PROVE  hosts'[td] = HostOf(sync.tunnels[td[1]])
      <4>1. td \in TunnelID \X Domain
        BY <1>1, InHandIs, WantedIs
      <4>2. CASE td = <<t, d>>
        BY <1>6, <3>1, <4>2 DEF host
      <4>3. CASE td # <<t, d>>
        <5>1. td[1] \in sync.todo => td[2] \in sync.doing
          BY <1>1, <3>3, <4>1, <4>3, InHandIs
        <5> QED BY <1>1, <1>6, <3>3, <4>1, <4>3, <5>1, InHandIs DEF InHand
      <4> QED BY <4>2, <4>3
    <3>4. \A u \in TunnelID : Current(u)' <=> Current(u)
      BY <1>1, <3>1 DEF Current
    <3>5. InHand'
      <4>1. \A td \in WantedHosts(sync) : td[1] \in TunnelID
        BY <1>1, InHandIs, WantedIs
      <4>2. InHand
        BY <1>1, InHandIs
      <4> QED BY <1>4, <3>1, <3>2, <3>3, <3>4, <4>1, <4>2 DEF InHand
    <3> QED BY <3>1, <3>5
  <2> QED BY <1>5, <2>1, <2>2
<1>9. TypeOK' /\ NodeTypeOK'
  BY <1>4, <1>6, <1>8, StoreKept DEF NodeTypeOK, start
<1> QED BY <1>7, <1>8, <1>9

\* Tasks that go, which all were there, take what InitFromCsv would do with them.
LEMMA DeleteKeeps ==
  ASSUME NodeInv, NEW gone \in SUBSET Unwanted, Delete(gone), Overlap, UNCHANGED nps,
         run' \in [TunnelID -> Server \cup {None}],
         \A t \in TunnelID : run'[t] # None => run[t] # None
  PROVE  /\ boot' \in Boot /\ twin' \in [TunnelID -> Server \cup {None}]
         /\ beside' \in BOOLEAN /\ \A t \in TunnelID : twin'[t] # None => beside'
         /\ BootInv'
<1> USE DEF NodeInv
<1> DEFINE On == Server \cup {None}
<1>1. /\ boot \in Boot /\ twin \in [TunnelID -> On] /\ beside \in BOOLEAN
      /\ boot.at \subseteq TunnelID /\ boot.server \in On
      /\ tasks \in [TunnelID -> Task \cup {None}] /\ nps \in {"off", "db", "bridge", "up"}
  BY DEF NodeTypeOK, Boot
<1>2. PICK v : /\ v \in On
               /\ boot' = [boot EXCEPT !.todo = @ \ gone, !.server = v]
               /\ boot.at \cap gone = {} => v = boot.server
               /\ boot.at \cap gone # {} => v # None
               /\ boot.server # None => v # None
  <2>1. CASE boot.at \cap gone = {} \/ boot.server # None
    BY <1>1, <2>1 DEF Delete
  <2>2. CASE boot.at \cap gone # {} /\ boot.server = None
    <3> DEFINE v == NewServer(tasks[CHOOSE t \in boot.at : TRUE])
    <3>1. PICK t \in boot.at : t \in gone
      BY <2>2
    <3>2. (CHOOSE u \in boot.at : TRUE) = t
      BY <3>1 DEF BootInv
    <3>3. tasks[t] \in Task
      BY <1>1, <3>1 DEF Unwanted
    <3>4. v \in On /\ v # None
      BY <3>2, <3>3, NewServerType
    <3>5. boot' = [boot EXCEPT !.todo = @ \ gone, !.server = v]
      BY <1>1, <2>2 DEF Delete, Boot
    <3> HIDE DEF v
    <3> QED BY <2>2, <3>4, <3>5
  <2> QED BY <2>1, <2>2
<1>3. /\ boot'.todo = boot.todo \ gone /\ boot'.at = boot.at /\ boot'.server = v
      /\ boot' \in Boot
  BY <1>1, <1>2 DEF Boot
<1>4. ASSUME NEW t \in TunnelID
      PROVE  /\ twin'[t] \in On /\ (twin'[t] # None => twin[t] # None)
             /\ twin'[t] # None /\ twin'[t].state = "starting"
                  => twin[t].state = "starting" /\ t \notin gone
  <2>1. CASE t \in gone /\ twin[t] # None /\ twin[t].state = "starting"
    <3>1. twin'[t] = [twin[t] EXCEPT !.state = "loose"]
      BY <2>1 DEF Delete
    <3> QED BY <1>1, <2>1, <3>1 DEF Server
  <2>2. CASE ~(t \in gone /\ twin[t] # None /\ twin[t].state = "starting")
    <3>1. twin'[t] = twin[t]
      BY <2>2 DEF Delete
    <3> QED BY <1>1, <2>2, <3>1
  <2> QED BY <2>1, <2>2
<1>5. twin' \in [TunnelID -> On]
  <2>1. twin' = [t \in TunnelID |-> twin'[t]]
    BY DEF Delete
  <2> HIDE DEF On
  <2> QED BY <1>4, <2>1
<1>6. beside' \in BOOLEAN /\ (beside => beside')
  BY <1>1 DEF Overlap, Booting
<1>7. ~beside' => nps # "bridge" /\ boot.todo = {} /\ boot.at = {}
  BY <1>1 DEF Overlap, Booting, Boot
<1>8. \A t \in TunnelID : tasks'[t] = IF t \in gone THEN None ELSE tasks[t]
  BY DEF Delete
<1>9. boot.at = {} => (v # None => beside)
  BY <1>2 DEF BootInv
<1>10. nps # "up" => boot'.todo = {} /\ boot'.at = {}
  BY <1>3 DEF BootInv
<1>11. BootInv'
  <2>1. boot.todo \subseteq TunnelID
    BY <1>1 DEF Boot
  <2>2. \A t \in boot'.at : tasks'[t] # None \/ boot'.server # None
    BY <1>1, <1>2, <1>3, <1>8 DEF BootInv
  <2>3. \A t \in boot'.todo : tasks'[t] # None
    BY <1>3, <1>8, <2>1 DEF BootInv
  <2>4. boot'.server # None => beside'
    BY <1>3, <1>6, <1>7, <1>9
  <2>5. \A t \in boot'.todo \cup boot'.at : run'[t] # None => beside'
    BY <1>3, <1>7
  <2>6. \A t \in TunnelID :
          twin'[t] # None /\ twin'[t].state = "starting" => tasks'[t] # None
    BY <1>4, <1>8 DEF BootInv
  <2>7. ~HasBridge' \/ (nps' = "bridge" /\ ~beside') => \A t \in TunnelID : run'[t] = None
    BY <1>7 DEF BootInv, HasBridge
  <2>8. boot'.at \cap boot'.todo = {} /\ \A s, t \in boot'.at : s = t
    BY <1>3 DEF BootInv
  <2> QED BY <1>10, <2>2, <2>3, <2>4, <2>5, <2>6, <2>7, <2>8 DEF BootInv
<1> QED BY <1>3, <1>4, <1>5, <1>6, <1>11 DEF NothingDangles

\* With nothing left to do the prune leaves exactly what the bundle says.
LEMMA PruneApplies ==
  ASSUME NodeInv, Prune, NEW b, b = sync
  PROVE  AppliedTo(b)'
<1> USE DEF Prune
<1>1. sync # None /\ sync.todo = {} /\ InHand
  BY InHandIs
<1>2. \A t \in TunnelID : tasks'[t] = IF t \in WantedTasks(sync)
                                      THEN TaskOf(sync.tunnels[t]) ELSE None
  <2>1. tasks' = [t \in TunnelID |-> IF t \in Unwanted THEN None ELSE tasks[t]]
    BY DEF Delete
  <2>2. \A t \in WantedTasks(sync) : tasks[t] = TaskOf(sync.tunnels[t])
    BY <1>1 DEF InHand
  <2> QED BY <2>1, <2>2 DEF Unwanted
<1>3. tasks' = [t \in TunnelID |-> IF t \in WantedTasks(sync)
                                   THEN TaskOf(sync.tunnels[t]) ELSE None]
  BY <1>2 DEF Delete
<1>4. hosts' = [td \in TunnelID \X Domain |->
                  IF td \in WantedHosts(sync) THEN HostOf(sync.tunnels[td[1]]) ELSE None]
  <2>1. \A td \in WantedHosts(sync) : hosts[td] = HostOf(sync.tunnels[td[1]])
    BY <1>1 DEF InHand
  <2> QED BY <2>1
<1>5. clients' = [n \in UserName |->
                    IF n \in Active(sync) THEN ClientOf(sync.users[n]) ELSE None]
  BY <1>1 DEF InHand
<1>6. /\ tasks' = [t \in TunnelID |-> IF t \in WantedTasks(b)
                                      THEN TaskOf(b.tunnels[t]) ELSE None]
      /\ hosts' = [td \in TunnelID \X Domain |->
                  IF td \in WantedHosts(b) THEN HostOf(b.tunnels[td[1]]) ELSE None]
      /\ clients' = [n \in UserName |->
                    IF n \in Active(b) THEN ClientOf(b.users[n]) ELSE None]
  BY <1>3, <1>4, <1>5
<1> QED BY <1>6 DEF AppliedTo

\* What is no longer in the bundle goes.
LEMMA PruneKeeps == ASSUME NodeInv, Prune PROVE NodeInv'
<1> USE DEF NodeInv, Prune
<1>1. sync # None /\ sync' = None
  BY DEF Return
<1>2. PICK b : b = sync
  OBVIOUS
<1>3. /\ b.users \in [UserName -> User \cup {None}]
      /\ b.tunnels \in [TunnelID -> Tunnel \cup {None}]
  BY <1>1, <1>2, InHandIs
<1>4. /\ tasks' = [t \in TunnelID |->
                     IF t \in WantedTasks(b) THEN TaskOf(b.tunnels[t]) ELSE None]
      /\ hosts' = [td \in TunnelID \X Domain |->
                     IF td \in WantedHosts(b) THEN HostOf(b.tunnels[td[1]]) ELSE None]
      /\ clients' = [n \in UserName |->
                       IF n \in Active(b) THEN ClientOf(b.users[n]) ELSE None]
  BY <1>2, PruneApplies DEF AppliedTo
<1>5. /\ \A t \in WantedTasks(b) : /\ TaskOf(b.tunnels[t]) \in Task
                                   /\ TaskOf(b.tunnels[t]).user \in Active(b)
      /\ \A td \in WantedHosts(b) : /\ HostOf(b.tunnels[td[1]]) \in Host
                                    /\ HostOf(b.tunnels[td[1]]).user \in Active(b)
      /\ \A n \in Active(b) : n \in UserName /\ ClientOf(b.users[n]) \in Client
  BY <1>3, WantedIs
<1>6. /\ tasks' \in [TunnelID -> Task \cup {None}]
      /\ hosts' \in [TunnelID \X Domain -> Host \cup {None}]
      /\ clients' \in [UserName -> Client \cup {None}]
  BY <1>4, <1>5
<1>7. /\ run' = [t \in TunnelID |-> IF t \in Unwanted THEN None ELSE run[t]]
      /\ Delete(Unwanted) /\ Overlap /\ UNCHANGED <<vars, slot, nps, edits, faults>>
  OBVIOUS
<1>8. /\ run' \in [TunnelID -> Server \cup {None}]
      /\ \A t \in TunnelID : run'[t] # None => tasks[t] # None /\ t \in WantedTasks(b)
  <2>1. run \in [TunnelID -> Server \cup {None}] /\ NothingDangles
    BY DEF NodeTypeOK
  <2> QED BY <1>2, <1>7, <2>1 DEF NothingDangles, Unwanted
<1>12. /\ boot' \in Boot /\ twin' \in [TunnelID -> Server \cup {None}]
       /\ beside' \in BOOLEAN /\ \A t \in TunnelID : twin'[t] # None => beside'
       /\ BootInv'
  <2>1. \A t \in TunnelID : run'[t] # None => run[t] # None
    BY <1>7
  <2> QED BY <1>7, <1>8, <2>1, DeleteKeeps
<1>9. \A n \in Active(b) : clients'[n] # None
  BY <1>4, <1>5, NodeAssumption
<1>10. NothingDangles'
  BY <1>4, <1>5, <1>8, <1>9, <1>12, NodeAssumption DEF NothingDangles
<1>11. TypeOK' /\ NodeTypeOK'
  BY <1>1, <1>6, <1>7, <1>8, <1>12, StoreKept DEF NodeTypeOK
<1> QED BY <1>1, <1>10, <1>11, <1>12

\* A panic on the way leaves some of the unwanted tasks, all with their clients.
LEMMA PanicKeeps == ASSUME NodeInv, PrunePanics PROVE NodeInv'
<1> USE DEF NodeInv
<1>1. PICK gone \in SUBSET (Unwanted \ Unopened) :
        \/ /\ sync.slot # Pull /\ Return /\ Delete(gone) /\ Overlap
           /\ run' = [t \in TunnelID |-> IF t \in gone THEN None ELSE run[t]]
           /\ UNCHANGED <<slot, nps, faults>>
        \/ /\ sync.slot = Pull /\ Restarted
           /\ tasks' = [t \in TunnelID |-> IF t \in gone THEN None ELSE tasks[t]]
  BY DEF PrunePanics
<1>2. UNCHANGED <<vars, clients, hosts, edits>>
  BY DEF PrunePanics
<1>3. /\ tasks' \in [TunnelID -> Task \cup {None}]
      /\ \A t \in TunnelID : tasks'[t] = IF t \in gone THEN None ELSE tasks[t]
  BY <1>1 DEF Delete, NodeTypeOK
<1>4. /\ sync' = None /\ nps' \in {"off", "db", "bridge", "up"}
      /\ slot' \in [Slot -> Bundle \cup {None}] /\ faults' \in 0..MaxFaults
      /\ run' \in [TunnelID -> Server \cup {None}]
      /\ \A t \in TunnelID : run'[t] # None => run[t] # None /\ t \notin gone
  BY <1>1, RestartedIs, RestartedType DEF Return, NodeTypeOK
<1>5. /\ boot' \in Boot /\ twin' \in [TunnelID -> Server \cup {None}]
      /\ beside' \in BOOLEAN /\ \A t \in TunnelID : twin'[t] # None => beside'
      /\ BootInv'
  <2>1. CASE Restarted
    BY <2>1, RestartedIs, RestartedType
  <2>2. CASE ~Restarted
    BY <1>1, <1>4, <2>2, DeleteKeeps
  <2> QED BY <2>1, <2>2
<1>6. NothingDangles'
  BY <1>2, <1>3, <1>4, <1>5 DEF NothingDangles
<1>7. TypeOK' /\ NodeTypeOK'
  BY <1>2, <1>3, <1>4, <1>5, StoreKept DEF NodeTypeOK
<1> QED BY <1>4, <1>5, <1>6, <1>7

----------------------------------------------------------------------------
(* The theorems                                                             *)

\* Every step, of the module or not, preserves the invariant.
LEMMA NodeInvStep == NodeInv /\ [NodeNext]_allVars => NodeInv'
<1> SUFFICES ASSUME NodeInv, [NodeNext]_allVars PROVE NodeInv'
  OBVIOUS
<1>1. CASE SyncStep
  BY <1>1, SyncTaskKeeps, SyncHostKeeps, PruneKeeps, PanicKeeps DEF SyncStep
<1>2. CASE ControlStart \/ ControlEdit
  BY <1>2, ControlKeeps
<1>3. CASE \E s \in Slot : ReadTunnels(s) \/ ReadUsers(s) \/ Lose(s) \/ BeginSync(s)
  BY <1>3, BundleKeeps, BeginKeeps
<1>4. CASE \/ OpenDb \/ StartNewServer \/ InitStep \/ AgentCrash
           \/ \E t \in TunnelID : Listen(t) \/ ListenTwin(t)
  BY <1>4, OpenKeeps, InitFromCsvKeeps, InitTestKeeps, InitAddKeeps, CrashKeeps, ListenKeeps,
     ListenTwinKeeps DEF InitStep
<1>5. CASE UNCHANGED allVars
  BY <1>5, NodeFrame, StoreKept DEF allVars, nodeVars, NodeInv, NodeTypeOK
<1> QED BY <1>1, <1>2, <1>3, <1>4, <1>5 DEF NodeNext

\* Whatever is lost, late, reordered or restarted, no task, host or server of the
\* node is without its owner, where a later SyncNPSState would not find it.
THEOREM NodeSoundHolds == NodeSpec => []NodeSound
<1>1. NodeInv => NodeSound
  BY DEF NodeInv, NodeSound
<1> QED BY <1>1, NodeInvInit, NodeInvStep, PTL DEF NodeSpec

\* SyncNPSState returns success only with the database that the bundle describes.
THEOREM SuccessApplies == NodeSpec => SuccessMeansApplied
<1>1. NodeInv /\ [NodeNext]_allVars
        => [\A b \in {sync} : Prune => AppliedTo(b)']_allVars
  BY PruneApplies
<1> QED BY <1>1, NodeInvInit, NodeInvStep, PTL DEF NodeSpec, SuccessMeansApplied
=============================================================================

----------------------------- MODULE FrpServer -----------------------------
(***************************************************************************)
(* The control connections of frps and what they own, upstream/frp/server: *)
(* service.go (handleConnection, RegisterControl), control.go,             *)
(* registry/registry.go, proxy/proxy.go and tcp.go, ports/ports.go and     *)
(* group/.  A control is one login of an frpc; a client that reconnects    *)
(* logs in again with the same run id.                                     *)
(*                                                                         *)
(* Goroutines: for each control the one that logs it in (pc new to run),   *)
(* the reader of its messages, whose handlers run one at a time (job), and *)
(* the worker that tears it down (pc drain), which closes its proxies with *)
(* the same steps as the handler, so that job serves for both; and one for *)
(* each user's connection (uc).  Each map or manager has its mutex, so one *)
(* call of a manager is a step and a handler is several.  The handlers of  *)
(* NAT hole punching are in module NatHole.                                *)
(***************************************************************************)
EXTENDS Integers, FiniteSets

CONSTANTS
  Ctl,        \* the controls
  Run, Key,   \* run ids, and clients as the registry names them
  Name,       \* names of tcp proxies
  Port,       \* the allowed ports
  User,       \* connections of users
  None,
  WantOf,     \* RemotePort of a proxy, AnyPort for one that frps chooses
  AnyPort,
  Grouped,    \* the proxies that belong to the one load balancing group
  MaxGen,     \* bound on how often that group is created
  Setups      \* the scenes considered, see Setup

\* Who logs in and with which run id, for which client; how many of the
\* connections fail; the proxies asked for, how often, the limits on ports the
\* user may have (0 is none) and how often they are edited; the size of the pool
\* of work connections and the users that come.
Setup == [who: SUBSET Ctl, run: [Ctl -> Run], key: [Ctl -> Key], drops: Nat,
          names: SUBSET Name, asks: Nat, limits: SUBSET Nat, edits: Nat, pool: Nat,
          users: SUBSET User]

ASSUME ServerAssumption ==
  /\ None \notin Ctl \cup Run \cup Key \cup Name \cup Port
  /\ AnyPort \notin Port /\ WantOf \in [Name -> Port \cup {AnyPort}]
  /\ Grouped \subseteq Name /\ MaxGen \in Nat /\ Setups \subseteq Setup
  \* An frpc keeps its user and client id for as long as it keeps its run id.
  /\ \A s \in Setups : \A c, d \in Ctl : s.run[c] = s.run[d] => s.key[c] = s.key[d]
  /\ "group" \notin Ctl /\ None \notin (Ctl \X Name) \cup ({"group"} \X (1..MaxGen))

VARIABLES
  use, drops,  \* the scene, and how many connections failed
  asks,        \* how many proxies were asked for
  max, edits,  \* the user's MaxPorts, and how often it was edited
  cap,         \* history: the limit under which a control last had a proxy counted
  loose,       \* history: the controls that got a proxy when there was no limit
  pc,          \* a control: new, wait, resp, run, drain, done, gone, dead
  open,        \* the controls whose connection is open
  old,         \* the control RegisterControl waits for
  replaced,    \* the controls whose runID was emptied
  byRun,       \* ControlManager.ctlsByRunID
  reg,         \* ClientRegistry.clients: the run id that is online, or None
  job,         \* the handler or the worker of a control
  proxies,     \* Control.proxies: the port of each, None where there is none
  num,         \* Control.portsUsedNum
  pxys,        \* proxy.Manager.pxys
  free, used,  \* ports.Manager: freePorts, and the name that uses a port
  resv,        \* ports.Manager.reservedPorts
  lis,         \* who listens on a port: a proxy <<c, n>> or a group's number
  cur, grp,    \* groupRegistry: the current group's number, and the groups
  gens,        \* the number of groups created
  pool, reqs,  \* workConnCh of a control, ReqWorkConn not yet answered
  uc           \* a user's connection: [at, ctl]

limVars  == <<max, edits, cap, loose>>
logVars  == <<pc, open, old, replaced, byRun, reg>>
portVars == <<free, used, resv, lis, cur, grp, gens>>
pxyVars  == <<job, proxies, num, pxys>>
wcVars   == <<pool, reqs, uc>>
vars == <<use, drops, asks, limVars, logVars, pxyVars, portVars, wcVars>>

NoJob   == [at |-> "idle", name |-> None, port |-> None, gen |-> 0, own |-> FALSE,
            cnt |-> 0]
NoResv  == [port |-> None, closed |-> FALSE]
NoGroup == [lns |-> {}, port |-> None, want |-> None]
GroupLn(g) == <<"group", g>>
RunOf(c) == use.run[c]
KeyOf(c) == use.key[c]

Init ==
  /\ use \in Setups /\ drops = 0 /\ asks = 0
  /\ max \in use.limits /\ edits = 0 /\ cap = [c \in Ctl |-> 0] /\ loose = {}
  /\ pc = [c \in Ctl |-> "new"] /\ open = {} /\ replaced = {}
  /\ old = [c \in Ctl |-> None]
  /\ byRun = [r \in Run |-> None] /\ reg = [k \in Key |-> None]
  /\ job = [c \in Ctl |-> NoJob] /\ num = [c \in Ctl |-> 0]
  /\ proxies = [c \in Ctl |-> [n \in Name |-> None]]
  /\ pxys = [n \in Name |-> None]
  /\ free = Port /\ used = [p \in Port |-> None]
  /\ resv = [n \in Name |-> NoResv] /\ lis = [p \in Port |-> None]
  /\ cur = 0 /\ gens = 0 /\ grp = [g \in 1..MaxGen |-> NoGroup]
  /\ pool = [c \in Ctl |-> 0] /\ reqs = [c \in Ctl |-> 0]
  /\ uc = [u \in User |-> [at |-> "none", ctl |-> None]]

-----------------------------------------------------------------------------
(* Logging in.                                                             *)

\* ControlManager.Add and Replaced: the control that had the run id loses it
\* and its connection is closed.
Add(c) ==
  LET o == byRun[RunOf(c)] IN
  /\ byRun' = [byRun EXCEPT ![RunOf(c)] = c]
  /\ old' = [old EXCEPT ![c] = o]
  /\ replaced' = IF o = None THEN replaced ELSE replaced \cup {o}
  /\ open' = (open \cup {c}) \ {o}

\* ControlManager.Del, of this very control only.
Del(c) == byRun' = IF byRun[RunOf(c)] = c
                   THEN [byRun EXCEPT ![RunOf(c)] = None] ELSE byRun

\* ClientRegistry.MarkOfflineByRunID.
MarkOffline(c) == reg' = IF reg[KeyOf(c)] = RunOf(c)
                         THEN [reg EXCEPT ![KeyOf(c)] = None] ELSE reg

\* handleConnection of a Login that is authenticated, to where it has its place
\* in the manager.
RegisterControl(c) ==
  /\ pc[c] = "new" /\ c \in use.who /\ Add(c)
  /\ pc' = [pc EXCEPT ![c] = "wait"]
  /\ UNCHANGED <<use, drops, asks, limVars, reg, pxyVars, portVars, wcVars>>

WaitClosed(c) == old[c] \in {None} \cup {d \in Ctl : pc[d] \in {"done", "gone"}}

\* ClientRegistry.Register: another run id of the same client is online.
Conflict(c) == reg[KeyOf(c)] \notin {None, RunOf(c)}

\* The rest of RegisterControl, once the control before is closed.
Register(c) ==
  /\ pc[c] = "wait" /\ WaitClosed(c)
  /\ IF Conflict(c)
     THEN /\ pc' = [pc EXCEPT ![c] = "dead"] /\ open' = open \ {c}
          /\ Del(c) /\ reg' = reg
     ELSE /\ pc' = [pc EXCEPT ![c] = "resp"]
          /\ reg' = [reg EXCEPT ![KeyOf(c)] = RunOf(c)]
          /\ UNCHANGED <<open, byRun>>
  /\ UNCHANGED <<use, drops, asks, limVars, old, replaced, pxyVars, portVars, wcVars>>

\* LoginResp is written and the control starts, asking for work connections.
\* The write may succeed when frpc has gone; it fails on a connection that
\* Replaced has closed.
Start(c) ==
  /\ pc[c] = "resp" /\ c \notin replaced /\ pc' = [pc EXCEPT ![c] = "run"]
  /\ reqs' = [reqs EXCEPT ![c] = IF c \in open THEN use.pool ELSE 0]
  /\ UNCHANGED <<use, drops, asks, limVars, open, old, replaced, byRun, reg, pxyVars,
                 portVars, pool, uc>>

\* Mutant: the registry is not told.
StartFailsOnline(c) ==
  /\ pc[c] = "resp" /\ c \notin open /\ pc' = [pc EXCEPT ![c] = "dead"]
  /\ Del(c) /\ reg' = reg
  /\ UNCHANGED <<use, drops, asks, limVars, open, old, replaced, pxyVars, portVars, wcVars>>

\* LoginResp cannot be written: the control is dropped, its worker never run.
StartFails(c) ==
  /\ pc[c] = "resp" /\ c \notin open /\ pc' = [pc EXCEPT ![c] = "dead"]
  /\ Del(c) /\ MarkOffline(c)
  /\ UNCHANGED <<use, drops, asks, limVars, open, old, replaced, pxyVars, portVars, wcVars>>

\* The connection fails, is closed by frpc or by the heartbeat's timeout.
Drop(c) ==
  /\ c \in open /\ drops < use.drops /\ drops' = drops + 1
  /\ open' = open \ {c}
  /\ UNCHANGED <<use, asks, limVars, pc, old, replaced, byRun, reg, pxyVars, portVars, wcVars>>

-----------------------------------------------------------------------------
(* Ports.                                                                  *)

\* markPortAcquiredLocked, and Release by whoever calls it.
Mark(n, p) == /\ used' = [used EXCEPT ![p] = n] /\ free' = free \ {p}
              /\ resv' = [resv EXCEPT ![n] = [port |-> p, closed |-> FALSE]]
Release(p) ==
  IF used[p] = None THEN UNCHANGED <<free, used, resv>>
  ELSE /\ free' = free \cup {p} /\ used' = [used EXCEPT ![p] = None]
       /\ resv' = [resv EXCEPT ![used[p]].closed = @ \/ resv[used[p]].port = p]

isPortAvailable(p) == lis[p] = None

\* acquire: the port reserved for the name, if nobody listens there, whether or
\* not it is free; else one of the free ports, or the one asked for.
CanAcquire(n, p) ==
  IF WantOf[n] = AnyPort
  THEN IF resv[n].port # None /\ isPortAvailable(resv[n].port)
       THEN p = resv[n].port
       ELSE p \in free /\ isPortAvailable(p)
  ELSE p = WantOf[n] /\ p \in free /\ isPortAvailable(p)

\* cleanReservedPortsOnce, of a name whose port was released long enough ago.
CleanReserved(n) ==
  /\ resv[n].closed /\ resv' = [resv EXCEPT ![n] = NoResv]
  /\ UNCHANGED <<use, drops, asks, limVars, logVars, pxyVars, free, used, lis, cur, grp, gens,
                 wcVars>>

-----------------------------------------------------------------------------
(* The handler of NewProxy: RegisterProxy.                                 *)

Goto(c, at) == job' = [job EXCEPT ![c].at = at]

\* The user's entry of the store is edited; who is disabled has no limit.
EditUser(m) ==
  /\ edits < use.edits /\ edits' = edits + 1
  /\ m \in use.limits \ {max} /\ max' = m
  /\ UNCHANGED <<use, drops, asks, cap, loose, logVars, pxyVars, portVars, wcVars>>

\* A proxy counts when there is a limit at the time.
Counted == IF max > 0 THEN 1 ELSE 0

\* The deferred call that takes the count back, if there was one.
Fail(c) == /\ job' = [job EXCEPT ![c] = NoJob]
           /\ num' = [num EXCEPT ![c] = @ - job[c].cnt]

\* A message is read while the connection is open and no handler is running.
Reading(c) == pc[c] = "run" /\ c \in open /\ job[c] = NoJob

\* The limit and the name are checked first.
RegisterProxy(c, n) ==
  /\ asks < use.asks /\ asks' = asks + 1
  /\ Reading(c) /\ n \in use.names /\ pxys[n] = None
  /\ max = 0 \/ num[c] + 1 <= max
  /\ num' = [num EXCEPT ![c] = @ + Counted]
  /\ cap' = IF max = 0 THEN cap ELSE [cap EXCEPT ![c] = max]
  /\ job' = [job EXCEPT ![c] = [NoJob EXCEPT !.name = n, !.cnt = Counted,
               !.at = IF n \in Grouped THEN "group" ELSE "acquire"]]
  /\ UNCHANGED <<use, drops, max, edits, loose, logVars, proxies, pxys, portVars, wcVars>>

\* TCPProxy.Run: the port is acquired ...
Acquire(c) ==
  LET n == job[c].name IN
  /\ job[c].at = "acquire"
  /\ \/ \E p \in Port : /\ CanAcquire(n, p) /\ Mark(n, p) /\ num' = num
                        /\ job' = [job EXCEPT ![c].at = "listen", ![c].port = p]
     \/ /\ ~\E p \in Port : CanAcquire(n, p)
        /\ Fail(c) /\ UNCHANGED <<free, used, resv>>
  /\ UNCHANGED <<use, drops, asks, limVars, logVars, proxies, pxys, lis, cur, grp, gens,
                 wcVars>>

\* ... and then listened on, or given back if somebody else listens there by now.
Listen(c) ==
  LET p == job[c].port IN
  /\ job[c].at = "listen"
  /\ IF lis[p] = None
     THEN /\ lis' = [lis EXCEPT ![p] = <<c, job[c].name>>] /\ Goto(c, "add")
          /\ UNCHANGED <<free, used, resv, num>>
     ELSE Release(p) /\ Fail(c) /\ lis' = lis
  /\ UNCHANGED <<use, drops, asks, limVars, logVars, proxies, pxys, cur, grp, gens, wcVars>>

\* TCPGroupCtl.Listen: the group of that name, created if there is none ...
getOrCreate(c) ==
  LET g == IF cur = 0 THEN gens + 1 ELSE cur IN
  /\ job[c].at = "group" /\ g <= MaxGen
  /\ cur' = g /\ gens' = IF cur = 0 THEN g ELSE gens
  /\ job' = [job EXCEPT ![c].at = "join", ![c].gen = g]
  /\ UNCHANGED <<use, drops, asks, limVars, logVars, proxies, num, pxys, free, used, resv, lis,
                 grp, wcVars>>

isCurrent(g) == cur = g

\* ... and its Listen, under its mutex: it starts over if the group is no longer
\* the current one; the first member acquires a port, the others share it if they
\* ask for the same (a member with another key or address fails alike).
groupListen(c) ==
  LET g == job[c].gen  n == job[c].name IN
  /\ job[c].at = "join" /\ ~\E d \in Ctl : job[d].at = "open" /\ job[d].gen = g
  /\ \/ /\ ~isCurrent(g) /\ Goto(c, "group")
        /\ UNCHANGED <<num, free, used, resv, grp>>
     \/ /\ isCurrent(g) /\ grp[g].lns = {}
        /\ \E p \in Port :
             /\ CanAcquire(n, p) /\ Mark(n, p)
             /\ job' = [job EXCEPT ![c].at = "open", ![c].port = p]
        /\ UNCHANGED <<num, grp>>
     \/ /\ isCurrent(g)
        /\ IF grp[g].lns = {} THEN ~\E p \in Port : CanAcquire(n, p)
                             ELSE grp[g].want # WantOf[n]
        /\ Fail(c) /\ UNCHANGED <<free, used, resv, grp>>
     \/ /\ isCurrent(g) /\ grp[g].lns # {} /\ grp[g].want = WantOf[n]
        /\ grp' = [grp EXCEPT ![g].lns = @ \cup {<<c, n>>}]
        /\ job' = [job EXCEPT ![c].at = "add", ![c].port = grp[g].port]
        /\ UNCHANGED <<num, free, used, resv>>
  /\ UNCHANGED <<use, drops, asks, limVars, logVars, proxies, pxys, lis, cur, gens,
                 wcVars>>

\* The first member, which still has the mutex, opens the port; it gives it back
\* when somebody else listens there by now.
groupOpen(c) ==
  LET g == job[c].gen  n == job[c].name  p == job[c].port IN
  /\ job[c].at = "open"
  /\ IF lis[p] = None
     THEN /\ lis' = [lis EXCEPT ![p] = GroupLn(g)] /\ Goto(c, "add")
          /\ grp' = [grp EXCEPT ![g] = [lns |-> {<<c, n>>}, port |-> p, want |-> WantOf[n]]]
          /\ UNCHANGED <<free, used, resv, num>>
     ELSE Release(p) /\ Fail(c) /\ UNCHANGED <<lis, grp>>
  /\ UNCHANGED <<use, drops, asks, limVars, logVars, proxies, pxys, cur, gens, wcVars>>

\* proxy.Manager.Add and Control.proxies; a proxy that comes second is closed.
AddProxy(c) ==
  LET n == job[c].name IN
  /\ job[c].at = "add"
  /\ IF pxys[n] = None
     THEN /\ pxys' = [pxys EXCEPT ![n] = c]
          /\ proxies' = [proxies EXCEPT ![c][n] = job[c].port]
          /\ job' = [job EXCEPT ![c] = NoJob]
          /\ loose' = IF job[c].cnt = 0 THEN loose \cup {c} ELSE loose
     ELSE Goto(c, "close") /\ UNCHANGED <<pxys, proxies, loose>>
  /\ UNCHANGED <<use, drops, asks, max, edits, cap, logVars, num, portVars, wcVars>>

-----------------------------------------------------------------------------
(* Closing proxies: the handler of CloseProxy and the worker.              *)

\* Control.CloseProxy, to where the proxy has left Control.proxies.  The count
\* is taken back whether or not there is a limit, for there is a user store.
CloseProxy(c, n) ==
  /\ Reading(c) /\ proxies[c][n] # None
  /\ num' = [num EXCEPT ![c] = @ - 1]
  /\ proxies' = [proxies EXCEPT ![c][n] = None]
  /\ job' = [job EXCEPT ![c] = [NoJob EXCEPT !.at = "close", !.name = n,
                                 !.port = proxies[c][n], !.own = TRUE]]
  /\ UNCHANGED <<use, drops, asks, limVars, logVars, pxys, portVars, wcVars>>

\* BaseProxy.Close: the listener.  The last of a group closes the port, gives it
\* back and removes the group, all under the group's mutex.
CloseListener(c) ==
  LET p == job[c].port  g == IF job[c].name \in Grouped THEN lis[p][2] ELSE 0 IN
  /\ job[c].at = "close"
  /\ IF job[c].name \in Grouped
     THEN /\ Goto(c, "del")
          /\ grp' = [grp EXCEPT ![g].lns = @ \ {<<c, job[c].name>>}]
          /\ IF grp[g].lns = {<<c, job[c].name>>}
             THEN /\ lis' = [lis EXCEPT ![p] = None] /\ Release(p)
                  /\ cur' = IF cur = g THEN 0 ELSE cur
             ELSE UNCHANGED <<lis, free, used, resv, cur>>
     ELSE /\ Goto(c, "release") /\ lis' = [lis EXCEPT ![p] = None]
          /\ UNCHANGED <<free, used, resv, cur, grp>>
  /\ UNCHANGED <<use, drops, asks, limVars, logVars, proxies, num, pxys, gens, wcVars>>

\* TCPProxy.Close: the port of a proxy without a group.
ReleasePort(c) ==
  /\ job[c].at = "release" /\ Release(job[c].port) /\ Goto(c, "del")
  /\ UNCHANGED <<use, drops, asks, limVars, logVars, proxies, num, pxys, lis, cur, grp, gens,
                 wcVars>>

\* closeProxy: the name, unless the proxy never had it.
DelProxy(c) ==
  /\ job[c].at = "del"
  /\ IF job[c].own THEN /\ pxys' = [pxys EXCEPT ![job[c].name] = None]
                        /\ job' = [job EXCEPT ![c] = NoJob] /\ num' = num
                   ELSE Fail(c) /\ pxys' = pxys
  /\ UNCHANGED <<use, drops, asks, limVars, logVars, proxies, portVars, wcVars>>

\* Mutant: it waits for the users who wait for that channel.
workerPolite(c) ==
  /\ pc[c] = "run" /\ c \notin open /\ job[c] = NoJob
  /\ ~\E u \in User : uc[u] = [at |-> "wait", ctl |-> c]
  /\ pc' = [pc EXCEPT ![c] = "drain"] /\ pool' = [pool EXCEPT ![c] = 0]
  /\ UNCHANGED <<use, drops, asks, limVars, open, old, replaced, byRun, reg, pxyVars,
                 portVars, reqs, uc>>

\* The worker: the reader has returned, workConnCh is closed and emptied.
worker(c) ==
  /\ pc[c] = "run" /\ c \notin open /\ job[c] = NoJob
  /\ pc' = [pc EXCEPT ![c] = "drain"] /\ pool' = [pool EXCEPT ![c] = 0]
  /\ UNCHANGED <<use, drops, asks, limVars, open, old, replaced, byRun, reg, pxyVars,
                 portVars, reqs, uc>>

\* ... one proxy after the other is closed ...
workerClose(c, n) ==
  /\ pc[c] = "drain" /\ job[c] = NoJob /\ proxies[c][n] # None
  /\ proxies' = [proxies EXCEPT ![c][n] = None]
  /\ job' = [job EXCEPT ![c] = [NoJob EXCEPT !.at = "close", !.name = n,
                                 !.port = proxies[c][n], !.own = TRUE]]
  /\ UNCHANGED <<use, drops, asks, limVars, logVars, num, pxys, portVars, wcVars>>

\* ... and then the registry told, by run id, and doneCh closed.
workerDone(c) ==
  /\ pc[c] = "drain" /\ job[c] = NoJob /\ \A n \in Name : proxies[c][n] = None
  /\ pc' = [pc EXCEPT ![c] = "done"]
  /\ IF c \in replaced THEN reg' = reg ELSE MarkOffline(c)
  /\ UNCHANGED <<use, drops, asks, limVars, open, old, replaced, byRun, pxyVars, portVars, wcVars>>

\* The goroutine of handleConnection that waits for doneCh.
Forget(c) ==
  /\ pc[c] = "done" /\ pc' = [pc EXCEPT ![c] = "gone"] /\ Del(c)
  /\ UNCHANGED <<use, drops, asks, limVars, open, old, replaced, reg, pxyVars, portVars, wcVars>>

-----------------------------------------------------------------------------
(* Work connections.                                                       *)

PoolCap == use.pool + 1   \* poolCount + 10 in the code

\* RegisterWorkConn of the answer to a request: into the pool of the control
\* that has the run id now, or discarded.  On a closed channel the send panics
\* and is recovered.
RegisterWorkConn(c) ==
  LET d == byRun[RunOf(c)] IN
  /\ reqs[c] > 0 /\ reqs' = [reqs EXCEPT ![c] = @ - 1]
  /\ pool' = IF d # None /\ pc[d] \in {"wait", "resp", "run"} /\ pool[d] < PoolCap
             THEN [pool EXCEPT ![d] = @ + 1] ELSE pool
  /\ UNCHANGED <<use, drops, asks, limVars, logVars, pxyVars, portVars, uc>>

\* GetWorkConn takes one and asks for its replacement.
Take(u, c) == /\ pool' = [pool EXCEPT ![c] = @ - 1]
              /\ reqs' = [reqs EXCEPT ![c] = IF c \in open THEN @ + 1 ELSE @]
              /\ uc' = [uc EXCEPT ![u] = [at |-> "joined", ctl |-> c]]

\* A user connects to a proxy: from the pool, or a request is sent and waited
\* for; after the end of the reader the request fails.
handleUserConnection(u, c) ==
  /\ uc[u].at = "none" /\ u \in use.users
  /\ \E n \in Name : proxies[c][n] # None
  /\ \/ pool[c] > 0 /\ Take(u, c)
     \/ /\ pool[c] = 0 /\ pool' = pool
        /\ reqs' = [reqs EXCEPT ![c] = IF c \in open THEN @ + 1 ELSE @]
        /\ uc' = [uc EXCEPT ![u] = [at |-> IF pc[c] = "run" THEN "wait"
                                           ELSE "failed", ctl |-> c]]
  /\ UNCHANGED <<use, drops, asks, limVars, logVars, pxyVars, portVars>>

GetWorkConn(u) ==
  LET c == uc[u].ctl IN
  /\ uc[u].at = "wait" /\ pool[c] > 0 /\ Take(u, c)
  /\ UNCHANGED <<use, drops, asks, limVars, logVars, pxyVars, portVars>>

\* The channel is closed, or UserConnTimeout has passed.
GetWorkConnFails(u) ==
  /\ uc[u].at = "wait" /\ uc' = [uc EXCEPT ![u].at = "failed"]
  /\ UNCHANGED <<use, drops, asks, limVars, logVars, pxyVars, portVars, pool, reqs>>

-----------------------------------------------------------------------------
Login(c)  == \/ RegisterControl(c) \/ Register(c) \/ Start(c) \/ StartFails(c)
Handle(c) == \/ Acquire(c) \/ Listen(c) \/ getOrCreate(c) \/ groupListen(c)
             \/ groupOpen(c) \/ AddProxy(c) \/ CloseListener(c) \/ ReleasePort(c) \/ DelProxy(c)
Work(c)   == worker(c) \/ workerDone(c) \/ Forget(c)
             \/ \E n \in Name : workerClose(c, n)

Next ==
  \/ \E c \in Ctl : Login(c) \/ Handle(c) \/ Work(c) \/ Drop(c)
  \/ \E c \in Ctl, n \in Name : RegisterProxy(c, n) \/ CloseProxy(c, n)
  \/ \E n \in Name : CleanReserved(n)
  \/ \E m \in use.limits : EditUser(m)
  \/ \E c \in Ctl : RegisterWorkConn(c)
  \/ \E u \in User : GetWorkConn(u) \/ GetWorkConnFails(u)
  \/ \E u \in User, c \in Ctl : handleUserConnection(u, c)

Spec == Init /\ [][Next]_vars

\* The goroutines of the server run on; frpc and the users do as they like.
ServerFair == \A c \in Ctl :
  /\ WF_vars(Register(c) \/ Start(c) \/ StartFails(c))
  /\ WF_vars(Handle(c) \/ Work(c))
FairSpec == Spec /\ ServerFair

-----------------------------------------------------------------------------
(* Properties.                                                             *)

ServerTypeOK ==
  /\ pc \in [Ctl -> {"new", "wait", "resp", "run", "drain", "done", "gone", "dead"}]
  /\ open \subseteq Ctl /\ replaced \subseteq Ctl /\ old \in [Ctl -> Ctl \cup {None}]
  /\ byRun \in [Run -> Ctl \cup {None}] /\ reg \in [Key -> Run \cup {None}]
  /\ job \in [Ctl -> [at: {"idle", "acquire", "listen", "group", "join", "open",
                          "add", "close", "release", "del"},
                     name: Name \cup {None}, port: Port \cup {None},
                     gen: 0..MaxGen, own: BOOLEAN, cnt: 0..1]]
  /\ proxies \in [Ctl -> [Name -> Port \cup {None}]] /\ num \in [Ctl -> Int]
  /\ pxys \in [Name -> Ctl \cup {None}]
  /\ free \subseteq Port /\ used \in [Port -> Name \cup {None}]
  /\ resv \in [Name -> [port: Port \cup {None}, closed: BOOLEAN]]
  /\ lis \in [Port -> {None} \cup (Ctl \X Name) \cup ({"group"} \X (1..MaxGen))]
  /\ grp \in [1..MaxGen -> [lns: SUBSET (Ctl \X Name), port: Port \cup {None},
                       want: Port \cup {AnyPort, None}]]
  /\ max \in use.limits /\ cap \in [Ctl -> Nat] /\ loose \subseteq Ctl
  /\ pool \in [Ctl -> 0..PoolCap] /\ reqs \in [Ctl -> Nat]
  /\ cur \in 0..MaxGen /\ gens \in 0..MaxGen
  /\ uc \in [User -> [at: {"none", "wait", "joined", "failed"},
                     ctl: Ctl \cup {None}]]

\* A client that reconnects never has two controls at work: the one before has
\* closed all its proxies when the new one starts to take requests for them.
OneActive == \A c, d \in Ctl :
  (c # d /\ RunOf(c) = RunOf(d)) => ~({pc[c], pc[d]} \subseteq {"run", "drain"})

\* The registry calls a client online only while a control of it is there that
\* will yet take it off: however logins, replacements and failures interleave,
\* no client stays online for ever and keeps its next login out as a conflict.
OnlineIsReal == \A k \in Key : reg[k] # None =>
  \E c \in Ctl : /\ KeyOf(c) = k /\ RunOf(c) = reg[k]
                 /\ pc[c] \in {"wait", "resp", "run", "drain"}

\* A port is either free or in the hands of a proxy or of a handler that will
\* release it: failed registrations and closed connections leak none.
PortsHeld == \A p \in Port \ free :
  \E c \in Ctl : job[c].port = p \/ \E n \in Name : proxies[c][n] = p

\* The name of a proxy belongs to a control that will give it back: a client
\* never finds a name taken by a connection that is gone.
NamesHeld == \A n \in Name : pxys[n] # None =>
  LET c == pxys[n] IN \/ proxies[c][n] # None /\ pc[c] \in {"run", "drain"}
                      \/ job[c].name = n /\ job[c].own

\* A control never has more proxies than the limit under which it was last given
\* one, through failed registrations, closed proxies and edits of the limit.  Not
\* so of a control that got a proxy while its user had no limit: closing it takes
\* back what was never counted.
Wanted(c) == {n \in Name : proxies[c][n] # None}
LimitKept == \A c \in Ctl \ loose : Cardinality(Wanted(c)) <= cap[c]

\* Every member of the load balancing group is a listener of the current group,
\* whose port is open: none is left with a group that was removed while it
\* joined.
GroupServed == \A c \in Ctl, n \in Grouped : proxies[c][n] # None =>
  /\ cur # 0 /\ lis[proxies[c][n]] = GroupLn(cur) /\ <<c, n>> \in grp[cur].lns

\* "When we get a work connection from pool, replace it with a new one": as long
\* as frpc answers its requests, a running control has, or is about to get, as
\* many work connections as were agreed on.
PoolKept == \A c \in Ctl : (pc[c] = "run" /\ c \in open) =>
  pool[c] + reqs[c] >= use.pool

\* A control whose connection is gone is torn down to the end, its handler and
\* its proxies first, and leaves the manager.
TornDown == \A c \in Ctl : (pc[c] = "run" /\ c \notin open) ~> pc[c] = "gone"

\* The tables of frps are those of the controls and proxies there are: runs,
\* online clients, ports, names, limits, groups and pools.
ServerSound ==
  /\ ServerTypeOK /\ OneActive /\ OnlineIsReal /\ PortsHeld /\ NamesHeld
  /\ LimitKept /\ GroupServed /\ PoolKept
=============================================================================

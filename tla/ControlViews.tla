---------------------------- MODULE ControlViews ----------------------------
(***************************************************************************)
(* What the control tells of its tunnels, cmd/tunnel-control/main.go: the  *)
(* availability of every tunnel with the probes behind it, the clients,    *)
(* the diagnostics, what a client starts with, and the exported files.     *)
(*                                                                         *)
(* Each of these handlers reads the store, the engines and the statuses of *)
(* the nodes one after the other, under a lock of its own each, while      *)
(* other requests change them, clients come and go and entries open and    *)
(* close.  No answer is a snapshot; the properties compare it with what    *)
(* held at some time, or all the time, while the request was under way.    *)
(***************************************************************************)
EXTENDS Integers, FiniteSets

\* A scene: the world as it is, the changes that may come, the requests, the reports
\* of nodes there may be, and how many writes may fail.
NoView == [world |-> [users |-> {}, tuns |-> {}, nodes |-> {}, live |-> {}, open |-> {}],
           edits |-> {}, asks |-> <<>>, reports |-> 0, failures |-> 0]

VARIABLES
  vwScene,  \* the scene, counted down
  vwWorld,  \* Database's users, tuns and nodes; the clients live at the engines; what is open
  vwKnown,  \* apiServer.remoteClients
  vwJob,    \* the requests
  vwFiles,  \* the files under configOut
  vwEver,   \* ghost: what held at some time since a request began
  vwAlways  \* ghost: what held all that time

viewVars == <<vwScene, vwWorld, vwKnown, vwJob, vwFiles, vwEver, vwAlways>>

Views == DOMAIN vwScene.asks
Parts == {"users", "tuns", "nodes", "live", "open", "known"}
Asked(q) == vwScene.asks[q]
\* What holds: the world and what is known of the nodes.
Holding(world, known) == [p \in Parts |-> IF p = "known" THEN known ELSE world[p]]

ViewInit(s) ==
  /\ vwScene = s /\ vwWorld = s.world /\ vwKnown = {} /\ vwFiles = {}
  /\ vwJob = [q \in DOMAIN s.asks |->
                [at |-> "new", users |-> {}, tuns |-> {}, nodes |-> {}, live |-> {},
                 left |-> {}, answer |-> {}]]
  /\ vwEver = [q \in DOMAIN s.asks |-> Holding(s.world, {})]
  /\ vwAlways = [q \in DOMAIN s.asks |-> Holding(s.world, {})]

Read(q, at, part, val) == vwJob' = [vwJob EXCEPT ![q].at = at, ![q][part] = val]
Answer(q, at, val) == Read(q, at, "answer", val)
ViewAt(q, kinds, at) == q \in Views /\ Asked(q).kind \in kinds /\ vwJob[q].at = at
reading == UNCHANGED <<vwScene, vwWorld, vwKnown, vwFiles>>

\* The ghosts: a request begins with what holds then.
Watch ==
  LET now == Holding(vwWorld', vwKnown') IN
  /\ vwEver' = [q \in Views |-> IF vwJob[q].at = "new" THEN now
                  ELSE IF vwJob[q].at = "end" THEN vwEver[q]
                  ELSE [p \in Parts |-> vwEver[q][p] \cup now[p]]]
  /\ vwAlways' = [q \in Views |-> IF vwJob[q].at = "new" THEN now
                    ELSE IF vwJob[q].at = "end" THEN vwAlways[q]
                    ELSE [p \in Parts |-> vwAlways[q][p] \cap now[p]]]

-----------------------------------------------------------------------------
(* The world.                                                              *)

\* Database: users by name, nodes by id.
Keyed(world) ==
  /\ \A u, v \in world.users : u.name = v.name => u = v
  /\ \A n, m \in world.nodes : n.id = m.id => n = m

\* Another request changes a record, a client comes or goes, an entry opens or closes.
Change ==
  \E e \in vwScene.edits :
    /\ e.out \subseteq vwWorld[e.part]
    /\ vwScene' = [vwScene EXCEPT !.edits = @ \ {e}]
    /\ vwWorld' = [vwWorld EXCEPT ![e.part] = (@ \ e.out) \cup e.in] /\ Keyed(vwWorld')
    /\ UNCHANGED <<vwKnown, vwJob, vwFiles>>

Of(n, statuses) == {s \in statuses : s.node = n}

\* setRemoteClientStatuses: a node answers a push, or does not.
setRemoteClientStatuses ==
  /\ vwScene.reports > 0 /\ vwScene' = [vwScene EXCEPT !.reports = @ - 1]
  /\ \E n \in {x.id : x \in vwWorld.nodes} \ {"local"}, good \in BOOLEAN :
       vwKnown' = (vwKnown \ Of(n, vwKnown)) \cup IF good THEN Of(n, vwWorld.live) ELSE {}
  /\ UNCHANGED <<vwWorld, vwJob, vwFiles>>

\* The scenes meant: finitely many clients, each of one of the two engines and seen at
\* some time, and the users and nodes of a store.
WorldParts == Parts \ {"known"}
LiveOK(live) ==
  /\ IsFiniteSet(live)
  /\ \A x \in live : x.engine \in {"frp", "nps"} /\ x.online \in BOOLEAN /\ x.seen \in Int
PartOK(p, val) ==
  /\ p = "live" => LiveOK(val)
  /\ p = "tuns" => IsFiniteSet(val)
  /\ p = "users" => \A u \in val : IsFiniteSet(u.ports) /\ u.name # ""
  /\ p = "nodes" => \A n \in val : n.id # ""
SceneOK(s) ==
  /\ DOMAIN s = DOMAIN NoView /\ DOMAIN s.world = WorldParts /\ Keyed(s.world)
  /\ \A p \in WorldParts : PartOK(p, s.world[p])
  /\ \A e \in s.edits : e.part \in WorldParts /\ PartOK(e.part, e.in)

-----------------------------------------------------------------------------
(* Reading.                                                                *)

ListViews == {"availability", "clients", "diagnostics"}

\* filterUsersByName, filterTunnelsByUser: an administrator sees all of them.
filterUsersByName(q, users) == {u \in users : Asked(q).admin \/ u.name = Asked(q).who}
filterTunnelsByUser(q, tuns) == {t \in tuns : Asked(q).admin \/ t.user = Asked(q).who}

Users(q) ==
  /\ ViewAt(q, ListViews, "new") /\ reading
  /\ Read(q, "tuns", "users", filterUsersByName(q, vwWorld.users))

ListTunnels(q) ==
  /\ ViewAt(q, ListViews, "tuns") /\ reading
  /\ Read(q, IF Asked(q).kind = "diagnostics" THEN "add" ELSE "frp",
          "tuns", filterTunnelsByUser(q, vwWorld.tuns))

\* allClientStatuses: those of frps, those of nps, those of the nodes.
FRPClientStatuses(q) ==
  /\ ViewAt(q, ListViews, "frp") /\ reading
  /\ Read(q, "nps", "live", {s \in Of("local", vwWorld.live) : s.engine = "frp"})
NPSClientStatuses(q) ==
  /\ ViewAt(q, ListViews, "nps") /\ reading
  /\ Read(q, "remote", "live",
          vwJob[q].live \cup {s \in Of("local", vwWorld.live) : s.engine = "nps"})
allClientStatuses(q) ==
  /\ ViewAt(q, ListViews, "remote") /\ reading
  /\ vwJob' = [vwJob EXCEPT ![q].at = IF Asked(q).kind = "clients" THEN "add" ELSE "probe",
                            ![q].live = @ \cup vwKnown, ![q].left = vwJob[q].tuns]

-----------------------------------------------------------------------------
(* Availability.                                                           *)

betterClientStatus(r, s) == IF r.online # s.online THEN r.online ELSE r.seen > s.seen
\* One of the best.
best(statuses) ==
  CHOOSE s \in statuses : \A r \in statuses : ~betterClientStatus(r, s)

\* buildClientRuntimeStatus.
stateOf(statuses, embedded) ==
  IF statuses # {} /\ best(statuses).online THEN "online"
  ELSE IF embedded THEN "offline"
  ELSE "unknown"

\* Mutant: whichever node it is connected to.
anyNodesClient(t, live) ==
  stateOf({s \in live : s.user = t.user /\ s.engine = t.engine}, t.node = "local")

clientStatusForTunnel(t, live) ==
  stateOf({s \in live : s.user = t.user /\ s.engine = t.engine /\ s.node = t.node},
          t.node = "local")

\* runtimeForNode: the address of a node, the control's own without one.
addrIn(nodes, id) ==
  IF \E n \in nodes : n.id = id /\ n.addr # ""
  THEN (CHOOSE n \in nodes : n.id = id).addr ELSE "control"

\* runtimeForTunnel, in the goroutine of the tunnel.
runtimeForTunnel(q) ==
  /\ ViewAt(q, {"availability"}, "probe") /\ reading
  /\ \E t \in vwJob[q].left :
       vwJob' = [vwJob EXCEPT ![q].left = @ \ {t},
                   ![q].nodes = @ \cup {[t |-> t, addr |-> addrIn(vwWorld.nodes, t.node)]}]

\* probeTCPEntry, probeHTTPEntry: a dial, or a request of which the answer counts.
probeTunnelEntry(t, addr) ==
  LET answers == {o \in vwWorld.open : o.addr = addr /\ o.port = t.port} IN
  CASE t.mode = "udp" -> "unknown"
    [] answers = {} -> "down"
    [] t.mode = "http" /\ \E o \in answers : o.fails -> "warning"
    [] OTHER -> "ok"

summarizeTunnelAvailability(client, entry) ==
  CASE entry = "down" \/ client = "offline" -> "down"
    [] entry = "warning" -> "warning"
    [] client = "online" /\ entry = "ok" -> "ok"
    [] client = "unknown" /\ entry = "unknown" -> "unknown"
    [] OTHER -> "warning"

checkTunnelAvailability(q) ==
  /\ ViewAt(q, {"availability"}, "probe") /\ reading
  /\ \E r \in vwJob[q].nodes :
       LET t == r.t
           state == IF t.on
                    THEN summarizeTunnelAvailability(clientStatusForTunnel(t, vwJob[q].live),
                                                     probeTunnelEntry(t, r.addr))
                    ELSE "disabled"
       IN vwJob' = [vwJob EXCEPT ![q].nodes = @ \ {r},
                      ![q].answer = @ \cup {[t |-> t, state |-> state]}]

\* availabilityFor waits for all of them.
listAvailability(q) ==
  /\ ViewAt(q, {"availability"}, "probe") /\ vwJob[q].left \cup vwJob[q].nodes = {}
  /\ reading /\ Answer(q, "end", vwJob[q].answer)

-----------------------------------------------------------------------------
(* Clients and diagnostics.                                                *)

\* clientStatusesFor: the best status of every user and engine, at whatever node.
clientStatusesFor(q) ==
  /\ ViewAt(q, {"clients"}, "add") /\ reading
  /\ Answer(q, "end",
       {[user |-> u.name, engine |-> e, online |->
           stateOf({s \in vwJob[q].live : s.user = u.name /\ s.engine = e}, TRUE) = "online"] :
          u \in vwJob[q].users, e \in {"frp", "nps"}})

freeCount(total, used) == IF used >= total THEN 0 ELSE total - used

PortsUsed(tuns, u, modes) ==
  {t.port : t \in {x \in tuns : x.user = u.name /\ x.on /\ x.mode \in modes}}

\* resourceUsageFor: disabled tunnels count for the limit and use no port.
resourceUsageFor(q) ==
  LET tuns == vwJob[q].tuns IN
  /\ ViewAt(q, {"diagnostics"}, "add") /\ reading
  /\ Answer(q, "end",
       {[user |-> u,
         tcpFree |-> freeCount(Cardinality(u.ports), Cardinality(PortsUsed(tuns, u, {"tcp"}))),
         udpFree |-> freeCount(Cardinality(u.ports), Cardinality(PortsUsed(tuns, u, {"udp"}))),
         tunnelFree |-> IF u.max = 0 THEN -1
                      ELSE freeCount(u.max, Cardinality({t \in tuns : t.user = u.name}))] :
          u \in vwJob[q].users})

-----------------------------------------------------------------------------
(* What a client starts with.                                              *)

Named(q) == {u \in vwWorld.users : u.name = Asked(q).who}
GetUser(q) ==
  /\ ViewAt(q, {"bootstrap"}, "new") /\ reading
  /\ IF \E u \in Named(q) : u.on THEN Read(q, "tuns", "users", Named(q))
     ELSE Answer(q, "404", {})

BootstrapTunnels(q) ==
  /\ ViewAt(q, {"bootstrap"}, "tuns") /\ reading
  /\ Read(q, "nodes", "tuns", {t \in vwWorld.tuns : t.user = Asked(q).who})

clientBootstrap(q) ==
  /\ ViewAt(q, {"bootstrap"}, "nodes") /\ reading
  /\ Answer(q, "end",
       {[t |-> t, addr |-> addrIn(vwWorld.nodes, t.node)] :
          t \in {x \in vwJob[q].tuns : x.on /\ \E n \in vwWorld.nodes : n.id = x.node /\ n.on}})

-----------------------------------------------------------------------------
(* Export.                                                                 *)

Put(file) == {f \in vwFiles : f.user # file.user \/ f.node # file.node} \cup {file}
exporting == UNCHANGED <<vwWorld, vwKnown>>
\* A write that succeeds, or fails and ends the request.
Write(q, file, next) ==
  /\ exporting
  /\ \/ vwFiles' = Put(file) /\ vwJob' = next /\ vwScene' = vwScene
     \/ /\ vwScene.failures > 0 /\ vwScene' = [vwScene EXCEPT !.failures = @ - 1]
        /\ Read(q, "500", "left", {}) /\ vwFiles' = vwFiles

\* The list of the clients of NPS, and what starts one user's.
ExportNPSClients(users) ==
  [user |-> "", node |-> "", addr |-> "", key |-> {u.key : u \in {x \in users : x.on}}]
RenderNPCCommand(u, id, addr) == [user |-> u.name, node |-> id, addr |-> addr, key |-> {u.key}]

\* The users, and the list of all clients.
ExportUsers(q) ==
  /\ ViewAt(q, {"export"}, "new")
  /\ Write(q, ExportNPSClients(vwWorld.users),
           [vwJob EXCEPT ![q].at = "list", ![q].users = vwWorld.users])

ListNodes(q) ==
  /\ ViewAt(q, {"export"}, "list") /\ reading /\ Read(q, "user", "nodes", vwWorld.nodes)

\* The next user: its tunnels, then the file of the user;
ExportUser(q) ==
  /\ ViewAt(q, {"export"}, "user")
  /\ IF vwJob[q].users = {} THEN reading /\ Answer(q, "end", {})
     ELSE \E u \in vwJob[q].users :
            Write(q, RenderNPCCommand(u, "", "control"),
                  [vwJob EXCEPT ![q].at = "node",
                     ![q].tuns = {t \in vwWorld.tuns : t.user = u.name},
                     ![q].left = {[u |-> u, n |-> n] : n \in vwJob[q].nodes}])

\* then one for every node with a tunnel of the user.
ExportNode(q) ==
  /\ ViewAt(q, {"export"}, "node")
  /\ \E x \in vwJob[q].left :
       LET rest == vwJob[q].left \ {x}
           next == [vwJob EXCEPT ![q].left = rest,
                                 ![q].at = IF rest = {} THEN "user" ELSE "node",
                                 ![q].users = IF rest = {} THEN @ \ {x.u} ELSE @]
       IN IF \E t \in vwJob[q].tuns : t.node = x.n.id
          THEN Write(q, RenderNPCCommand(x.u, x.n.id, addrIn({x.n}, x.n.id)), next)
          ELSE reading /\ vwJob' = next

-----------------------------------------------------------------------------

ViewStep(q) ==
  \/ Users(q) \/ ListTunnels(q) \/ FRPClientStatuses(q) \/ NPSClientStatuses(q)
  \/ allClientStatuses(q) \/ runtimeForTunnel(q) \/ checkTunnelAvailability(q)
  \/ listAvailability(q) \/ clientStatusesFor(q) \/ resourceUsageFor(q)
  \/ GetUser(q) \/ BootstrapTunnels(q) \/ clientBootstrap(q)
  \/ ExportUsers(q) \/ ListNodes(q) \/ ExportUser(q) \/ ExportNode(q)

ViewNext == (Change \/ setRemoteClientStatuses \/ \E q \in Views : ViewStep(q)) /\ Watch

\* Handlers return: a probe ends after two seconds.
ViewFair == WF_viewVars(\E q \in Views : ViewStep(q) /\ Watch)

-----------------------------------------------------------------------------
(* Properties.                                                             *)

Ended(q, kind) == ViewAt(q, {kind}, "end")
Of2(t, s) == s.user = t.user /\ s.engine = t.engine /\ s.node = t.node
\* The clients that a request may have seen, and those it must have.
MaySee(q) == Of("local", vwEver[q].live) \cup vwEver[q].known
MustSee(q) == Of("local", vwAlways[q].live) \cup vwAlways[q].known
Addrs(nodes, id) == {addrIn({n}, id) : n \in {x \in nodes : x.id = id}}

\* Availability: "ok" only where at some time since the request a client of the tunnel
\* was known to be connected to its node, and something answered at the address the
\* node had at some time; never "down" where both held all the time
\* (clientStatusForTunnel, summarizeTunnelAvailability).
AvailabilityTrue ==
  \A q \in Views : Ended(q, "availability") => \A a \in vwJob[q].answer :
    LET t == a.t IN
    /\ a.state = "ok" =>
         /\ t \in vwEver[q].tuns /\ t.on
         /\ \E s \in MaySee(q) : Of2(t, s) /\ s.online
         /\ \E o \in vwEver[q].open :
              /\ o.port = t.port /\ (t.mode = "http" => ~o.fails)
              /\ o.addr \in Addrs(vwEver[q].nodes, t.node) \cup {"control"}
    /\ a.state = "down" =>
         ~ /\ \E s \in MustSee(q) : Of2(t, s) /\ s.online
           /\ \E o \in vwAlways[q].open, n \in vwAlways[q].nodes :
                n.id = t.node /\ o.port = t.port /\ o.addr = addrIn({n}, t.node)

\* Clients: somebody is shown online if it was all the time, and only if it was at some
\* time, at whichever node (clientStatusesFor).
ClientsTrue ==
  \A q \in Views : Ended(q, "clients") => \A a \in vwJob[q].answer :
    LET on(statuses) == \E s \in statuses :
                          s.user = a.user /\ s.engine = a.engine /\ s.online IN
    (on(MustSee(q)) => a.online) /\ (a.online => on(MaySee(q)))

\* A client starts with its own tunnels, enabled at a node that was enabled at some
\* time, and with all of those that were so all the time (clientBootstrap).
BootstrapTrue ==
  \A q \in Views : Ended(q, "bootstrap") =>
    LET served(x) == {t \in x.tuns : t.user = Asked(q).who /\ t.on
                                       /\ \E n \in x.nodes : n.id = t.node /\ n.on}
        told == {a.t : a \in vwJob[q].answer}
    IN /\ served(vwAlways[q]) \subseteq told /\ told \subseteq served(vwEver[q])
       /\ \A a \in vwJob[q].answer : a.addr \in Addrs(vwEver[q].nodes, a.t.node)

\* Diagnostics: where nothing changed meanwhile, a free port of a pool is one that no
\* tunnel of the user has, also after the pool was shrunk (freeCount).
UsageTrue ==
  \A q \in Views : Ended(q, "diagnostics") => \A a \in vwJob[q].answer :
    LET left(mode) == a.user.ports \ PortsUsed(vwEver[q].tuns, a.user, {mode}) IN
    vwEver[q] = vwAlways[q] =>
      /\ a.tcpFree >= 0 /\ (a.tcpFree > 0 => left("tcp") # {})
      /\ a.udpFree >= 0 /\ (a.udpFree > 0 => left("udp") # {})

\* Export: when one ended well and nothing changed during any of them, the files of
\* every user hold its key, and those of its tunnels' nodes their address
\* (exportConfigs).
ExportTrue ==
  \A q \in Views :
    /\ Ended(q, "export")
    /\ \A r \in Views : Asked(r).kind = "export" =>
                          vwEver[r] = vwEver[q] /\ vwAlways[r] = vwEver[q]
    => \A u \in vwEver[q].users :
         /\ \E f \in vwFiles : f.user = u.name /\ f.node = "" /\ f.key = {u.key}
         /\ \A t \in vwEver[q].tuns : t.user = u.name =>
              \A n \in vwEver[q].nodes : n.id = t.node =>
                \E f \in vwFiles : /\ f.user = u.name /\ f.node = n.id /\ f.key = {u.key}
                                   /\ f.addr = addrIn({n}, n.id)

\* What the control tells was so.
ViewsSound ==
  AvailabilityTrue /\ ClientsTrue /\ BootstrapTrue /\ UsageTrue /\ ExportTrue

\* Every one of these requests is answered.
ViewsEnd == <>(\A q \in Views : vwJob[q].at \in {"end", "404", "500"})
=============================================================================

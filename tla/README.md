# A TLA+ model of cosmo-nps

This directory specifies the parts of cosmo-nps that keep state and have to keep it
right: the control plane with its database, its API and its console; the nodes that
carry the traffic; the client that connects the users; and, of the two vendored
tunnel programs, NPS and frp, the sessions, connections, quotas, routes and
configuration that the control plane relies on. The modules are model-checked with
TLC on small instances; most of the safety properties are proved with TLAPS for
every instance. Paths are relative to the repository (`src/` in `PROJECT.json`).

1. [The system](#1-the-system)
2. [The modules](#2-the-modules)
3. [The runs](#3-the-runs)
4. [What was found](#4-what-was-found)
5. [The proofs](#5-the-proofs)
6. [What is only model-checked](#6-what-is-only-model-checked)
7. [What is not modelled, and the plan](#7-what-is-not-modelled-and-the-plan)

## 1. The system

An administrator runs one **control** (`cmd/tunnel-control`): a web console, an HTTP
API, a JSON database and an embedded NPS server. Each further machine that terminates
tunnels is a **node**: an **agent** (`cmd/tunnel-agent`) with its own embedded NPS.
People at home run the **client** (`cmd/tunnel-client`), which fetches its connection
data from the control and connects an NPC client to every node that has tunnels for
its user. frp (`upstream/frp`) may run beside NPS as a second engine, for the same
users, from files the control exports.

```
   browser ---HTTP---> control ---POST /api/agent/apply (push)---> agent(s)
                        | store.go  <---GET /api/agent/bundle (pull, 10 s)---
                        | data.json <---POST /api/agent/traffic (5 s)--------
                        | embedded NPS                      embedded NPS
   client ---login, bootstrap---> control;   client ---NPS bridge---> NPS
   frpc ---control connection, work connections---> frps
```

### Inventory

| component | state it keeps | operations | what makes it correct | modules |
|---|---|---|---|---|
| control store (`internal/core/store.go`) | users, nodes, tunnels under one mutex; one JSON file | start-up, edits of users, nodes and tunnels, expiry sweep, save | references resolve, nothing is given out twice, quotas hold, what was acknowledged survives | Store |
| bundle delivery and agent (`cmd/tunnel-agent`, `internal/integrated`) | bundles under way, NPS' clients, tasks, hosts and servers | pull, push, SyncNPSState, restart | nothing without an owner; success means in place; the node follows the store | NodeSync |
| traffic accounting (`reportTraffic`) | counters, last values seen, the user's record | report, bill, reset, edit | never bill what was not carried; cut off in the end | Traffic |
| HTTP API, sessions (`cmd/tunnel-control/main.go`) | sessions, a request's copy of its user, frp's user file, node statuses | the handlers that change something, pushes | only who may changes a tunnel, and with what holds now | ControlApi |
| console views, probes, diagnostics, export | the last check, the exported files | handlers that read several parts in turn | an answer was true at some time while it was made | ControlViews |
| log buffer, engine manager | lines; a child process | write, list, clear; start, stop, status | lines in order; one process | LogBuffer, EngineManager |
| client and launcher (`cmd/tunnel-client`) | running flag, cancel function, NPC clients | start, stop, restart, sync | one run at a time, stop closes everything, a restart reconnects | TunnelClient |
| NPS bridge (`bridge/bridge.go`) | table of clients with their two connections | registration, ping, deletion, configuration clients | who is gone is forgotten, nobody waits for ever | NpsBridge |
| NPS mux (`lib/nps_mux`) | windows, queues, streams | write, read, acknowledge, resize, close; push, take, stop | bytes in order, none lost, nobody stuck; no packet taken twice or passed by its own kind | MuxWindow, ByteStream, MuxQueue |
| NPS proxies (`server/proxy`, `lib/goroutine`) | quota of connections, UDP sessions | connect, copy, time out, sweep | the quota is exact; what ends is ended at both ends | NpsLinks |
| NPS hosts, certificates (`http.go`, `https.go`) | connections to hosts; listener of a certificate | http, upgrade, pass-through, change of host | quota, streams, listeners are those of the connections | NpsHttp, NpsCert |
| NPS console (`web/controllers`, `lib/file`) | three maps, three files, ids | add, edit, delete, start, stop, save | answers are kept, ids are fresh, files catch up | NpsWeb |
| NPS login | failures per address, sessions | sign in and out | one identity; a refusal does not prolong itself | NpsLogin |
| frps controls and proxies (`server/`) | controls by run id, names, ports, groups, limits, pools | login, replacement, proxies, work connections | the tables are those of what is there | FrpServer |
| frps virtual hosts (`pkg/util/vhost`, `server/group`) | routes, groups, requests | register, take back, look up twice | who is gone has no route; the best route is found | Vhost, VhostRouter |
| frp hole punching (`pkg/nathole`, xtcp) | attempts, sids, sockets; record of a pair of NATs | exchange, answer, tunnel, report | sockets are closed, sessions forgotten, sides fit together | NatHole, HolePunch, Analyzer |
| frp UDP proxy | the one work connection and its goroutines, at both ends | replace, read, send, close | one at a time; recovers; everything is freed | FrpUdp |
| frpc (`client/`) | control, proxies, visitors, health | login, reload, stop, messages | frps serves what is wanted, and nothing old | FrpClient |
| frpc configuration (`client/config_manager.go`, `pkg/config/source`) | memory, file, what is applied | create, update, delete, reload, put, stop | they agree, and with what was answered | FrpConf |
| frp proxy configurations (`pkg/config`, `v1`, `validation`) | settings of proxies and visitors, at frpc and at frps | read, decode, complete, validate, merge, send | what runs is what was written, is valid, and is what frps serves | ProxyConf |
| frp wire (`service.go`, `pkg/proto/wire`) | what kind of connection, TLS, session keys | accept, detect, hello, login | both ends mean the same session | FrpWire |
| web console, bootstrap script, desktop, deployment | none of their own | - | - | - |

The components talk by calls under a mutex (handlers to stores), by HTTP requests that
may be lost, late or overtaken (control and agent, client and control), through
concurrent maps of pointers (NPS' database), through channels and streams of one
multiplexed connection (bridge and NPC, frps and frpc), and through goroutines that
each of them starts on its own.

### What is hard here

* A save rewrites a file *after* memory was changed; a failure leaves memory, file and
  the caller's idea of both in disagreement (control), or has to be taken back (frpc).
* Handlers are several calls of a store: a bundle is two reads, a bill and an edit are a
  read and a write, an NPS handler looks up, changes and saves without any lock.
* Deliveries are not ordered: bundles have no version, reports no sequence number,
  answers to proxy requests only a name.
* Everything that is acquired has many ways out: quotas, names, ports, routes, sockets,
  listeners, work connections, sids are released by whichever goroutine gets there.
* A client that reconnects meets what is left of its earlier self.
* Anybody may restart at any time, and timeouts make two requests of one sender overlap.

`PROJECT.json` lists the hazards at their lines, with the properties aimed at them.

## 2. The modules

A component is a module; an `MC` module makes its instances for TLC. Components that
share nothing are checked in one run: a behaviour picks a *scene* of one of them, which
plays while the others rest (`SceneInit`, `SceneNext`). Interacting components are
composed: `NodeSync` extends `Store`; `ControlApi` and `Traffic` model the store's
operations at the granularity at which their handlers call it.

| run | module of the run | modules it plays |
|---|---|---|
| `tunnels`, `users` | `MCStore` | `Store` |
| `churn`, `handover` | `MCNodeSync` | `NodeSync` with `Store` |
| `billing` | `MCDesk` | `Traffic`, `ControlViews`, `EngineManager`, `LogBuffer` |
| `restarts` | `TunnelClient` | itself |
| `requests` | `MCServing` | `ControlApi`, `NpsWeb`, `NpsLogin`, `FrpWire` |
| `bridge` | `MCNpsBridge` | `NpsBridge` |
| `links` | `MCNpsLinks` | `NpsLinks`, `NpsHttp`, `NpsCert` |
| `window` | `MCMuxWindow` | `MuxWindow`, refining `ByteStream`; `MuxQueue` |
| `frps` | `MCFrpServer` | `FrpServer`, `Vhost` (with `VhostRouter`), `Analyzer` (with `HolePunch`) |
| `frpc` | `MCFrpClient` | `FrpClient`, `NatHole`, `FrpUdp`, `FrpConf`, `ProxyConf` |

A definition whose comment begins "Mutant:" is no part of a specification. It is a
plausible wrong version of the definition after it, and substituting it must make TLC
violate the property that `PROJECT.json` pairs it with.

How state and actions correspond to the code:

* **Store.** `users`, `nodes`, `tunnels` are the maps of `Database`, `file` what the data
  file holds (a database, `Empty`, or `Torn`, which does not parse). An exported method
  holds `s.mu` to the end of its save and is one action with the outcome of that save:
  "ok", "fail" before the file is touched, "short" after `os.WriteFile` truncated it;
  memory keeps the change in all three. `phase` follows `main`. A refused request is a
  stuttering step. Pools are sets of ports and of label sequences.
* **NodeSync.** `slot` holds one pull and any number of pushes, "building" between the two
  reads of `bundleForNode`, then "sent". `BeginSync` takes `syncMu`, `SyncTask`,
  `SyncHost` and `Prune` are the loops of `SyncNPSState`, which returns at the first
  error and leaves what was done. `run` is NPS' `RunList`: an entry is "starting" until its goroutine
  has opened the port (`Listen`); stopping it earlier panics. `nps` is "bridge" between
  `StartNewServer` and `InitFromCsv`, whose loop (`InitTest`, `InitAdd`) a sync may meet;
  `twin` is a second server of one task.
* **Traffic.** `Report` is `reportTraffic` up to `GetUser`, `Bill` the rest; `trafficMu`
  keeps two reports apart, and the administrator's handlers, which do not take it,
  interleave. Reports of a node overlap and overtake one another. `carried`, `past` and
  `again` are history: what was carried, and what late reports bill again.
* **ControlViews.** A handler is its reads in order; between any two the store, the
  engines, the statuses and the ports change. `Watch` records what held at some time and
  all the time since the request, which is what an answer is compared with.
* **EngineManager, LogBuffer.** A method under the mutex is one step; the goroutine that
  waits for a process, and the incomplete line that `addChunk` keeps without the mutex,
  are steps of their own.
* **TunnelClient.** `pc[r]` is where run `r` of `runClientCtx` is; an NPC client
  `<<run, node>>` is a goroutine with its retry loop; `CloseClient` is the package
  variable that all of them share; `intent` is the last request the launcher accepted.
* **ControlApi.** `job` is how far a request is and the copy `me` of its user that the
  middleware read; handlers check with the copy and act on the store later. `moved` are
  the tunnels that changed hands between check and act.
* **NpsWeb.** A handler is a list of steps, each one access to a map or one writing of a
  file; a map holds pointers, so a handler goes on writing to an object that has left
  the map. `at` is each request's steps left, `Crash` loses the maps. A file that cannot be
  created panics with its mutex locked (`SaveFails`); one that cannot be renamed is logged
  only (`SaveLost`).
* **NpsLogin.** `doLogin` is a look at the record and a decision; two browsers at one
  address interleave, and two counts may be one (`times` is added to without a lock).
* **FrpWire.** Both ends of a connection step by step: head, TLS, multiplexer, magic,
  hellos, login, with the accept loop that reads the first byte itself.
* **NpsBridge.** Sessions of NPC with two connections each; `Client` is the table;
  `DelClient` is three steps in any goroutine, `ping` the ticker's loop. A connection that
  arrives looks its entry up and is put into it in two steps, so that the entry may have
  left the table (`LeavesTable`).
* **NpsLinks.** `pc` is where a connection or the builder of a UDP session is, `ses` the
  map of sessions, `nowConn` the quota. A stream's request, answer and timeout are steps;
  the read loop of the mux blocks on a late answer.
* **NpsHttp, NpsCert.** Deferred calls of `AddConn` are counted per connection and client
  (`units`); a connection may change its host, and with it the client whose quota it uses.
  The two certificate maps are updated one after the other, by connections that overlap with each
  other and with edits; `torn` are the certificates whose listener was taken out while in use.
* **MuxWindow.** Each atomic operation on the packed status word of a window is a step.
  Bytes are counted, not named. `IsByteStream` instantiates **ByteStream**: what is read
  is a prefix of what was written, and after a close from the writer's end all of it.
* **MuxQueue.** Each atomic operation on a word of a ring or a chain is a step: a pusher
  reserves a slot, writes it, or links a larger ring; `take` has what the writer's loop, and
  `release` beside it when the session closes, have loaded so far. The chains of the
  priority queue are `Class`; the queue of streams to be accepted is one chain of them.
  `late` and `missed` remember the two races of section 4.
* **FrpServer.** `pc` of a control from login to teardown, `job` the handler or the
  worker that closes its proxies, managers one call per step. `max` is the limit of the
  user now, `cap` the one under which a control got its last proxy, `loose` the controls that
  got one without a limit.
* **Vhost.** A proxy registers its routes one at a time; a request is looked up for its
  credentials and again for its connection. **VhostRouter** has the order of routes.
* **HolePunch, Analyzer.** Pure functions on NATs, behaviours and ports; `Analyzer` is
  the record of a pair, found by `genAnalysisKey`: scenes have sides whose ports and addresses
  change between asks as far as the key does not tell them apart.
* **NatHole.** An attempt is a number with a session of frps and a socket at each end;
  visitor, controller and client are the three parts of the state. `tun.over` are the
  sessions that were replaced while they stood.
* **FrpUdp.** Reader, sender, loop and heartbeat of a work connection end in any order. A sender
  that was cancelled is "off" until it notices, and may take packets until then.
* **FrpClient.** Service, controls, wrappers and health checks; `up` and `down` are the
  messages of a control connection, in order.
* **FrpConf.** A call is `at` a stage; `lock` is the mutex of the service or of the
  store; memory (`store`), `tmp` and `disk` are the three steps of a save.
* **ProxyConf.** The same sources, a reload in one step, but with the content of the entries:
  a setting has a value or is empty, an entry has the settings of its type and plugin. A
  text is read, decoded, merged with the store, completed and validated in the order of
  `root.go` at the start and of `config_manager.go` at a reload, which differ. `served` is
  what frps makes of the message. `written` are the entries before any of it.

## 3. The runs

A run's properties are named conjunctions; a part can be checked by naming it instead.

| run | checks | parts |
|---|---|---|
| `tunnels` | `TypeOK`, `Consistency`, `AckedIsDurable`, `QuotaBoundsGrowth` | `RefIntegrity`, `PortUnique`, `DomainUnique`, `DefaultNodePresent` |
| `users` | `ExpiredDisabled`, `SweepKeepsGrace`, `LastAdminKept`, `ExpiredIsRemoved` | |
| `churn` | `NodeSound`, `SuccessMeansApplied`, `EventuallyApplied` | `NodeTypeOK`, `NothingDangles` |
| `handover` | violates `EventuallyApplied` | section 4 |
| `billing` | `DeskSound` | `TrafficTypeOK`, `NeverOverbills`, `AvailabilityTrue`, `ClientsTrue`, `BootstrapTrue`, `UsageTrue`, `ExportTrue`, `OneProcess`, `ShownIsKept`, `LogTrue`, `ListTrue` |
| | `DeskSettles` | `CutOff`, `ViewsEnd`, `EngineForgets`, `LogCatchesUp` |
| `restarts` | `OneRun`, `StopCloses`, `ClientFollows` | `StopEnds`, `RestartReconnects`, `ComesToServe` |
| `requests` | `ApiSound` | `ApiTypeOK`, `NoOrphanTunnel`, `DeletedNodeGone` |
| | `ApiGuards` | `OthersTunnelsKept`, `DisabledGetsNothing` |
| | `ApiSettles` | `FileCatchesUp`, `StatusSettles` |
| | `ConsoleSound` | `WebTypeOK`, `DrawnIsFresh`, `AddedIsKept`, `FileHasAll`, `LoginTypeOK`, `OneIdentity` |
| | `ConsoleAnswers` | `RequestEnds`, `GetsIn` |
| | `WireSound`, `WireSettles` | `WireTypeOK`, `SameSession`; `AcceptGoesOn`, `EndsAgree` |
| `bridge` | `BridgeSettles` | `BridgeTypeOK`, `GoneIsForgotten`, `HalfEnds`, `ConfigForgotten`, `DelClientReturns` |
| `links` | `LinksSound` | `LinksTypeOK`, `QuotaExact`, `SessionsLive` |
| | `HostsSound` | `HttpTypeOK`, `HttpQuota`, `StreamsClosed`, `CertTypeOK`, `ListenerFound`, `MapsAgree` |
| | `ProxySettles` | `ConnectionsEnded`, `NoOrphan`, `LoopFreed`, `HttpEnded`, `CertServed` |
| `window` | `WindowSound`, `IsByteStream` | `WindowTypeOK`, `Conserved`, `QueueBounded` |
| | `QueueSound` | `QueueTypeOK`, `TakenOnce`, `SlotOwned`, `InOrder`, `NothingLost`, `NotStarved` |
| | `MuxSettles` | `StreamSettles` (`LoopNotHeldUp`, `Delivered`, `CloseWakesWriter`, `CloseEnds`), `QueueSettles` |
| `frps` | `ServerSound` | `ServerTypeOK`, `OneActive`, `OnlineIsReal`, `PortsHeld`, `NamesHeld`, `LimitKept`, `GroupServed`, `PoolKept` |
| | `RoutesSound` | `VhostTypeOK`, `RoutesHeld`, `NoStrayRoute`, `RoutedBest`, `PoolsKept`, `CredentialsAsked` |
| | `WaysSound` | `AnalyzerTypeOK`, `SidesMeet`, `PortsInReach`, `HardSide`, `WaysAllTried`, `PublicReceivesFirst` |
| | `ServerSettles` | `TornDown`, `RequestsEnd` |
| `frpc` | `ControlSound` | `ClientTypeOK`, `NoNilControl`, `ServedIsWanted`, `RunningIsServed`, `OldHoldsNothing` |
| | `TunnelsSound` | `HoleTypeOK`, `SocketsAccounted`, `UdpTypeOK`, `OneWorkConn` |
| | `ConfSound` | `ConfTypeOK`, `MemoryIsDisk`, `InSync`, `AnswersKept` |
| | `ProxyConfSound` | `ProxyConfTypeOK`, `RunsWhatIsWritten`, `NoNeedlessRestart`, `RunningIsValid`, `ServedAsConfigured` |
| | `ClientSettles` | `ControlSettles` (`ServesLatest`, `StopEnds`), `TunnelsSettle` (`SessionsForgotten`, `VisitsEnd`, `TunnelKept`, `UdpRecovers`, `UdpFreed`), `CallsEnd` |

### Bounds, and why they are enough

* `Store`: uniqueness and references are about pairs, quotas about an owner, a neighbour
  and the tunnel that moves. Three tunnels, two owners, two nodes contain every such
  configuration, and the proofs remove the bound. The clock of `users` runs past a date,
  a retention period and a second date.
* `NodeSync`: five edits cover node, user, tunnel, a change and a second change; each
  hazard of delivery needs one stale bundle and one fresh one; one fault (crash, failed
  port, panic) in each play. The last edit, or the last two, follow on no fault and no bundle
  during start-up.
* `Traffic`: two nodes, three bytes with a limit of two pass the limit from either side;
  two reports of a node on their way are one that overtakes the other (`MaxWire = 2`).
* `TunnelClient`: three runs are the one that ends, the one a restart starts, and one
  that a competing request would add. `Slow = FALSE` and one fault: section 4.
* `ControlApi`, `NpsWeb`: requests interleave in pairs and with one crash or push; each
  scene of `MCServing` is a set of two to four requests chosen to touch the same objects,
  and identifiers, keys and ports enough for each of them.
* `NpsLogin`: two browsers, a limit of two, two wrong passwords each.
* `NpsBridge`: two sessions of one key with a break, or one with two faults, or one of a
  configuration; every race of the code is between a session and what its own or its
  twin's end left behind.
* `NpsLinks`: a TCP user and packets of one address beside another user, one cut of the
  mux, a quota of one or none. `NpsHttp`, `NpsCert`: two hosts of a client each, two or three
  connections; two edits of certificates, one of them bad, or one edit of a certificate that both share.
* `MuxWindow`: windows of one or two segments of one byte, since every branch of the code
  compares with the window, half of it or one segment.
* `MuxQueue`: a word of two bits, so that indexes wrap after four packets and a ring holds one;
  two goroutines, whose three pushes contain every race of two growers; `MaxStarving` is 1.
* `FrpServer`: one client that logs in three times, two runs of one client, or two clients
  that want the same names; one user whose limit is fixed, or changed twice between none, 1
  and 2; two ports, a group and two single names. `Vhost`: three proxies and two requests. `Analyzer`:
  every pair of NAT behaviours, and a change of what their key leaves out.
* `FrpClient`: three controls, two proxies, one of them monitored. `NatHole`: two users or
  the keeper, up to two attempts. `FrpUdp`: up to two work connections, a queue of one. `FrpConf`:
  three calls, one failing write, one crash. `ProxyConf`: every type of proxy with all its
  settings, with and without a user and with a server that can do all or nothing; then every
  check of the code that refuses an entry, a text or an include, each once at the start and
  once at a reload; and the store over the file.

**Deadlock** is checked in `users`. Elsewhere the system may stop: in the scenes with
bounded requests, edits and failures everything comes to rest when they are used up, and
a torn file keeps the control from starting (`tunnels`).

### Fairness

Every fairness assumption is of goroutines that are ready (weak), of timers and deadlines
that the code sets, or of these:

* strong fairness for `BeginSync` (`NodeSync`) and `Lock` (`FrpConf`): Go's mutex hands
  itself over to a waiter that has waited long enough;
* strong fairness for `closeAllClients` (`TunnelClient`): `select` chooses at random, so it takes
  the cancelled context in the end;
* `Store`: the clock advances, a stopped control is started again (`restart:
  unless-stopped`), the expiry loop runs daily;
* `NpsLogin`: `Right` is somebody who has the right password and keeps trying, as
  `GetsIn` says.

Nobody is assumed to edit, push, connect, dial or close. A liveness property that needs a
condition names it: `EventuallyApplied` that the node is served from some time on and that start-up has left no
listener on a port that is wanted (`PortLost`),
`ExpiredIsRemoved` that the control stays up, `CutOff` that edits and faults have ended,
`ServesLatest` that failures are over.

## 4. What was found

**A node that never syncs again** (run `handover`). A tunnel is deleted and its port
given to another one between two syncs. `SyncNPSState` adds before it prunes: the port
is still bound, the sync returns the error, and the prune that would free it is never
reached until the agent restarts.

Other weaknesses were met while modelling; they have no run, because nothing in the
repository promises otherwise, because a property excepts them by name, or because they would need
a module of their own; where a comment or a document does say otherwise it is named here. They are
listed with the line in `PROJECT.json` where they are hazards.

* *Control.* `EnsureAdmin` looks for an enabled administrator and overwrites a disabled
  one, password included; `README.md:71` of the repository says that `ADMIN_PASSWORD` never resets the
  password of an administrator there is. A report handled after its successor bills again what
  was carried in between. A user deleted between the two store calls of a report or an
  edit comes back. A session is bound to a name: it serves a new user of that name.
  `clientStatusesFor` counts the tunnels of all nodes as online when a client is on any of
  them; overlapping port ranges are counted twice; an export never deletes the files of
  deleted users. `addChunk` keeps the incomplete line without the mutex, so a clear may
  leave half a line; a failing write to the old output ends the log. `Start` refuses
  when a process of somebody else has the engine's port.
* *Client.* A broken connection is not made again while the run lasts (`startedNPS` keeps
  the node). With slow requests a restart gives up waiting, is refused, and leaves no
  run. A client that is dialing when everything is closed connects afterwards.
* *Node.* NPS' `StartNewServer` sets `Bridge` before `InitFromCsv` has started the stored
  tasks. A bundle applied in between starts one of them too; the goroutine that cannot open the
  port removes the other's entry from `RunList` (`server.go:206-217`), and its listener stays,
  out of reach, until the agent restarts.
* *NPS.* A file of the database that cannot be renamed is logged as "data will lost", and the
  request is answered with success (`file.go:233-236`). A client whose connection is put into an
  entry that `DelClient` has just taken out is connected, and nobody finds it
  (`bridge.go:269-281`). A login locks out a third one of its address that is deciding. Ids are drawn
  anew after a restart, so what a file kept of a deleted client may come to belong to a
  new client with its id. `GetConn` compares and adds in two steps, so the limit may
  be passed by as many as come at once. Over its limit `CopyBuffer` closes nothing.
  http: a refused second check leaves `NowConn` too low; the old reader may close the
  user's connection after a change of host; upgrades are not counted against the flow
  limit. https: where hosts share a certificate, or edits overlap with connections, the entry of
  a host may lead to a listener that was taken out; its next connection finds none,
  sends on a nil listener and nps panics (`https.go:204-235`; the comment of line 207 says that the
  certificate exists and is loaded). A bad key pair leaves connections waiting; a replaced
  listener's server never ends. Mux: two goroutines that find one ring full may both add
  one to it, since the flag that keeps them apart is free again when the second asks: `next`
  changes from one ring to another (`queue.go:486-491` says it never does), what is in
  the first is out of reach, and packets are lost or overtake others. A reader that has
  seen a length before a close empties the chain tries for ever (`queue.go:273-279`, `conn.go:403-420`;
  the comment of line 278 waits for a goroutine that "is still pushing"), and the second of
  two that pass the test of `CloseWindow` together (`conn.go:152-158`) finds `closeOpCh` full
  and waits for ever. A goroutine that loaded the head
  before a ring was added may push to a ring that the writer has dropped. `Push` broadcasts
  without the lock of `Pop`, so the last packet may lie there until the next one comes.
* *frp.* A proxy that a user got without a limit is not counted, and taken back all the same when it
  is closed (`control.go:468-471`, `527-528`): where a limit was set meanwhile the count is -1,
  and two proxies run under a limit of 1. `ForwardUserConn` may hold a packet when the UDP proxy
  is closed, and sends it on the closed `sendCh`: frps panics (`pkg/proto/udp/udp.go:67`,
  `server/proxy/udp.go:275`). A stop that comes between the first login and `keepControllerWorking` leaves
  it a nil control, and frpc panics (`client/service.go:274`). A tunnel session of an xtcp
  visitor that is replaced while it stands, as when the keeper's first signal is taken after
  a user's has led to a tunnel, is never closed, nor its socket (`client/visitor/xtcp.go:418-421`). A control that is
  replaced before it started never closes its channel, so the login that replaces it in turn waits for ever. The second look-up of an http request
  may find another proxy, whose password is not asked for. The login under way when a
  reload comes serves the old configuration. `Close` of a UDP proxy may release a port
  that has a new owner; a work connection set up after frpc closed its proxy stays open.
  `newNatHoleResponse` compacts the addresses in place and hands the same slice to
  `getRangePorts`: when two neighbours are equal, as behind every easy NAT, the last one is
  "" by then and no port is proposed. At its start frpc validates what is left after the merge: an
  entry of the file that the store hides then runs, unvalidated, when the store's entry is
  deleted; a reload validates it. A score falls below the -10 that its comment
  names when a way fails often enough; only the upper limit is kept.

## 5. The proofs

The theorems hold for every value of the constants that satisfies the assumptions their
modules name: any number of users, tunnels, requests, connections, calls and attempts,
any scene, any pattern of failures. The assumptions say that `None` and its like are
no values, that inputs and scenes are well formed, and where something is counted or
numbered that it is finite or begins with 1. TLC evaluates them in every run.

A theorem about a component is stated for its own specification, or for one that starts
in *any* scene (`ConfSpec`, `UdpSpec`, `HoleSpec`, `VhostSpec`, `AnSpec`, and those of `DeskProofs`), of which the scenes of the run are
instances. Each proof has the same plan: an invariant `Inv`; a lemma that what the run checks
follows from it; one that the initial states have it; and one lemma per action, or group
of similar actions, that keeps it. Frame lemmas say what a step that touches one
connection, call or attempt leaves alone.

| module | theorem | states | inductive invariant |
|---|---|---|---|
| `StoreProofs` | `TypeCorrect`, `RefIntegrityHolds`, `PortUniqueHolds`, `DomainUniqueHolds`, `ExpiredDisabledHolds`, `ConsistencyHolds`, `DefaultNodeHolds`, `AckedIsDurableHolds`, `SweepKeepsGraceHolds`, `LastAdminKeptHolds`, `QuotaBoundsGrowthHolds` | the invariants of `Store`, durability, the action properties | `IInv`, `Durable` |
| `TunnelClientProofs` | `OneRunHolds`, `StopClosesHolds` | one run; a stop closes its clients | `OneRun`, `KInv` |
| `NodeSyncProofs` | `NodeSoundHolds`, `SuccessApplies` | nothing dangles; success means in place | `NodeInv` |
| `NpsLinksProofs` | `LinksSoundHolds`, `HostsSoundHolds` | quotas, sessions, streams, listeners | `LinksInv`; `HttpInv`, `CertInv` |
| `ServingProofs` | `ApiSoundHolds`, `ApiGuardsHold`; `SignInSoundHolds`, `WebSoundHolds`, `ConsoleSoundHolds`; `SessionsAgree`, `WireSoundHolds` | the API's tunnels and guards; sign-ins, maps and files of the NPS console; sessions of frp | `ApiInv`; `LoginInv`, `WebInv`; `WireInv` |
| `FrpcProofs` | `ConfSoundHolds`, `UdpSoundHolds`, `HoleSoundHolds`, `TunnelsSoundHolds`; `ControlSoundHolds` | configuration; tunnels of frpc; its controls and proxies | `ConfInv`; `UdpInv`; `HoleInv`; `CtlInv` |
| `FrpsProofs` | `ServerSoundHolds`; `RoutesSoundHolds`; `WaysSoundHolds` | the tables of frps: runs, names, ports, limits, the group, pools; its routes by host and the requests over them; the ways of a pair of NATs | `ServerInv`; `VhostInv`; `AnInv` |
| `DeskProofs` | `BillingSoundHolds`, `ViewsSoundHolds`, `EngineSoundHolds`, `LogSoundHolds`; `DeskSoundHolds` | billing, the console's answers, the processes of the engines, the log; all of them | `BillInv`; `ViewInv`; `EngineInv`; `LogInv` |

Why each invariant is stronger than what it shows:

* **`IInv`** says that references resolve, ports and domains are distinct and marked
  users are disabled *in every database in `Live`*: memory alone is not enough, since a
  restart loads the file, and the file may be older than memory after a failed save, so
  it has to be sound by itself. No mark lies in the future, also for administrators,
  whom `ExpiredDisabled` exempts: an edit may turn one into a user with its mark.
  **`Durable`** adds that between load and `EnsureAdmin` the file already is the memory.
* **`KInv`** adds to `OneRun` that the clients of the run in progress are on the list and
  not closed from their registration to their end; that needs `OneRun`, since a closing
  run empties the list for everybody.
* **`NodeInv`** adds to `NothingDangles` what a sync in progress may rely on (`InHand`): the
  clients of its bundle's users are as the bundle has them, and every task and host that
  the second loop has passed equals its tunnel. At the end of the loops that is
  `SuccessApplies`. `BootInv` says of the tasks that `InitFromCsv` has yet to add that they are
  stored, and not running unless a bundle came `beside` it: only then has a task two servers.
* **`LinksInv`** relates quota, map and builders: whoever counts is in a stage between taking
  a unit and giving it back, a session in the map is being built or served by its own
  builder (`Mapped`), and a builder that waits has not been replaced (`Builders`).
* **`HttpInv`** has per connection how many streams and deferred calls there are where it
  is (`Rounds`, `UnitsOf`, `StreamsOf`), and per client that `NowConn` is at most what
  the deferred calls will give back, less what is owed (`QuotaInv`), with equality when no
  connection changes its host. Cardinalities use the library's theorems.
* **`CertInv`** says of every connection between the updates of the two maps what it may rely on
  (`Relies`), and of every host where the maps lead: to a listener, or one that a connection
  has taken out and is about to replace (`Leads`, `Emptied`). What is contested at
  any moment, in use by one while another takes it out, is in `torn` from then on, and
  only there may the maps lead nowhere and a connection find nothing. Certificates are
  shared and edited at will, and connections overlap.
* **`ApiInv`** has for every request what it has passed (`Passed`), and that the owner it
  has checked still owns the tunnel unless the tunnel is in `moved` (`Checked`): from that
  follow the guards, although the user's record is a copy.
* **`LoginInv`** bounds failures *plus* the sign-ins past the look at the record: each of
  them may still count once.
* **`WebInv`** is about what a handler still has to do. Its steps are a list, and the list is
  `Ordered`: a change of a map is directly followed by the write of its file, and every
  step belongs to its operation. From what is left follows what the request `Owes`; an id
  that it has drawn is `Fresh`, what was answered is `Remembered`, a file that nobody is about to
  write, and whose last rename did not fail, is `Saved`, and what an object or an entry `Refers` to is there or on its way. `WebSoundHolds` and `SessionsAgree` are for every scene that is `WebSceneOK` or
  `WireSceneOK`, of which TLC checks that the scenes of the run are.
* **`WireInv`** has for each connection its `Talk`: what frps has yet to read is the end of
  what frpc says (`Unread`), as long as frpc has only dialled nothing but the opening is
  written (`Unsaid`), and what the handler has read so far (`Known`) and what frpc keeps of the
  answer (`Agrees`) are functions of the client's hello. The key of both ends is then the same,
  though neither ever looks at the other's. `LoopOK` says where the accept loop keeps each.
* **`ConfInv`** says of the call that holds the mutex that memory and file differ in its
  key only, that it remembers the file's entry (`Writing`), and that file and answers
  differ only where a call is about to be answered or was lost (`AckedOK`). The rollback
  of a failed save then restores memory to the file.
* **`UdpInv`**: every work connection but the one in use is done with, closed, its reader
  ended and its sender ended or cancelled (`DoneWith`); a reader that tells the loop has seen its
  connection end, and a sender is cancelled after that or at the end of the proxy.
* **`HoleInv`**: an attempt in `exch`, `hole` or `init` has a number; the client
  cannot have heard of an attempt before frps gave its sid to the proxy, and hears of it
  once, so its socket's stage is the attempt's. The socket of a session that was replaced
  while it stood is known by its number (`tun.over`).
* **`CtlInv`** is about the line of each proxy, what frps serves and then the messages on the
  way about it. Between two versions in a line there is a `CloseProxy`, and there is one
  behind every version but the one that the wrapper wants now (`InLine`); if nothing is
  ever refused, a version that is wanted is in the line with none behind it (`Sought`). Taking
  the first message and sending another keep both, and when the line is read to its end
  `ServedIsWanted` is left. Controls are logged in in their order (`OrderOK`), a reload
  holds `reloadMu` against the stop (`ReloadOK`), and the controls before the one in place
  have neither a connection nor a proxy (`OldOK`), unless a reload and a login have overlapped
  (section 4).
* **`ServerInv`** has three parts. `LogInv`: the controls of one run came in an order that no
  variable records (`Ordered`: some relation is such an order), and one that has passed
  `RegisterControl` has none before it that is alive; each waited only for the one it
  replaced, so the argument goes along the order, and `OneActive` follows. `PxyInv`:
  what each handler holds between two of its steps (`JobInv`), that a port is free, or
  held, and by whom it is listened on, that the members of the group and the listeners
  of the current group are the same (`GroupInv`), and that a count covers the
  registration under way and is within the limit under which the control got its last proxy, where
  all were counted (`CountInv`). Between `Acquire` and the `net.Listen` of a group's first
  member, which may fail, nobody else is in the group (`OpenInv`). `WorkInv`: `PoolKept` needs that the answer to a
  request reaches the control that asked, which is so as long as its connection is open
  (`LoginInv`).
* **`VhostInv`** ties three tables to one another: what a proxy holds is routed to it or to the
  group (`HeldOK`), every route belongs to a proxy that holds it or to the group that is current
  (`OwnerOK`), and the members of the group are exactly those that hold its one route
  (`MembersOK`). A router has each route once (`RoutersOK`), so that taking a route back by
  its domain, location and user takes no other one with it. What a running proxy holds and
  has yet to ask for is what it was to ask for (`AskedOK`), which gives `RoutesHeld`. A
  request has shown the credentials of what it found first (`ShownOK`). `RoutedBest` is not about steps
  at all: `RouteIsBest` shows it of *every* set of routes, host, path and user, as
  `getByRoute` tries the host and then its wildcards from the closest on (`HostsClose`), every
  domain that fits is among them (`FitIsTried`), and of one domain the first of the sorted
  locations is the longest that fits (`GetLockedIs`). The theorem is for every scene that
  is `VhostSceneOK`, of which `VhostsAssumption` has TLC check those of the run: finitely many
  requests, one group, of one kind, and an https or tcpmux proxy in it names a domain once. Naming
  it twice would make the proxy a member twice, which `Vhost` does not follow.
* **`AnInv`** has what the record of a pair is made of: ways of the tables, each at most once
  (`OneOfEach`; the ways of different modes are joined by `ConcatOK`). `TriesOK` is what makes
  `WaysAllTried` inductive: until somebody succeeds, score plus tries of a way is its score at
  first, 0 or 1, and no score is more than 1 ahead of another, since always a best one (`BestIs`)
  is lowered; two tries are then the most that can lie between two ways. What an answer says depends on the
  tables and the NATs only (`TablesOK`, `FeatureIs`, `SidesIs`), and the sides that find one record agree in all
  that its key is made of (`genAnalysisKey`). Scenes are `PairSceneOK`: at least two addresses, as
  `ClassifyNATFeature` demands, with ports from 1 to 65535.

* **`BillInv`** has a budget: the bytes carried before the reports handled last, and those
  that late reports billed again (`Budget`). Every record, and every copy that an edit or a
  report in progress may still write back, stays within it. The reports on the way, any number and
  in any order, are in line with the counter, the baseline and one another
  (`ReportsOrdered`), so that a report moves the budget by at least what it bills.
  `NeverOverbills` then says that nobody is billed for more than was carried and what late reports
  bill again (section 4).
* **`ViewInv`** follows a request from one read to the next: what it has read so far was
  there at some time since it began, and contains what was there all the time
  (`ReadInv`), and so for each half-made answer; `GhostInv` says what "some time" and "all
  the time" are. An export writes file by file, and the request that made a file may
  be another one (`MadeOf`). `ViewsSoundHolds` is for every scene that is `SceneOK`:
  finitely many clients, each of one of the two engines, users and nodes with names;
  `ViewsAssumption` has TLC check that the scenes of the run are.
* **`EngineInv`**: the process that is kept is the only one that may be alive, and if it was
  told to end it is no longer kept.
* **`LogInv`** follows the pieces of the lines, which are numbered as they are written: chunk,
  text at hand and kept begin of a line continue each other unless a clear took a piece,
  and then the line is marked as torn (`Onward`); no line of the log is as late as one on
  its way (`Ordered`); the entries are the last of the lines added (`HoldsLast`). That a
  text has consecutive numbers (`GoesOn`) replaces an induction over it: where its first and its last line
  end can be told from its two ends (`FirstEnd`, `LastEnd`).

Looking for these invariants changed the model where it was wrong or too weak. `ListTrue` asked
only of lists of everything; it is about every set of entries that may match a query now,
and a text of `LogBuffer` is the sequence of its pieces, where it was a sequence of lines made by a fold. `FileHasAll` of
`NpsWeb` did not hold: a client in the making may find itself in the file with a task
that was left there by an earlier client of its id; the property now says so, and the
scene that shows it is part of the run. `HttpQuota` had to say
what is owed after a change of host. `FrpServer` took for granted, in its scenes, that the
members of the group ask for the same port and that a client
keeps its user and client id with its run id; the first may differ now
(`ErrGroupDifferentPort`), the second is an assumption of the module, and a
group has its listeners by control and proxy, as two controls may offer the same name.
`SelectAEADAlgorithm` of `FrpWire` is the least index now; it used `SelectSeq`, of which
the provers know nothing. For the same reason a group of `Vhost` is a
pair with its number, no string. `PoolsKept` and `RoutedBest` left out that `ToLower` is applied to a
pool and to the host asked for; `closeness` ranks a host itself above every wildcard of its length.
`getRangePorts` of `HolePunch` left out what `slices.Compact` does to its argument, and
`anOpen` forgot a success that had been reported, so that `WaysAllTried` was false for scenes
longer than those of the run. An edit of `ControlViews` may no longer give two users one name, or two nodes one id: the
store keeps both by key (`Keyed`).

## 6. What is only model-checked

* **Liveness**, which involves fairness and `ENABLED`: `ExpiredIsRemoved`,
  `EventuallyApplied`, `ClientFollows`, and `DeskSettles`, `ApiSettles`, `ConsoleAnswers`,
  `WireSettles`, `BridgeSettles`, `ProxySettles`, `MuxSettles`, `ServerSettles` and
  `ClientSettles` with their parts.
* **Sums and folds over queues**: `WindowSound` and `IsByteStream` count the bytes of
  sequences; that needs induction over data, which the library's theorems give only
  through operator parameters that no installed prover instantiates.
* `QueueSound` and `ProxyConfSound`. Every other invariant that a run checks is a theorem.

## 7. What is not modelled, and the plan

Not modelled: the generated bootstrap script, the web console's pages, the desktop
integration, deployment, and of the vendored programs what the control plane does not
rely on: secret and p2p visits of NPS, its socks5 proxy, the bandwidth
estimate of the mux, the response cache, metrics, plugins, dashboards, the
codecs of messages and the parsing of configuration files. They are pure
input and output, generated, or hold no state of their own. In `socks5.go` two things were
seen in passing: a bind request leaves the connection open, and an overlong UDP
answer (line 255) panics.

Next:

1. `NpsSocks`, and the client's side of NPS' UDP tunnels.

------------------------------ MODULE NatHole -------------------------------
(***************************************************************************)
(* An xtcp visitor of one frpc, an xtcp proxy of another and the nathole   *)
(* controller of frps between them: how a hole is made, used, lost and     *)
(* made again.                                                             *)
(*   visitor     upstream/frp/client/visitor/xtcp.go                       *)
(*   controller  upstream/frp/pkg/nathole/controller.go and nathole.go,    *)
(*               upstream/frp/server/proxy/xtcp.go                         *)
(*   client      upstream/frp/client/proxy/xtcp.go                         *)
(* The answers are module HolePunch's subject: one end is told to send,    *)
(* the other to receive.  Here an attempt is a number; it has a session of *)
(* frps (its sid) and a UDP socket at each end.  The tunnel is QUIC's.     *)
(***************************************************************************)
EXTENDS Naturals, FiniteSets

CONSTANTS
  Visits,      \* connections of users to the visitor
  Keeper,      \* keepTunnelOpenWorker, that asks for tunnels as they do
  Tries        \* the numbers of attempts

ASSUME HoleAssumption == Keeper \notin Visits /\ Tries \subseteq Nat \ {0}

\* A scene: the users that come, KeepTunnelOpen, FallbackTo, how often openTunnel's
\* timer fires before its timeout, and how many attempts, losses and stops happen.
Scene == [visits: SUBSET Visits, keep: BOOLEAN, fallback: BOOLEAN, retries: Nat,
          tries: Nat, faults: Nat, stops: SUBSET {"visitor", "proxy"}]
NoScene == [visits |-> {}, keep |-> FALSE, fallback |-> FALSE, retries |-> 0,
            tries |-> 0, faults |-> 0, stops |-> {}]

VARIABLES
  scene,   \* the scene, counted down
  ask,     \* Visits and Keeper: how far getTunnelConn and its caller are
  tun,     \* TunnelSession: [cur, live, over], the session in use, all not closed,
           \* and (history) those another one took the place of
  loop,    \* processTunnelStartEvents: [at, k, off], k the number of the attempt
  sock,    \* the sockets open at the visitor and at the client: [v, c]
  role,    \* who is the sender of an attempt
  hsess,     \* Controller.sessions, by attempt
  pxy,     \* the proxy in frps: [up, has], the sid its goroutine has taken
  cl       \* the client's InWorkConn, by attempt

visVars  == <<ask, tun, loop>>
holeVars == <<scene, visVars, sock, role, hsess, pxy, cl>>

Callers == Visits \cup {Keeper}

HoleInit(s) ==
  /\ scene = s
  /\ ask = [u \in Callers |->
              [at |-> IF u = Keeper THEN (IF s.keep THEN "first" ELSE "off")
                      ELSE IF u \in s.visits THEN "new" ELSE "off",
               left |-> s.retries, via |-> 0]]
  /\ tun = [cur |-> 0, live |-> {}, over |-> {}] /\ loop = [at |-> "idle", k |-> 0, off |-> FALSE]
  /\ sock = [v |-> {}, c |-> {}] /\ role = [k \in Tries |-> "none"]
  /\ hsess = [k \in Tries |-> "none"] /\ pxy = [up |-> TRUE, has |-> 0]
  /\ cl = [k \in Tries |-> "none"]

\* A step that goes well, or wrong by a fault.
Goes(well) == IF well THEN scene' = scene
              ELSE scene.faults > 0 /\ scene' = [scene EXCEPT !.faults = @ - 1]

K == loop.k
serving(k) == k \in tun.live /\ cl[k] = "serve"
closeTunnel == /\ tun' = [tun EXCEPT !.cur = 0, !.live = @ \ {tun.cur}]
               /\ sock' = [sock EXCEPT !.v = @ \ {tun.cur}]

-----------------------------------------------------------------------------
(* The visitor: connections.                                               *)

askTo(u, at) == ask' = [ask EXCEPT ![u].at = at]

Accept(u) ==
  /\ ask[u].at = "new" /\ ~loop.off /\ askTo(u, "open")
  /\ UNCHANGED <<scene, tun, loop, sock, role, hsess, pxy, cl>>

\* getTunnelConn: a stream of the session there is, which the worker closes again;
OpenConn(u) ==
  /\ ask[u].at = "open"
  /\ ask' = [ask EXCEPT ![u] =
       IF tun.cur # 0 /\ serving(tun.cur)
       THEN [@ EXCEPT !.at = IF u = Keeper THEN "tick" ELSE "joined", !.via = tun.cur]
       ELSE [@ EXCEPT !.at = "failed"]]
  /\ UNCHANGED <<scene, tun, loop, sock, role, hsess, pxy, cl>>

\* else the session is closed, whichever there is by now,
CloseSession(u) ==
  /\ ask[u].at = "failed" /\ askTo(u, "signal") /\ closeTunnel
  /\ UNCHANGED <<scene, loop, role, hsess, pxy, cl>>

listens == loop.at = "idle" /\ K < scene.tries
startTunnel == loop' = [loop EXCEPT !.at = "pre", !.k = @ + 1]

\* and the loop is told to make a hole, if it listens.
Signal(u) ==
  /\ ask[u].at = "signal" /\ askTo(u, IF u = Keeper THEN "tick" ELSE "wait")
  /\ IF listens THEN startTunnel ELSE loop' = loop
  /\ UNCHANGED <<scene, tun, sock, role, hsess, pxy, cl>>

\* openTunnel's timer.
Retry(u) ==
  /\ ask[u].at = "wait" /\ ask[u].left > 0 /\ ~loop.off
  /\ ask' = [ask EXCEPT ![u].at = "open", ![u].left = @ - 1]
  /\ UNCHANGED <<scene, tun, loop, sock, role, hsess, pxy, cl>>

\* Its timeout or the visitor's end: handleConn closes the connection or gives it
\* to the visitor of the fallback.
GiveUp(u) ==
  /\ ask[u].at = "wait"
  /\ askTo(u, IF scene.fallback THEN "moved" ELSE "closed")
  /\ UNCHANGED <<scene, tun, loop, sock, role, hsess, pxy, cl>>

\* The session has ended under a joined connection.
JoinEnds(u) ==
  /\ ask[u].at = "joined" /\ ~serving(ask[u].via) /\ askTo(u, "closed")
  /\ UNCHANGED <<scene, tun, loop, sock, role, hsess, pxy, cl>>

\* keepTunnelOpenWorker first waits for the loop to listen;
KeeperFirst ==
  /\ ask[Keeper].at = "first" /\ listens /\ askTo(Keeper, "tick") /\ startTunnel
  /\ UNCHANGED <<scene, tun, sock, role, hsess, pxy, cl>>

\* Mutant: once is enough.
TickNot ==
  /\ ask[Keeper].at = "tick" /\ loop.off /\ askTo(Keeper, "closed")
  /\ UNCHANGED <<scene, tun, loop, sock, role, hsess, pxy, cl>>

\* then its ticker fires.  (A tick that finds a tunnel does nothing, and so does
\* one after the last attempt considered.)
Tick ==
  /\ ask[Keeper].at = "tick"
  /\ \/ loop.off /\ askTo(Keeper, "closed")
     \/ ~loop.off /\ ~serving(tun.cur) /\ K < scene.tries /\ askTo(Keeper, "open")
  /\ UNCHANGED <<scene, tun, loop, sock, role, hsess, pxy, cl>>

\* Close: the context is cancelled and the session closed.
CloseVisitor ==
  /\ "visitor" \in scene.stops /\ scene' = [scene EXCEPT !.stops = @ \ {"visitor"}]
  /\ loop' = [loop EXCEPT !.off = TRUE] /\ closeTunnel
  /\ UNCHANGED <<ask, role, hsess, pxy, cl>>

-----------------------------------------------------------------------------
(* The visitor: makeNatHole.                                               *)

loopTo(at) == loop' = [loop EXCEPT !.at = at]
closeSocket == sock' = [sock EXCEPT !.v = @ \ {K}]

\* PreCheck: is there such a proxy?  Then Prepare, which opens the socket.
PreCheck ==
  /\ loop.at = "pre"
  /\ \E well \in BOOLEAN :
       /\ Goes(well)
       /\ IF well /\ pxy.up /\ ~loop.off
          THEN loopTo("exch") /\ sock' = [sock EXCEPT !.v = @ \cup {K}]
          ELSE loopTo("nap") /\ sock' = sock
  /\ UNCHANGED <<ask, tun, role, hsess, pxy, cl>>

\* ExchangeInfo: an error, the end of the visitor or no answer in five seconds;
ExchangeFails ==
  /\ loop.at = "exch" /\ hsess[K] # "none" /\ loopTo("nap") /\ closeSocket
  /\ UNCHANGED <<scene, ask, tun, role, hsess, pxy, cl>>

\* or the answer.
Exchanged ==
  /\ loop.at = "exch" /\ hsess[K] \in {"vAnswered", "answered"} /\ loopTo("hole")
  /\ UNCHANGED <<scene, ask, tun, sock, role, hsess, pxy, cl>>

\* waitDetectMessage: the receiver hears from the sender, answers and is through;
\* the sender waits for that answer.
MakeHole ==
  /\ loop.at = "hole"
  /\ \/ /\ IF role[K] = "visitor" THEN cl[K] \in {"listen", "serve"}
           ELSE cl[K] \in {"hole", "listen"}
        /\ loopTo("init") /\ sock' = sock /\ scene' = scene
     \/ Goes(cl[K] = "end") /\ loopTo("nap") /\ closeSocket
  /\ UNCHANGED <<ask, tun, role, hsess, pxy, cl>>

\* Init dials the client, and whatever session there was is forgotten without being
\* closed.  Nothing here looks whether the visitor has been closed.
InitSession ==
  /\ loop.at = "init" /\ loopTo("nap")
  /\ \/ /\ cl[K] = "listen" /\ cl' = [cl EXCEPT ![K] = "serve"] /\ scene' = scene
        /\ tun' = [cur |-> K, live |-> tun.live \cup {K},
                   over |-> tun.over \cup ({tun.cur} \ {0})]
        /\ sock' = sock
     \/ Goes(cl[K] = "end") /\ cl' = cl /\ tun' = tun /\ closeSocket
  /\ UNCHANGED <<ask, role, hsess, pxy>>

\* Ten seconds have passed since the start.
Wake ==
  /\ loop.at = "nap" /\ loopTo(IF loop.off THEN "end" ELSE "idle")
  /\ UNCHANGED <<scene, ask, tun, sock, role, hsess, pxy, cl>>

-----------------------------------------------------------------------------
(* frps.                                                                   *)

srvTo(k, at) == hsess' = [hsess EXCEPT ![k] = at]

\* HandleVisitor: a session, if there is the proxy;
HandleVisitor ==
  /\ loop.at = "exch" /\ hsess[K] = "none" /\ srvTo(K, IF pxy.up THEN "sid" ELSE "refused")
  /\ UNCHANGED <<scene, visVars, sock, role, pxy, cl>>

\* the sid goes to the proxy's goroutine, when that is free;
GiveSid(k) ==
  /\ hsess[k] = "sid" /\ pxy.up /\ pxy.has = 0
  /\ srvTo(k, "wait") /\ pxy' = [pxy EXCEPT !.has = k]
  /\ UNCHANGED <<scene, visVars, sock, role, cl>>

\* which takes a work connection, if it gets one, and writes the sid to it.
SendSid ==
  /\ pxy.has # 0 /\ pxy' = [pxy EXCEPT !.has = 0]
  /\ \E well \in BOOLEAN :
       Goes(well) /\ cl' = IF well THEN [cl EXCEPT ![pxy.has] = "sid"] ELSE cl
  /\ UNCHANGED <<visVars, sock, role, hsess>>

\* NatHoleTimeout.
SessionTimeout(k) ==
  /\ hsess[k] = "wait" /\ srvTo(k, "gone")
  /\ UNCHANGED <<scene, visVars, sock, role, pxy, cl>>

HandleClient(k) ==
  /\ cl[k] = "sent" /\ hsess[k] = "wait" /\ srvTo(k, "notified")
  /\ UNCHANGED <<scene, visVars, sock, role, pxy, cl>>

\* HandleVisitor answers both, the sender later.
Answer(k) ==
  /\ \/ hsess[k] = "notified" /\ \E r \in {"visitor", "client"} :
          /\ role' = [role EXCEPT ![k] = r]
          /\ srvTo(k, IF r = "visitor" THEN "cAnswered" ELSE "vAnswered")
     \/ hsess[k] \in {"vAnswered", "cAnswered"} /\ srvTo(k, "answered") /\ role' = role
  /\ UNCHANGED <<scene, visVars, sock, pxy, cl>>

\* The session is deleted when there has been time for a report.
DeleteSession(k) ==
  /\ hsess[k] = "answered" /\ cl[k] \in {"end", "listen", "serve"} /\ loop.at \notin {"exch", "hole"}
  /\ srvTo(k, "gone")
  /\ UNCHANGED <<scene, visVars, sock, role, pxy, cl>>

ProxyGone ==
  /\ "proxy" \in scene.stops /\ scene' = [scene EXCEPT !.stops = @ \ {"proxy"}]
  /\ pxy' = [pxy EXCEPT !.up = FALSE]
  /\ UNCHANGED <<visVars, sock, role, hsess, cl>>

-----------------------------------------------------------------------------
(* The client: InWorkConn.                                                 *)

clTo(k, at) == cl' = [cl EXCEPT ![k] = at]
closeClient(k) == clTo(k, "end") /\ sock' = [sock EXCEPT !.c = @ \ {k}]

PrepareClient(k) ==
  /\ cl[k] = "sid"
  /\ \E well \in BOOLEAN :
       Goes(well) /\ IF well THEN clTo(k, "sent") /\ sock' = [sock EXCEPT !.c = @ \cup {k}]
                     ELSE clTo(k, "end") /\ sock' = sock
  /\ UNCHANGED <<visVars, role, hsess, pxy>>

ClientExchanged(k) ==
  /\ cl[k] = "sent"
  /\ \/ hsess[k] \in {"cAnswered", "answered"} /\ clTo(k, "hole") /\ sock' = sock
     \/ closeClient(k)
  /\ UNCHANGED <<scene, visVars, role, hsess, pxy>>

\* Is the visitor past its answer of this attempt, and still there?
visitorIn(k, at) == K = k /\ loop.at \in at

\* MakeHole at this end; then listenByQUIC, and the report.
ClientMakeHole(k) ==
  /\ cl[k] = "hole"
  /\ \/ /\ visitorIn(k, IF role[k] = "client" THEN {"init"} ELSE {"hole", "init"})
        /\ clTo(k, "listen") /\ sock' = sock /\ scene' = scene
     \/ Goes(~visitorIn(k, {"exch", "hole", "init"})) /\ closeClient(k)
  /\ UNCHANGED <<visVars, role, hsess, pxy>>

\* The tunnel ends, by its other end or by the network.
ClientEnds(k) ==
  /\ cl[k] = "serve" /\ Goes(k \notin tun.live) /\ closeClient(k)
  /\ UNCHANGED <<visVars, role, hsess, pxy>>

-----------------------------------------------------------------------------
AskStep(u) == \/ OpenConn(u) \/ CloseSession(u) \/ Signal(u) \/ Retry(u) \/ GiveUp(u)
              \/ JoinEnds(u)
LoopStep == \/ PreCheck \/ ExchangeFails \/ Exchanged \/ MakeHole \/ InitSession \/ Wake
SrvStep(k) == \/ GiveSid(k) \/ SessionTimeout(k) \/ HandleClient(k) \/ Answer(k)
              \/ DeleteSession(k)
ClStep(k) == PrepareClient(k) \/ ClientExchanged(k) \/ ClientMakeHole(k) \/ ClientEnds(k)

\* In a scene of nobody nothing happens.
HolePlays == scene.visits # {} \/ scene.keep

KeeperStep == AskStep(Keeper) \/ KeeperFirst \/ Tick
HoleStep ==
  \/ \E u \in Visits : AskStep(u)
  \/ LoopStep \/ HandleVisitor \/ SendSid
  \/ \E k \in Tries : SrvStep(k) \/ ClStep(k)

HoleNext == HolePlays /\ (\/ HoleStep \/ KeeperStep \/ CloseVisitor \/ ProxyGone
                         \/ \E u \in Callers : Accept(u))

\* Every goroutine goes on: timers fire and sockets have deadlines.
HoleFair == WF_holeVars(HolePlays /\ HoleStep) /\ WF_holeVars(HolePlays /\ KeeperStep)

-----------------------------------------------------------------------------
(* Properties.                                                             *)

\* Type invariant of the visitor, the controller and the client.
HoleTypeOK ==
  /\ scene \in Scene
  /\ \A u \in Callers : ask[u].at \in {"off", "first", "new", "open", "failed", "signal", "wait",
                                      "tick", "joined", "closed", "moved"}
  /\ tun.cur \in Tries \cup {0} /\ tun.live \subseteq Tries /\ tun.over \subseteq Tries
  /\ loop \in [at: {"idle", "pre", "exch", "hole", "init", "nap", "end"},
               k: Tries \cup {0}, off: BOOLEAN]
  /\ sock \in [v: SUBSET Tries, c: SUBSET Tries]
  /\ role \in [Tries -> {"none", "visitor", "client"}]
  /\ hsess \in [Tries -> {"none", "sid", "wait", "notified", "vAnswered", "cAnswered",
                        "answered", "refused", "gone"}]
  /\ pxy \in [up: BOOLEAN, has: Tries \cup {0}]
  /\ cl \in [Tries -> {"none", "sid", "sent", "hole", "listen", "serve", "end"}]

\* makeNatHole, InWorkConn: whichever step of an attempt fails, its socket is closed;
\* one that is open belongs to the attempt under way or to the tunnel in use, unless
\* that was replaced while it stood (xtcp.go:418-421).
SocketsAccounted ==
  /\ \A k \in sock.v \ tun.over : k = tun.cur \/ (k = K /\ loop.at \in {"exch", "hole", "init"})
  /\ \A k \in sock.c : cl[k] \in {"sent", "hole", "listen", "serve"}

\* HandleVisitor: in the end frps has forgotten every session, but for one whose sid
\* was waiting for the goroutine of a proxy that was closed.
SessionsForgotten ==
  <>[](\A k \in Tries : hsess[k] \in {"none", "refused", "gone"} \/ (hsess[k] = "sid" /\ ~pxy.up))

\* handleConn: every connection of a user is joined to a tunnel that works, is closed,
\* or is given to the visitor of the fallback, and the last only if there is one.
VisitsEnd ==
  <>[](\A u \in Visits : \/ ask[u].at \in {"off", "new", "closed"}
                         \/ ask[u].at = "joined" /\ serving(ask[u].via)
                         \/ ask[u].at = "moved" /\ scene.fallback)

\* keepTunnelOpenWorker: its signals are dropped while the loop is busy, and a tunnel
\* may break at any time; yet in the end there is a tunnel, unless the visitor was
\* closed or all the attempts considered were used.
TunnelKept ==
  <>[](scene.keep => loop.off \/ K = scene.tries \/ serving(tun.cur))

\* No socket is left behind by an attempt, but where a session replaces another one.
HoleSound == HoleTypeOK /\ SocketsAccounted

\* Attempts end, and in the end there is a tunnel or an honest refusal.
HoleSettles == SessionsForgotten /\ VisitsEnd /\ TunnelKept
=============================================================================

------------------------------- MODULE Vhost --------------------------------
(***************************************************************************)
(* The proxies of frps that share a port and are told apart by host: http, *)
(* https and tcpmux, alone or in a load balancing group, and the requests  *)
(* that are routed to them while they come and go.                         *)
(*   upstream/frp/server/proxy/http.go, https.go, tcpmux.go                *)
(*   upstream/frp/server/group/http.go, https.go, tcpmux.go, listener.go   *)
(*   upstream/frp/pkg/util/vhost/http.go, vhost.go, https.go               *)
(*   upstream/frp/pkg/util/tcpmux/httpconnect.go                           *)
(* A proxy registers its routes one after another, each under the lock of  *)
(* the router or of its group, and takes them back the same way.  An http  *)
(* request is looked up twice, for its credentials and for its connection, *)
(* and connections are kept for later requests; a connection to one of the *)
(* other ports is looked up once and waits for the listener it found.      *)
(***************************************************************************)
EXTENDS VhostRouter

CONSTANTS
  Pxy,      \* proxies, each of which is started at most once
  Req,      \* requests
  MaxInst   \* bound on how often the group is created

Mux == {"http", "https", "tcpmux"}

\* A scene: the proxies' configurations [kind, doms, locs, user, cred, group, key,
\* pools], the requests [kind, host, path, proxied, proxyAuth, auth, connect], the
\* proxies that are closed again, and probes [host, path, user] at which RoutedBest
\* looks in every state.  NoVhost has none of them.
NoVhost == [pxy |-> <<>>, req |-> <<>>, closes |-> {}, probes |-> {}]

\* What a scene may be: the group is of one kind, and a proxy in it names a domain once.
Domain == Seq(STRING) \ {<<>>}
VhostSceneOK(s) ==
  /\ DOMAIN s.pxy \subseteq Pxy
  /\ \A p \in DOMAIN s.pxy : LET c == s.pxy[p] IN
       /\ c.kind \in Mux /\ c.user \in STRING /\ c.key \in STRING
       /\ c.doms \in Seq(Domain) /\ c.locs \in Seq(Seq(Nat)) /\ c.pools \subseteq Domain
       /\ c.kind = "https" => c.user = ""
       /\ c.group # "" /\ c.kind # "http" =>
            \A i, j \in DOMAIN c.doms : ToLower(c.doms[i]) = ToLower(c.doms[j]) => i = j
       /\ \A q \in DOMAIN s.pxy :
            c.group # "" /\ s.pxy[q].group # "" => c.kind = s.pxy[q].kind
  /\ DOMAIN s.req \subseteq Req
  /\ \A r \in DOMAIN s.req : s.req[r].kind \in Mux /\ s.req[r].connect \in BOOLEAN
  /\ \A ask \in s.probes : ask.host \in Domain /\ ask.path \in Seq(Nat) /\ ask.user \in STRING

VARIABLES
  vscene,
  pst,      \* per proxy [at, todo, held, h]
  routes,   \* per port, the routes; the payload is a proxy or a group's number
  shut,     \* the listeners that are closed, as routes
  gcur, ginst, \* the group's current number, and the groups [route, key, members]
  gidx,     \* HTTPGroup.index
  rq,       \* per request [at, rc, ep, by]
  idle      \* connections kept by the http transport: [key, by]

vpxyVars == <<pst, routes, shut, gcur, ginst>>
vhostVars == <<vscene, vpxyVars, gidx, rq, idle>>

Off == [at |-> "off", todo |-> <<>>, held |-> <<>>, h |-> 0]
NewReq == [at |-> "new", rc |-> {}, ep |-> "", by |-> ""]
NoInst == [route |-> {}, key |-> "", members |-> <<>>]

VhostInit(s) ==
  /\ vscene = s /\ pst = [p \in Pxy |-> Off] /\ rq = [r \in Req |-> NewReq]
  /\ routes = [m \in Mux |-> {}] /\ shut = {} /\ idle = {}
  /\ gcur = 0 /\ ginst = [i \in 1..MaxInst |-> NoInst] /\ gidx = 0

cfg(p) == vscene.pxy[p]
Known == DOMAIN vscene.pxy
\* A group's number as a payload.
Group(i) == <<"group", i>>

ASSUME VhostAssumption ==
  /\ IsFiniteSet(Req) /\ MaxInst \in Nat
  /\ \A p \in Pxy : p # "" /\ \A i \in 1..MaxInst : p # Group(i)

\* The routes a proxy asks for, as pairs of a domain and a location: of http every
\* location of every domain, of the others the domains.
askedHTTP(p) ==
  LET locs == IF cfg(p).locs = <<>> THEN << <<>> >> ELSE cfg(p).locs
      n == Len(locs) IN
  [i \in 1..(Len(cfg(p).doms) * n) |->
     <<cfg(p).doms[((i - 1) \div n) + 1], locs[((i - 1) % n) + 1]>>]
askedDomains(p) == [i \in DOMAIN cfg(p).doms |-> <<cfg(p).doms[i], <<>> >>]
asked(p) == IF cfg(p).kind = "http" THEN askedHTTP(p) ELSE askedDomains(p)

Added(p, route, payload) ==
  AddRoute(routes[cfg(p).kind], route[1], route[2], cfg(p).user, payload)
Free(p, route) == AddOK(routes[cfg(p).kind], route[1], route[2], cfg(p).user)
PxyGoto(p, at) == pst' = [pst EXCEPT ![p].at = at]

\* The route at hand is registered.
Holds(p) == pst' = [pst EXCEPT ![p].held = Append(@, Head(pst[p].todo)),
                              ![p].todo = Tail(@), ![p].h = 0]

-----------------------------------------------------------------------------
(* Proxies.                                                                *)

Allowed(p) == validateUserDomains(cfg(p).doms, TRUE, cfg(p).pools)
Starts(p, ok) ==
  /\ p \in Known /\ pst[p].at = "off"
  /\ pst' = [pst EXCEPT ![p] = IF ok THEN [Off EXCEPT !.at = "run", !.todo = asked(p)]
                               ELSE [Off EXCEPT !.at = "done"]]
  /\ UNCHANGED <<vscene, routes, shut, gcur, ginst, gidx, rq, idle>>

\* Run, of each kind; tcpmux does not look at the user's domains.
RunHTTP(p) == p \in Known /\ cfg(p).kind = "http" /\ Starts(p, Allowed(p))
RunHTTPS(p) == p \in Known /\ cfg(p).kind = "https" /\ Starts(p, Allowed(p))
RunTCPMux(p) == p \in Known /\ cfg(p).kind = "tcpmux" /\ Starts(p, TRUE)

\* Mutant: the clean-up is prepared before the route is registered.
RegisterRouteEarly(p) ==
  /\ pst[p].at = "run" /\ pst[p].todo # <<>> /\ cfg(p).group = ""
  /\ LET k == Head(pst[p].todo) IN
     IF Free(p, k) THEN Holds(p) /\ routes' = [routes EXCEPT ![cfg(p).kind] = Added(p, k, p)]
     ELSE /\ pst' = [pst EXCEPT ![p].at = "close", ![p].held = Append(@, k)]
          /\ routes' = routes
  /\ UNCHANGED <<vscene, shut, gcur, ginst, gidx, rq, idle>>

\* HTTPReverseProxy.Register, or Muxer.Listen; a conflict ends in Close.
RegisterRoute(p) ==
  /\ pst[p].at = "run" /\ pst[p].todo # <<>> /\ cfg(p).group = ""
  /\ LET k == Head(pst[p].todo) IN
     IF Free(p, k) THEN Holds(p) /\ routes' = [routes EXCEPT ![cfg(p).kind] = Added(p, k, p)]
     ELSE PxyGoto(p, "close") /\ routes' = routes
  /\ UNCHANGED <<vscene, shut, gcur, ginst, gidx, rq, idle>>

\* groupRegistry.getOrCreate.
getOrCreateGroup(p) ==
  LET g == IF gcur # 0 THEN gcur
           ELSE Cardinality({i \in 1..MaxInst : ginst[i] # NoInst}) + 1 IN
  /\ pst[p].at = "run" /\ pst[p].todo # <<>> /\ cfg(p).group # "" /\ pst[p].h = 0
  /\ g <= MaxInst /\ gcur' = g /\ pst' = [pst EXCEPT ![p].h = g]
  /\ ginst' = [ginst EXCEPT ![g].key = IF gcur = 0 THEN "new" ELSE @]
  /\ UNCHANGED <<vscene, routes, shut, gidx, rq, idle>>

isCurrentGroup(i) == gcur = i

\* What a further member must have in common with the group.
fitsHTTP(p, g, k) ==
  /\ \E o \in g.route : o.dom = ToLower(k[1]) /\ o.loc = k[2] /\ o.user = cfg(p).user
  /\ g.key = cfg(p).key /\ p \notin ToSet(g.members)
fitsHTTPS(p, g, k) ==
  /\ \E o \in g.route : o.dom = ToLower(k[1])
  /\ g.key = cfg(p).key
fitsTCPMux(p, g, k) ==
  /\ \E o \in g.route : o.dom = ToLower(k[1]) /\ o.user = cfg(p).user
  /\ cfg(p).cred = cfg(g.members[1]).cred /\ g.key = cfg(p).key
fits(p, g, k) ==
  CASE cfg(p).kind = "http" -> fitsHTTP(p, g, k) [] cfg(p).kind = "https" -> fitsHTTPS(p, g, k)
    [] OTHER -> fitsTCPMux(p, g, k)

\* Register and Listen of a group, under its mutex.
RegisterGroup(p) ==
  LET i == pst[p].h  g == ginst[i]  k == Head(pst[p].todo)
      route == [dom |-> ToLower(k[1]), loc |-> k[2], user |-> cfg(p).user, payload |-> Group(i)] IN
  /\ pst[p].at = "run" /\ pst[p].todo # <<>> /\ i # 0
  /\ \/ /\ ~isCurrentGroup(i) /\ pst' = [pst EXCEPT ![p].h = 0] /\ UNCHANGED <<routes, ginst>>
     \/ /\ isCurrentGroup(i) /\ g.members = <<>>
        /\ IF Free(p, k)
           THEN /\ Holds(p) /\ routes' = [routes EXCEPT ![cfg(p).kind] = @ \cup {route}]
                /\ ginst' = [ginst EXCEPT ![i] =
                     [route |-> {route}, key |-> cfg(p).key, members |-> <<p>>]]
           ELSE PxyGoto(p, "close") /\ UNCHANGED <<routes, ginst>>
     \/ /\ isCurrentGroup(i) /\ g.members # <<>>
        /\ IF fits(p, g, k)
           THEN /\ Holds(p) /\ routes' = routes
                /\ ginst' = [ginst EXCEPT ![i].members = Append(@, p)]
           ELSE PxyGoto(p, "close") /\ UNCHANGED <<routes, ginst>>
  /\ UNCHANGED <<vscene, shut, gcur, gidx, rq, idle>>

RunDone(p) ==
  /\ pst[p].at = "run" /\ pst[p].todo = <<>> /\ PxyGoto(p, "on")
  /\ UNCHANGED <<vscene, routes, shut, gcur, ginst, gidx, rq, idle>>

CloseVhost(p) ==
  /\ pst[p].at = "on" /\ p \in vscene.closes /\ PxyGoto(p, "close")
  /\ UNCHANGED <<vscene, routes, shut, gcur, ginst, gidx, rq, idle>>

Mine(p, k) == {r \in routes[cfg(p).kind] : r.dom = ToLower(k[1]) /\ r.loc = k[2] /\ r.user = cfg(p).user}
Unheld(p) == pst' = [pst EXCEPT ![p].held = Tail(@)]

\* Close: UnRegister, or Listener.Close, which also closes the channel.
CloseRoute(p) ==
  /\ pst[p].at = "close" /\ pst[p].held # <<>> /\ cfg(p).group = "" /\ Unheld(p)
  /\ LET k == Head(pst[p].held) IN
     /\ routes' = [routes EXCEPT ![cfg(p).kind] = DelRoute(@, k[1], k[2], cfg(p).user)]
     /\ shut' = IF cfg(p).kind = "http" THEN shut ELSE shut \cup Mine(p, k)
  /\ UNCHANGED <<vscene, gcur, ginst, gidx, rq, idle>>

\* UnRegister, or the closing of a group's listener; the last one takes back the
\* route and removes the group.
LeaveGroup(p) ==
  LET left == RemoveFirst(ginst[gcur].members, p)  last == left = <<>>
      gone == IF last THEN ginst[gcur].route ELSE {} IN
  /\ pst[p].at = "close" /\ pst[p].held # <<>> /\ cfg(p).group # "" /\ gcur # 0 /\ Unheld(p)
  /\ ginst' = [ginst EXCEPT ![gcur].members = left]
  /\ gcur' = (IF last THEN 0 ELSE gcur)
  /\ routes' = [routes EXCEPT ![cfg(p).kind] = @ \ gone] /\ shut' = shut \cup gone
  /\ UNCHANGED <<vscene, gidx, rq, idle>>

CloseDone(p) ==
  /\ pst[p].at = "close" /\ pst[p].held = <<>> /\ PxyGoto(p, "done")
  /\ UNCHANGED <<vscene, routes, shut, gcur, ginst, gidx, rq, idle>>

-----------------------------------------------------------------------------
(* Requests over http.                                                     *)

req(r) == vscene.req[r]
credOf(route) ==
  IF route.payload \in Known THEN cfg(route.payload).cred
  ELSE LET i == CHOOSE j \in 1..MaxInst : Group(j) = route.payload
       IN IF ginst[i].members = <<>> THEN NoCred ELSE cfg(ginst[i].members[1]).cred
found(r) == getByRoute(routes[req(r).kind], req(r).host, req(r).path,
                       getRequestRouteUser(req(r)))
ReqGoto(r, at) == rq' = [rq EXCEPT ![r].at = at]
Begins(r) == r \in DOMAIN vscene.req /\ rq[r].at = "new"

\* ServeHTTP: the route's credentials are checked.
ServeHTTP(r) ==
  /\ Begins(r) /\ req(r).kind = "http"
  /\ rq' = [rq EXCEPT ![r].rc = found(r),
       ![r].at = IF \E o \in found(r) : ~checkRouteAuth(req(r), credOf(o)) THEN "401"
                 ELSE IF req(r).connect THEN "dial" ELSE "rewrite"]
  /\ UNCHANGED <<vscene, vpxyVars, gidx, idle>>

\* chooseEndpoint and createConn: the members take turns.
turn(i) == LET m == ginst[i].members IN IF m = <<>> THEN "" ELSE m[((gidx + 1) % Len(m)) + 1]
groupOf(route) == {i \in 1..MaxInst : route.payload = Group(i)}

\* Rewrite: a group chooses the endpoint.
Rewrite(r) ==
  LET gs == UNION {groupOf(o) : o \in rq[r].rc} IN
  /\ rq[r].at = "rewrite"
  /\ rq' = [rq EXCEPT ![r].at = "dial", ![r].ep = IF gs = {} THEN "" ELSE turn(Max(gs))]
  /\ gidx' = (IF gs = {} THEN gidx ELSE gidx + 1)
  /\ UNCHANGED <<vscene, vpxyVars, idle>>

\* The name under which the transport keeps connections.
keyOf(r) == <<{<<o.dom, o.loc, o.user>> : o \in rq[r].rc}, rq[r].ep>>
Kept(r) == {c \in idle : c.key = keyOf(r)}

Reuse(r) ==
  /\ rq[r].at = "dial" /\ ~req(r).connect
  /\ \E c \in Kept(r) : /\ rq' = [rq EXCEPT ![r].at = "served", ![r].by = c.by]
                        /\ idle' = idle \ {c}
  /\ UNCHANGED <<vscene, vpxyVars, gidx>>

\* CreateConnection: the route is looked up again; a group's by the endpoint.
CreateConnection(r) ==
  LET o == found(r)  gs == UNION {groupOf(x) : x \in o}
      pick == IF o = {} THEN "" ELSE IF gs = {} THEN (CHOOSE x \in o : TRUE).payload
              ELSE IF rq[r].ep \in ToSet(ginst[Max(gs)].members) THEN rq[r].ep ELSE ""
  IN
  /\ rq[r].at = "dial" /\ ~req(r).connect /\ Kept(r) = {}
  /\ rq' = [rq EXCEPT ![r].at = IF pick = "" THEN "404" ELSE "served", ![r].by = pick]
  /\ UNCHANGED <<vscene, vpxyVars, gidx, idle>>

\* connectHandler: looked up again as well; a group's members take turns.
connectHandler(r) ==
  LET o == found(r)  gs == UNION {groupOf(x) : x \in o}
      pick == IF o = {} THEN "" ELSE IF gs = {} THEN (CHOOSE x \in o : TRUE).payload
              ELSE turn(Max(gs))
  IN
  /\ rq[r].at = "dial" /\ req(r).connect
  /\ gidx' = (IF gs = {} THEN gidx ELSE gidx + 1)
  /\ rq' = [rq EXCEPT ![r].at = IF pick = "" THEN "404" ELSE "served", ![r].by = pick]
  /\ UNCHANGED <<vscene, vpxyVars, idle>>

\* GetRealConn: no work connection.
NoWorkConn(r) ==
  /\ rq[r].at = "dial" /\ (req(r).connect \/ Kept(r) = {}) /\ found(r) # {} /\ ReqGoto(r, "nowork")
  /\ UNCHANGED <<vscene, vpxyVars, gidx, idle>>

\* The answer is passed on; the connection is kept.
Answered(r) ==
  /\ rq[r].at = "served" /\ ReqGoto(r, "done")
  /\ idle' = IF req(r).kind # "http" \/ req(r).connect THEN idle
             ELSE idle \cup {[key |-> keyOf(r), by |-> rq[r].by]}
  /\ UNCHANGED <<vscene, vpxyVars, gidx>>

\* IdleConnTimeout, or the client's end.
IdleEnds ==
  /\ \E c \in idle : idle' = idle \ {c}
  /\ UNCHANGED <<vscene, vpxyVars, gidx, rq>>

-----------------------------------------------------------------------------
(* Connections to the other ports.                                         *)

\* handle: the listener of the name; a tcpmux route may ask for credentials.
handle(r) ==
  /\ Begins(r) /\ req(r).kind # "http"
  /\ rq' = [rq EXCEPT ![r].rc = found(r),
       ![r].at = IF \/ found(r) = {}
                    \/ /\ req(r).kind = "tcpmux"
                       /\ \E o \in found(r) : credOf(o)[1] # "" /\ credOf(o) # req(r).proxyAuth
                 THEN "closed" ELSE "send"]
  /\ UNCHANGED <<vscene, vpxyVars, gidx, idle>>

\* The handler's send meets an Accept: of the proxy, once its Run is over, or of the
\* worker of a group.
Accepted(r) ==
  /\ rq[r].at = "send" /\ rq[r].rc \cap shut = {}
  /\ \E o \in rq[r].rc :
       IF o.payload \in Known
       THEN pst[o.payload].at \in {"on", "close"}
            /\ rq' = [rq EXCEPT ![r].at = "served", ![r].by = o.payload]
       ELSE ReqGoto(r, "held")
  /\ UNCHANGED <<vscene, vpxyVars, gidx, idle>>

\* "listener is already closed, ignore this request": nobody closes the connection.
SendFails(r) ==
  /\ rq[r].at = "send" /\ rq[r].rc \cap shut # {} /\ ReqGoto(r, "lost")
  /\ UNCHANGED <<vscene, vpxyVars, gidx, idle>>

\* baseGroup.worker: a member takes it, or the channel is closed.
MemberTakes(r) ==
  /\ rq[r].at = "held"
  /\ \E o \in rq[r].rc, i \in 1..MaxInst :
       /\ o.payload = Group(i)
       /\ \/ \E p \in ToSet(ginst[i].members) :
               pst[p].at \in {"on", "close"} /\ rq' = [rq EXCEPT ![r].at = "served", ![r].by = p]
          \/ o \in shut /\ ReqGoto(r, "closed")
  /\ UNCHANGED <<vscene, vpxyVars, gidx, idle>>

VhostStep ==
  \/ \E p \in Pxy : \/ RegisterRoute(p) \/ getOrCreateGroup(p) \/ RegisterGroup(p) \/ RunDone(p)
                    \/ CloseRoute(p) \/ LeaveGroup(p) \/ CloseDone(p)
  \/ \E r \in Req : \/ Rewrite(r) \/ Reuse(r) \/ CreateConnection(r) \/ connectHandler(r) \/ NoWorkConn(r)
                    \/ Answered(r) \/ Accepted(r) \/ SendFails(r) \/ MemberTakes(r)
VhostNext == \/ VhostStep \/ IdleEnds \/ \E p \in Pxy : RunHTTP(p) \/ RunHTTPS(p) \/ RunTCPMux(p) \/ CloseVhost(p)
             \/ \E r \in Req : ServeHTTP(r) \/ handle(r)

\* Handlers and proxies go on; locks are held for a short time.
VhostFair == WF_vhostVars(VhostStep)

-----------------------------------------------------------------------------
(* Properties.                                                             *)

ReqAt == {"new", "rewrite", "dial", "served", "done", "401", "404", "nowork", "send", "held", "closed", "lost"}

\* Type invariant of the proxies, the routes and the requests.
VhostTypeOK ==
  /\ \A p \in Known : /\ pst[p].at \in {"off", "run", "on", "close", "done"}
                      /\ pst[p].h \in 0..MaxInst
                      /\ pst[p].at = "run" => pst[p].held \o pst[p].todo = asked(p)
  /\ gcur \in 0..MaxInst /\ gidx \in 0..Cardinality(Req)
  /\ \A r \in Req : rq[r].at \in ReqAt /\ rq[r].by \in Pxy \cup {""}

Serving(p, o) ==
  \/ o.payload = p
  \/ gcur # 0 /\ o.payload = Group(gcur) /\ p \in ToSet(ginst[gcur].members)

\* A proxy that runs has all its routes: none was taken back by the failed start or
\* the end of another proxy, and none belongs to a group that was removed.
RoutesHeld ==
  \A p \in Known : pst[p].at = "on" =>
    \A i \in DOMAIN asked(p) : \E o \in Mine(p, asked(p)[i]) : Serving(p, o)

\* Every route has a proxy that holds it: when a proxy is gone its hosts are free.
NoStrayRoute ==
  \A m \in Mux : \A o \in routes[m] :
    \E p \in Known : /\ Serving(p, o) /\ pst[p].at \in {"run", "on", "close"}
                     /\ \E i \in DOMAIN pst[p].held : o \in Mine(p, pst[p].held[i])

\* How closely a domain fits a host: 0 if it does not.
closeness(dom, host) ==
  IF dom = host THEN Len(host) + 1
  ELSE IF dom = <<"*">> THEN 1
  ELSE IF dom[1] = "*" /\ Len(dom) > 2 /\ Len(dom) <= Len(host) /\ IsSuffix(Tail(dom), host)
  THEN Len(dom) ELSE 0

\* Who asks for a name is routed by the domain that is closest to it, of those the
\* one for the user who asks, of those the longest location (router.go,
\* getByRoute), whatever order the routes came in and left.
RoutedBest ==
  \A ask \in vscene.probes :
    LET host == ToLower(ask.host)
        fit == {o \in routes["http"] : /\ closeness(o.dom, host) > 0
                                       /\ o.user \in {ask.user, ""} /\ IsPrefix(o.loc, ask.path)}
        worse(o, b) == \/ closeness(o.dom, host) < closeness(b.dom, host)
                       \/ /\ o.dom = b.dom
                          /\ o.user # b.user => b.user = ask.user
                          /\ o.user = b.user => Len(o.loc) < Len(b.loc)
        got == getByRoute(routes["http"], ask.host, ask.path, ask.user)
    IN IF fit = {} THEN got = {}
       ELSE \E b \in fit : got = {b} /\ \A o \in fit \ {b} : worse(o, b)

\* A user's http proxy has no route outside the pools of its user (server/proxy,
\* validateUserDomains): a pool of subdomains does not hold the domain itself.
PoolsKept ==
  \A p \in Known : cfg(p).kind # "tcpmux" /\ pst[p].at \in {"run", "on"} =>
    \A d \in ToSet(cfg(p).doms) : \E q \in cfg(p).pools :
      \/ q = <<"*">> \/ ToLower(q) = ToLower(d)
      \/ q[1] = "*" /\ Len(d) >= Len(q) /\ IsSuffix(Tail(ToLower(q)), ToLower(d))

\* Whoever is served over the route that was found first has shown that route's
\* credentials: the proxy's own where the request is for a proxy (vhost/http.go,
\* checkRouteAuthByRequest).  The route found later may be another one.
CredentialsAsked ==
  \A r \in Req : rq[r].at = "served" /\ req(r).kind = "http" =>
    \A o \in rq[r].rc : o.payload = rq[r].by /\ cfg(rq[r].by).cred # NoCred =>
      cfg(rq[r].by).cred = IF req(r).proxied THEN req(r).proxyAuth ELSE req(r).auth

Ended == {"new", "done", "401", "404", "nowork", "closed", "lost"}

\* No request waits for ever for a listener that is closed or a group that is gone.
RequestsEnd == \A r \in Req : []<>(rq[r].at \in Ended)

\* The routes are those of the proxies there are, and a request gets the one it should.
RoutesSound ==
  /\ VhostTypeOK /\ RoutesHeld /\ NoStrayRoute /\ RoutedBest
  /\ PoolsKept /\ CredentialsAsked
=============================================================================

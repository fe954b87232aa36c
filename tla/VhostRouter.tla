---------------------------- MODULE VhostRouter -----------------------------
(***************************************************************************)
(* Which proxy a host, a path and a user are routed to:                    *)
(* upstream/frp/pkg/util/vhost/router.go, with the checks of the domains   *)
(* and of the credentials in server/proxy/proxy.go and vhost/http.go.      *)
(*                                                                         *)
(* A domain is the sequence of its labels, "*" the wildcard; a location    *)
(* and a path are sequences of numbers that compare like characters.  The  *)
(* routers of a Routers are a set of [dom, loc, user, payload].            *)
(***************************************************************************)
EXTENDS Naturals, Sequences, SequencesExt, FiniteSets, TLC

\* strings.ToLower, of the labels that have capitals.
LowerOf == [c \in {"A", "B"} |-> IF c = "A" THEN "a" ELSE "b"]
ToLower(dom) == [i \in DOMAIN dom |-> IF dom[i] \in DOMAIN LowerOf THEN LowerOf[dom[i]] ELSE dom[i]]

\* How strings compare.
Greater(a, b) ==
  \/ IsStrictPrefix(b, a)
  \/ \E i \in DOMAIN a \cap DOMAIN b :
       a[i] > b[i] /\ \A j \in 1..(i - 1) : a[j] = b[j]

exist(routes, dom, loc, user) ==
  \E r \in routes : r.dom = dom /\ r.loc = loc /\ r.user = user

\* Add: refused if the route exists.
AddOK(routes, dom, loc, user) == ~exist(routes, ToLower(dom), loc, user)
AddRoute(routes, dom, loc, user, payload) ==
  routes \cup {[dom |-> ToLower(dom), loc |-> loc, user |-> user, payload |-> payload]}

DelRoute(routes, dom, loc, user) ==
  {r \in routes : ~(r.dom = ToLower(dom) /\ r.loc = loc /\ r.user = user)}

\* The routers of a domain and a user are sorted, the greatest location first.
before(r, s) == Greater(r.loc, s.loc)

\* getLocked: the first whose location is a prefix of the path; a set of at most one.
getLocked(routes, host, path, user) ==
  LET fits == {r \in routes : r.dom = host /\ r.user = user /\ IsPrefix(r.loc, path)} IN
  {r \in fits : \A s \in fits : s = r \/ before(r, s)}

\* getExactOrAllUsersLocked.
getExactOrAllUsers(routes, host, path, user) ==
  LET own == getLocked(routes, host, path, user) IN
  IF own # {} THEN own ELSE getLocked(routes, host, path, "")

\* The domains that are tried for a host: itself, the wildcards while three labels
\* are left, and the one that matches all.
hosts(host) ==
  <<host>> \o [k \in 1..(IF Len(host) < 3 THEN 0 ELSE Len(host) - 2) |->
                 <<"*">> \o SubSeq(host, k + 1, Len(host))] \o << <<"*">> >>

\* getByRoute.
getByRoute(routes, host, path, user) ==
  LET tried == hosts(ToLower(host))
      hit(i) == getExactOrAllUsers(routes, tried[i], path, user)
      found == {i \in DOMAIN tried : hit(i) # {}}
  IN IF found = {} THEN {} ELSE hit(Min(found))

-----------------------------------------------------------------------------
(* The domains of a proxy.                                                 *)

\* domainAllowed: by a pool that is the domain, "*", or *.suffix.
domainAllowed(domain, pools) ==
  LET d == ToLower(domain) IN
  \E q \in pools : LET pool == ToLower(q) IN
     \/ pool = <<"*">> \/ pool = d
     \/ Len(pool) > 1 /\ pool[1] = "*" /\ d # Tail(pool) /\ IsSuffix(Tail(pool), d)

\* validateUserDomains; without a user store everything is allowed.
validateUserDomains(domains, store, pools) ==
  store => \A i \in DOMAIN domains : domainAllowed(domains[i], pools)

-----------------------------------------------------------------------------
(* The credentials of a request: [proxied, proxyAuth, auth], the last two  *)
(* <<user, password>> or <<>>; and of a route: <<user, password>>.         *)

NoCred == <<"", "">>

\* getRequestRouteUser: with a host in the first line, who the proxy header names,
\* or else the other one.
getRequestRouteUser(req) ==
  LET c == IF req.proxied /\ req.proxyAuth # <<>> THEN req.proxyAuth ELSE req.auth
  IN IF c = <<>> THEN "" ELSE c[1]

\* checkRouteAuthByRequest.
checkRouteAuth(req, cred) ==
  cred = NoCred \/ cred = (IF req.proxied THEN req.proxyAuth ELSE req.auth)
=============================================================================

---------------------------- MODULE MCFrpServer ----------------------------
(***************************************************************************)
(* frps for TLC: scenes of FrpServer, Vhost or Analyzer.  A behaviour      *)
(* plays one scene of one of them; the others rest in a scene in which     *)
(* nothing can happen.                                                     *)
(***************************************************************************)
EXTENDS FrpServer, Vhost, Analyzer

CONSTANTS c1, c2, c3, r1, r2, k1, k2, na, nb, ng, nh, ni, p1, p2, x1, x2, x3

-----------------------------------------------------------------------------
(* FrpServer: controls, proxies and ports.                                 *)

MCWantOf == (na :> p1) @@ (nb :> AnyPort) @@ (ng :> AnyPort) @@ (nh :> AnyPort)
            @@ (ni :> p2)

Base == [who |-> {c1, c2}, run |-> [c \in Ctl |-> r1], key |-> [c \in Ctl |-> k1],
         drops |-> 1, names |-> {}, asks |-> 0, limits |-> {0}, edits |-> 0,
         pool |-> 0, users |-> {}]
NoServer == [Base EXCEPT !.who = {}, !.drops = 0]

\* The same client three times.
Again == [Base EXCEPT !.who = {c1, c2, c3}, !.drops = 2]
\* Two runs of one client, the first of which connects twice.
Rival == [Again EXCEPT !.run = (c1 :> r1) @@ (c2 :> r1) @@ (c3 :> r2)]
\* Two clients and the same names.
Two   == [Base EXCEPT !.run = (c1 :> r1) @@ (c2 :> r2) @@ (c3 :> r2),
                      !.key = (c1 :> k1) @@ (c2 :> k2) @@ (c3 :> k2)]
MCSetups == {NoServer, Again, Rival,
             [Two EXCEPT !.names = {na, nb}, !.asks = 3, !.limits = {1}],
             [Base EXCEPT !.names = {na, nb}, !.asks = 3, !.limits = {2}],
             [Base EXCEPT !.who = {c1}, !.names = {na, nb}, !.asks = 3,
                          !.limits = {0, 1, 2}, !.edits = 2],
             [Two EXCEPT !.names = {ng, nh}, !.asks = 2],
             [Two EXCEPT !.names = {nb, nh}, !.asks = 3, !.drops = 0],
             [Base EXCEPT !.who = {c1}, !.names = {ng, ni}, !.asks = 3],
             [Base EXCEPT !.names = {na}, !.asks = 1, !.pool = 1, !.users = User]}

-----------------------------------------------------------------------------
(* Vhost: proxies that share a host, a group or a port.                    *)

ab   == <<"a", "x", "y">>
wild == <<"*", "x", "y">>
pw   == <<"u", "s">>
P(kind, doms, user, cred, group, key) ==
  [kind |-> kind, doms |-> doms, locs |-> <<>>, user |-> user, cred |-> cred,
   group |-> group, key |-> key, pools |-> {<<"*">>}]
Http(doms, key) == P("http", doms, "", NoCred, IF key = "" THEN "" ELSE "g", key)
Asks(kind, auth, connect) ==
  [kind |-> kind, host |-> ab, path |-> <<1, 2>>, proxied |-> connect,
   proxyAuth |-> auth, auth |-> auth, connect |-> connect]

\* Proxies that want the same host, one with another one first.
Rivals ==
  [pxy |-> (x1 :> Http(<<ab, wild>>, ""))
           @@ (x2 :> [P("http", <<wild, <<"A", "x", "y">> >>, "", pw, "", "")
                        EXCEPT !.locs = << <<1>> >>, !.pools = {<<"*", "y">>}])
           @@ (x3 :> [P("http", <<wild>>, "u", NoCred, "", "") EXCEPT !.pools = {ab}]),
   req |-> ("q1" :> Asks("http", pw, FALSE)), closes |-> {x1}, probes |-> {}]
\* One proxy with a password, asked for as a proxy and with the header of an origin.
Guarded ==
  [pxy |-> (x1 :> P("http", <<ab>>, "", pw, "", "")),
   req |-> ("q1" :> Asks("http", pw, FALSE))
           @@ ("q2" :> [Asks("http", pw, FALSE) EXCEPT !.proxied = TRUE, !.proxyAuth = <<>>]),
   closes |-> {x1}, probes |-> {}]
\* Domains outside their user's pools.
Pools ==
  [pxy |-> (x1 :> [Http(<< <<"y">> >>, "") EXCEPT !.pools = {<<"*", "y">>}])
           @@ (x2 :> [Http(<<ab, << "X", "z">> >>, "") EXCEPT !.pools = {ab, <<"x", "z">>}]),
   req |-> <<>>, closes |-> {}, probes |-> {}]
InGroup ==
  [pxy |-> (x1 :> Http(<<ab>>, "k")) @@ (x2 :> Http(<<ab>>, "k")),
   req |-> ("q1" :> Asks("http", <<>>, FALSE)) @@ ("q2" :> Asks("http", <<>>, FALSE)),
   closes |-> {x1}, probes |-> {}]
Connects == [InGroup EXCEPT !.req = "q1" :> Asks("http", <<>>, TRUE), !.closes = {x1, x2}]
Alone ==
  [pxy |-> (x1 :> P("tcpmux", <<ab, wild>>, "", pw, "", ""))
           @@ (x2 :> P("tcpmux", <<ab>>, "", NoCred, "", "")),
   req |-> ("q1" :> Asks("tcpmux", pw, TRUE)) @@ ("q2" :> Asks("tcpmux", <<>>, TRUE)),
   closes |-> {x1, x2}, probes |-> {}]
Secure ==
  [pxy |-> (x1 :> P("https", <<ab>>, "", NoCred, "g", "k"))
           @@ (x2 :> P("https", <<ab>>, "", NoCred, "g", "k"))
           @@ (x3 :> P("https", <<ab>>, "", NoCred, "g", "bad")),
   req |-> ("q1" :> Asks("https", <<>>, FALSE)), closes |-> {x1, x2}, probes |-> {}]
\* Locations, wildcards and a user's own routes; no requests.
Sorted ==
  [pxy |-> (x1 :> [Http(<<ab, <<"*", "y">> >>, "") EXCEPT !.locs = << <<1>>, <<1, 2>> >>])
           @@ (x2 :> P("http", <<wild>>, "u", NoCred, "", ""))
           @@ (x3 :> Http(<< <<"*">>, wild>>, "")),
   req |-> <<>>, closes |-> {x1},
   probes |-> [host : {ab, <<"b", "x", "y">>, <<"c", "b", "x", "y">>, <<"c", "y">>},
               path : {<<>>, <<1, 2, 3>>}, user : {"", "u"}]]
MCVhosts == {Sorted, Guarded, Pools, Rivals, InGroup, Connects, Alone, Secure}

ASSUME VhostsAssumption == \A s \in MCVhosts \cup {NoVhost} : VhostSceneOK(s)

-----------------------------------------------------------------------------
(* Analyzer: pairs of NATs.                                                *)

\* What a side sends behind a NAT: its mapped addresses and its local ones.
Behind(port1, port2, assisted) ==
  [mapped |-> <<[ip |-> "ip", port |-> port1], [ip |-> "ip", port |-> port2]>>,
   assisted |-> assisted]
Easy    == Behind(700, 700, {})
Open    == Behind(700, 700, {"ip"})
Regular == Behind(65530, 65534, {})
Hard    == Behind(40000, 2, {})
Harder  == Behind(9, 30000, {"ip"})
Shifted == Behind(2001, 2000, {})
Wild    == [mapped |-> <<[ip |-> "ip", port |-> 7], [ip |-> "ip2", port |-> 9]>>, assisted |-> {}]
Sides   == {Easy, Open, Regular, Hard, Wild}

\* Any two sides, which always fail or change once and may succeed.
MCPairs ==
  [now : Sides \X Sides, later : {{}}, asks : {25}, reports : {0}, cleans : {0}]
  \cup [now : {Easy, Hard} \X {Regular}, later : {{}}, asks : {2}, reports : {6}, cleans : {1}]
  \cup [now : {<<Easy, Hard>>, <<Hard, Regular>>},
        later : {{<<Open, Harder>>, <<Harder, Shifted>>, <<Easy, Shifted>>}},
        asks : {8}, reports : {0}, cleans : {1}]

ASSUME PairsAssumption == \A s \in MCPairs \cup {NoPair} : PairSceneOK(s)

-----------------------------------------------------------------------------

allVars == <<vars, vhostVars, anVars>>
SceneInit ==
  /\ Init
  /\ \/ use # NoServer /\ VhostInit(NoVhost) /\ AnInit(NoPair)
     \/ use = NoServer /\ AnInit(NoPair) /\ \E s \in MCVhosts : VhostInit(s)
     \/ use = NoServer /\ VhostInit(NoVhost) /\ \E s \in MCPairs : AnInit(s)
SceneNext == \/ Next /\ UNCHANGED <<vhostVars, anVars>>
             \/ VhostNext /\ UNCHANGED <<vars, anVars>>
             \/ AnNext /\ UNCHANGED <<vars, vhostVars>>
SceneSpec == SceneInit /\ [][SceneNext]_allVars /\ ServerFair /\ VhostFair

\* Controls are torn down and requests come to their end.
ServerSettles == TornDown /\ RequestsEnd
=============================================================================

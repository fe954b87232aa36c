---------------------------- MODULE MCFrpClient ----------------------------
(***************************************************************************)
(* frpc for TLC: scenes of FrpClient, NatHole, FrpUdp, FrpConf or          *)
(* ProxyConf.  A behaviour plays one scene of one of them; the others rest *)
(* in a scene in which nothing can happen.                                 *)
(***************************************************************************)
EXTENDS FrpClient, NatHole, FrpUdp, FrpConf, ProxyConf

CONSTANTS np, nq

-----------------------------------------------------------------------------
(* FrpClient.                                                              *)

MCConf(i, j, v) == [p |-> (np :> i @@ nq :> j), v |-> v]
Base == [cfgs |-> <<>>, drops |-> 0, refs |-> 0, bads |-> 0, late |-> 0,
         exit |-> FALSE, stop |-> FALSE, ended |-> FALSE]
Ended == [Base EXCEPT !.cfgs = <<MCConf(0, 0, FALSE)>>, !.ended = TRUE]
\* Reconnects with a visitor and reloads; refusals; health checks that fail; late
\* answers; a stop; the first login that ends the program.
MCSetups ==
  {Ended,
   [Base EXCEPT !.cfgs = <<MCConf(1, 0, TRUE), MCConf(2, 0, TRUE)>>, !.drops = 2],
   [Base EXCEPT !.cfgs = <<MCConf(1, 0, TRUE), MCConf(0, 0, FALSE)>>, !.drops = 1],
   [Base EXCEPT !.cfgs = <<MCConf(1, 0, FALSE)>>, !.drops = 1, !.refs = 2],
   [Base EXCEPT !.cfgs = <<MCConf(0, 1, FALSE), MCConf(0, 2, FALSE)>>, !.bads = 3],
   [Base EXCEPT !.cfgs = <<MCConf(1, 1, FALSE)>>, !.drops = 1, !.bads = 2],
   [Base EXCEPT !.cfgs = <<MCConf(0, 1, FALSE), MCConf(0, 2, FALSE)>>, !.late = 1,
                !.bads = 2],
   [Base EXCEPT !.cfgs = <<MCConf(1, 0, TRUE), MCConf(2, 0, FALSE)>>, !.drops = 1,
                !.stop = TRUE],
   [Base EXCEPT !.cfgs = <<MCConf(1, 0, TRUE)>>, !.drops = 1, !.exit = TRUE]}

-----------------------------------------------------------------------------
(* NatHole: visits, with and without a tunnel kept open.                   *)

Hole(vis, keep, back, tries, faults, stops) ==
  [visits |-> vis, keep |-> keep, fallback |-> back, retries |-> 1, tries |-> tries,
   faults |-> faults, stops |-> stops]
MCHoles == {Hole({"u1", "u2"}, FALSE, TRUE, 1, 0, {}),
            Hole({}, TRUE, FALSE, 2, 1, {}),
            Hole({"u1"}, TRUE, TRUE, 1, 0, {"visitor", "proxy"}),
            Hole({"u1"}, FALSE, FALSE, 2, 1, {})}

-----------------------------------------------------------------------------
(* FrpUdp: packets and lost work connections; a stop of the proxy at either *)
(* end or at both; another proxy that waits for the port.                  *)

Packets(n, wires, breaks, stops, riv) ==
  [packets |-> n, wires |-> wires, breaks |-> breaks, stops |-> stops, rival |-> riv]
MCUdps == {Packets(2, 2, 1, {}, FALSE), Packets(1, 1, 0, {"frps", "frpc"}, FALSE),
           Packets(0, 2, 1, {"frpc"}, FALSE), Packets(0, 1, 1, {"frps", "frpc"}, TRUE)}

-----------------------------------------------------------------------------
(* FrpConf: calls of the admin API that meet, failed writes, a crash.      *)

pa == <<"proxy", "a">>
va == <<"visitor", "a">>
pb == <<"proxy", "b">>
Entry(val, on) == [val |-> val, on |-> on]
File(ents, start) == [ents |-> ents, start |-> start, ok |-> TRUE]
Ask(op, key, val) ==
  [op |-> op, key |-> key, ent |-> Entry(val, TRUE), body |-> File(<<>>, {})]
AllOf == File((pa :> Entry("f", TRUE)) @@ (pb :> Entry("f", TRUE)), {})
OnlyB == File((pa :> Entry("g", TRUE)) @@ (pb :> Entry("g", TRUE)), {"b"})
Admin(x, y, z, file, dsk, faults, crashes) ==
  [calls |-> ("a1" :> x) @@ ("a2" :> y) @@ ("a3" :> z), conf |-> file, disk |-> dsk,
   faults |-> faults, crashes |-> crashes]
Stored(k) == k :> Entry("s", FALSE)
Reloads == Ask("reload", pa, "none")
MCConfs == {
  Admin(Ask("create", pa, "s"), [Ask("update", pa, "t") EXCEPT !.ent.on = FALSE], Reloads,
        AllOf, <<>>, 1, 1),
  Admin(Ask("create", va, "s"), Ask("create", va, "t"), Ask("delete", va, "none"),
        OnlyB, <<>>, 1, 1),
  Admin([Ask("put", pa, "none") EXCEPT !.body = OnlyB], Reloads, Ask("delete", pb, "none"),
        AllOf, Stored(pb), 1, 1),
  Admin(Ask("stop", pa, "none"), Ask("create", pb, "bad"), Ask("update", pb, "t"),
        OnlyB, Stored(pb), 0, 0),
  Admin(Ask("update", va, "t"), Ask("create", pb, "unreadable"), Reloads,
        OnlyB, Stored(va), 0, 1)}

-----------------------------------------------------------------------------
(* ProxyConf: every type of proxy with all its settings, visitors, files    *)
(* of each syntax with includes, edits that change, hide or break entries, *)
(* calls on the store.                                                     *)

Item(kind, name, type, set) == [kind |-> kind, name |-> name, type |-> type, set |-> set]
Told == [s \in BaseSettings |-> CASE s = "bandwidthLimit" -> "1MB"
                                  [] s = "bandwidthLimitMode" -> "server" [] OTHER -> "x"]
Typed(t) == [s \in ProxyTypeSettings[t] |->
               CASE s = "multiplexer" -> "httpconnect" [] s = "subdomain" -> "" [] OTHER -> "x"]
FullProxy(t, name) == Item("proxy", name, t, Told @@ Typed(t))
Proxy(name, set) == Item("proxy", name, "tcp", set)
Domain(t, set) == Item("proxy", <<"b">>, t, set @@ ("multiplexer" :> "httpconnect"))
Tls == Proxy(<<"a">>, ("plugin" :> "https2http") @@ ("plugin.localAddr" :> "x"))
HoleVisitor == Item("visitor", <<"v">>, "xtcp", ("serverName" :> "x") @@ ("bindPort" :> "80"))
PlainVisitor == Item("visitor", <<"a">>, "stcp", ("serverName" :> "x") @@ ("bindPort" :> "80"))
Wrong == Proxy(<<"a">>, "healthCheck" :> "ping")
Off(e) == [e EXCEPT !.set = ("enabled" :> "false") @@ @]

Text(ents) == [syntax |-> "toml", ext |-> "toml", strange |-> FALSE, dotted |-> FALSE,
               ents |-> ents, start |-> {}, common |-> "good", includes |-> <<>>]
Yaml(f) == [f EXCEPT !.syntax = "yaml", !.ext = "yaml", !.dotted = TRUE]
Including(f, g) == [f EXCEPT !.includes = <<[dir |-> TRUE, files |-> <<g>>]>>]
All == [subDomainHost |-> TRUE, http |-> TRUE, https |-> TRUE, tcpmux |-> TRUE]
Nothing == [subDomainHost |-> FALSE, http |-> FALSE, https |-> FALSE, tcpmux |-> FALSE]
Op(op, e) == [op |-> op, ent |-> e]
Play(f, edits, calls, strict, user, s) ==
  [file |-> f, edits |-> edits, calls |-> calls, strict |-> strict, user |-> user, server |-> s]
NoProxyConf == Play(Text(<<>>), <<>>, <<>>, TRUE, <<>>, Nothing)

MCProxyConfs ==
  {Play(Text(<<FullProxy(t, <<"a">>), FullProxy(t, <<"u", "a">>)>>),
        <<Text(<<FullProxy(t, <<"a">>)>>)>>, <<>>, TRUE, u, s) :
     t \in DOMAIN ProxyTypeSettings, u \in {<<>>, <<"u">>}, s \in {All, Nothing}}
  \cup
  {Play(Text(<<Domain(t, d)>>), <<>>, <<>>, FALSE, <<>>, [All EXCEPT !.subDomainHost = h]) :
     t \in {"http", "tcpmux"}, h \in BOOLEAN,
     d \in {"subdomain" :> "x", "subdomain" :> "dotted", "customDomains" :> "beneath",
            "customDomains" :> ""}}
  \cup
  {Play(f, <<g>>, <<>>, strict, <<"u">>, All) :
     strict \in BOOLEAN,
     f \in {Text(<<Tls, HoleVisitor>>), Yaml(Including(Text(<<Tls>>), Text(<<HoleVisitor>>)))},
     g \in {Including(Text(<<Tls, HoleVisitor>>), [Text(<<Tls>>) EXCEPT !.syntax = "broken"]),
            [Text(<<Tls, Off(HoleVisitor)>>) EXCEPT !.start = {<<"a">>}],
            [Text(<<Tls>>) EXCEPT !.syntax = "json", !.ext = "", !.dotted = TRUE],
            [Text(<<Tls>>) EXCEPT !.common = "incomplete"],
            [Text(<<Tls>>) EXCEPT !.includes = <<[dir |-> FALSE, files |-> <<>>]>>],
            Text(<<Proxy(<<"a">>, "subdomain" :> "x"), Proxy(<<"a">>, "bandwidthLimit" :> "1GB")>>),
            Text(<<Tls, Proxy(<<"a">>, ("plugin.localAddr" :> "x"))>>),
            Text(<<Tls, Off(Proxy(<<>>, "remotePort" :> "80"))>>),
            Text(<<Proxy(<<"a">>, "plugin" :> "unix_domain_socket")>>)}}
  \cup
  {Play(Text(<<x, PlainVisitor>>), <<Text(<<Tls, Off(Wrong)>>)>>,
         <<Op("create", y), Op("update", z), Op("delete", y)>>, TRUE, <<"u">>, All) :
     x \in {Tls, Off(Wrong), Wrong},
     y \in {Tls, Off(Tls), Proxy(<<"a">>, "localPort" :> "outside")},
     z \in {Tls, Wrong, Item("proxy", <<"a">>, "none", <<>>)}}
  \cup
  {Play(Text(<<PlainVisitor>>), <<Text(<<PlainVisitor, x>>)>>,
        <<Op("create", Tls), Op("delete", Tls)>>, TRUE, <<"u">>, All) :
     x \in {Wrong, Tls, [Tls EXCEPT !.type = "udp"]}}

-----------------------------------------------------------------------------

allVars == <<vars, holeVars, udpVars, confVars, proxyConfVars>>
SceneInit ==
  /\ Init
  /\ \/ /\ use # Ended /\ HoleInit(NoScene) /\ UdpInit(NoUdp) /\ ConfInit(NoConf)
        /\ ProxyConfInit(NoProxyConf)
     \/ /\ use = Ended /\ UdpInit(NoUdp) /\ ConfInit(NoConf) /\ ProxyConfInit(NoProxyConf)
        /\ \E s \in MCHoles : HoleInit(s)
     \/ /\ use = Ended /\ HoleInit(NoScene) /\ ConfInit(NoConf) /\ ProxyConfInit(NoProxyConf)
        /\ \E s \in MCUdps : UdpInit(s)
     \/ /\ use = Ended /\ HoleInit(NoScene) /\ UdpInit(NoUdp) /\ ProxyConfInit(NoProxyConf)
        /\ \E s \in MCConfs : ConfInit(s)
     \/ /\ use = Ended /\ HoleInit(NoScene) /\ UdpInit(NoUdp) /\ ConfInit(NoConf)
        /\ \E s \in MCProxyConfs : ProxyConfInit(s)
SceneNext ==
  \/ Next /\ UNCHANGED <<holeVars, udpVars, confVars, proxyConfVars>>
  \/ HoleNext /\ UNCHANGED <<vars, udpVars, confVars, proxyConfVars>>
  \/ UdpNext /\ UNCHANGED <<vars, holeVars, confVars, proxyConfVars>>
  \/ ConfNext /\ UNCHANGED <<vars, holeVars, udpVars, proxyConfVars>>
  \/ pscene # NoProxyConf /\ ProxyConfNext /\ UNCHANGED <<vars, holeVars, udpVars, confVars>>
SceneSpec == /\ SceneInit /\ [][SceneNext]_allVars
             /\ ClientFair /\ HoleFair /\ UdpFair /\ ConfFair

-----------------------------------------------------------------------------
(* Tunnels: holes and UDP proxies.                                         *)

\* Sockets and senders of earlier tunnels are gone or on their way out, but for the
\* sockets of sessions that another one replaced.
TunnelsSound == HoleSound /\ UdpSound

\* Both kinds come back after a failure and end when they are closed.
TunnelsSettle == HoleSettles /\ UdpSettles

\* Each part of frpc settles: controls are replaced or end, tunnels come back or are
\* gone, calls of the admin API are answered.
ClientSettles == ControlSettles /\ TunnelsSettle /\ CallsEnd
=============================================================================

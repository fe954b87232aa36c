----------------------------- MODULE MCNpsLinks -----------------------------
(***************************************************************************)
(* Scenes for TLC of the connections of users through nps: tcp and udp     *)
(* tunnels (NpsLinks), hosts (NpsHttp) and their certificates (NpsCert).   *)
(* They share nothing; a behaviour plays one of them.                      *)
(***************************************************************************)
EXTENDS NpsLinks, NpsHttp, NpsCert, TLC

CONSTANTS u1, u2, k1, k2, k3, a, x1, x2, h1, h2, n1, n2, t1, t2, t3, ca, cb, cd

-----------------------------------------------------------------------------
(* NpsLinks.                                                               *)

MCAddrOf == [p \in Pkt |-> a]

Base == [who |-> {}, maxConn |-> 0, limit |-> FALSE, cuts |-> 0, close |-> FALSE]
MCSetups == {Base, [Base EXCEPT !.who = {u1, u2}, !.maxConn = 1, !.cuts = 1],
             [Base EXCEPT !.who = {u1, u2}, !.limit = TRUE],
             [Base EXCEPT !.who = {u1, k1}, !.maxConn = 1, !.cuts = 1],
             [Base EXCEPT !.who = {k1, k2}, !.maxConn = 1, !.cuts = 1],
             [Base EXCEPT !.who = {k1, k2}, !.close = TRUE]}

-----------------------------------------------------------------------------
(* NpsHttp: two hosts, of a client each; a connection that comes back to   *)
(* its first host, beside one that takes the only unit there is.           *)

MCClientOf == h1 :> n1 @@ h2 :> n2
Web(kind1, host1, kind2, host2, max, resets) ==
  [kind |-> x1 :> kind1 @@ x2 :> kind2, first |-> x1 :> host1 @@ x2 :> host2,
   maxConn |-> max, resets |-> resets]
NoHttp == Web("none", h1, "none", h1, 1, 0)
MCHttpScenes == {NoHttp, Web("plain", h1, "pass", h1, 1, 0),
                 Web("plain", h1, "upgrade", h1, 1, 0), Web("plain", h1, "pass", h2, 1, 1)}

-----------------------------------------------------------------------------
(* NpsCert: a certificate each, one that does not fit among them, and one  *)
(* that two hosts share; edits and deletions at any time.                  *)

Own == h1 :> ca @@ h2 :> cb
Tried(certs, bad, changes) == [certs |-> certs, bad |-> bad, edits |-> changes]
NoTry == Tried(Own, {}, 0)
MCCertScenes == {NoTry, Tried(Own, {cb}, 2), Tried(h1 :> ca @@ h2 :> ca, {}, 1)}
\* The connections are alike, so those for h1 come first.
Lined == \A t \in Tls : want[t].host = h1 => t = t1 \/ want[IF t = t3 THEN t2 ELSE t1].host = h1

-----------------------------------------------------------------------------
VARIABLE play
allVars == <<vars, httpVars, certVars, play>>

\* Which one plays; the others rest.
SceneInit ==
  /\ play \in {"links", "http", "cert"} /\ Init /\ HttpInit /\ CertInit
  /\ play # "links" => use = Base
  /\ play # "http" => scene = NoHttp
  /\ play # "cert" => cplay = NoTry /\ \A t \in Tls : want[t].host = h1
  /\ Lined
SceneNext ==
  /\ play' = play
  /\ \/ play = "links" /\ Next /\ UNCHANGED <<httpVars, certVars>>
     \/ play = "http" /\ HttpNext /\ UNCHANGED <<vars, certVars>>
     \/ play = "cert" /\ CertNext /\ UNCHANGED <<vars, httpVars>>
SceneSpec == SceneInit /\ [][SceneNext]_allVars /\ LinksFair /\ HttpFair /\ CertFair

\* The units of the quota, the streams and the listeners are those of the hosts'
\* connections (http.go, https.go).
HostsSound == HttpSound /\ CertSound

\* In the end connections have ended at both ends, of tunnels and of hosts, and
\* those with a certificate were accepted.
ProxySettles ==
  <>[](ConnectionsEnded /\ NoOrphan /\ LoopFreed /\ HttpEnded /\ CertServed)
=============================================================================

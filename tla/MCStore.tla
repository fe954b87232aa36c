------------------------------ MODULE MCStore ------------------------------
(* Small instances of Store. *)
EXTENDS Store

Pool(u, ps, ds, max) ==
  [name |-> u, role |-> "user", enabled |-> TRUE, ports |-> ps, domains |-> ds,
   maxPorts |-> max, password |-> None, expiresAt |-> 0]

Port(u, n, m, p) == [user |-> u, node |-> n, mode |-> m, port |-> p,
                     domains |-> {}, enabled |-> TRUE]
Web(u, n, m, ds) == [user |-> u, node |-> n, mode |-> m, port |-> 0,
                     domains |-> ds, enabled |-> TRUE]

Site == <<"w", "x">>
Wild == <<"*", "x">>
Sites == {Site, Wild}

----------------------------------------------------------------------------
(* Tunnels: two owners, two nodes, three tunnels, every mode. *)

TunnelUsers == {Pool("ann", {1, 2}, {Wild}, 2), Pool("ann", {1, 2}, {Wild}, 1),
                Pool("bob", {1}, {Site}, 0),
                [Pool("bob", {1}, {Site}, 1) EXCEPT !.enabled = FALSE]}
TunnelNodes ==
  [id: {"edge"}, enabled: BOOLEAN, nps: {TRUE}, ports: {{1}}, domains: {{}, {Wild}}]
TunnelEdits ==
  {Port("ann", "local", "tcp", 1), Port("ann", "edge", "tcp", 1),
   Port("bob", "edge", "socks5", 1), Port("ann", "edge", "udp", 1),
   Web("ann", "edge", "http", {Site}), Web("bob", "local", "http", {Site}),
   Web("bob", "local", "https", {Site})}

----------------------------------------------------------------------------
(* Users: an admin and a user whose roles, flags and dates are edited. *)

Edit(u, r, e, x, p) ==
  [name |-> u, role |-> r, enabled |-> e, ports |-> {1}, domains |-> {},
   maxPorts |-> 1, password |-> p, expiresAt |-> x]
UserEdits ==
  {Edit(u, r, e, x, None) : u \in {"ann"}, r \in Role, e \in BOOLEAN, x \in {0, 2, 3}}
    \cup {Edit("root", r, e, 0, None) : r \in Role, e \in BOOLEAN}
LifeTunnels == {Port("ann", "local", "tcp", 1)}
NoNodeInput == {}

----------------------------------------------------------------------------
(* Faults: few edits, every outcome of a save. *)

FaultEdits == {Edit("ann", "user", TRUE, x, None) : x \in {0, 2}}
                \cup {Edit("root", "admin", FALSE, 0, None)}
FaultNodes == {[id |-> "edge", enabled |-> TRUE, nps |-> TRUE, ports |-> {},
                domains |-> {}]}

----------------------------------------------------------------------------
(* The run of tunnels plays faults as well: it takes the steps of Next that    *)
(* lead to the records of its play.  Tunnels have saves that succeed, and no   *)
(* time passes.                                                                *)

CONSTANT Plays
VARIABLE play

BothUsers == TunnelUsers \cup FaultEdits
BothNodes == TunnelNodes \cup FaultNodes

Where(id, records, P(_)) == records[id] = None \/ P(records[id])
Succeeds == saveErr' = FALSE /\ file' # Torn /\ (file' = Empty => file = Empty)
PlayTunnels ==
  /\ Succeeds /\ now' = 1
  /\ Where("root", users', LAMBDA u : u.enabled /\ u.password = "p0")
  /\ \A n \in {"ann", "bob"} :
       Where(n, users', LAMBDA u : u.domains # {} /\ u.password # "p1")
  /\ Where("edge", nodes', LAMBDA n : n.ports # {})
PlayFaults ==
  /\ users'["bob"] = None /\ Where("ann", users', LAMBDA u : u.domains = {})
  /\ Where("edge", nodes', LAMBDA n : n.ports = {})
  /\ \A t \in {"t2", "t3"} : tunnels'[t] = None
  /\ Where("t1", tunnels', LAMBDA t : t.node = "edge" /\ t.mode = "tcp")

PlayNext ==
  /\ Next /\ play' = play
  /\ CASE play = "tunnels" -> PlayTunnels [] play = "faults" -> PlayFaults [] OTHER -> TRUE
PlayInit == Init /\ play \in Plays
PlaySpec == PlayInit /\ [][PlayNext]_<<vars, play>>
FairPlaySpec == PlaySpec /\ Fairness
=============================================================================

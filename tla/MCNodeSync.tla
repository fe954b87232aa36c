----------------------------- MODULE MCNodeSync -----------------------------
(* Small instances of NodeSync: one remote node, two users, two tunnels. *)
EXTENDS NodeSync

Site  == <<"w", "x">>
Sites == {Site}

Account(u, e, ps) ==
  [name |-> u, role |-> "user", enabled |-> e, ports |-> ps, domains |-> Sites,
   maxPorts |-> 0, password |-> None, expiresAt |-> 0]
PortTunnel(u, p, e) == [user |-> u, node |-> "edge", mode |-> "tcp", port |-> p,
                        domains |-> {}, enabled |-> e]
WebTunnel(u, m) == [user |-> u, node |-> "edge", mode |-> m, port |-> 0,
                    domains |-> Sites, enabled |-> TRUE]

Edge == {[id |-> "edge", enabled |-> TRUE, nps |-> TRUE, ports |-> {}, domains |-> {}]}

(* One tunnel, edited at will: no port or domain changes hands. *)
OneAccount == {Account("ann", e, {1, 2}) : e \in BOOLEAN}
OneTunnel  == {PortTunnel("ann", 1, TRUE), PortTunnel("ann", 2, TRUE),
               WebTunnel("ann", "http")}

(* The port of a deleted tunnel goes to a new one, of another mode. *)
Steady   == {Account("ann", TRUE, {1, 2})}
Handover == {PortTunnel("ann", 1, TRUE),
             [PortTunnel("ann", 1, TRUE) EXCEPT !.mode = "socks5"]}

(* Two tunnels side by side, one of each kind, and fewer edits. *)
TwoKinds == {PortTunnel("ann", 1, TRUE), PortTunnel("ann", 1, FALSE),
             WebTunnel("ann", "http"), WebTunnel("ann", "https")}

----------------------------------------------------------------------------
(* A behaviour takes the steps that lead to the records of its play.       *)

CONSTANT Plays
VARIABLE play

AnyTunnel == OneTunnel \cup Handover \cup TwoKinds
Kept(id, inputs) ==
  tunnels'[id] = None \/ \E i \in inputs : \A f \in DOMAIN i : tunnels'[id][f] = i[f]
Enabled == users'["ann"] = None \/ users'["ann"].enabled

PlayChurn == /\ tunnels'[2] = None /\ Kept(1, OneTunnel)
             /\ (edits' = 4 => faults' = 0 \/ ~beside')
             /\ (edits' = 5 => faults' = 0 /\ ~beside')
PlayKinds == /\ Enabled /\ Kept(1, {i \in TwoKinds : i.mode = "tcp"})
             /\ Kept(2, {i \in TwoKinds : i.mode # "tcp"})
             /\ edits' <= 4
             /\ (edits' = 4 => faults' = 0 /\ ~beside')
PlayHandover == Enabled /\ Kept(1, Handover) /\ Kept(2, Handover)

PlayNext ==
  /\ NodeNext /\ play' = play
  /\ CASE play = "churn" -> PlayChurn [] play = "kinds" -> PlayKinds [] OTHER -> PlayHandover
PlayInit == NodeInit /\ play \in Plays
PlaySpec == PlayInit /\ [][PlayNext]_<<allVars, play>> /\ NodeFairness
=============================================================================

------------------------------- MODULE FrpUdp -------------------------------
(***************************************************************************)
(* A UDP proxy: frps listens for packets of users and carries them over a  *)
(* work connection to frpc, which hands them to the local service and      *)
(* sends its answers back.                                                 *)
(*   frps  upstream/frp/server/proxy/udp.go                                *)
(*   frpc  upstream/frp/client/proxy/udp.go                                *)
(*   both  upstream/frp/pkg/proto/udp/udp.go                               *)
(* A work connection is a number; it breaks or is closed by either end,    *)
(* and frps then asks for another one.  Each has a reader and a sender at  *)
(* both ends and a heartbeat at the client's.  A packet is its user.       *)
(***************************************************************************)
EXTENDS Naturals, Sequences, FiniteSets

CONSTANTS
  Peer,    \* users that send packets
  Cap,     \* capacity of the channels
  Wires    \* the numbers of work connections

ASSUME UdpAssumption == Wires \subseteq Nat \ {0} /\ Cap \in Nat

\* A scene: how many packets, work connections and breaks there may be, whether the
\* proxy is stopped, at frps, at frpc or at both, and whether another proxy waits
\* for the port.
UdpScene == [packets: Nat, wires: Nat, breaks: Nat, stops: SUBSET {"frps", "frpc"}, rival: BOOLEAN]
NoUdp == [packets |-> 0, wires |-> 0, breaks |-> 0, stops |-> {}, rival |-> FALSE]

VARIABLES
  udpScene, \* the scene, counted down
  fwd,      \* ForwardUserConn: the packet it holds, or "read", "end", "panic"
  sendCh,   \* frps: packets for the work connection
  pxyS,     \* frps: [open, loop, cur]; the loop "get", "wait" or "end"
  work,     \* work connections: [up, out, in, rd, sd], at frps' end
  cli,      \* frpc: [cur, closed], and whether it was shut, and a connection set up late
  end,      \* frpc's end of a work connection: [in, rd, sd, hb, ch, socks]
  bound,    \* the port: who has it in the port manager
  rival,    \* the other proxy: "none", "waits" or "listens"
  got       \* users that got an answer

srvUdp == <<fwd, sendCh, pxyS>>
udpVars == <<udpScene, srvUdp, work, cli, end, bound, rival, got>>

NoWire == [up |-> FALSE, out |-> <<>>, in |-> <<>>, rd |-> "end", sd |-> "end"]
NoEnd == [in |-> "none", rd |-> "end", sd |-> "end", hb |-> "end", ch |-> "none", socks |-> {}]

UdpInit(s) ==
  /\ udpScene = s /\ fwd = "read" /\ sendCh = <<>>
  /\ pxyS = [open |-> TRUE, loop |-> "get", cur |-> 0]
  /\ work = [c \in Wires |-> NoWire] /\ end = [c \in Wires |-> NoEnd]
  /\ cli = [cur |-> 0, closed |-> FALSE, shut |-> FALSE, late |-> FALSE]
  /\ bound = "proxy" /\ rival = (IF s.rival THEN "waits" ELSE "none") /\ got = {}

live(c) == c # 0 /\ work[c].up

-----------------------------------------------------------------------------
(* frps: the packets of the users.                                         *)

\* ForwardUserConn reads a packet;
ReadUser ==
  /\ fwd = "read" /\ pxyS.open /\ udpScene.packets > 0
  /\ \E p \in Peer : fwd' = p
  /\ udpScene' = [udpScene EXCEPT !.packets = @ - 1]
  /\ UNCHANGED <<sendCh, pxyS, work, cli, end, bound, rival, got>>

\* and sends it to the channel, or drops it when the channel is full.  Into a
\* channel that Close has closed meanwhile it cannot be sent.
PushUser ==
  /\ fwd \in Peer
  /\ fwd' = IF pxyS.open THEN "read" ELSE "panic"
  /\ sendCh' = IF pxyS.open /\ Len(sendCh) < Cap THEN Append(sendCh, fwd) ELSE sendCh
  /\ UNCHANGED <<udpScene, pxyS, work, cli, end, bound, rival, got>>

\* It ends with its socket, and the proxy is closed once more: the port is released
\* again.
FwdEnds ==
  /\ fwd = "read" /\ ~pxyS.open /\ fwd' = "end" /\ bound' = "free"
  /\ UNCHANGED <<udpScene, sendCh, pxyS, work, cli, end, rival, got>>

\* Close, of the control.
CloseUdp ==
  /\ "frps" \in udpScene.stops /\ udpScene' = [udpScene EXCEPT !.stops = @ \ {"frps"}]
  /\ pxyS' = [pxyS EXCEPT !.open = FALSE] /\ bound' = "free"
  /\ work' = IF pxyS.cur = 0 THEN work ELSE [work EXCEPT ![pxyS.cur].up = FALSE]
  /\ UNCHANGED <<fwd, sendCh, cli, end, rival, got>>

\* Another proxy acquires the port when the manager has it and nobody listens.
Rival ==
  /\ rival = "waits" /\ bound = "free" /\ ~pxyS.open /\ rival' = "listens" /\ bound' = "rival"
  /\ UNCHANGED <<udpScene, srvUdp, work, cli, end, got>>

-----------------------------------------------------------------------------
(* frps: the work connection.                                              *)

\* The loop takes a work connection, closes the one before, and starts a reader and
\* a sender; frpc gets StartWorkConn.
GetWork ==
  LET c == pxyS.cur + 1 IN
  /\ pxyS.loop = "get" /\ udpScene.wires >= c
  /\ pxyS' = [pxyS EXCEPT !.loop = "wait", !.cur = c]
  /\ work' = [d \in Wires |->
                IF d = c THEN [NoWire EXCEPT !.up = TRUE, !.rd = "run", !.sd = "run"]
                ELSE IF d = pxyS.cur THEN [work[d] EXCEPT !.up = FALSE] ELSE work[d]]
  /\ end' = [end EXCEPT ![c].in = "start"]
  /\ UNCHANGED <<udpScene, fwd, sendCh, cli, bound, rival, got>>

\* It gets none, and looks whether the proxy is closed.
GetNone ==
  /\ pxyS.loop = "get" /\ ~pxyS.open /\ pxyS' = [pxyS EXCEPT !.loop = "end"]
  /\ UNCHANGED <<udpScene, fwd, sendCh, work, cli, end, bound, rival, got>>

\* Mutant: the sender is not cancelled.
WaitEndsOnly ==
  LET c == pxyS.cur IN
  /\ pxyS.loop = "wait" /\ (work[c].rd = "notify" \/ ~pxyS.open)
  /\ pxyS' = [pxyS EXCEPT !.loop = IF pxyS.open THEN "get" ELSE "end"]
  /\ work' = [work EXCEPT ![c].rd = IF @ = "notify" THEN "end" ELSE @]
  /\ UNCHANGED <<udpScene, fwd, sendCh, cli, end, bound, rival, got>>

\* checkCloseCh: closed, or a reader's word that its connection is gone; the sender
\* is cancelled, which it finds out when it gets there.
WaitEnds ==
  LET c == pxyS.cur IN
  /\ pxyS.loop = "wait" /\ (work[c].rd = "notify" \/ ~pxyS.open)
  /\ pxyS' = [pxyS EXCEPT !.loop = IF pxyS.open THEN "get" ELSE "end"]
  /\ work' = [work EXCEPT ![c].sd = IF @ = "run" THEN "off" ELSE @,
                          ![c].rd = IF @ = "notify" THEN "end" ELSE @]
  /\ UNCHANGED <<udpScene, fwd, sendCh, cli, end, bound, rival, got>>

\* workConnSenderFn: a packet that cannot be written is lost.  With a packet there
\* and the context done, its select takes either.
SendWork(c) ==
  /\ work[c].sd # "end"
  /\ \/ work[c].sd = "off" /\ work' = [work EXCEPT ![c].sd = "end"] /\ sendCh' = sendCh
     \/ ~pxyS.open /\ sendCh = <<>> /\ work' = [work EXCEPT ![c].sd = "end"] /\ sendCh' = sendCh
     \/ /\ sendCh # <<>> /\ sendCh' = Tail(sendCh)
        /\ work' = IF work[c].up THEN [work EXCEPT ![c].out = Append(@, Head(sendCh))]
                   ELSE [work EXCEPT ![c].sd = "end"]
  /\ UNCHANGED <<udpScene, fwd, pxyS, cli, end, bound, rival, got>>

\* workConnReaderFn: an answer goes to its user, unless the proxy is closed; an
\* error closes the connection and tells the loop.
ReadWork(c) ==
  /\ work[c].rd = "run"
  /\ \/ /\ work[c].in # <<>> /\ pxyS.open
        /\ work' = [work EXCEPT ![c].in = Tail(@)] /\ got' = got \cup {Head(work[c].in)}
     \/ /\ work[c].in # <<>> /\ ~pxyS.open /\ got' = got
        /\ work' = [work EXCEPT ![c].up = FALSE, ![c].in = <<>>, ![c].rd = "end"]
     \/ /\ work[c].in = <<>> /\ ~work[c].up /\ got' = got
        /\ work' = [work EXCEPT ![c].rd = IF pxyS.open THEN "notify" ELSE "end"]
  /\ UNCHANGED <<udpScene, srvUdp, cli, end, bound, rival>>

\* No heartbeat within 60 seconds: the reader closes a connection that still stands.
ReadTimeout(c) ==
  /\ work[c].rd = "run" /\ work[c].up /\ work[c].in = <<>> /\ udpScene.breaks > 0
  /\ udpScene' = [udpScene EXCEPT !.breaks = @ - 1]
  /\ work' = [work EXCEPT ![c].up = FALSE, ![c].rd = IF pxyS.open THEN "notify" ELSE "end"]
  /\ UNCHANGED <<srvUdp, cli, end, bound, rival, got>>

\* A proxy that is closed while its reader tells the loop.
NotifyFails(c) ==
  /\ work[c].rd = "notify" /\ ~pxyS.open /\ work' = [work EXCEPT ![c].rd = "end"]
  /\ UNCHANGED <<udpScene, srvUdp, cli, end, bound, rival, got>>

\* The network.
BreakWire(c) ==
  /\ work[c].up /\ udpScene.breaks > 0 /\ udpScene' = [udpScene EXCEPT !.breaks = @ - 1]
  /\ work' = [work EXCEPT ![c].up = FALSE]
  /\ UNCHANGED <<srvUdp, cli, end, bound, rival, got>>

-----------------------------------------------------------------------------
(* frpc.                                                                   *)

\* Close at frpc: the connection and the channels of the moment.
closeOf(c) == IF c = 0 THEN end ELSE [end EXCEPT ![c].ch = IF @ = "open" THEN "closed" ELSE @]
cutOf(c) == IF c = 0 THEN work ELSE [work EXCEPT ![c].up = FALSE]

\* InWorkConn: first what belongs to the old connection is closed,
InWorkConn(c) ==
  /\ end[c].in = "start"
  /\ IF cli.closed THEN end' = [end EXCEPT ![c].in = "set"] /\ UNCHANGED <<work, cli>>
     ELSE /\ end' = [closeOf(cli.cur) EXCEPT ![c].in = "set"] /\ work' = cutOf(cli.cur)
          /\ cli' = [cli EXCEPT !.closed = TRUE]
  /\ UNCHANGED <<udpScene, srvUdp, bound, rival, got>>

\* then the new one is set up, whether or not the proxy has been closed meanwhile.
SetWorkConn(c) ==
  /\ end[c].in = "set"
  /\ end' = [end EXCEPT ![c] = [in |-> "done", rd |-> "run", sd |-> "run", hb |-> "run",
                                ch |-> "open", socks |-> {}]]
  /\ cli' = [cli EXCEPT !.cur = c, !.closed = FALSE,
               !.late = @ \/ cli.shut \/ ~cli.closed \/ cli.cur > c]
  /\ UNCHANGED <<udpScene, srvUdp, work, bound, rival, got>>

\* The proxy is closed at frpc.
CloseClientUdp ==
  /\ "frpc" \in udpScene.stops /\ udpScene' = [udpScene EXCEPT !.stops = @ \ {"frpc"}]
  /\ cli' = [cli EXCEPT !.closed = TRUE, !.shut = TRUE]
  /\ IF cli.closed THEN UNCHANGED <<end, work>>
     ELSE end' = closeOf(cli.cur) /\ work' = cutOf(cli.cur)
  /\ UNCHANGED <<srvUdp, bound, rival, got>>

\* The reader takes a packet to the socket of its user, and ends with the connection
\* or the channel.
ClientReads(c) ==
  /\ end[c].rd = "run"
  /\ \/ /\ work[c].out # <<>> /\ work' = [work EXCEPT ![c].out = Tail(@)]
        /\ end' = IF end[c].ch = "open"
                  THEN [end EXCEPT ![c].socks = @ \cup {Head(work[c].out)}]
                  ELSE [end EXCEPT ![c].rd = "end"]
     \/ work[c].out = <<>> /\ ~work[c].up /\ end' = [end EXCEPT ![c].rd = "end"] /\ work' = work
  /\ UNCHANGED <<udpScene, srvUdp, cli, bound, rival, got>>

\* The local service answers: writerFn gives the answer to the sender, which writes
\* it while it can.
ClientAnswers(c) ==
  \E p \in end[c].socks :
  /\ end' = [end EXCEPT ![c].socks = @ \ {p}]
  /\ work' = IF end[c].sd = "run" /\ end[c].ch = "open" /\ work[c].up /\ Len(work[c].in) < Cap
             THEN [work EXCEPT ![c].in = Append(@, p)] ELSE work
  /\ UNCHANGED <<udpScene, srvUdp, cli, bound, rival, got>>

\* The sender ends when it cannot write the heartbeat, or with the channel; the
\* heartbeat ends with the channel only.
ClientSenderEnds(c) ==
  /\ end[c].sd = "run" /\ (~work[c].up \/ end[c].ch = "closed")
  /\ end' = [end EXCEPT ![c].sd = "end"]
  /\ UNCHANGED <<udpScene, srvUdp, work, cli, bound, rival, got>>

HeartbeatEnds(c) ==
  /\ end[c].hb = "run" /\ end[c].ch = "closed" /\ end' = [end EXCEPT ![c].hb = "end"]
  /\ UNCHANGED <<udpScene, srvUdp, work, cli, bound, rival, got>>

UdpStep ==
  \/ PushUser \/ FwdEnds \/ GetWork \/ GetNone \/ WaitEnds
  \/ \E c \in Wires : \/ SendWork(c) \/ ReadWork(c) \/ NotifyFails(c)
                      \/ InWorkConn(c) \/ SetWorkConn(c) \/ ClientReads(c) \/ ClientAnswers(c)
                      \/ ClientSenderEnds(c) \/ HeartbeatEnds(c)
UdpNext == UdpStep \/ ReadUser \/ CloseUdp \/ Rival \/ CloseClientUdp
           \/ \E c \in Wires : BreakWire(c) \/ ReadTimeout(c)

\* The goroutines go on; none waits for another one for ever.
UdpFair == WF_udpVars(UdpStep)

-----------------------------------------------------------------------------
(* Properties.                                                             *)

\* Type invariant of the proxy at both ends.
UdpTypeOK ==
  /\ udpScene \in UdpScene /\ fwd \in Peer \cup {"read", "end", "panic"}
  /\ sendCh \in Seq(Peer) /\ Len(sendCh) <= Cap
  /\ pxyS \in [open: BOOLEAN, loop: {"get", "wait", "end"}, cur: Wires \cup {0}]
  /\ \A c \in Wires : /\ work[c].rd \in {"run", "notify", "end"} /\ work[c].sd \in {"run", "off", "end"}
                      /\ end[c].ch \in {"none", "open", "closed"} /\ end[c].socks \subseteq Peer
  /\ cli.cur \in Wires \cup {0} /\ bound \in {"free", "proxy", "rival"} /\ got \subseteq Peer

\* "there are always only one workConn at the same time" (UDPProxy): at frps' end at
\* most one is open, and only one has a sender that is not cancelled.  A cancelled one
\* may still take packets from the channel, but its connection is closed, so that it
\* ends with the first; only the last one of a closed proxy may still be open.
OneWorkConn ==
  \A c \in Wires :
    /\ \A d \in Wires \ {c} : /\ live(c) => ~live(d) /\ work[d].rd # "run"
                              /\ work[c].sd = "run" => work[d].sd # "run"
    /\ work[c].sd = "off" => ~work[c].up \/ (c = pxyS.cur /\ ~pxyS.open)

\* A broken work connection is replaced, and both ends come to use the same one,
\* unless the proxy was closed or no work connection is left.
UdpRecovers ==
  <>[](\/ ~pxyS.open \/ cli.late \/ udpScene.stops # {} \/ pxyS.cur = udpScene.wires
       \/ pxyS.loop = "wait" /\ live(pxyS.cur) /\ cli.cur = pxyS.cur /\ end[cli.cur].rd = "run")

\* After the proxy is closed at frpc its goroutines end, those of the connections
\* that were replaced as well, and after it is closed at both ends its connections
\* are closed: but for one that frpc set up after it had been closed.
UdpFreed ==
  <>[](cli.shut /\ ~cli.late =>
         \A c \in Wires : /\ end[c].rd = "end" /\ end[c].sd = "end" /\ end[c].hb = "end"
                          /\ ~pxyS.open => /\ work[c].rd = "end" /\ work[c].sd = "end"
                                           /\ ~live(c))

\* One work connection carries the packets.
UdpSound == UdpTypeOK /\ OneWorkConn

\* A broken work connection is replaced, a closed proxy leaves nothing behind.
UdpSettles == UdpRecovers /\ UdpFreed
=============================================================================

------------------------------ MODULE NpsLinks ------------------------------
(***************************************************************************)
(* The connections of users through a running NPS tunnel:                  *)
(* server/proxy/tcp.go, base.go and udp.go, bridge.SendLinkInfo, the       *)
(* opening and closing of connections of nps_mux/mux.go, client.handleChan *)
(* of npc, and goroutine/pool.go, which copies the bytes.                  *)
(*                                                                         *)
(* A holder is a goroutine of nps that may hold a stream to npc and a unit *)
(* of the client's quota NowConn: one for each user's tcp connection, and  *)
(* one for each udp packet, of which the first from an address builds the  *)
(* session that the others use.  A session is named by its builder.        *)
(*                                                                         *)
(* The two ends of the mux are A at nps and B at npc.  The bytes on a      *)
(* stream are the subject of module MuxWindow; here a stream is opened,    *)
(* carries the link's description, and is closed.                          *)
(***************************************************************************)
EXTENDS Naturals, FiniteSets

CONSTANTS
  User,     \* connections to a tcp tunnel
  Pkt,      \* packets to a udp tunnel
  Addr,     \* where they come from
  AddrOf,   \* [Pkt -> Addr]
  None,
  Setups    \* the scenes considered, see Setup

\* Who comes, MaxConn of the client (0 is no limit), whether its flow has a
\* limit, how often the mux fails, and whether the udp tunnel is closed.
Setup == [who: SUBSET (User \cup Pkt), maxConn: Nat, limit: BOOLEAN, cuts: Nat,
          close: BOOLEAN]

ASSUME LinksAssumption ==
  /\ User \cap Pkt = {} /\ None \notin User \cup Pkt
  /\ AddrOf \in [Pkt -> Addr] /\ Setups \subseteq Setup

Holder == User \cup Pkt

VARIABLES
  use, cuts,   \* the scene, and how often the mux was cut
  pc,          \* a holder: see LinksTypeOK
  now, over,   \* Client.NowConn, and whether the flow is over its limit
  up, stuck,   \* the mux is open; the holder that its read loop at A waits for
  wire,        \* muxNewConn or muxNewConnOk of a stream under way
  aconn,       \* the stream at A: none, set (in connMap), closed
  sent,        \* the streams whose link description was sent
  link,        \* handleChan at B: none, accepted, copy, closed
  eof,         \* the streams whose muxConnClose has come to A
  gone,        \* the users whose connection is closed
  dirs,        \* the directions that are being copied
  addrMap,     \* UdpModeServer.addrMap
  ready,       \* a session: none, building, ok, failed
  ses,         \* the session a packet is dispatched to or a builder removes
  sw,          \* the sweeper, or Close: [at, ses]
  shut         \* closeCh is closed

muxVars  == <<up, stuck, wire, aconn, sent, link, eof>>
tcpVars  == <<gone, dirs>>
udpVars  == <<addrMap, ready, ses, sw, shut>>
vars == <<use, cuts, pc, now, over, muxVars, tcpVars, udpVars>>

Idle == [at |-> "idle", ses |-> None]

Init ==
  /\ use \in Setups /\ cuts = 0 /\ now = 0 /\ over = FALSE
  /\ pc = [h \in Holder |-> "none"]
  /\ up = TRUE /\ stuck = None /\ sent = {} /\ eof = {} /\ gone = {}
  /\ wire = [h \in Holder |-> "none"] /\ aconn = [h \in Holder |-> "none"]
  /\ link = [h \in Holder |-> "none"] /\ dirs = [u \in User |-> {}]
  /\ addrMap = [a \in Addr |-> None] /\ ready = [p \in Pkt |-> "none"]
  /\ ses = [p \in Pkt |-> None] /\ sw = Idle /\ shut = FALSE

Goto(h, at) == pc' = [pc EXCEPT ![h] = at]

-----------------------------------------------------------------------------
(* The quota, the same for both kinds of holder.                           *)

\* failBuild: the session's waiters are woken, its address is free again.
failBuild(p) == /\ ready' = [ready EXCEPT ![p] = "failed"]
                /\ addrMap' = [addrMap EXCEPT ![AddrOf[p]] = None]

\* What a holder does when it gets no stream.
Refused(h) == IF h \in Pkt THEN failBuild(h) /\ gone' = gone
              ELSE gone' = gone \cup {h} /\ UNCHANGED <<addrMap, ready>>

\* CheckFlowAndConnNum, and GetConn to where it has compared.
CheckFlowAndConnNum(h) ==
  /\ pc[h] = "check"
  /\ \/ /\ ~over /\ (use.maxConn = 0 \/ now < use.maxConn)
        /\ Goto(h, "cut") /\ UNCHANGED <<gone, addrMap, ready>>
     \/ /\ over \/ (use.maxConn # 0 /\ now >= use.maxConn)
        /\ Goto(h, "done") /\ Refused(h)
  /\ UNCHANGED <<use, cuts, now, over, muxVars, dirs, ses, sw, shut>>

\* GetConn: the unit is taken.
CutConn(h) ==
  /\ pc[h] = "cut" /\ now' = now + 1 /\ Goto(h, "dial")
  /\ UNCHANGED <<use, cuts, over, muxVars, tcpVars, udpVars>>

AddConn(h) ==
  /\ pc[h] = "end" /\ now' = now - 1 /\ Goto(h, "done")
  /\ UNCHANGED <<use, cuts, over, muxVars, tcpVars, udpVars>>

-----------------------------------------------------------------------------
(* Streams.                                                                *)

\* SendLinkInfo, to where Mux.NewConn has asked for a stream; without a mux it
\* fails at once.
SendLinkInfo(h) ==
  /\ pc[h] = "dial"
  /\ IF up THEN /\ wire' = [wire EXCEPT ![h] = "new"] /\ Goto(h, "open")
                /\ aconn' = [aconn EXCEPT ![h] = "set"]
                /\ UNCHANGED <<gone, addrMap, ready>>
           ELSE Goto(h, "end") /\ Refused(h) /\ UNCHANGED <<wire, aconn>>
  /\ UNCHANGED <<use, cuts, now, over, up, stuck, sent, link, eof, dirs, ses, sw,
                 shut>>

\* readSession at B: the stream is accepted and answered; handleChan starts.
AcceptConn(h) ==
  /\ up /\ wire[h] = "new" /\ wire' = [wire EXCEPT ![h] = "ok"]
  /\ link' = [link EXCEPT ![h] = "accepted"]
  /\ UNCHANGED <<use, cuts, pc, now, over, up, stuck, aconn, sent, eof, tcpVars,
                 udpVars>>

\* readSession at A, muxNewConnOk: given to NewConn, after which SendLinkInfo
\* sends the description; a caller that no longer waits holds the loop up.
NewConnOk(h) ==
  /\ up /\ stuck = None /\ wire[h] = "ok" /\ wire' = [wire EXCEPT ![h] = "none"]
  /\ IF pc[h] = "open"
     THEN /\ Goto(h, "copy") /\ sent' = sent \cup {h} /\ stuck' = None
          /\ IF h \in User
             THEN dirs' = [dirs EXCEPT ![h] = {"in", "out"}] /\ ready' = ready
             ELSE ready' = [ready EXCEPT ![h] = "ok"] /\ dirs' = dirs
     ELSE stuck' = h /\ UNCHANGED <<pc, sent, dirs, ready>>
  /\ UNCHANGED <<use, cuts, now, over, up, aconn, link, eof, gone, addrMap, ses,
                 sw, shut>>

\* Mutant: the unit is kept.
NewConnLeaks(h) ==
  /\ pc[h] = "open" /\ Goto(h, "done") /\ Refused(h)
  /\ UNCHANGED <<use, cuts, now, over, muxVars, dirs, ses, sw, shut>>

\* NewConn waits two minutes; the stream stays in the map.
NewConnTimeout(h) ==
  /\ pc[h] = "open" /\ Goto(h, "end") /\ Refused(h)
  /\ UNCHANGED <<use, cuts, now, over, muxVars, dirs, ses, sw, shut>>

\* conn.Close at A.
CloseConn(h) == aconn' = [aconn EXCEPT ![h] = IF @ = "set" THEN "closed" ELSE @]

\* handleChan: the description is read and the target dialled, or not reached;
\* and the end of the copy, when the target closes.
handleChan(h) ==
  /\ \/ /\ link[h] = "accepted" /\ h \in sent
        /\ \E r \in {"copy", "closed"} : link' = [link EXCEPT ![h] = r]
     \/ link[h] = "copy" /\ link' = [link EXCEPT ![h] = "closed"]
  /\ UNCHANGED <<use, cuts, pc, now, over, up, stuck, wire, aconn, sent, eof,
                 tcpVars, udpVars>>

\* muxConnClose at B, and at A.
CloseAtB(h) ==
  /\ up /\ aconn[h] = "closed" /\ link[h] \in {"accepted", "copy"}
  /\ link' = [link EXCEPT ![h] = "closed"]
  /\ UNCHANGED <<use, cuts, pc, now, over, up, stuck, wire, aconn, sent, eof,
                 tcpVars, udpVars>>
CloseAtA(h) ==
  /\ up /\ stuck = None /\ link[h] = "closed" /\ aconn[h] = "set"
  /\ h \notin eof /\ eof' = eof \cup {h}
  /\ UNCHANGED <<use, cuts, pc, now, over, up, stuck, wire, aconn, sent, link,
                 tcpVars, udpVars>>

\* Mux.Close at both ends: every stream is closed.
MuxClose ==
  /\ up' = FALSE /\ stuck' = None /\ wire' = [h \in Holder |-> "none"]
  /\ aconn' = [h \in Holder |-> IF aconn[h] = "set" THEN "closed" ELSE aconn[h]]
  /\ link' = [h \in Holder |-> IF link[h] = "none" THEN "none" ELSE "closed"]
  /\ UNCHANGED <<use, pc, now, over, sent, eof, tcpVars, udpVars>>

\* The connection under the mux fails.
Cut == up /\ cuts < use.cuts /\ cuts' = cuts + 1 /\ MuxClose

\* Mux.ping: a read loop that is held up reads no muxPingReturn either.
ping == up /\ stuck # None /\ cuts' = cuts /\ MuxClose

\* npc comes back.
Reconnect ==
  /\ ~up /\ up' = TRUE
  /\ UNCHANGED <<use, cuts, pc, now, over, stuck, wire, aconn, sent, link, eof,
                 tcpVars, udpVars>>

-----------------------------------------------------------------------------
(* Users of the tcp tunnel.                                                *)

Connect(u) ==
  /\ pc[u] = "none" /\ u \in use.who /\ Goto(u, "check")
  /\ UNCHANGED <<use, cuts, now, over, muxVars, tcpVars, udpVars>>

Leave(u) ==
  /\ pc[u] \notin {"none", "done"} /\ u \notin gone /\ gone' = gone \cup {u}
  /\ UNCHANGED <<use, cuts, pc, now, over, muxVars, dirs, udpVars>>

\* copyConnGroup: reading fails, and both connections are closed.
copyErr(u, d) ==
  /\ d \in dirs[u]
  /\ \/ d = "in" /\ u \in gone
     \/ d = "out" /\ (u \in eof \/ aconn[u] = "closed")
  /\ dirs' = [dirs EXCEPT ![u] = @ \ {d}] /\ gone' = gone \cup {u}
  /\ CloseConn(u)
  /\ UNCHANGED <<use, cuts, pc, now, over, up, stuck, wire, sent, link, eof,
                 udpVars>>

\* CopyBuffer: bytes are counted; over the limit the loop ends without an error,
\* and nothing is closed.
FlowAdd(u, d) ==
  /\ use.limit /\ d \in dirs[u] /\ aconn[u] = "set" /\ u \notin gone
  /\ over' = TRUE /\ dirs' = [dirs EXCEPT ![u] = @ \ {d}]
  /\ UNCHANGED <<use, cuts, pc, now, muxVars, gone, udpVars>>

\* ... and writing fails, which takes bytes to write.
writeErr(u, d) ==
  /\ d \in dirs[u]
  /\ (d = "in" /\ aconn[u] = "closed") \/ (d = "out" /\ u \in gone)
  /\ dirs' = [dirs EXCEPT ![u] = @ \ {d}] /\ gone' = gone \cup {u}
  /\ CloseConn(u)
  /\ UNCHANGED <<use, cuts, pc, now, over, up, stuck, wire, sent, link, eof,
                 udpVars>>

\* copyConns: both directions have ended.
copied(u) ==
  /\ pc[u] = "copy" /\ u \in User /\ dirs[u] = {} /\ Goto(u, "end")
  /\ UNCHANGED <<use, cuts, now, over, muxVars, tcpVars, udpVars>>

-----------------------------------------------------------------------------
(* Packets of the udp tunnel.                                              *)

\* The fast path of process.
process(p) ==
  LET s == addrMap[AddrOf[p]] IN
  /\ pc[p] = "none" /\ p \in use.who
  /\ Goto(p, IF s = None THEN "place" ELSE "wait")
  /\ ses' = [ses EXCEPT ![p] = s]
  /\ UNCHANGED <<use, cuts, now, over, muxVars, tcpVars, addrMap, ready, sw, shut>>

\* LoadOrStore: the winner builds the session.
LoadOrStore(p) ==
  LET s == addrMap[AddrOf[p]] IN
  /\ pc[p] = "place"
  /\ IF s = None
     THEN /\ addrMap' = [addrMap EXCEPT ![AddrOf[p]] = p] /\ Goto(p, "check")
          /\ ready' = [ready EXCEPT ![p] = "building"]
          /\ ses' = [ses EXCEPT ![p] = p]
     ELSE /\ ses' = [ses EXCEPT ![p] = s] /\ Goto(p, "wait")
          /\ UNCHANGED <<addrMap, ready>>
  /\ UNCHANGED <<use, cuts, now, over, muxVars, tcpVars, sw, shut>>

\* dispatch: the packet is written, or dropped when the session is not built or
\* not in time; a write that fails removes the session.
dispatch(p) ==
  LET s == ses[p] IN
  /\ pc[p] = "wait"
  /\ \/ ready[s] = "ok" /\ Goto(p, IF aconn[s] = "set" THEN "done" ELSE "load")
     \/ (ready[s] # "ok" \/ shut) /\ Goto(p, "done")
  /\ UNCHANGED <<use, cuts, now, over, muxVars, tcpVars, udpVars>>

\* runSession: the read loop ends, with the stream or at its deadline.
runSessionEnds(p) ==
  /\ pc[p] = "copy" /\ p \in Pkt /\ Goto(p, "load")
  /\ UNCHANGED <<use, cuts, now, over, muxVars, tcpVars, udpVars>>

\* removeSession, by the builder or a packet: the map is looked at, the address
\* deleted, the stream closed.
removeLoad(p) ==
  /\ pc[p] = "load"
  /\ Goto(p, IF addrMap[AddrOf[p]] = ses[p] THEN "delete" ELSE "close")
  /\ UNCHANGED <<use, cuts, now, over, muxVars, tcpVars, udpVars>>
removeDelete(p) ==
  /\ pc[p] = "delete" /\ Goto(p, "close")
  /\ addrMap' = [addrMap EXCEPT ![AddrOf[p]] = None]
  /\ UNCHANGED <<use, cuts, now, over, muxVars, tcpVars, ready, ses, sw, shut>>
\* Mutant: the stream is left open.
removeOnly(p) ==
  /\ pc[p] = "close" /\ Goto(p, IF ses[p] = p THEN "end" ELSE "done")
  /\ UNCHANGED <<use, cuts, now, over, muxVars, tcpVars, udpVars>>

\* Only the builder has a unit of the quota to give back.
removeClose(p) ==
  /\ pc[p] = "close" /\ CloseConn(ses[p])
  /\ Goto(p, IF ses[p] = p THEN "end" ELSE "done")
  /\ UNCHANGED <<use, cuts, now, over, up, stuck, wire, sent, link, eof, tcpVars,
                 udpVars>>

\* sweeper: an idle session that is built; Close: any session.
sweeper(a) ==
  LET s == addrMap[a] IN
  /\ sw.at = "idle" /\ s # None /\ (shut \/ ready[s] = "ok")
  /\ sw' = [at |-> "delete", ses |-> s]
  /\ UNCHANGED <<use, cuts, pc, now, over, muxVars, tcpVars, addrMap, ready, ses,
                 shut>>
sweepDelete ==
  /\ sw.at = "delete" /\ sw' = [sw EXCEPT !.at = "close"]
  /\ addrMap' = [addrMap EXCEPT ![AddrOf[sw.ses]] = None]
  /\ UNCHANGED <<use, cuts, pc, now, over, muxVars, tcpVars, ready, ses, shut>>
\* A session that is being built has no stream yet to close.
sweepClose ==
  /\ sw.at = "close" /\ sw' = Idle
  /\ IF ready[sw.ses] = "ok" THEN CloseConn(sw.ses) ELSE aconn' = aconn
  /\ UNCHANGED <<use, cuts, pc, now, over, up, stuck, wire, sent, link, eof,
                 tcpVars, addrMap, ready, ses, shut>>

Close ==
  /\ use.close /\ ~shut /\ shut' = TRUE
  /\ UNCHANGED <<use, cuts, pc, now, over, muxVars, tcpVars, addrMap, ready, ses,
                 sw>>

-----------------------------------------------------------------------------
\* What nps, npc and their mux do by themselves.
Hold(h) == \/ CheckFlowAndConnNum(h) \/ CutConn(h) \/ AddConn(h)
           \/ SendLinkInfo(h) \/ NewConnOk(h) \/ CloseAtA(h) \/ CloseAtB(h)
           \/ AcceptConn(h) \/ NewConnTimeout(h)
Copy(u) == (\E d \in {"in", "out"} : copyErr(u, d)) \/ copied(u)
Session(p) == \/ LoadOrStore(p) \/ dispatch(p) \/ removeLoad(p)
              \/ removeDelete(p) \/ removeClose(p) \/ runSessionEnds(p)

Next ==
  \/ \E h \in Holder : Hold(h) \/ handleChan(h)
  \/ Cut \/ ping \/ Reconnect
  \/ \E u \in User : Connect(u) \/ Leave(u) \/ Copy(u)
                     \/ \E d \in {"in", "out"} : FlowAdd(u, d) \/ writeErr(u, d)
  \/ \E p \in Pkt : process(p) \/ Session(p)
  \/ \E a \in Addr : sweeper(a)
  \/ sweepDelete \/ sweepClose \/ Close

Spec == Init /\ [][Next]_vars

\* Every goroutine of the two programs runs on and the mux delivers; targets,
\* users and the sweeper's clock do as they like.  No behaviour has infinitely
\* many steps, so that one condition for all is as good as one for each.
LinksRun == \/ ping \/ sweepDelete \/ sweepClose
            \/ \E h \in Holder : Hold(h)
            \/ \E u \in User : Copy(u)
            \/ \E p \in Pkt : Session(p)
LinksFair == WF_vars(LinksRun)

-----------------------------------------------------------------------------
(* Properties.                                                             *)

LinksTypeOK ==
  /\ pc \in [Holder -> {"none", "check", "cut", "dial", "open", "copy", "end",
                        "done", "place", "wait", "load", "delete", "close"}]
  /\ now \in Nat /\ over \in BOOLEAN /\ up \in BOOLEAN /\ shut \in BOOLEAN
  /\ stuck \in Holder \cup {None} /\ wire \in [Holder -> {"none", "new", "ok"}]
  /\ aconn \in [Holder -> {"none", "set", "closed"}]
  /\ link \in [Holder -> {"none", "accepted", "copy", "closed"}]
  /\ sent \subseteq Holder /\ eof \subseteq Holder /\ gone \subseteq User
  /\ dirs \in [User -> SUBSET {"in", "out"}] /\ addrMap \in [Addr -> Pkt \cup {None}]
  /\ ready \in [Pkt -> {"none", "building", "ok", "failed"}]
  /\ ses \in [Pkt -> Pkt \cup {None}]
  /\ sw \in [at: {"idle", "delete", "close"}, ses: Pkt \cup {None}]

\* The holders of a unit of the quota.
Counted == {h \in Holder :
  \/ pc[h] \in {"dial", "open", "copy", "end"}
  \/ h \in Pkt /\ pc[h] \in {"load", "delete", "close"} /\ ses[h] = h}

\* udp.go:33, "no leak of the quota NowConn in the race window": whoever wins or
\* loses, fails or times out, NowConn is the number of connections there are.
QuotaExact == now = Cardinality(Counted)

\* A session whose builder has ended is not in the map, where it would swallow
\* the packets of its address for ever.
SessionsLive == \A a \in Addr : addrMap[a] # None => pc[addrMap[a]] # "done"

\* A stream that is closed, from either side or with the mux, or a user who has
\* left, ends the connection and gives its unit back.  A flow over its limit is
\* the exception: it ends one direction and closes nothing.
ConnectionsEnded == \A h \in Holder :
  aconn[h] = "closed" \/ h \in gone => pc[h] = "done" \/ over

\* npc is not left with a connection nobody holds: nps closes the stream, or, if
\* it gave up waiting for it, the mux.  (Not over the limit: CopyBuffer ends
\* without an error, and the stream stays open.)
NoOrphan == \A h \in Holder :
  link[h] \in {"accepted", "copy"} /\ pc[h] = "done" => over

\* The read loop, held up by a late muxNewConnOk, is freed.
LoopFreed == stuck = None

\* Quota and sessions are those of the connections there are.
LinksSound == LinksTypeOK /\ QuotaExact /\ SessionsLive
=============================================================================

--------------------------- MODULE NpsLinksProofs ---------------------------
(***************************************************************************)
(* Proofs about the connections of users through nps: for any number of    *)
(* tcp connections, udp packets and their addresses, any quota and any     *)
(* failures of the mux (NpsLinks).                                         *)
(***************************************************************************)
EXTENDS MCNpsLinks, FiniteSetTheorems, TLAPS

-----------------------------------------------------------------------------
(* NpsLinks: the quota and the sessions.                                   *)

\* Where the builder of a session is as long as the map may lead to it.
Building == {"check", "cut", "dial", "open", "copy", "load", "delete"}

\* What the map leads to is a session whose builder is not past removing it.
Mapped == \A x \in Addr : addrMap[x] # None =>
  /\ AddrOf[addrMap[x]] = x /\ ses[addrMap[x]] = addrMap[x]
  /\ pc[addrMap[x]] \in Building

\* A builder is in its own session, a packet that waits in another one's.
Builders == \A p \in Pkt :
  /\ pc[p] \in {"check", "cut", "dial", "open", "copy", "end"} => ses[p] = p
  /\ pc[p] = "wait" => ses[p] # p

\* The quota, the map and the builders together are inductive.
LinksInv == /\ LinksTypeOK /\ Mapped /\ Builders
            /\ IsFiniteSet(Counted) /\ QuotaExact

\* The map never leads to a builder that has ended.
LEMMA LinksInvSound == LinksInv => LinksSound
BY DEF LinksInv, LinksSound, Mapped, SessionsLive, Building

\* At first nobody holds anything.
LEMMA LinksInvInit == Init => LinksInv
<1> SUFFICES ASSUME Init PROVE LinksInv
  OBVIOUS
<1>1. LinksTypeOK /\ Mapped /\ Builders
  BY LinksAssumption DEF Init, Idle, LinksTypeOK, Mapped, Builders, Holder
<1>2. Counted = {}
  BY DEF Init, Counted, Holder
<1>3. IsFiniteSet(Counted) /\ QuotaExact
  BY <1>2, FS_EmptySet DEF Init, QuotaExact
<1> QED BY <1>1, <1>3 DEF LinksInv

\* The types of a step, whatever it is.
LEMMA LinksTypeStep ==
  ASSUME LinksInv, Next
  PROVE  LinksTypeOK'
<1> USE LinksAssumption DEF Holder
<1> USE DEF LinksInv, LinksTypeOK, muxVars, tcpVars, udpVars, Goto, CloseConn
<1>1. ASSUME NEW h \in Holder, CheckFlowAndConnNum(h) PROVE LinksTypeOK'
  BY <1>1 DEF CheckFlowAndConnNum, Refused, failBuild
<1>2. ASSUME NEW h \in Holder, CutConn(h) PROVE LinksTypeOK'
  BY <1>2 DEF CutConn
<1>3. ASSUME NEW h \in Holder, AddConn(h) PROVE LinksTypeOK'
  <2>1. h \in Counted
    BY <1>3 DEF AddConn, Counted
  <2>2. now # 0
    BY <2>1, FS_EmptySet DEF QuotaExact
  <2> QED BY <1>3, <2>2 DEF AddConn
<1>4. ASSUME NEW h \in Holder, SendLinkInfo(h) PROVE LinksTypeOK'
  BY <1>4 DEF SendLinkInfo, Refused, failBuild
<1>5. ASSUME NEW h \in Holder, AcceptConn(h) \/ CloseAtA(h) \/ CloseAtB(h) \/ handleChan(h)
      PROVE LinksTypeOK'
  BY <1>5 DEF AcceptConn, CloseAtA, CloseAtB, handleChan
<1>6. ASSUME NEW h \in Holder, NewConnOk(h) PROVE LinksTypeOK'
  BY <1>6 DEF NewConnOk
<1>7. ASSUME NEW h \in Holder, NewConnTimeout(h) PROVE LinksTypeOK'
  BY <1>7 DEF NewConnTimeout, Refused, failBuild
<1>8. ASSUME Cut \/ ping \/ Reconnect PROVE LinksTypeOK'
  <2>1. ASSUME MuxClose PROVE LinksTypeOK'
    BY <2>1 DEF MuxClose
  <2> QED BY <1>8, <2>1 DEF Cut, ping, Reconnect
<1>9. ASSUME NEW u \in User, Connect(u) \/ Leave(u) \/ copied(u) PROVE LinksTypeOK'
  BY <1>9 DEF Connect, Leave, copied
<1>10. ASSUME NEW u \in User, NEW d \in {"in", "out"},
              copyErr(u, d) \/ FlowAdd(u, d) \/ writeErr(u, d)
       PROVE LinksTypeOK'
  <2>1. dirs[u] \ {d} \in SUBSET {"in", "out"}
    OBVIOUS
  <2>2. dirs' \in [User -> SUBSET {"in", "out"}]
    BY <1>10, <2>1 DEF copyErr, FlowAdd, writeErr
  <2>3. aconn' \in [Holder -> {"none", "set", "closed"}]
    BY <1>10 DEF copyErr, FlowAdd, writeErr
  <2>4. gone' \subseteq User /\ over' \in BOOLEAN
    BY <1>10 DEF copyErr, FlowAdd, writeErr
  <2>5. UNCHANGED <<pc, now, up, shut, stuck, wire, link, sent, eof, addrMap, ready, ses, sw>>
    BY <1>10 DEF copyErr, FlowAdd, writeErr
  <2> QED BY <2>2, <2>3, <2>4, <2>5
<1>11. ASSUME NEW p \in Pkt, process(p) \/ LoadOrStore(p) \/ dispatch(p)
       PROVE LinksTypeOK'
  BY <1>11 DEF process, LoadOrStore, dispatch
<1>12. ASSUME NEW p \in Pkt, \/ removeLoad(p) \/ removeDelete(p) \/ removeClose(p)
                             \/ runSessionEnds(p)
       PROVE LinksTypeOK'
  BY <1>12 DEF removeLoad, removeDelete, removeClose, runSessionEnds
<1>13. ASSUME \/ \E x \in Addr : sweeper(x)
              \/ sweepDelete \/ sweepClose \/ Close
       PROVE LinksTypeOK'
  <2>1. ASSUME NEW x \in Addr, sweeper(x) PROVE LinksTypeOK'
    BY <2>1 DEF sweeper
  <2>2. CASE sweepDelete
    BY <2>2 DEF sweepDelete
  <2>3. CASE sweepClose
    BY <2>3 DEF sweepClose, Idle
  <2>4. CASE Close
    BY <2>4 DEF Close
  <2> QED BY <1>13, <2>1, <2>2, <2>3, <2>4
<1> QED
  BY <1>1, <1>2, <1>3, <1>4, <1>5, <1>6, <1>7, <1>8, <1>9, <1>10, <1>11, <1>12, <1>13
  DEF Next, Hold, Copy, Session

\* No step leads the map to a builder that is past removing it.
LEMMA LinksMapStep ==
  ASSUME LinksInv, Next
  PROVE  Mapped' /\ Builders'
<1> USE LinksAssumption DEF Holder
<1> USE DEF LinksInv, LinksTypeOK, muxVars, tcpVars, udpVars, Goto, Mapped, Builders,
            Building
<1>1. ASSUME NEW h \in Holder, CheckFlowAndConnNum(h) PROVE Mapped' /\ Builders'
  BY <1>1 DEF CheckFlowAndConnNum, Refused, failBuild
<1>2. ASSUME NEW h \in Holder, CutConn(h) \/ AddConn(h) PROVE Mapped' /\ Builders'
  BY <1>2 DEF CutConn, AddConn
<1>3. ASSUME NEW h \in Holder, SendLinkInfo(h) \/ NewConnTimeout(h)
      PROVE Mapped' /\ Builders'
  BY <1>3 DEF SendLinkInfo, NewConnTimeout, Refused, failBuild
<1>4. ASSUME NEW h \in Holder, NewConnOk(h) PROVE Mapped' /\ Builders'
  BY <1>4 DEF NewConnOk
<1>5. ASSUME NEW u \in User, Connect(u) \/ copied(u) PROVE Mapped' /\ Builders'
  BY <1>5 DEF Connect, copied
<1>6. ASSUME NEW p \in Pkt, process(p) \/ LoadOrStore(p) PROVE Mapped' /\ Builders'
  BY <1>6 DEF process, LoadOrStore
<1>7. ASSUME NEW p \in Pkt, dispatch(p) \/ removeLoad(p) \/ runSessionEnds(p)
      PROVE Mapped' /\ Builders'
  BY <1>7 DEF dispatch, removeLoad, runSessionEnds
<1>8. ASSUME NEW p \in Pkt, removeDelete(p) \/ removeClose(p)
      PROVE Mapped' /\ Builders'
  BY <1>8 DEF removeDelete, removeClose, CloseConn
<1>9. ASSUME sweepDelete PROVE Mapped' /\ Builders'
  BY <1>9 DEF sweepDelete
<1>10. ASSUME UNCHANGED <<pc, ses, addrMap>> PROVE Mapped' /\ Builders'
  BY <1>10
<1>11. ASSUME NEW h \in Holder, AcceptConn(h) \/ CloseAtA(h) \/ CloseAtB(h) \/ handleChan(h)
       PROVE UNCHANGED <<pc, ses, addrMap>>
  BY <1>11 DEF AcceptConn, CloseAtA, CloseAtB, handleChan
<1>12. ASSUME Cut \/ ping \/ Reconnect \/ sweepClose \/ Close
       PROVE UNCHANGED <<pc, ses, addrMap>>
  BY <1>12 DEF Cut, ping, Reconnect, MuxClose, sweepClose, Close
<1>13. ASSUME NEW x \in Addr, sweeper(x) PROVE UNCHANGED <<pc, ses, addrMap>>
  BY <1>13 DEF sweeper
<1>14. ASSUME NEW u \in User, NEW d \in {"in", "out"},
              Leave(u) \/ copyErr(u, d) \/ FlowAdd(u, d) \/ writeErr(u, d)
       PROVE UNCHANGED <<pc, ses, addrMap>>
  BY <1>14 DEF Leave, copyErr, FlowAdd, writeErr
<1> QED
  BY <1>1, <1>2, <1>3, <1>4, <1>5, <1>6, <1>7, <1>8, <1>9, <1>10, <1>11, <1>12, <1>13,
     <1>14
  DEF Next, Hold, Copy, Session

\* A unit is taken or given back by one holder, and nobody else counts differently.
LEMMA CountedStep ==
  ASSUME LinksInv, Next
  PROVE  \/ Counted' = Counted /\ now' = now
         \/ \E h \in Holder : /\ h \notin Counted /\ Counted' = Counted \cup {h}
                              /\ now' = now + 1
         \/ \E h \in Holder : /\ h \in Counted /\ Counted' = Counted \ {h}
                              /\ now' = now - 1
<1> USE LinksAssumption DEF Holder
<1> USE DEF LinksInv, LinksTypeOK, muxVars, tcpVars, udpVars, Goto, Builders, Mapped,
            Building
<1> DEFINE Same == Counted' = Counted /\ now' = now
<1>1. ASSUME NEW h \in Holder, CheckFlowAndConnNum(h) PROVE Same
  BY <1>1 DEF CheckFlowAndConnNum, Counted
<1>2. ASSUME NEW h \in Holder, CutConn(h)
      PROVE h \notin Counted /\ Counted' = Counted \cup {h} /\ now' = now + 1
  BY <1>2 DEF CutConn, Counted
<1>3. ASSUME NEW h \in Holder, AddConn(h)
      PROVE h \in Counted /\ Counted' = Counted \ {h} /\ now' = now - 1
  BY <1>3 DEF AddConn, Counted
<1>4. ASSUME NEW h \in Holder, SendLinkInfo(h) \/ NewConnTimeout(h) PROVE Same
  BY <1>4 DEF SendLinkInfo, NewConnTimeout, Refused, failBuild, Counted
<1>5. ASSUME NEW h \in Holder, NewConnOk(h) PROVE Same
  BY <1>5 DEF NewConnOk, Counted
<1>6. ASSUME NEW u \in User, Connect(u) \/ copied(u) PROVE Same
  BY <1>6 DEF Connect, copied, Counted
<1>7. ASSUME NEW p \in Pkt, process(p) \/ LoadOrStore(p) PROVE Same
  BY <1>7 DEF process, LoadOrStore, Counted
<1>8. ASSUME NEW p \in Pkt, dispatch(p) \/ removeLoad(p) \/ runSessionEnds(p) PROVE Same
  BY <1>8 DEF dispatch, removeLoad, runSessionEnds, Counted
<1>9. ASSUME NEW p \in Pkt, removeDelete(p) \/ removeClose(p) PROVE Same
  BY <1>9 DEF removeDelete, removeClose, CloseConn, Counted
<1>10. ASSUME UNCHANGED <<pc, ses, now>> PROVE Same
  BY <1>10 DEF Counted
<1>11. ASSUME NEW h \in Holder, AcceptConn(h) \/ CloseAtA(h) \/ CloseAtB(h) \/ handleChan(h)
       PROVE UNCHANGED <<pc, ses, now>>
  BY <1>11 DEF AcceptConn, CloseAtA, CloseAtB, handleChan
<1>12. ASSUME Cut \/ ping \/ Reconnect \/ sweepDelete \/ sweepClose \/ Close
       PROVE UNCHANGED <<pc, ses, now>>
  BY <1>12 DEF Cut, ping, Reconnect, MuxClose, sweepDelete, sweepClose, Close
<1>13. ASSUME NEW x \in Addr, sweeper(x) PROVE UNCHANGED <<pc, ses, now>>
  BY <1>13 DEF sweeper
<1>14. ASSUME NEW u \in User, NEW d \in {"in", "out"},
              Leave(u) \/ copyErr(u, d) \/ FlowAdd(u, d) \/ writeErr(u, d)
       PROVE UNCHANGED <<pc, ses, now>>
  BY <1>14 DEF Leave, copyErr, FlowAdd, writeErr
<1> QED
  BY <1>1, <1>2, <1>3, <1>4, <1>5, <1>6, <1>7, <1>8, <1>9, <1>10, <1>11, <1>12, <1>13,
     <1>14
  DEF Next, Hold, Copy, Session

\* Every step, of the module or not, preserves the invariant.
LEMMA LinksInvStep == LinksInv /\ [Next]_vars => LinksInv'
<1> SUFFICES ASSUME LinksInv, [Next]_vars PROVE LinksInv'
  OBVIOUS
<1>1. CASE Next
  <2>1. IsFiniteSet(Counted) /\ now = Cardinality(Counted)
    BY DEF LinksInv, QuotaExact
  <2>2. IsFiniteSet(Counted') /\ now' = Cardinality(Counted')
    <3>1. CASE Counted' = Counted /\ now' = now
      BY <2>1, <3>1
    <3>2. ASSUME NEW h \in Holder, h \notin Counted, Counted' = Counted \cup {h}, now' = now + 1
          PROVE IsFiniteSet(Counted') /\ now' = Cardinality(Counted')
      BY <2>1, <3>2, FS_AddElement
    <3>3. ASSUME NEW h \in Holder, h \in Counted, Counted' = Counted \ {h}, now' = now - 1
          PROVE IsFiniteSet(Counted') /\ now' = Cardinality(Counted')
      BY <2>1, <3>3, FS_RemoveElement
    <3> QED BY <1>1, <3>1, <3>2, <3>3, CountedStep
  <2> QED BY <1>1, <2>2, LinksTypeStep, LinksMapStep DEF LinksInv, QuotaExact
<1>2. CASE UNCHANGED vars
  BY <1>2 DEF vars, muxVars, tcpVars, udpVars, LinksInv, LinksTypeOK, Mapped, Builders,
     Counted, QuotaExact
<1> QED BY <1>1, <1>2

\* NowConn is the number of connections there are, and the map of the udp tunnel
\* never leads to a builder that has ended (obj.go CutConn and AddConn, udp.go).
THEOREM LinksSoundHolds == Spec => []LinksSound
<1>1. Init => LinksInv
  BY LinksInvInit
<1>2. LinksInv /\ [Next]_vars => LinksInv'
  BY LinksInvStep
<1>3. LinksInv => LinksSound
  BY LinksInvSound
<1> QED BY <1>1, <1>2, <1>3, PTL DEF Spec

-----------------------------------------------------------------------------
(* NpsCert: the listeners of the certificates.                             *)

\* A connection took the listener out that the entry of host h leads to, and is about
\* to replace the entry.
Emptied(t, h) == /\ cpc[t] \in {"forget", "store", "mark"} /\ want[t].gone = h
                 /\ want[t].old = hostIdCertMap[h]
Leads(h) ==
  hostIdCertMap[h] # NoCert => \/ hostIdCertMap[h] \in httpsListenerMap \cup torn
                               \/ \E t \in Tls : Emptied(t, h)

\* What a connection in cert() may rely on.
Relies(t) ==
  /\ cpc[t] \in {"known", "delete", "store", "mark"} => want[t].gone = want[t].host
  /\ t \in InCert => want[t].cert \in Cert
  /\ cpc[t] \in {"known", "mark"} => want[t].cert \in httpsListenerMap \cup torn
  /\ cpc[t] = "nil" => want[t].cert \in torn

CertScened == CertTypeOK /\ cplay \in CertScene /\ edits \in Nat
CertMaps == (\A t \in Tls : Relies(t)) /\ (\A h \in Site : Leads(h))
CertInv == CertScened /\ Contested \subseteq torn /\ CertMaps

\* Between the updates every host that leads anywhere leads to a listener, or to one
\* that was taken from under another.
LEMMA CertInvSound == CertInv => CertSound
<1> SUFFICES ASSUME CertInv PROVE CertSound
  OBVIOUS
<1>1. MapsAgree
  BY DEF CertInv, CertMaps, MapsAgree, Leads, Emptied, InCert
<1>2. ListenerFound
  BY DEF CertInv, CertMaps, Relies, ListenerFound
<1> QED BY <1>1, <1>2 DEF CertInv, CertScened, CertSound

\* At first no host leads anywhere.
LEMMA CertInvInit == CertInit => CertInv
<1> SUFFICES ASSUME CertInit PROVE CertInv
  OBVIOUS
<1> USE CertAssumption DEF CertInit
<1>1. cplay \in CertScene /\ edits \in Nat
  OBVIOUS
<1>2. CertTypeOK
  <2> DEFINE Wants == [host: Site, cert: Cert \cup {NoCert}, left: SUBSET Site, gone: Site,
                       old: Cert \cup {NoCert}]
  <2>1. {[host |-> h, cert |-> NoCert, left |-> {}, gone |-> h, old |-> NoCert] : h \in Site}
          \subseteq Wants
    OBVIOUS
  <2>2. want \in [Tls -> Wants]
    <3> HIDE DEF Wants
    <3> QED BY <2>1
  <2>3. CertFile \in [Site -> Cert]
    BY <1>1 DEF CertScene
  <2> QED BY <2>2, <2>3 DEF CertTypeOK
<1>3. Contested = {}
  BY DEF Contested
<1>4. CertMaps
  BY DEF CertMaps, Relies, Leads, InCert
<1> QED BY <1>1, <1>2, <1>3, <1>4 DEF CertInv, CertScened

\* No step of a connection and no edit leaves the domains of the variables.
LEMMA CertStaysTyped ==
  ASSUME CertInv, torn' = torn \cup Contested',
         \/ \E t \in Tls : Hello(t) \/ CertStep(t)
         \/ \E h \in Site : RemoveHost(h) \/ \E c \in Cert : EditHost(h, c)
  PROVE  CertScened'
<1> USE DEF CertInv, CertScened, CertTypeOK, Turn
<1> DEFINE Wants == [host: Site, cert: Cert \cup {NoCert}, left: SUBSET Site, gone: Site,
                     old: Cert \cup {NoCert}]
<1>0. torn' \subseteq Cert
  BY DEF Contested
<1>1. ASSUME NEW t \in Tls, Hello(t) PROVE CertScened'
  <2>1. want' \in [Tls -> Wants]
    <3>1. ASSUME NEW c \in Cert, NEW l \in SUBSET Site,
                 want' = [want EXCEPT ![t].cert = c, ![t].left = l]
          PROVE  want' \in [Tls -> Wants]
      BY <3>1
    <3>2. /\ want[t].host \in Site /\ CertFile[want[t].host] \in Cert
          /\ {i \in Site : hostIdCertMap[i] # NoCert} \in SUBSET Site
      OBVIOUS
    <3>3. want \in [Tls -> Wants]
      OBVIOUS
    <3> HIDE DEF Wants
    <3> QED BY <1>1, <3>1, <3>2, <3>3 DEF Hello
  <2> QED BY <1>0, <1>1, <2>1 DEF Hello
<1>2. ASSUME NEW t \in Tls, Sweep(t) PROVE CertScened'
  <2>1. want' \in [Tls -> Wants]
    <3>1. \A h \in Site : hostIdCertMap[h] \in Cert \cup {NoCert}
      OBVIOUS
    <3>2. want[t].left \subseteq Site /\ want \in [Tls -> Wants]
      OBVIOUS
    <3>3. ASSUME NEW h \in Site, NEW c \in Cert \cup {NoCert},
                 want' = [want EXCEPT ![t].left = @ \ {h}, ![t].gone = h, ![t].old = c]
          PROVE  want' \in [Tls -> Wants]
      <4>1. PICK r : r = [want[t] EXCEPT !.left = @ \ {h}, !.gone = h, !.old = c]
        OBVIOUS
      <4>2. r \in Wants
        BY <3>2, <4>1
      <4>3. want' = [want EXCEPT ![t] = r]
        BY <3>3, <4>1
      <4> HIDE DEF Wants
      <4> QED BY <3>2, <4>2, <4>3
    <3>4. ASSUME NEW h \in Site, want' = [want EXCEPT ![t].left = @ \ {h}]
          PROVE  want' \in [Tls -> Wants]
      BY <3>4
    <3> HIDE DEF Wants
    <3> QED BY <1>2, <3>1, <3>2, <3>3, <3>4 DEF Sweep
  <2> HIDE DEF Wants
  <2>2. /\ cpc' \in [Tls -> {"none", "closed", "sweep", "drop", "forget", "load", "known",
                             "delete", "store", "mark", "send", "nil", "served"}]
        /\ UNCHANGED <<cplay, edits, CertFile, sites, hostIdCertMap, httpsListenerMap>>
    BY <1>2 DEF Sweep
  <2> USE DEF Wants
  <2> QED BY <1>0, <2>1, <2>2
<1>3. ASSUME NEW t \in Tls, LoadCert(t) PROVE CertScened'
  <2>1. want' \in [Tls -> Wants]
    BY <1>3 DEF LoadCert
  <2> QED BY <1>0, <1>3, <2>1 DEF LoadCert
<1>4. ASSUME NEW t \in Tls,
             DropListener(t) \/ ForgetHost(t) \/ Known(t) \/ DeleteOld(t) \/ StoreListener(t)
               \/ StoreHost(t) \/ Accept(t)
      PROVE  CertScened'
  <2>1. want[t].cert \in Cert \/ cpc[t] \notin {"store", "mark"}
    BY DEF CertMaps, Relies, InCert
  <2>2. want[t].gone \in Site /\ want[t].host \in Site
    OBVIOUS
  <2>3. CASE DropListener(t) \/ DeleteOld(t)
    BY <1>0, <2>3 DEF DropListener, DeleteOld
  <2>4. CASE ForgetHost(t)
    BY <1>0, <2>2, <2>4 DEF ForgetHost
  <2>5. CASE Known(t) \/ Accept(t)
    BY <1>0, <2>5 DEF Known, Accept
  <2>6. CASE StoreListener(t)
    BY <1>0, <2>1, <2>6 DEF StoreListener
  <2>7. CASE StoreHost(t)
    BY <1>0, <2>1, <2>2, <2>7 DEF StoreHost
  <2> QED BY <1>4, <2>3, <2>4, <2>5, <2>6, <2>7
<1>5. ASSUME NEW h \in Site, RemoveHost(h) \/ \E c \in Cert : EditHost(h, c) PROVE CertScened'
  BY <1>0, <1>5 DEF RemoveHost, EditHost
<1> QED BY <1>1, <1>2, <1>3, <1>4, <1>5 DEF CertStep

\* Who takes a listener out from under an entry or a connection has it contested.
LEMMA CertMapsStay ==
  ASSUME CertInv, torn' = torn \cup Contested', CertScened',
         \/ \E t \in Tls : Hello(t) \/ CertStep(t)
         \/ \E h \in Site : RemoveHost(h) \/ \E c \in Cert : EditHost(h, c)
  PROVE  CertMaps'
<1> USE CertAssumption DEF CertScened, CertTypeOK, Turn, CertMaps
<1>0. /\ CertScened /\ CertMaps /\ Contested \subseteq torn /\ torn \subseteq torn'
      /\ \A h \in Site : hostIdCertMap[h] # NoCert => hostIdCertMap[h] \in Cert
  BY DEF CertInv
<1>1. ASSUME NEW t \in Tls, Hello(t) PROVE CertMaps'
  BY <1>0, <1>1 DEF Hello, Relies, Leads, Emptied, InCert
<1>2. ASSUME NEW t \in Tls, Sweep(t) PROVE CertMaps'
  <2>1. /\ cpc[t] = "sweep" /\ cpc'[t] \in {"sweep", "drop", "load"}
        /\ UNCHANGED <<hostIdCertMap, httpsListenerMap>>
        /\ \A u \in Tls \ {t} : cpc'[u] = cpc[u] /\ want'[u] = want[u]
    BY <1>2 DEF Sweep
  <2>2. want'[t].cert = want[t].cert
    <3>1. want[t] \in [host: Site, cert: Cert \cup {NoCert}, left: SUBSET Site, gone: Site,
                       old: Cert \cup {NoCert}] /\ DOMAIN want = Tls
      BY <1>0
    <3>2. ASSUME NEW h, want' = [want EXCEPT ![t].left = @ \ {h}, ![t].gone = h,
                                             ![t].old = hostIdCertMap[h]]
          PROVE  want'[t].cert = want[t].cert
      BY <3>1, <3>2
    <3>3. ASSUME NEW h, want' = [want EXCEPT ![t].left = @ \ {h}]
          PROVE  want'[t].cert = want[t].cert
      BY <3>1, <3>3
    <3> QED BY <1>2, <3>2, <3>3 DEF Sweep
  <2>3. ASSUME NEW u \in Tls PROVE Relies(u)'
    BY <1>0, <2>1, <2>2 DEF Relies, InCert
  <2>4. ASSUME NEW h \in Site PROVE Leads(h)'
    <3>1. \A u \in Tls : Emptied(u, h) => Emptied(u, h)'
      BY <2>1 DEF Emptied
    <3> QED BY <1>0, <2>1, <3>1 DEF Leads
  <2> QED BY <2>3, <2>4
<1>3. ASSUME NEW t \in Tls, DropListener(t) \/ DeleteOld(t) PROVE CertMaps'
  <2>1. /\ cpc[t] \in {"drop", "delete"} /\ httpsListenerMap' = httpsListenerMap \ {want[t].old}
        /\ want' = want /\ hostIdCertMap' = hostIdCertMap /\ \A u \in Tls \ {t} : cpc'[u] = cpc[u]
        /\ cpc'[t] \in {"forget", "store"} /\ (cpc'[t] = "store" => cpc[t] = "delete")
    BY <1>0, <1>3 DEF DropListener, DeleteOld
  <2>2. \A h \in Site : h # want[t].gone /\ hostIdCertMap[h] = want[t].old /\ want[t].old # NoCert
                          => want[t].old \in torn
    BY <1>0, <2>1 DEF Contested
  <2>3. \A u \in InCert \ {t} : want[u].cert = want[t].old => want[t].old \in torn
    <3>1. \A u \in InCert : want[u].cert \in Cert
      BY <1>0 DEF Relies, InCert
    <3> QED BY <1>0, <2>1, <3>1 DEF Contested
  <2>4. ASSUME NEW u \in Tls PROVE Relies(u)'
    BY <1>0, <2>1, <2>3 DEF Relies, InCert
  <2>5. ASSUME NEW h \in Site PROVE Leads(h)'
    <3>1. CASE hostIdCertMap[h] = want[t].old /\ h = want[t].gone
      BY <2>1, <3>1 DEF Leads, Emptied
    <3>2. CASE hostIdCertMap[h] = want[t].old /\ h # want[t].gone
      BY <1>0, <2>1, <2>2, <3>2 DEF Leads
    <3>3. CASE hostIdCertMap[h] # want[t].old
      <4>1. \A u \in Tls : Emptied(u, h) => Emptied(u, h)'
        BY <2>1 DEF Emptied
      <4> QED BY <1>0, <2>1, <3>3, <4>1 DEF Leads
    <3> QED BY <3>1, <3>2, <3>3
  <2> QED BY <2>4, <2>5
<1>4. ASSUME NEW t \in Tls, ForgetHost(t) PROVE CertMaps'
  BY <1>0, <1>4 DEF ForgetHost, Relies, Leads, Emptied, InCert
<1>5. ASSUME NEW t \in Tls, LoadCert(t) PROVE CertMaps'
  <2> DEFINE h == want[t].host
             c == hostIdCertMap[h]
  <2>1. /\ cpc[t] = "load" /\ h \in Site /\ t \in InCert
        /\ hostIdCertMap' = hostIdCertMap /\ httpsListenerMap' = httpsListenerMap
        /\ \A u \in Tls \ {t} : cpc'[u] = cpc[u] /\ want'[u] = want[u]
        /\ cpc'[t] = IF c = want[t].cert THEN "known" ELSE IF c = NoCert THEN "store" ELSE "delete"
        /\ want'[t].host = h /\ want'[t].gone = h /\ want'[t].old = c /\ want'[t].cert = want[t].cert
    BY <1>0, <1>5 DEF LoadCert, InCert
  <2>2. want[t].cert \in Cert
    BY <1>0, <2>1 DEF Relies
  <2>3. c = want[t].cert => c \in httpsListenerMap \cup torn
    <3>1. ASSUME NEW u \in Tls, Emptied(u, h), c = want[t].cert PROVE c \in Contested
      BY <2>1, <2>2, <3>1 DEF Emptied, Contested
    <3> QED BY <1>0, <2>1, <2>2, <3>1 DEF Leads
  <2>4. ASSUME NEW u \in Tls PROVE Relies(u)'
    <3>1. CASE u = t
      BY <1>0, <2>1, <2>2, <2>3, <3>1 DEF Relies
    <3>2. CASE u # t
      BY <1>0, <2>1, <3>2 DEF Relies, InCert
    <3> QED BY <3>1, <3>2
  <2>5. ASSUME NEW g \in Site PROVE Leads(g)'
    <3>1. \A u \in Tls : Emptied(u, g) => Emptied(u, g)'
      BY <2>1 DEF Emptied
    <3> HIDE DEF h, c
    <3> QED BY <1>0, <2>1, <3>1 DEF Leads
  <2> QED BY <2>4, <2>5
<1>6. ASSUME NEW t \in Tls, Known(t) PROVE CertMaps'
  BY <1>0, <1>6 DEF Known, Relies, Leads, Emptied, InCert
<1>7. ASSUME NEW t \in Tls, StoreListener(t) PROVE CertMaps'
  BY <1>0, <1>7 DEF StoreListener, Relies, Leads, Emptied, InCert
<1>8. ASSUME NEW t \in Tls, StoreHost(t) PROVE CertMaps'
  BY <1>0, <1>8 DEF StoreHost, Relies, Leads, Emptied, InCert
<1>9. ASSUME NEW t \in Tls, Accept(t) PROVE CertMaps'
  BY <1>0, <1>9 DEF Accept, Relies, Leads, Emptied, InCert
<1>10. ASSUME NEW h \in Site, RemoveHost(h) \/ \E c \in Cert : EditHost(h, c) PROVE CertMaps'
  BY <1>0, <1>10 DEF RemoveHost, EditHost, Relies, Leads, Emptied, InCert
<1> QED BY <1>1, <1>2, <1>3, <1>4, <1>5, <1>6, <1>7, <1>8, <1>9, <1>10 DEF CertStep

LEMMA CertInvStep == CertInv /\ [CertNext]_certVars => CertInv'
<1> SUFFICES ASSUME CertInv, [CertNext]_certVars PROVE CertInv'
  OBVIOUS
<1>1. CASE CertNext
  <2>1. /\ torn' = torn \cup Contested'
        /\ \/ \E t \in Tls : Hello(t) \/ CertStep(t)
           \/ \E h \in Site : RemoveHost(h) \/ \E c \in Cert : EditHost(h, c)
    BY <1>1 DEF CertNext
  <2>2. CertScened'
    BY <2>1, CertStaysTyped
  <2>3. CertMaps'
    BY <2>1, <2>2, CertMapsStay
  <2> QED BY <2>1, <2>2, <2>3 DEF CertInv
<1>2. CASE UNCHANGED certVars
  BY <1>2 DEF certVars, CertInv, CertScened, CertTypeOK, CertMaps, Relies, Leads, Emptied, InCert,
              Contested
<1> QED BY <1>1, <1>2

-----------------------------------------------------------------------------
(* NpsHttp: the quota and the streams of hosts.                            *)

\* The connections whose unit was given back at the label reset and that have not
\* taken a new one yet.
Owing(k) == {c \in Conn : /\ hpc[c] \in {"look", "check", "cut"} /\ isReset[c]
                          /\ clientOf(c) = k}

\* NowConn is at most what the deferred functions will give back, less what is owed.
QuotaInv == \A k \in Client :
  /\ IsFiniteSet(Deferrals(k)) /\ IsFiniteSet(Owing(k))
  /\ nowConn[k] + Cardinality(Owing(k)) <= Held(k)
  /\ scene.resets = 0 => nowConn[k] = Held(k)

Early == {"none", "reset", "look", "check", "cut", "auth", "dial"}

\* How many streams and deferred calls a connection has, where it is.
Rounds(c) ==
  /\ host[c] # NoHost => host[c] \in Host
  /\ hpc[c] = "none" => lk[c] = 0
  /\ hpc[c] # "none" => host[c] \in Host /\ scene.kind[c] # "none"
  /\ hpc[c] \in Early => lk[c] <= scene.resets
  /\ hpc[c] \in {"plain", "upgrade", "pass"} => lk[c] >= 1
  /\ hpc[c] \in {"plain", "reset", "wait"} => scene.kind[c] = "plain"
  /\ hpc[c] \in {"upgrade", "pass"} => scene.kind[c] = hpc[c]
  /\ hpc[c] \in {"check", "cut"} => scene.kind[c] # "upgrade"
  /\ scene.kind[c] # "plain" /\ hpc[c] \in Early => lk[c] = 0
  /\ scene.resets = 0 \/ scene.kind[c] # "plain" => ~isReset[c]

UnitsOf(c) == \A k \in Client :
  /\ units[c][k] <= MaxLink /\ (hpc[c] = "done" => units[c][k] = 0)
  /\ hpc[c] \in Early \cup {"plain", "wait", "upgrade", "pass"} =>
       units[c][k] <= lk[c] + (IF \/ hpc[c] = "dial"
                                  \/ hpc[c] = "auth" /\ scene.kind[c] # "upgrade"
                               THEN 1 ELSE 0)

\* The streams before the current one are closed, those after it were never opened.
StreamsOf(c) == \A i \in Links :
  /\ i > lk[c] <=> connClient[c][i] = "none"
  /\ i < lk[c] => connClient[c][i] = "closed"
  /\ i = lk[c] /\ hpc[c] \in Early => connClient[c][i] = "closed"
  /\ i = lk[c] /\ hpc[c] = "done" /\ scene.kind[c] # "pass" => connClient[c][i] = "closed"
  /\ i = lk[c] /\ hpc[c] \in {"end", "done"} /\ scene.kind[c] = "pass"
       => connClient[c][i] = "closed" \/ clientOf(c) \in spent

HttpInv ==
  /\ HttpTypeOK /\ scene \in HttpScene /\ QuotaInv
  /\ \A c \in Conn : Rounds(c) /\ UnitsOf(c) /\ StreamsOf(c)

States == {"none", "reset", "look", "check", "cut", "auth", "dial", "plain", "upgrade",
           "pass", "wait", "end", "done"}
ControlType ==
  /\ hpc \in [Conn -> States] /\ host \in [Conn -> Host \cup {NoHost}]
  /\ lk \in [Conn -> 0..MaxLink] /\ isReset \in [Conn -> BOOLEAN]
  /\ user \in [Conn -> {"open", "left", "closed"}] /\ spent \subseteq Client
CountType == units \in [Conn -> [Client -> Nat]] /\ nowConn \in [Client -> Int]
StreamType == connClient \in [Conn -> [Links -> {"none", "open", "closed", "eof"}]]
ReaderType == reader \in [Conn -> [Links -> [at: {"none", "start", "copy", "end", "done"},
                                            of: 0..MaxLink]]]

\* The four parts are the type invariant.
LEMMA HttpTypes == HttpTypeOK <=> ControlType /\ CountType /\ StreamType /\ ReaderType
BY DEF HttpTypeOK, ControlType, CountType, StreamType, ReaderType, States

\* What the invariant is for.
LEMMA HttpInvSound == HttpInv => HttpSound
<1> SUFFICES ASSUME HttpInv PROVE HttpSound
  OBVIOUS
<1>1. HttpQuota
  <2> SUFFICES ASSUME NEW k \in Client
               PROVE  nowConn[k] <= Held(k) /\ (scene.resets = 0 => nowConn[k] = Held(k))
    BY DEF HttpQuota
  <2>1. Cardinality(Owing(k)) \in Nat /\ Held(k) \in Nat /\ nowConn[k] \in Int
    BY FS_CardinalityType DEF HttpInv, QuotaInv, HttpTypeOK, Held
  <2> QED BY <2>1 DEF HttpInv, QuotaInv
<1>2. StreamsClosed
  <2> SUFFICES ASSUME NEW c \in Conn, hpc[c] = "done",
                      scene.kind[c] = "pass" => clientOf(c) \notin spent, NEW i \in Links
               PROVE  connClient[c][i] \in {"none", "closed"}
    BY DEF StreamsClosed
  <2>1. lk[c] \in Nat /\ i \in Nat
    BY HttpAssumption DEF HttpInv, HttpTypeOK, Links
  <2> QED BY <2>1 DEF HttpInv, StreamsOf
<1> QED BY <1>1, <1>2 DEF HttpInv, HttpSound

\* At first nothing is held and nothing owed.
LEMMA HttpInvInit == HttpInit => HttpInv
<1> SUFFICES ASSUME HttpInit PROVE HttpInv
  OBVIOUS
<1> USE HttpAssumption DEF HttpInit, Links
<1>1. scene \in HttpScene /\ HttpTypeOK
  BY DEF HttpTypeOK, HttpScene, NoReader
<1>2. ASSUME NEW k \in Client PROVE Deferrals(k) = {} /\ Owing(k) = {}
  BY DEF Deferrals, Owing
<1>3. QuotaInv
  <2> SUFFICES ASSUME NEW k \in Client
               PROVE  /\ IsFiniteSet(Deferrals(k)) /\ IsFiniteSet(Owing(k))
                      /\ nowConn[k] + Cardinality(Owing(k)) <= Held(k)
                      /\ scene.resets = 0 => nowConn[k] = Held(k)
    BY DEF QuotaInv
  <2>1. nowConn[k] = 0 /\ Cardinality(Owing(k)) = 0 /\ Held(k) = 0
    BY <1>2, FS_EmptySet DEF Held
  <2>2. IsFiniteSet(Deferrals(k)) /\ IsFiniteSet(Owing(k))
    BY <1>2, FS_EmptySet
  <2> QED BY <2>1, <2>2
<1>4. ASSUME NEW c \in Conn PROVE Rounds(c) /\ UnitsOf(c) /\ StreamsOf(c)
  BY <1>1 DEF Rounds, UnitsOf, StreamsOf, HttpScene, Early
<1> QED BY <1>1, <1>3, <1>4 DEF HttpInv


\* Closing a stream changes nothing else.
LEMMA ClosedLinkIs ==
  ASSUME connClient \in [Conn -> [Links -> {"none", "open", "closed", "eof"}]],
         NEW c \in Conn, NEW n, NEW x \in Conn, NEW j \in Links
  PROVE  closedLink(c, n)[x][j] = IF x = c /\ j = n /\ connClient[x][j] # "none"
                                  THEN "closed" ELSE connClient[x][j]
BY DEF closedLink

\* Nor does it lead out of the type.
LEMMA ClosedLinkType ==
  ASSUME connClient \in [Conn -> [Links -> {"none", "open", "closed", "eof"}]],
         NEW c \in Conn, NEW n
  PROVE  closedLink(c, n) \in [Conn -> [Links -> {"none", "open", "closed", "eof"}]]
BY DEF closedLink


\* A change of the host is the start of another round.
LEMMA HttpRoundsStep ==
  ASSUME HttpInv, HttpNext
  PROVE  \A x \in Conn : Rounds(x)'
<1> DEFINE Kept == \A x \in Conn : Rounds(x)'
<1>a. /\ hpc \in [Conn -> {"none", "reset", "look", "check", "cut", "auth", "dial",
                                "plain", "upgrade", "pass", "wait", "end", "done"}]
      /\ lk \in [Conn -> 0..MaxLink] /\ host \in [Conn -> Host \cup {NoHost}]
      /\ isReset \in [Conn -> BOOLEAN] /\ scene \in HttpScene
  BY HttpAssumption, HttpTypes DEF HttpInv, HttpTypeOK, HttpScene, Links, ControlType
<1>b. \A x \in Conn : Rounds(x)
  BY DEF HttpInv
<1>c. ASSUME UNCHANGED <<scene, hpc, lk, host, isReset>> PROVE Kept
  BY <1>a, <1>b, <1>c DEF Rounds, Early, HttpScene
<1>1. ASSUME NEW c \in Conn, Request(c) PROVE Kept
  BY <1>a, <1>b, <1>1 DEF Rounds, Early, HttpScene, At, Request
<1>2. ASSUME NEW c \in Conn, Again(c) PROVE Kept
  BY <1>a, <1>b, <1>2 DEF Rounds, Early, HttpScene, At, Again
<1>3. ASSUME NEW c \in Conn, GetInfoByHost(c) PROVE Kept
  BY <1>a, <1>b, <1>3 DEF Rounds, Early, HttpScene, At, GetInfoByHost, CloseUser
<1>4. ASSUME NEW c \in Conn, CheckFlow(c) PROVE Kept
  BY <1>a, <1>b, <1>4 DEF Rounds, Early, HttpScene, At, CheckFlow, CloseUser, HasRoom
<1>5. ASSUME NEW c \in Conn, CountConn(c) PROVE Kept
  BY <1>a, <1>b, <1>5 DEF Rounds, Early, HttpScene, At, CountConn, TakeUnit
<1>6. ASSUME NEW c \in Conn, Authorize(c) PROVE Kept
  BY <1>a, <1>b, <1>6 DEF Rounds, Early, HttpScene, At, Authorize, TakeUnit, CloseUser
<1>7. ASSUME NEW c \in Conn, Dial(c) PROVE Kept
  BY <1>a, <1>b, <1>7 DEF Rounds, Early, HttpScene, At, Dial, CloseUser
<1>8. ASSUME NEW c \in Conn, Deferred(c) PROVE Kept
  BY <1>a, <1>b, <1>8 DEF Rounds, Early, HttpScene, At, Deferred, CloseUser, closedLink
<1>9. ASSUME NEW c \in Conn, NEW h \in Host, ReadRequest(c, h) PROVE Kept
  BY <1>a, <1>b, <1>9 DEF Rounds, Early, HttpScene, At, ReadRequest, closedLink
<1>10. ASSUME NEW c \in Conn, ReadFails(c) PROVE Kept
  BY <1>a, <1>b, <1>10 DEF Rounds, Early, HttpScene, At, ReadFails
<1>11. ASSUME NEW c \in Conn, WaitReaders(c) PROVE Kept
  BY <1>a, <1>b, <1>11 DEF Rounds, Early, HttpScene, At, WaitReaders
<1>12. ASSUME NEW c \in Conn, NEW i \in Links, ReaderStarts(c, i) PROVE Kept
  BY <1>a, <1>b, <1>12 DEF Rounds, Early, HttpScene, At, ReaderStarts
<1>13. ASSUME NEW c \in Conn, NEW i \in Links, CopyEnds(c, i) PROVE Kept
  BY <1>a, <1>b, <1>13 DEF Rounds, Early, HttpScene, At, CopyEnds
<1>14. ASSUME NEW c \in Conn, NEW i \in Links, CopyBreaks(c, i) PROVE Kept
  BY <1>a, <1>b, <1>14 DEF Rounds, Early, HttpScene, At, CopyBreaks
<1>15. ASSUME NEW c \in Conn, NEW i \in Links, ReaderDone(c, i) PROVE Kept
  BY <1>a, <1>b, <1>15 DEF Rounds, Early, HttpScene, At, ReaderDone, CloseUser, closedLink
<1>16. ASSUME NEW c \in Conn, JoinEnds(c) PROVE Kept
  BY <1>a, <1>b, <1>16 DEF Rounds, Early, HttpScene, At, JoinEnds, CloseUser, closedLink
<1>17. ASSUME NEW c \in Conn, JoinOver(c) PROVE Kept
  BY <1>a, <1>b, <1>17 DEF Rounds, Early, HttpScene, At, JoinOver, CloseUser, closedLink
<1>18. ASSUME NEW c \in Conn, Leaves(c) PROVE Kept
  BY <1>a, <1>b, <1>18 DEF Rounds, Early, HttpScene, At, Leaves
<1>19. ASSUME NEW c \in Conn, NEW i \in Links, TargetEnds(c, i) PROVE Kept
  BY <1>a, <1>b, <1>19 DEF Rounds, Early, HttpScene, At, TargetEnds
<1>20. ASSUME NEW k \in Client, Spend(k) PROVE Kept
  BY <1>a, <1>b, <1>20 DEF Rounds, Early, HttpScene, At, Spend
<1> QED
  BY <1>1, <1>2, <1>3, <1>4, <1>5, <1>6, <1>7, <1>8, <1>9, <1>10, <1>11,
     <1>12, <1>13, <1>14, <1>15, <1>16, <1>17, <1>18, <1>19, <1>20
  DEF HttpNext, Main, Reader

\* A round defers one call at most.
LEMMA HttpUnitsStep ==
  ASSUME HttpInv, HttpNext
  PROVE  \A x \in Conn : UnitsOf(x)'
<1> DEFINE Kept == \A x \in Conn : UnitsOf(x)'
<1>a. /\ hpc \in [Conn -> {"none", "reset", "look", "check", "cut", "auth", "dial",
                                "plain", "upgrade", "pass", "wait", "end", "done"}]
      /\ lk \in [Conn -> 0..MaxLink] /\ units \in [Conn -> [Client -> Nat]]
      /\ scene \in HttpScene /\ MaxLink \in Nat
  BY HttpAssumption, HttpTypes DEF HttpInv, HttpTypeOK, HttpScene, Links, ControlType
<1>b. \A x \in Conn : UnitsOf(x) /\ Rounds(x)
  BY DEF HttpInv
<1>c. ASSUME UNCHANGED <<scene, hpc, lk, units>> PROVE Kept
  BY <1>a, <1>b, <1>c DEF UnitsOf, Rounds, Early, HttpScene
<1>1. ASSUME NEW c \in Conn, Request(c) PROVE Kept
  BY <1>a, <1>b, <1>1 DEF UnitsOf, Rounds, Early, HttpScene, At, Request
<1>2. ASSUME NEW c \in Conn, Again(c) PROVE Kept
  BY <1>a, <1>b, <1>2 DEF UnitsOf, Rounds, Early, HttpScene, At, Again
<1>3. ASSUME NEW c \in Conn, GetInfoByHost(c) PROVE Kept
  BY <1>a, <1>b, <1>3 DEF UnitsOf, Rounds, Early, HttpScene, At, GetInfoByHost, CloseUser
<1>4. ASSUME NEW c \in Conn, CheckFlow(c) PROVE Kept
  BY <1>a, <1>b, <1>4 DEF UnitsOf, Rounds, Early, HttpScene, At, CheckFlow, CloseUser, HasRoom
<1>5. ASSUME NEW c \in Conn, CountConn(c) PROVE Kept
  BY <1>a, <1>b, <1>5 DEF UnitsOf, Rounds, Early, HttpScene, At, CountConn, TakeUnit
<1>6. ASSUME NEW c \in Conn, Authorize(c) PROVE Kept
  <2>1. UNCHANGED <<scene, lk>> /\ hpc[c] = "auth"
    BY <1>6 DEF Authorize, At
  <2>2. CASE /\ hpc' \in {[hpc EXCEPT ![c] = "dial"], [hpc EXCEPT ![c] = "end"]}
             /\ UNCHANGED units
    BY <1>a, <1>b, <2>1, <2>2 DEF UnitsOf, Rounds, Early, HttpScene
  <2>3. CASE /\ hpc' = [hpc EXCEPT ![c] = "dial"] /\ scene.kind[c] = "upgrade"
             /\ units' = [units EXCEPT ![c][clientOf(c)] = @ + 1]
    <3>1. ASSUME NEW x \in Conn, NEW k \in Client
          PROVE  units'[x][k] = IF x = c /\ k = clientOf(c) THEN units[x][k] + 1
                                ELSE units[x][k]
      BY <1>a, <2>3
    <3>2. lk[c] + 1 <= MaxLink /\ lk[c] \in Nat
      BY <1>a, <1>b, <2>1 DEF Rounds, Early, HttpScene
    <3> QED BY <1>a, <1>b, <2>1, <2>3, <3>1, <3>2 DEF UnitsOf, Early
  <2> QED BY <1>6, <2>2, <2>3 DEF Authorize, At, TakeUnit
<1>7. ASSUME NEW c \in Conn, Dial(c) PROVE Kept
  BY <1>a, <1>b, <1>7 DEF UnitsOf, Rounds, Early, HttpScene, At, Dial, CloseUser
<1>8. ASSUME NEW c \in Conn, Deferred(c) PROVE Kept
  BY <1>a, <1>b, <1>8 DEF UnitsOf, Rounds, Early, HttpScene, At, Deferred, CloseUser, closedLink
<1>9. ASSUME NEW c \in Conn, NEW h \in Host, ReadRequest(c, h) PROVE Kept
  <2>1. UNCHANGED <<scene, lk, units>> /\ hpc[c] = "plain"
    BY <1>9 DEF ReadRequest, At
  <2>2. \E v \in {"plain", "wait", "reset"} : hpc' = [hpc EXCEPT ![c] = v]
    BY <1>9 DEF ReadRequest, At
  <2> QED BY <1>a, <1>b, <2>1, <2>2 DEF UnitsOf, Early
<1>10. ASSUME NEW c \in Conn, ReadFails(c) PROVE Kept
  BY <1>a, <1>b, <1>10 DEF UnitsOf, Rounds, Early, HttpScene, At, ReadFails
<1>11. ASSUME NEW c \in Conn, WaitReaders(c) PROVE Kept
  BY <1>a, <1>b, <1>11 DEF UnitsOf, Rounds, Early, HttpScene, At, WaitReaders
<1>12. ASSUME NEW c \in Conn, NEW i \in Links, ReaderStarts(c, i) PROVE Kept
  BY <1>a, <1>b, <1>12 DEF UnitsOf, Rounds, Early, HttpScene, At, ReaderStarts
<1>13. ASSUME NEW c \in Conn, NEW i \in Links, CopyEnds(c, i) PROVE Kept
  BY <1>a, <1>b, <1>13 DEF UnitsOf, Rounds, Early, HttpScene, At, CopyEnds
<1>14. ASSUME NEW c \in Conn, NEW i \in Links, CopyBreaks(c, i) PROVE Kept
  BY <1>a, <1>b, <1>14 DEF UnitsOf, Rounds, Early, HttpScene, At, CopyBreaks
<1>15. ASSUME NEW c \in Conn, NEW i \in Links, ReaderDone(c, i) PROVE Kept
  BY <1>a, <1>b, <1>15 DEF UnitsOf, Rounds, Early, HttpScene, At, ReaderDone, CloseUser, closedLink
<1>16. ASSUME NEW c \in Conn, JoinEnds(c) PROVE Kept
  BY <1>a, <1>b, <1>16 DEF UnitsOf, Rounds, Early, HttpScene, At, JoinEnds, CloseUser, closedLink
<1>17. ASSUME NEW c \in Conn, JoinOver(c) PROVE Kept
  BY <1>a, <1>b, <1>17 DEF UnitsOf, Rounds, Early, HttpScene, At, JoinOver, CloseUser, closedLink
<1>18. ASSUME NEW c \in Conn, Leaves(c) PROVE Kept
  BY <1>a, <1>b, <1>18 DEF UnitsOf, Rounds, Early, HttpScene, At, Leaves
<1>19. ASSUME NEW c \in Conn, NEW i \in Links, TargetEnds(c, i) PROVE Kept
  BY <1>a, <1>b, <1>19 DEF UnitsOf, Rounds, Early, HttpScene, At, TargetEnds
<1>20. ASSUME NEW k \in Client, Spend(k) PROVE Kept
  BY <1>a, <1>b, <1>20 DEF UnitsOf, Rounds, Early, HttpScene, At, Spend
<1> QED
  BY <1>1, <1>2, <1>3, <1>4, <1>5, <1>6, <1>7, <1>8, <1>9, <1>10, <1>11,
     <1>12, <1>13, <1>14, <1>15, <1>16, <1>17, <1>18, <1>19, <1>20
  DEF HttpNext, Main, Reader

\* A round has one stream, which is closed before the next one is opened.
LEMMA HttpStreamsStep ==
  ASSUME HttpInv, HttpNext
  PROVE  \A x \in Conn : StreamsOf(x)'
<1> DEFINE Kept == \A x \in Conn : StreamsOf(x)'
<1>a. /\ hpc \in [Conn -> {"none", "reset", "look", "check", "cut", "auth", "dial",
                                "plain", "upgrade", "pass", "wait", "end", "done"}]
      /\ lk \in [Conn -> 0..MaxLink] /\ Links = 1..MaxLink
      /\ connClient \in [Conn -> [Links -> {"none", "open", "closed", "eof"}]]
  BY HttpAssumption, HttpTypes DEF HttpInv, HttpTypeOK, HttpScene, Links, ControlType
<1>b. \A x \in Conn : StreamsOf(x) /\ Rounds(x)
  BY DEF HttpInv
<1>c. ASSUME UNCHANGED <<scene, hpc, lk, connClient, host, spent>> PROVE Kept
  BY <1>a, <1>b, <1>c DEF StreamsOf, Rounds, Early, Live, clientOf
<1>1. ASSUME NEW c \in Conn, Request(c) PROVE Kept
  BY <1>a, <1>b, <1>1 DEF StreamsOf, Rounds, Early, Live, clientOf, At, Request
<1>2. ASSUME NEW c \in Conn, Again(c) PROVE Kept
  BY <1>a, <1>b, <1>2 DEF StreamsOf, Rounds, Early, Live, clientOf, At, Again
<1>3. ASSUME NEW c \in Conn, GetInfoByHost(c) PROVE Kept
  BY <1>a, <1>b, <1>3 DEF StreamsOf, Rounds, Early, Live, clientOf, At, GetInfoByHost, CloseUser
<1>4. ASSUME NEW c \in Conn, CheckFlow(c) PROVE Kept
  BY <1>a, <1>b, <1>4 DEF StreamsOf, Rounds, Early, Live, clientOf, At, CheckFlow, CloseUser, HasRoom
<1>5. ASSUME NEW c \in Conn, CountConn(c) PROVE Kept
  BY <1>a, <1>b, <1>5 DEF StreamsOf, Rounds, Early, Live, clientOf, At, CountConn, TakeUnit
<1>6. ASSUME NEW c \in Conn, Authorize(c) PROVE Kept
  BY <1>a, <1>b, <1>6 DEF StreamsOf, Rounds, Early, Live, clientOf, At, Authorize, TakeUnit, CloseUser
<1>7. ASSUME NEW c \in Conn, Dial(c) PROVE Kept
  <2>1. UNCHANGED <<scene, host, spent>> /\ hpc[c] = "dial"
    BY <1>7 DEF Dial, At
  <2>2. CASE /\ hpc' = [hpc EXCEPT ![c] = scene.kind[c]] /\ lk' = [lk EXCEPT ![c] = @ + 1]
             /\ connClient' = [connClient EXCEPT ![c][lk[c] + 1] = "open"]
    <3>1. lk[c] + 1 \in Links
      BY <1>a, <1>b, <2>1, HttpAssumption DEF Rounds, Early, HttpScene, HttpInv
    <3>2. ASSUME NEW x \in Conn, NEW j \in Links
          PROVE  connClient'[x][j] = IF x = c /\ j = lk[c] + 1 THEN "open"
                                     ELSE connClient[x][j]
      BY <1>a, <2>2, <3>1
    <3>3. scene.kind[c] \notin {"none", "end", "done"} \cup Early
      BY <1>b, <2>1, HttpAssumption DEF Rounds, Early, HttpScene, HttpInv
    <3> QED BY <1>a, <1>b, <2>1, <2>2, <3>1, <3>2, <3>3 DEF StreamsOf, Rounds, clientOf, Early
  <2>3. CASE hpc' = [hpc EXCEPT ![c] = "end"] /\ UNCHANGED <<lk, connClient>>
    BY <1>a, <1>b, <2>1, <2>3 DEF StreamsOf, Rounds, Early, clientOf
  <2> QED BY <1>7, <2>2, <2>3 DEF Dial, At
<1>8. ASSUME NEW c \in Conn, Deferred(c) PROVE Kept
  <2>1. UNCHANGED <<scene, lk, host, spent>> /\ (connClient' = closedLink(c, lk[c]) \/ connClient' = connClient)
    BY <1>8 DEF Deferred
  <2>2. \A x \in Conn, j \in Links :
          closedLink(c, lk[c])[x][j] = IF x = c /\ j = lk[c] /\ connClient[x][j] # "none"
                                       THEN "closed" ELSE connClient[x][j]
    BY <1>a, ClosedLinkIs
  <2>3. hpc[c] = "end" /\ hpc' = [hpc EXCEPT ![c] = "done"]
    BY <1>8 DEF Deferred, At
  <2>4. scene.kind[c] # "pass" => connClient' = closedLink(c, lk[c])
    BY <1>8 DEF Deferred
  <2> QED BY <1>a, <1>b, <2>1, <2>2, <2>3, <2>4 DEF StreamsOf, Rounds, Early, clientOf
<1>9. ASSUME NEW c \in Conn, NEW h \in Host, ReadRequest(c, h) PROVE Kept
  <2>1. CASE hpc' = [hpc EXCEPT ![c] = "reset"]
    <3>0. hpc'[c] = "reset"
      BY <1>a, <2>1
    <3>4. ~At(c, "plain", "wait") /\ ~At(c, "plain", "plain")
      BY <1>a, <3>0 DEF At
    <3>1. UNCHANGED <<scene, lk, spent>> /\ connClient' = closedLink(c, lk[c])
      BY <1>9, <3>4 DEF ReadRequest
    <3>5. hpc[c] = "plain" /\ host' = [host EXCEPT ![c] = h]
      BY <1>9, <3>4 DEF ReadRequest, At
    <3>2. hpc[c] = "plain" /\ \A x \in Conn : x # c => host'[x] = host[x]
      BY <1>a, <3>5
    <3>3. \A x \in Conn, j \in Links :
            closedLink(c, lk[c])[x][j] = IF x = c /\ j = lk[c] /\ connClient[x][j] # "none"
                                         THEN "closed" ELSE connClient[x][j]
      BY <1>a, ClosedLinkIs
    <3> QED BY <1>a, <1>b, <2>1, <3>1, <3>2, <3>3 DEF StreamsOf, Rounds, Early, clientOf
  <2>2. CASE hpc' \in {[hpc EXCEPT ![c] = "wait"], hpc}
    <3>1. UNCHANGED <<scene, lk, spent, connClient, host>> /\ hpc[c] = "plain"
      BY <1>a, <1>9, <2>2 DEF ReadRequest, At
    <3> QED BY <1>a, <1>b, <2>2, <3>1 DEF StreamsOf, Rounds, Early, clientOf
  <2> QED BY <1>a, <1>9, <2>1, <2>2 DEF ReadRequest, At
<1>10. ASSUME NEW c \in Conn, ReadFails(c) PROVE Kept
  BY <1>a, <1>b, <1>10 DEF StreamsOf, Rounds, Early, Live, clientOf, At, ReadFails
<1>11. ASSUME NEW c \in Conn, WaitReaders(c) PROVE Kept
  BY <1>a, <1>b, <1>11 DEF StreamsOf, Rounds, Early, Live, clientOf, At, WaitReaders
<1>12. ASSUME NEW c \in Conn, NEW i \in Links, ReaderStarts(c, i) PROVE Kept
  BY <1>a, <1>b, <1>12 DEF StreamsOf, Rounds, Early, Live, clientOf, At, ReaderStarts
<1>13. ASSUME NEW c \in Conn, NEW i \in Links, CopyEnds(c, i) PROVE Kept
  BY <1>a, <1>b, <1>13 DEF StreamsOf, Rounds, Early, Live, clientOf, At, CopyEnds
<1>14. ASSUME NEW c \in Conn, NEW i \in Links, CopyBreaks(c, i) PROVE Kept
  BY <1>a, <1>b, <1>14 DEF StreamsOf, Rounds, Early, Live, clientOf, At, CopyBreaks
<1>15. ASSUME NEW c \in Conn, NEW i \in Links, ReaderDone(c, i) PROVE Kept
  BY <1>a, <1>b, <1>15 DEF StreamsOf, Rounds, Early, Live, clientOf, At, ReaderDone, CloseUser, closedLink
<1>16. ASSUME NEW c \in Conn, JoinEnds(c) PROVE Kept
  <2>1. UNCHANGED <<scene, lk, host, spent>> /\ (connClient' = closedLink(c, lk[c]) \/ connClient' = connClient)
    BY <1>16 DEF JoinEnds
  <2>2. \A x \in Conn, j \in Links :
          closedLink(c, lk[c])[x][j] = IF x = c /\ j = lk[c] /\ connClient[x][j] # "none"
                                       THEN "closed" ELSE connClient[x][j]
    BY <1>a, ClosedLinkIs
  <2>3. hpc[c] \in {"upgrade", "pass"} /\ hpc' = [hpc EXCEPT ![c] = "end"]
    BY <1>16 DEF JoinEnds
  <2>4. connClient' = closedLink(c, lk[c])
    BY <1>16 DEF JoinEnds
  <2> QED BY <1>a, <1>b, <2>1, <2>2, <2>3, <2>4 DEF StreamsOf, Rounds, Early, clientOf
<1>17. ASSUME NEW c \in Conn, JoinOver(c) PROVE Kept
  <2>1. UNCHANGED <<scene, lk, host, spent>> /\ (connClient' = closedLink(c, lk[c]) \/ connClient' = connClient)
    BY <1>17 DEF JoinOver
  <2>2. \A x \in Conn, j \in Links :
          closedLink(c, lk[c])[x][j] = IF x = c /\ j = lk[c] /\ connClient[x][j] # "none"
                                       THEN "closed" ELSE connClient[x][j]
    BY <1>a, ClosedLinkIs
  <2>3. hpc[c] \in {"upgrade", "pass"} /\ hpc' = [hpc EXCEPT ![c] = "end"]
    BY <1>17 DEF JoinOver
  <2>4. clientOf(c) \in spent
    BY <1>17 DEF JoinOver
  <2> QED BY <1>a, <1>b, <2>1, <2>2, <2>3, <2>4 DEF StreamsOf, Rounds, Early, clientOf
<1>18. ASSUME NEW c \in Conn, Leaves(c) PROVE Kept
  BY <1>a, <1>b, <1>18 DEF StreamsOf, Rounds, Early, Live, clientOf, At, Leaves
<1>19. ASSUME NEW c \in Conn, NEW i \in Links, TargetEnds(c, i) PROVE Kept
  BY <1>a, <1>b, <1>19 DEF StreamsOf, Rounds, Early, Live, clientOf, At, TargetEnds
<1>20. ASSUME NEW k \in Client, Spend(k) PROVE Kept
  BY <1>a, <1>b, <1>20 DEF StreamsOf, Rounds, Early, Live, clientOf, At, Spend
<1> QED
  BY <1>1, <1>2, <1>3, <1>4, <1>5, <1>6, <1>7, <1>8, <1>9, <1>10, <1>11,
     <1>12, <1>13, <1>14, <1>15, <1>16, <1>17, <1>18, <1>19, <1>20
  DEF HttpNext, Main, Reader

\* The types of a step: where connections and users are,
LEMMA ControlTypeStep ==
  ASSUME HttpInv, HttpNext
  PROVE  ControlType'
<1> DEFINE Kept == ControlType'
<1>a. ControlType /\ scene \in HttpScene /\ MaxLink \in Nat
  BY HttpAssumption, HttpTypes DEF HttpInv, HttpTypeOK, HttpScene, Links, ControlType
<1>b. \A x \in Conn : Rounds(x)
  BY DEF HttpInv
<1>c. ASSUME UNCHANGED <<hpc, host, lk, isReset, user, spent>> PROVE Kept
  BY <1>a, <1>b, <1>c DEF ControlType, States, HttpScene, Links, Rounds, Early
<1>1. ASSUME NEW c \in Conn, Request(c) PROVE Kept
  BY <1>a, <1>b, <1>1 DEF ControlType, States, HttpScene, Links, Rounds, Early, At, Request
<1>2. ASSUME NEW c \in Conn, Again(c) PROVE Kept
  BY <1>a, <1>b, <1>2 DEF ControlType, States, HttpScene, Links, Rounds, Early, At, Again
<1>3. ASSUME NEW c \in Conn, GetInfoByHost(c) PROVE Kept
  BY <1>a, <1>b, <1>3 DEF ControlType, States, HttpScene, Links, Rounds, Early, At, GetInfoByHost, CloseUser
<1>4. ASSUME NEW c \in Conn, CheckFlow(c) PROVE Kept
  BY <1>a, <1>b, <1>4 DEF ControlType, States, HttpScene, Links, Rounds, Early, At, CheckFlow, CloseUser, HasRoom
<1>5. ASSUME NEW c \in Conn, CountConn(c) PROVE Kept
  BY <1>a, <1>b, <1>5 DEF ControlType, States, HttpScene, Links, Rounds, Early, At, CountConn, TakeUnit
<1>6. ASSUME NEW c \in Conn, Authorize(c) PROVE Kept
  BY <1>a, <1>b, <1>6 DEF ControlType, States, HttpScene, Links, Rounds, Early, At, Authorize, TakeUnit, CloseUser
<1>7. ASSUME NEW c \in Conn, Dial(c) PROVE Kept
  BY <1>a, <1>b, <1>7 DEF ControlType, States, HttpScene, Links, Rounds, Early, At, Dial, CloseUser
<1>8. ASSUME NEW c \in Conn, Deferred(c) PROVE Kept
  BY <1>a, <1>b, <1>8 DEF ControlType, States, HttpScene, Links, Rounds, Early, At, Deferred, CloseUser, closedLink
<1>9. ASSUME NEW c \in Conn, NEW h \in Host, ReadRequest(c, h) PROVE Kept
  <2>1. \E v \in {"plain", "wait", "reset"} : hpc' = [hpc EXCEPT ![c] = v]
    BY <1>9 DEF ReadRequest, At
  <2>2. host' \in {host, [host EXCEPT ![c] = h]}
    BY <1>9 DEF ReadRequest
  <2>3. isReset' \in {isReset, [isReset EXCEPT ![c] = TRUE]} /\ UNCHANGED <<lk, user, spent>>
    BY <1>9 DEF ReadRequest
  <2> QED BY <1>a, <2>1, <2>2, <2>3, ZenonT(60) DEF ControlType, States
<1>10. ASSUME NEW c \in Conn, ReadFails(c) PROVE Kept
  BY <1>a, <1>b, <1>10 DEF ControlType, States, HttpScene, Links, Rounds, Early, At, ReadFails
<1>11. ASSUME NEW c \in Conn, WaitReaders(c) PROVE Kept
  BY <1>a, <1>b, <1>11 DEF ControlType, States, HttpScene, Links, Rounds, Early, At, WaitReaders
<1>12. ASSUME NEW c \in Conn, NEW i \in Links, ReaderStarts(c, i) PROVE Kept
  BY <1>a, <1>b, <1>12 DEF ControlType, States, HttpScene, Links, Rounds, Early, At, ReaderStarts
<1>13. ASSUME NEW c \in Conn, NEW i \in Links, CopyEnds(c, i) PROVE Kept
  BY <1>a, <1>b, <1>13 DEF ControlType, States, HttpScene, Links, Rounds, Early, At, CopyEnds
<1>14. ASSUME NEW c \in Conn, NEW i \in Links, CopyBreaks(c, i) PROVE Kept
  BY <1>a, <1>b, <1>14 DEF ControlType, States, HttpScene, Links, Rounds, Early, At, CopyBreaks
<1>15. ASSUME NEW c \in Conn, NEW i \in Links, ReaderDone(c, i) PROVE Kept
  BY <1>a, <1>b, <1>15 DEF ControlType, States, HttpScene, Links, Rounds, Early, At, ReaderDone, CloseUser, closedLink
<1>16. ASSUME NEW c \in Conn, JoinEnds(c) PROVE Kept
  BY <1>a, <1>b, <1>16 DEF ControlType, States, HttpScene, Links, Rounds, Early, At, JoinEnds, CloseUser, closedLink
<1>17. ASSUME NEW c \in Conn, JoinOver(c) PROVE Kept
  BY <1>a, <1>b, <1>17 DEF ControlType, States, HttpScene, Links, Rounds, Early, At, JoinOver, CloseUser, closedLink
<1>18. ASSUME NEW c \in Conn, Leaves(c) PROVE Kept
  BY <1>a, <1>b, <1>18 DEF ControlType, States, HttpScene, Links, Rounds, Early, At, Leaves
<1>19. ASSUME NEW c \in Conn, NEW i \in Links, TargetEnds(c, i) PROVE Kept
  BY <1>a, <1>b, <1>19 DEF ControlType, States, HttpScene, Links, Rounds, Early, At, TargetEnds
<1>20. ASSUME NEW k \in Client, Spend(k) PROVE Kept
  BY <1>a, <1>b, <1>20 DEF ControlType, States, HttpScene, Links, Rounds, Early, At, Spend
<1> QED
  BY <1>1, <1>2, <1>3, <1>4, <1>5, <1>6, <1>7, <1>8, <1>9, <1>10, <1>11,
     <1>12, <1>13, <1>14, <1>15, <1>16, <1>17, <1>18, <1>19, <1>20
  DEF HttpNext, Main, Reader

\* what is counted,
LEMMA CountTypeStep ==
  ASSUME HttpInv, HttpNext
  PROVE  CountType'
<1> DEFINE Kept == CountType'
<1>a. CountType
  BY HttpAssumption, HttpTypes DEF HttpInv, HttpTypeOK, HttpScene, Links, ControlType
<1>b. \A x \in Conn : Rounds(x)
  BY DEF HttpInv
<1>c. ASSUME UNCHANGED <<units, nowConn>> PROVE Kept
  BY <1>a, <1>b, <1>c DEF CountType
<1>1. ASSUME NEW c \in Conn, Request(c) PROVE Kept
  BY <1>a, <1>b, <1>1 DEF CountType, At, Request
<1>2. ASSUME NEW c \in Conn, Again(c) PROVE Kept
  <2>1. clientOf(c) \in Client
    BY <1>b, <1>2, HttpAssumption DEF Rounds, clientOf, Again, At
  <2> QED BY <1>a, <1>2, <2>1 DEF CountType, Again
<1>3. ASSUME NEW c \in Conn, GetInfoByHost(c) PROVE Kept
  BY <1>a, <1>b, <1>3 DEF CountType, At, GetInfoByHost, CloseUser
<1>4. ASSUME NEW c \in Conn, CheckFlow(c) PROVE Kept
  BY <1>a, <1>b, <1>4 DEF CountType, At, CheckFlow, CloseUser, HasRoom
<1>5. ASSUME NEW c \in Conn, CountConn(c) PROVE Kept
  <2>1. clientOf(c) \in Client
    BY <1>b, <1>5, HttpAssumption DEF Rounds, clientOf, CountConn, At
  <2> QED BY <1>a, <1>5, <2>1 DEF CountType, CountConn, TakeUnit
<1>6. ASSUME NEW c \in Conn, Authorize(c) PROVE Kept
  <2>1. clientOf(c) \in Client
    BY <1>b, <1>6, HttpAssumption DEF Rounds, clientOf, Authorize, At
  <2> QED BY <1>a, <1>6, <2>1 DEF CountType, Authorize, TakeUnit
<1>7. ASSUME NEW c \in Conn, Dial(c) PROVE Kept
  BY <1>a, <1>b, <1>7 DEF CountType, At, Dial, CloseUser
<1>8. ASSUME NEW c \in Conn, Deferred(c) PROVE Kept
  BY <1>a, <1>b, <1>8 DEF CountType, At, Deferred, CloseUser, closedLink
<1>9. ASSUME NEW c \in Conn, NEW h \in Host, ReadRequest(c, h) PROVE Kept
  BY <1>a, <1>b, <1>9 DEF CountType, At, ReadRequest, closedLink
<1>10. ASSUME NEW c \in Conn, ReadFails(c) PROVE Kept
  BY <1>a, <1>b, <1>10 DEF CountType, At, ReadFails
<1>11. ASSUME NEW c \in Conn, WaitReaders(c) PROVE Kept
  BY <1>a, <1>b, <1>11 DEF CountType, At, WaitReaders
<1>12. ASSUME NEW c \in Conn, NEW i \in Links, ReaderStarts(c, i) PROVE Kept
  BY <1>a, <1>b, <1>12 DEF CountType, At, ReaderStarts
<1>13. ASSUME NEW c \in Conn, NEW i \in Links, CopyEnds(c, i) PROVE Kept
  BY <1>a, <1>b, <1>13 DEF CountType, At, CopyEnds
<1>14. ASSUME NEW c \in Conn, NEW i \in Links, CopyBreaks(c, i) PROVE Kept
  BY <1>a, <1>b, <1>14 DEF CountType, At, CopyBreaks
<1>15. ASSUME NEW c \in Conn, NEW i \in Links, ReaderDone(c, i) PROVE Kept
  BY <1>a, <1>b, <1>15 DEF CountType, At, ReaderDone, CloseUser, closedLink
<1>16. ASSUME NEW c \in Conn, JoinEnds(c) PROVE Kept
  BY <1>a, <1>b, <1>16 DEF CountType, At, JoinEnds, CloseUser, closedLink
<1>17. ASSUME NEW c \in Conn, JoinOver(c) PROVE Kept
  BY <1>a, <1>b, <1>17 DEF CountType, At, JoinOver, CloseUser, closedLink
<1>18. ASSUME NEW c \in Conn, Leaves(c) PROVE Kept
  BY <1>a, <1>b, <1>18 DEF CountType, At, Leaves
<1>19. ASSUME NEW c \in Conn, NEW i \in Links, TargetEnds(c, i) PROVE Kept
  BY <1>a, <1>b, <1>19 DEF CountType, At, TargetEnds
<1>20. ASSUME NEW k \in Client, Spend(k) PROVE Kept
  BY <1>a, <1>b, <1>20 DEF CountType, At, Spend
<1> QED
  BY <1>1, <1>2, <1>3, <1>4, <1>5, <1>6, <1>7, <1>8, <1>9, <1>10, <1>11,
     <1>12, <1>13, <1>14, <1>15, <1>16, <1>17, <1>18, <1>19, <1>20
  DEF HttpNext, Main, Reader

\* the streams,
LEMMA StreamTypeStep ==
  ASSUME HttpInv, HttpNext
  PROVE  StreamType'
<1> DEFINE Kept == StreamType'
<1>a. StreamType
  BY HttpAssumption, HttpTypes DEF HttpInv, HttpTypeOK, HttpScene, Links, ControlType
<1>b. \A x \in Conn : Rounds(x)
  BY DEF HttpInv
<1>c. ASSUME UNCHANGED <<connClient>> PROVE Kept
  BY <1>a, <1>b, <1>c DEF StreamType
<1>1. ASSUME NEW c \in Conn, Request(c) PROVE Kept
  BY <1>a, <1>b, <1>1 DEF StreamType, At, Request
<1>2. ASSUME NEW c \in Conn, Again(c) PROVE Kept
  BY <1>a, <1>b, <1>2 DEF StreamType, At, Again
<1>3. ASSUME NEW c \in Conn, GetInfoByHost(c) PROVE Kept
  BY <1>a, <1>b, <1>3 DEF StreamType, At, GetInfoByHost, CloseUser
<1>4. ASSUME NEW c \in Conn, CheckFlow(c) PROVE Kept
  BY <1>a, <1>b, <1>4 DEF StreamType, At, CheckFlow, CloseUser, HasRoom
<1>5. ASSUME NEW c \in Conn, CountConn(c) PROVE Kept
  BY <1>a, <1>b, <1>5 DEF StreamType, At, CountConn, TakeUnit
<1>6. ASSUME NEW c \in Conn, Authorize(c) PROVE Kept
  BY <1>a, <1>b, <1>6 DEF StreamType, At, Authorize, TakeUnit, CloseUser
<1>7. ASSUME NEW c \in Conn, Dial(c) PROVE Kept
  BY <1>a, <1>b, <1>7 DEF StreamType, At, Dial, CloseUser
<1>8. ASSUME NEW c \in Conn, Deferred(c) PROVE Kept
  BY <1>a, <1>b, <1>8 DEF StreamType, At, Deferred, CloseUser, closedLink
<1>9. ASSUME NEW c \in Conn, NEW h \in Host, ReadRequest(c, h) PROVE Kept
  BY <1>a, <1>b, <1>9 DEF StreamType, At, ReadRequest, closedLink
<1>10. ASSUME NEW c \in Conn, ReadFails(c) PROVE Kept
  BY <1>a, <1>b, <1>10 DEF StreamType, At, ReadFails
<1>11. ASSUME NEW c \in Conn, WaitReaders(c) PROVE Kept
  BY <1>a, <1>b, <1>11 DEF StreamType, At, WaitReaders
<1>12. ASSUME NEW c \in Conn, NEW i \in Links, ReaderStarts(c, i) PROVE Kept
  BY <1>a, <1>b, <1>12 DEF StreamType, At, ReaderStarts
<1>13. ASSUME NEW c \in Conn, NEW i \in Links, CopyEnds(c, i) PROVE Kept
  BY <1>a, <1>b, <1>13 DEF StreamType, At, CopyEnds
<1>14. ASSUME NEW c \in Conn, NEW i \in Links, CopyBreaks(c, i) PROVE Kept
  BY <1>a, <1>b, <1>14 DEF StreamType, At, CopyBreaks
<1>15. ASSUME NEW c \in Conn, NEW i \in Links, ReaderDone(c, i) PROVE Kept
  BY <1>a, <1>b, <1>15 DEF StreamType, At, ReaderDone, CloseUser, closedLink
<1>16. ASSUME NEW c \in Conn, JoinEnds(c) PROVE Kept
  BY <1>a, <1>b, <1>16 DEF StreamType, At, JoinEnds, CloseUser, closedLink
<1>17. ASSUME NEW c \in Conn, JoinOver(c) PROVE Kept
  BY <1>a, <1>b, <1>17 DEF StreamType, At, JoinOver, CloseUser, closedLink
<1>18. ASSUME NEW c \in Conn, Leaves(c) PROVE Kept
  BY <1>a, <1>b, <1>18 DEF StreamType, At, Leaves
<1>19. ASSUME NEW c \in Conn, NEW i \in Links, TargetEnds(c, i) PROVE Kept
  BY <1>a, <1>b, <1>19 DEF StreamType, At, TargetEnds
<1>20. ASSUME NEW k \in Client, Spend(k) PROVE Kept
  BY <1>a, <1>b, <1>20 DEF StreamType, At, Spend
<1> QED
  BY <1>1, <1>2, <1>3, <1>4, <1>5, <1>6, <1>7, <1>8, <1>9, <1>10, <1>11,
     <1>12, <1>13, <1>14, <1>15, <1>16, <1>17, <1>18, <1>19, <1>20
  DEF HttpNext, Main, Reader

\* and the goroutines.
LEMMA ReaderTypeStep ==
  ASSUME HttpInv, HttpNext
  PROVE  ReaderType'
<1> DEFINE Kept == ReaderType'
<1>a. ReaderType /\ lk \in [Conn -> 0..MaxLink]
  BY HttpAssumption, HttpTypes DEF HttpInv, HttpTypeOK, HttpScene, Links, ControlType
<1>b. \A x \in Conn : Rounds(x)
  BY DEF HttpInv
<1>c. ASSUME UNCHANGED <<reader>> PROVE Kept
  BY <1>a, <1>b, <1>c DEF ReaderType
<1>1. ASSUME NEW c \in Conn, Request(c) PROVE Kept
  BY <1>a, <1>b, <1>1 DEF ReaderType, At, Request
<1>2. ASSUME NEW c \in Conn, Again(c) PROVE Kept
  BY <1>a, <1>b, <1>2 DEF ReaderType, At, Again
<1>3. ASSUME NEW c \in Conn, GetInfoByHost(c) PROVE Kept
  BY <1>a, <1>b, <1>3 DEF ReaderType, At, GetInfoByHost, CloseUser
<1>4. ASSUME NEW c \in Conn, CheckFlow(c) PROVE Kept
  BY <1>a, <1>b, <1>4 DEF ReaderType, At, CheckFlow, CloseUser, HasRoom
<1>5. ASSUME NEW c \in Conn, CountConn(c) PROVE Kept
  BY <1>a, <1>b, <1>5 DEF ReaderType, At, CountConn, TakeUnit
<1>6. ASSUME NEW c \in Conn, Authorize(c) PROVE Kept
  BY <1>a, <1>b, <1>6 DEF ReaderType, At, Authorize, TakeUnit, CloseUser
<1>7. ASSUME NEW c \in Conn, Dial(c) PROVE Kept
  <2> DEFINE R == [at: {"none", "start", "copy", "end", "done"}, of: 0..MaxLink]
             r == [at |-> "start", of |-> 0]
  <2>1. r \in R
    BY HttpAssumption
  <2>2. reader \in [Conn -> [Links -> R]]
    BY <1>a DEF ReaderType
  <2>3. reader' = reader \/ reader' = [reader EXCEPT ![c][lk[c] + 1] = r]
    BY <1>7 DEF Dial
  <2> HIDE DEF R, r
  <2>4. [reader[c] EXCEPT ![lk[c] + 1] = r] \in [Links -> R]
    BY <2>1, <2>2
  <2>5. reader' \in [Conn -> [Links -> R]]
    BY <2>2, <2>3, <2>4
  <2> QED
    BY <2>5 DEF ReaderType, R
<1>8. ASSUME NEW c \in Conn, Deferred(c) PROVE Kept
  BY <1>a, <1>b, <1>8 DEF ReaderType, At, Deferred, CloseUser, closedLink
<1>9. ASSUME NEW c \in Conn, NEW h \in Host, ReadRequest(c, h) PROVE Kept
  BY <1>a, <1>b, <1>9 DEF ReaderType, At, ReadRequest, closedLink
<1>10. ASSUME NEW c \in Conn, ReadFails(c) PROVE Kept
  BY <1>a, <1>b, <1>10 DEF ReaderType, At, ReadFails
<1>11. ASSUME NEW c \in Conn, WaitReaders(c) PROVE Kept
  BY <1>a, <1>b, <1>11 DEF ReaderType, At, WaitReaders
<1>12. ASSUME NEW c \in Conn, NEW i \in Links, ReaderStarts(c, i) PROVE Kept
  BY <1>a, <1>b, <1>12 DEF ReaderType, At, ReaderStarts
<1>13. ASSUME NEW c \in Conn, NEW i \in Links, CopyEnds(c, i) PROVE Kept
  BY <1>a, <1>b, <1>13 DEF ReaderType, At, CopyEnds
<1>14. ASSUME NEW c \in Conn, NEW i \in Links, CopyBreaks(c, i) PROVE Kept
  BY <1>a, <1>b, <1>14 DEF ReaderType, At, CopyBreaks
<1>15. ASSUME NEW c \in Conn, NEW i \in Links, ReaderDone(c, i) PROVE Kept
  BY <1>a, <1>b, <1>15 DEF ReaderType, At, ReaderDone, CloseUser, closedLink
<1>16. ASSUME NEW c \in Conn, JoinEnds(c) PROVE Kept
  BY <1>a, <1>b, <1>16 DEF ReaderType, At, JoinEnds, CloseUser, closedLink
<1>17. ASSUME NEW c \in Conn, JoinOver(c) PROVE Kept
  BY <1>a, <1>b, <1>17 DEF ReaderType, At, JoinOver, CloseUser, closedLink
<1>18. ASSUME NEW c \in Conn, Leaves(c) PROVE Kept
  BY <1>a, <1>b, <1>18 DEF ReaderType, At, Leaves
<1>19. ASSUME NEW c \in Conn, NEW i \in Links, TargetEnds(c, i) PROVE Kept
  BY <1>a, <1>b, <1>19 DEF ReaderType, At, TargetEnds
<1>20. ASSUME NEW k \in Client, Spend(k) PROVE Kept
  BY <1>a, <1>b, <1>20 DEF ReaderType, At, Spend
<1> QED
  BY <1>1, <1>2, <1>3, <1>4, <1>5, <1>6, <1>7, <1>8, <1>9, <1>10, <1>11,
     <1>12, <1>13, <1>14, <1>15, <1>16, <1>17, <1>18, <1>19, <1>20
  DEF HttpNext, Main, Reader

\* A step that neither takes nor gives back a unit, and owes none.
LEMMA QuotaFrame ==
  ASSUME QuotaInv, CountType, UNCHANGED <<scene, units, nowConn>>,
         \A k \in Client : Owing(k)' \subseteq Owing(k)
  PROVE  QuotaInv'
<1> SUFFICES ASSUME NEW k \in Client
             PROVE  /\ IsFiniteSet(Deferrals(k))' /\ IsFiniteSet(Owing(k))'
                    /\ nowConn'[k] + Cardinality(Owing(k))' <= Held(k)'
                    /\ scene'.resets = 0 => nowConn'[k] = Held(k)'
  BY DEF QuotaInv
<1>1. Deferrals(k)' = Deferrals(k) /\ Held(k)' = Held(k)
  BY DEF Deferrals, Held
<1>2. /\ IsFiniteSet(Deferrals(k)) /\ IsFiniteSet(Owing(k))
      /\ nowConn[k] + Cardinality(Owing(k)) <= Held(k)
      /\ scene.resets = 0 => nowConn[k] = Held(k)
  BY DEF QuotaInv
<1>3. IsFiniteSet(Owing(k)') /\ Cardinality(Owing(k)') <= Cardinality(Owing(k))
  BY <1>2, FS_Subset
<1>4. /\ Cardinality(Owing(k)) \in Nat /\ Cardinality(Owing(k)') \in Nat
      /\ Held(k) \in Nat /\ nowConn[k] \in Int
  BY <1>2, <1>3, FS_CardinalityType DEF Held, CountType
<1> QED BY <1>1, <1>2, <1>3, <1>4

\* A deferred call for a unit that is taken.
LEMMA QuotaTake ==
  ASSUME QuotaInv, CountType, NEW c \in Conn, NEW m \in Client,
         scene' = scene, units[c][m] + 1 \in Links,
         units' = [units EXCEPT ![c][m] = @ + 1],
         nowConn' = [nowConn EXCEPT ![m] = @ + 1],
         \A k \in Client : Owing(k)' \subseteq Owing(k)
  PROVE  QuotaInv'
<1> SUFFICES ASSUME NEW k \in Client
             PROVE  /\ IsFiniteSet(Deferrals(k))' /\ IsFiniteSet(Owing(k))'
                    /\ nowConn'[k] + Cardinality(Owing(k))' <= Held(k)'
                    /\ scene'.resets = 0 => nowConn'[k] = Held(k)'
  BY DEF QuotaInv
<1>1. /\ IsFiniteSet(Deferrals(k)) /\ IsFiniteSet(Owing(k))
      /\ nowConn[k] + Cardinality(Owing(k)) <= Held(k)
      /\ scene.resets = 0 => nowConn[k] = Held(k)
  BY DEF QuotaInv
<1>2. IsFiniteSet(Owing(k)') /\ Cardinality(Owing(k)') <= Cardinality(Owing(k))
  BY <1>1, FS_Subset
<1>3. /\ Cardinality(Owing(k)) \in Nat /\ Cardinality(Owing(k)') \in Nat
      /\ Held(k) \in Nat /\ nowConn[k] \in Int
  BY <1>1, <1>2, FS_CardinalityType DEF Held, CountType
<1>4. CASE k = m
  <2> DEFINE d == <<c, units[c][m] + 1>>
  <2>1. nowConn'[k] = nowConn[k] + 1 /\ units[c][m] \in Nat
    BY <1>4 DEF CountType
  <2>2. \A x \in Conn : units'[x][m] = IF x = c THEN units[c][m] + 1 ELSE units[x][m]
    BY DEF CountType
  <2>3. d \notin Deferrals(k)
    BY <1>4, <2>1 DEF Deferrals
  <2>4. Deferrals(k)' = Deferrals(k) \cup {d}
    <3>1. ASSUME NEW x \in Conn, NEW j \in Links
          PROVE  j <= units'[x][m] <=> j <= units[x][m] \/ <<x, j>> = d
      <4>1. j \in Nat /\ units[x][m] \in Nat /\ units[c][m] \in Nat
        BY HttpAssumption DEF Links, CountType
      <4>2. <<x, j>> = d <=> x = c /\ j = units[c][m] + 1
        OBVIOUS
      <4> HIDE DEF d
      <4> QED BY <4>1, <4>2, <2>2
    <3>2. ASSUME NEW e \in Conn \X Links
          PROVE  e[2] <= units'[e[1]][m] <=> e[2] <= units[e[1]][m] \/ e = d
      <4>1. PICK x \in Conn, j \in Links : e = <<x, j>>
        OBVIOUS
      <4> QED BY <3>1, <4>1
    <3>3. d \in Conn \X Links
      OBVIOUS
    <3> QED BY <1>4, <3>2, <3>3 DEF Deferrals
  <2>5. IsFiniteSet(Deferrals(k)') /\ Held(k)' = Held(k) + 1
    <3> HIDE DEF d
    <3> QED BY <1>1, <2>3, <2>4, FS_AddElement DEF Held
  <2> QED BY <1>1, <1>2, <1>3, <2>1, <2>5
<1>5. CASE k # m
  <2>1. nowConn'[k] = nowConn[k] /\ \A x \in Conn : units'[x][k] = units[x][k]
    BY <1>5 DEF CountType
  <2>2. Deferrals(k)' = Deferrals(k) /\ Held(k)' = Held(k)
    BY <2>1 DEF Deferrals, Held
  <2> QED BY <1>1, <1>2, <1>3, <2>1, <2>2
<1> QED BY <1>4, <1>5

\* As many pairs as numbers.
LEMMA PairsCounted ==
  ASSUME NEW c, NEW n \in Nat
  PROVE  IsFiniteSet({c} \X (1..n)) /\ Cardinality({c} \X (1..n)) = n
<1> DEFINE f == [i \in 1..n |-> <<c, i>>]
<1>1. f \in Bijection(1..n, {c} \X (1..n))
  <2>1. f \in [1..n -> {c} \X (1..n)]
    OBVIOUS
  <2>2. \A i, j \in 1..n : f[i] = f[j] => i = j
    OBVIOUS
  <2>3. \A e \in {c} \X (1..n) : \E i \in 1..n : f[i] = e
    OBVIOUS
  <2> QED BY <2>1, <2>2, <2>3 DEF Bijection, Injection, Surjection, IsInjective
<1>2. ExistsBijection(1..n, {c} \X (1..n))
  BY <1>1 DEF ExistsBijection
<1>3. IsFiniteSet(1..n) /\ Cardinality(1..n) = n
  BY FS_Interval
<1> QED BY <1>2, <1>3, FS_Bijection

\* The deferred calls give back what they stand for.
LEMMA QuotaReturn ==
  ASSUME QuotaInv, CountType, NEW c \in Conn, scene' = scene,
         \A k \in Client : units[c][k] <= MaxLink,
         units' = [units EXCEPT ![c] = [k \in Client |-> 0]],
         nowConn' = [k \in Client |-> nowConn[k] - units[c][k]],
         \A k \in Client : Owing(k)' \subseteq Owing(k)
  PROVE  QuotaInv'
<1> SUFFICES ASSUME NEW k \in Client
             PROVE  /\ IsFiniteSet(Deferrals(k))' /\ IsFiniteSet(Owing(k))'
                    /\ nowConn'[k] + Cardinality(Owing(k))' <= Held(k)'
                    /\ scene'.resets = 0 => nowConn'[k] = Held(k)'
  BY DEF QuotaInv
<1>1. /\ IsFiniteSet(Deferrals(k)) /\ IsFiniteSet(Owing(k))
      /\ nowConn[k] + Cardinality(Owing(k)) <= Held(k)
      /\ scene.resets = 0 => nowConn[k] = Held(k)
  BY DEF QuotaInv
<1>2. IsFiniteSet(Owing(k)') /\ Cardinality(Owing(k)') <= Cardinality(Owing(k))
  BY <1>1, FS_Subset
<1> DEFINE n == units[c][k]
           G == {c} \X (1..n)
<1>3. n \in Nat /\ n <= MaxLink /\ nowConn[k] \in Int /\ nowConn'[k] = nowConn[k] - n
  BY DEF CountType
<1>4. IsFiniteSet(G) /\ Cardinality(G) = n
  BY <1>3, PairsCounted
<1>5. G \subseteq Deferrals(k) /\ Deferrals(k)' = Deferrals(k) \ G
  <2>1. \A x \in Conn : units'[x][k] = IF x = c THEN 0 ELSE units[x][k]
    BY DEF CountType
  <2>2. ASSUME NEW x \in Conn, NEW j \in Links
        PROVE  /\ <<x, j>> \in G <=> x = c /\ j <= units[c][k]
               /\ j <= units'[x][k] <=> j <= units[x][k] /\ x # c
    BY <1>3, <2>1, HttpAssumption DEF Links
  <2>3. ASSUME NEW e \in Conn \X Links
        PROVE  /\ e \in G <=> e[1] = c /\ e[2] <= units[c][k]
               /\ e[2] <= units'[e[1]][k] <=> e[2] <= units[e[1]][k] /\ e[1] # c
    <3>1. PICK x \in Conn, j \in Links : e = <<x, j>>
      OBVIOUS
    <3> QED BY <2>2, <3>1
  <2>4. G \subseteq Conn \X Links
    BY <1>3, HttpAssumption DEF Links
  <2> HIDE DEF G
  <2> QED BY <2>3, <2>4 DEF Deferrals
<1>6. IsFiniteSet(Deferrals(k)') /\ Held(k) = Held(k)' + n
  <2>1. IsFiniteSet(Deferrals(k)')
    BY <1>1, <1>5, FS_Subset
  <2>2. Deferrals(k) = Deferrals(k)' \cup G /\ Deferrals(k)' \cap G = {}
    BY <1>5
  <2>3. Cardinality(Deferrals(k)) = Cardinality(Deferrals(k)') + n - 0
    BY <1>4, <2>1, <2>2, FS_Union, FS_EmptySet
  <2>4. Cardinality(Deferrals(k)') \in Nat
    BY <2>1, FS_CardinalityType
  <2> QED BY <1>3, <2>1, <2>3, <2>4 DEF Held
<1>7. /\ Cardinality(Owing(k)) \in Nat /\ Cardinality(Owing(k)') \in Nat
      /\ Held(k) \in Nat /\ Held(k)' \in Nat
  BY <1>1, <1>2, <1>6, FS_CardinalityType DEF Held
<1> QED BY <1>1, <1>2, <1>3, <1>6, <1>7


\* NowConn is never more than what is given back in the end.
LEMMA HttpQuotaStep ==
  ASSUME HttpInv, HttpNext
  PROVE  QuotaInv'
<1>a. ControlType /\ CountType /\ scene \in HttpScene /\ QuotaInv /\ MaxLink \in Nat
  BY HttpTypes, HttpAssumption DEF HttpInv
<1>b. \A x \in Conn : Rounds(x) /\ UnitsOf(x)
  BY DEF HttpInv
<1>c. \A x \in Conn : UnitsOf(x)'
  BY HttpUnitsStep
<1> DEFINE Less == \A k \in Client : Owing(k)' \subseteq Owing(k)
<1>d. ASSUME UNCHANGED <<scene, units, nowConn>>, Less PROVE QuotaInv'
  BY <1>a, <1>d, QuotaFrame
<1>e. ASSUME NEW c \in Conn, UNCHANGED isReset, hpc'[c] \notin {"look", "check", "cut"},
             \A x \in Conn \ {c} : hpc'[x] = hpc[x] /\ host'[x] = host[x]
      PROVE  Less
  BY <1>e DEF Owing, clientOf
<1>f. ASSUME NEW c \in Conn, UNCHANGED <<isReset, host>>, hpc[c] \in {"look", "check", "cut"},
             \A x \in Conn \ {c} : hpc'[x] = hpc[x]
      PROVE  Less
  BY <1>f DEF Owing, clientOf
<1>1. ASSUME NEW c \in Conn, Request(c) PROVE QuotaInv'
  <2>1. UNCHANGED <<isReset, scene, units, nowConn>> /\ \A x \in Conn \ {c} : host'[x] = host[x]
    BY <1>a, <1>1 DEF Request, ControlType
  <2>2. \A x \in Conn \ {c} : hpc'[x] = hpc[x]
    BY <1>a, <1>1 DEF Request, At, ControlType
  <2>3. CASE scene.kind[c] = "plain"
    <3>1. hpc'[c] = "reset"
      BY <1>a, <1>1, <2>3 DEF Request, At, ControlType
    <3> QED BY <1>d, <1>e, <2>1, <2>2, <3>1
  <2>4. CASE scene.kind[c] # "plain"
    <3>1. ~isReset[c]
      BY <1>b, <2>4 DEF Rounds
    <3>2. Less
      BY <2>1, <2>2, <3>1 DEF Owing, clientOf
    <3> QED BY <1>d, <2>1, <3>2
  <2> QED BY <2>3, <2>4
<1>2. ASSUME NEW c \in Conn, Again(c) PROVE QuotaInv'
  <2>1. /\ UNCHANGED <<isReset, scene, units, host>> /\ hpc[c] = "reset"
        /\ hpc' = [hpc EXCEPT ![c] = "look"]
    BY <1>2 DEF Again, At
  <2>2. clientOf(c) \in Client
    BY <1>b, <2>1, HttpAssumption DEF Rounds, clientOf
  <2>3. CASE ~isReset[c]
    <3>1. Less /\ nowConn' = nowConn
      BY <1>a, <1>2, <2>1, <2>3 DEF Again, Owing, clientOf, ControlType
    <3> QED BY <1>d, <2>1, <3>1
  <2>4. CASE isReset[c]
    <3>1. nowConn' = [nowConn EXCEPT ![clientOf(c)] = @ - 1]
      BY <1>2, <2>4 DEF Again
    <3> SUFFICES ASSUME NEW k \in Client
                 PROVE  /\ IsFiniteSet(Deferrals(k))' /\ IsFiniteSet(Owing(k))'
                        /\ nowConn'[k] + Cardinality(Owing(k))' <= Held(k)'
                        /\ scene'.resets = 0 => nowConn'[k] = Held(k)'
      BY DEF QuotaInv
    <3>2. Deferrals(k)' = Deferrals(k) /\ Held(k)' = Held(k) /\ scene.resets # 0
      BY <1>b, <2>1, <2>4 DEF Deferrals, Held, Rounds
    <3>3. /\ IsFiniteSet(Deferrals(k)) /\ IsFiniteSet(Owing(k))
          /\ nowConn[k] + Cardinality(Owing(k)) <= Held(k) /\ nowConn[k] \in Int
      BY <1>a DEF QuotaInv, CountType
    <3>4. Cardinality(Owing(k)) \in Nat /\ Held(k) \in Nat
      BY <3>3, FS_CardinalityType DEF Held
    <3>5. CASE clientOf(c) = k
      <4>1. Owing(k)' = Owing(k) \cup {c} /\ c \notin Owing(k)
        BY <1>a, <2>1, <2>4, <3>5 DEF Owing, clientOf, ControlType
      <4>2. IsFiniteSet(Owing(k)') /\ Cardinality(Owing(k)') = Cardinality(Owing(k)) + 1
        BY <3>3, <4>1, FS_AddElement
      <4>3. nowConn'[k] = nowConn[k] - 1
        BY <1>a, <3>1, <3>5 DEF CountType
      <4> QED BY <2>1, <3>2, <3>3, <3>4, <4>2, <4>3
    <3>6. CASE clientOf(c) # k
      <4>1. Owing(k)' = Owing(k)
        BY <1>a, <2>1, <3>6 DEF Owing, clientOf, ControlType
      <4>2. nowConn'[k] = nowConn[k]
        BY <1>a, <3>1, <3>6 DEF CountType
      <4> QED BY <2>1, <3>2, <3>3, <4>1, <4>2
    <3> QED BY <3>5, <3>6
  <2> QED BY <2>3, <2>4
<1>3. ASSUME NEW c \in Conn, GetInfoByHost(c) \/ CheckFlow(c) PROVE QuotaInv'
  <2>1. /\ UNCHANGED <<isReset, scene, units, nowConn, host>>
        /\ hpc[c] \in {"look", "check", "cut"} /\ \A x \in Conn \ {c} : hpc'[x] = hpc[x]
    BY <1>a, <1>3 DEF GetInfoByHost, CheckFlow, At, ControlType
  <2> QED BY <1>d, <1>f, <2>1
<1>4. ASSUME NEW c \in Conn, CountConn(c) PROVE QuotaInv'
  <2>1. /\ UNCHANGED <<isReset, scene, host>> /\ hpc[c] = "cut"
        /\ hpc' = [hpc EXCEPT ![c] = "auth"]
        /\ nowConn' = [nowConn EXCEPT ![clientOf(c)] = @ + 1]
    BY <1>4 DEF CountConn, At, TakeUnit
  <2>2. clientOf(c) \in Client /\ \A x \in Conn : hpc'[x] = IF x = c THEN "auth" ELSE hpc[x]
    BY <1>a, <1>b, <2>1, HttpAssumption DEF Rounds, clientOf, ControlType
  <2>3. CASE ~isReset[c]
    <3>1. units' = [units EXCEPT ![c][clientOf(c)] = @ + 1]
      BY <1>4, <2>3 DEF CountConn, TakeUnit
    <3>2. Less
      BY <1>f, <2>1, <2>2
    <3>3. units'[c][clientOf(c)] = units[c][clientOf(c)] + 1 /\ units[c][clientOf(c)] \in Nat
      BY <1>a, <2>2, <3>1 DEF CountType
    <3>4. units'[c][clientOf(c)] <= MaxLink
      BY <1>c, <2>2 DEF UnitsOf
    <3>5. units[c][clientOf(c)] + 1 \in Links
      BY <1>a, <3>3, <3>4 DEF Links
    <3> QED BY <1>a, <2>1, <2>2, <3>1, <3>2, <3>5, QuotaTake
  <2>4. CASE isReset[c]
    <3>1. units' = units
      BY <1>4, <2>4 DEF CountConn, TakeUnit
    <3> SUFFICES ASSUME NEW k \in Client
                 PROVE  /\ IsFiniteSet(Deferrals(k))' /\ IsFiniteSet(Owing(k))'
                        /\ nowConn'[k] + Cardinality(Owing(k))' <= Held(k)'
                        /\ scene'.resets = 0 => nowConn'[k] = Held(k)'
      BY DEF QuotaInv
    <3>2. Deferrals(k)' = Deferrals(k) /\ Held(k)' = Held(k) /\ scene.resets # 0
      BY <1>b, <3>1, <2>4 DEF Deferrals, Held, Rounds
    <3>3. /\ IsFiniteSet(Deferrals(k)) /\ IsFiniteSet(Owing(k))
          /\ nowConn[k] + Cardinality(Owing(k)) <= Held(k) /\ nowConn[k] \in Int
      BY <1>a DEF QuotaInv, CountType
    <3>4. Cardinality(Owing(k)) \in Nat /\ Held(k) \in Nat
      BY <3>3, FS_CardinalityType DEF Held
    <3>5. CASE clientOf(c) = k
      <4>1. Owing(k)' = Owing(k) \ {c} /\ c \in Owing(k)
        BY <2>1, <2>2, <2>4, <3>5 DEF Owing, clientOf
      <4>2. IsFiniteSet(Owing(k)') /\ Cardinality(Owing(k)') = Cardinality(Owing(k)) - 1
        BY <3>3, <4>1, FS_RemoveElement
      <4>3. nowConn'[k] = nowConn[k] + 1
        BY <1>a, <2>1, <3>5 DEF CountType
      <4> QED BY <2>1, <3>2, <3>3, <3>4, <4>2, <4>3
    <3>6. CASE clientOf(c) # k
      <4>1. Owing(k)' = Owing(k)
        BY <2>1, <2>2, <3>6 DEF Owing, clientOf
      <4>2. nowConn'[k] = nowConn[k]
        BY <1>a, <2>1, <3>6 DEF CountType
      <4> QED BY <2>1, <3>2, <3>3, <4>1, <4>2
    <3> QED BY <3>5, <3>6
  <2> QED BY <2>3, <2>4
<1>5. ASSUME NEW c \in Conn, Authorize(c) PROVE QuotaInv'
  <2>1. /\ UNCHANGED <<isReset, scene, host>> /\ hpc[c] = "auth"
        /\ hpc'[c] \notin {"look", "check", "cut"} /\ \A x \in Conn \ {c} : hpc'[x] = hpc[x]
    BY <1>a, <1>5 DEF Authorize, At, ControlType
  <2>2. Less
    BY <1>e, <2>1
  <2>3. CASE UNCHANGED <<nowConn, units>>
    BY <1>d, <2>1, <2>2, <2>3
  <2>4. CASE TakeUnit(c, TRUE)
    <3>1. /\ units' = [units EXCEPT ![c][clientOf(c)] = @ + 1]
          /\ nowConn' = [nowConn EXCEPT ![clientOf(c)] = @ + 1]
      BY <2>4 DEF TakeUnit
    <3>2. clientOf(c) \in Client
      BY <1>b, <2>1, HttpAssumption DEF Rounds, clientOf
    <3>3. units'[c][clientOf(c)] = units[c][clientOf(c)] + 1 /\ units[c][clientOf(c)] \in Nat
      BY <1>a, <3>1, <3>2 DEF CountType
    <3>4. units'[c][clientOf(c)] <= MaxLink
      BY <1>c, <3>2 DEF UnitsOf
    <3>5. units[c][clientOf(c)] + 1 \in Links
      BY <1>a, <3>3, <3>4 DEF Links
    <3> QED BY <1>a, <2>1, <2>2, <3>1, <3>2, <3>5, QuotaTake
  <2> QED BY <1>5, <2>3, <2>4 DEF Authorize
<1>6. ASSUME NEW c \in Conn, Deferred(c) PROVE QuotaInv'
  <2>1. /\ UNCHANGED <<isReset, scene, host>> /\ hpc'[c] \notin {"look", "check", "cut"}
        /\ \A x \in Conn \ {c} : hpc'[x] = hpc[x]
    BY <1>a, <1>6 DEF Deferred, At, ControlType
  <2>2. /\ units' = [units EXCEPT ![c] = [k \in Client |-> 0]]
        /\ nowConn' = [k \in Client |-> nowConn[k] - units[c][k]]
    BY <1>6 DEF Deferred
  <2>3. \A k \in Client : units[c][k] <= MaxLink
    BY <1>b DEF UnitsOf
  <2>4. Less
    BY <1>e, <2>1
  <2> QED BY <1>a, <2>1, <2>2, <2>3, <2>4, QuotaReturn
<1>7. ASSUME NEW c \in Conn, \/ Dial(c) \/ ReadFails(c) \/ WaitReaders(c) \/ JoinEnds(c)
                             \/ JoinOver(c)
      PROVE QuotaInv'
  <2>1. /\ UNCHANGED <<isReset, scene, units, nowConn, host>>
        /\ hpc'[c] \notin {"look", "check", "cut"}
    BY <1>a, <1>7 DEF Dial, ReadFails, WaitReaders, JoinEnds, JoinOver, At, ControlType, HttpScene
  <2>2. \A x \in Conn \ {c} : hpc'[x] = hpc[x]
    BY <1>a, <1>7 DEF Dial, ReadFails, WaitReaders, JoinEnds, JoinOver, At, ControlType
  <2> QED BY <1>d, <1>e, <2>1, <2>2
<1>8. ASSUME NEW c \in Conn, NEW h \in Host, ReadRequest(c, h) PROVE QuotaInv'
  <2>1. /\ UNCHANGED <<scene, units, nowConn>> /\ hpc[c] = "plain"
        /\ \E v \in {"plain", "wait", "reset"} : hpc' = [hpc EXCEPT ![c] = v]
    BY <1>8 DEF ReadRequest, At
  <2>2. \A x \in Conn \ {c} : isReset'[x] = isReset[x] /\ host'[x] = host[x]
    <3>1. /\ host' = host \/ host' = [host EXCEPT ![c] = h]
          /\ isReset' = isReset \/ isReset' = [isReset EXCEPT ![c] = TRUE]
      BY <1>8 DEF ReadRequest
    <3> QED BY <1>a, <3>1 DEF ControlType
  <2>3. hpc'[c] \notin {"look", "check", "cut"} /\ \A x \in Conn \ {c} : hpc'[x] = hpc[x]
    BY <1>a, <2>1 DEF ControlType
  <2>4. Less
    BY <2>2, <2>3 DEF Owing, clientOf
  <2> QED BY <1>d, <2>1, <2>4
<1>9. ASSUME NEW c \in Conn, NEW i \in Links, ReaderStarts(c, i) PROVE QuotaInv'
  <2>1. UNCHANGED <<hpc, host, scene, units, nowConn>> /\ isReset' = [isReset EXCEPT ![c] = FALSE]
    BY <1>9 DEF ReaderStarts
  <2>2. Less
    BY <1>a, <2>1 DEF Owing, clientOf, ControlType
  <2> QED BY <1>d, <2>1, <2>2
<1>10. ASSUME NEW c \in Conn, NEW i \in Links,
              CopyEnds(c, i) \/ CopyBreaks(c, i) \/ ReaderDone(c, i) \/ TargetEnds(c, i) \/ Leaves(c)
       PROVE UNCHANGED <<hpc, host, isReset, scene, units, nowConn>>
  BY <1>10 DEF CopyEnds, CopyBreaks, ReaderDone, TargetEnds, Leaves
<1>11. ASSUME NEW k \in Client, Spend(k)
       PROVE UNCHANGED <<hpc, host, isReset, scene, units, nowConn>>
  BY <1>11 DEF Spend
<1>12. ASSUME UNCHANGED <<hpc, host, isReset, scene, units, nowConn>> PROVE QuotaInv'
  BY <1>12, <1>d DEF Owing, clientOf
<1>13. Links # {}
  BY HttpAssumption, SMTT(30) DEF Links
<1> QED BY <1>1, <1>2, <1>3, <1>4, <1>5, <1>6, <1>7, <1>8, <1>9, <1>10, <1>11, <1>12, <1>13
        DEF HttpNext, Main, Reader

\* Every step, of the module or not, preserves the invariant.
LEMMA HttpInvStep == HttpInv /\ [HttpNext]_httpVars => HttpInv'
<1> SUFFICES ASSUME HttpInv, [HttpNext]_httpVars PROVE HttpInv'
  OBVIOUS
<1>1. CASE HttpNext
  <2>1. scene' = scene
    BY <1>1 DEF HttpNext, Main, Reader, Request, Again, GetInfoByHost, CheckFlow, CountConn,
       Authorize, Dial, Deferred, ReadRequest, ReadFails, WaitReaders, ReaderStarts, CopyEnds,
       CopyBreaks, ReaderDone, JoinEnds, JoinOver, Leaves, TargetEnds, Spend
  <2>2. HttpTypeOK'
    BY <1>1, ControlTypeStep, CountTypeStep, StreamTypeStep, ReaderTypeStep, HttpTypes
    DEF HttpTypeOK, ControlType, CountType, StreamType, ReaderType, States
  <2> QED BY <1>1, <2>1, <2>2, HttpRoundsStep, HttpUnitsStep, HttpStreamsStep, HttpQuotaStep, SMTT(30)
          DEF HttpInv
<1>2. CASE UNCHANGED httpVars
  <2>1. HttpTypeOK' /\ scene' \in HttpScene
    BY <1>2 DEF HttpInv, HttpTypeOK, httpVars
  <2>2. QuotaInv'
    BY <1>2 DEF HttpInv, QuotaInv, Deferrals, Owing, Held, clientOf, httpVars
  <2>3. \A c \in Conn : Rounds(c)' /\ UnitsOf(c)' /\ StreamsOf(c)'
    BY <1>2 DEF HttpInv, Rounds, UnitsOf, StreamsOf, clientOf, httpVars
  <2> QED BY <2>1, <2>2, <2>3 DEF HttpInv
<1> QED BY <1>1, <1>2

-----------------------------------------------------------------------------
(* The theorems.                                                           *)

\* The scenes of MCNpsLinks are behaviours of the three modules side by side.
LEMMA SceneParts == SceneSpec => /\ Init /\ [][Next]_vars
                                 /\ HttpInit /\ [][HttpNext]_httpVars
                                 /\ CertInit /\ [][CertNext]_certVars
<1>1. SceneInit => Init /\ HttpInit /\ CertInit
  BY DEF SceneInit
<1>2. [SceneNext]_allVars => [Next]_vars /\ [HttpNext]_httpVars /\ [CertNext]_certVars
  BY DEF SceneNext, allVars
<1> QED BY <1>1, <1>2, PTL DEF SceneSpec

\* NowConn never counts a connection to a host that is gone, the streams of a
\* connection end with it (http.go), and, however connections, edits and deletions
\* overlap and whoever shares a certificate, nps finds a listener for every
\* certificate it knows unless that listener was taken out while another host or
\* connection was using it (https.go:204-210).
THEOREM HostsSoundHolds == SceneSpec => []HostsSound
<1>1. HttpInit => HttpInv
  BY HttpInvInit
<1>2. HttpInv /\ [HttpNext]_httpVars => HttpInv'
  BY HttpInvStep
<1>3. CertInit => CertInv
  BY CertInvInit
<1>4. CertInv /\ [CertNext]_certVars => CertInv'
  BY CertInvStep
<1>5. HttpInv /\ CertInv => HostsSound
  BY HttpInvSound, CertInvSound DEF HostsSound
<1> QED BY <1>1, <1>2, <1>3, <1>4, <1>5, SceneParts, PTL
=============================================================================

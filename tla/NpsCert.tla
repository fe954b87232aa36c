------------------------------ MODULE NpsCert ------------------------------
(***************************************************************************)
(* The certificates of server/proxy/https.go.  A connection for a host     *)
(* with a certificate is handed to the listener of that certificate, which *)
(* an http server of its own accepts from.  Two maps without a common lock *)
(* lead to it: hostIdCertMap from a host to its certificate and            *)
(* httpsListenerMap from a certificate to its listener.  Hosts may share a *)
(* certificate, and connections and edits overlap as they like: nps can    *)
(* end in a panic, and the properties say when.                            *)
(***************************************************************************)
EXTENDS Naturals, FiniteSets

CONSTANTS
  Tls,        \* connections
  Site,       \* hosts
  Cert,
  NoCert,
  CertScenes  \* the scenes considered, see CertScene

\* The certificates of the hosts, those whose key does not fit, and how often a
\* host is edited or deleted.
CertScene == [certs: [Site -> Cert], bad: SUBSET Cert, edits: Nat]

ASSUME CertAssumption == NoCert \notin Cert /\ CertScenes \subseteq CertScene

VARIABLES
  cplay, edits,      \* the scene, and the edits so far
  cpc,               \* a connection: see CertTypeOK
  want,              \* its host, the certificate it was looked up with, the hosts its
                     \* sweep has not come to, and what it takes out: the entry of
                     \* host gone, and the listener of certificate old
  CertFile,          \* [Site -> Cert]: Host.CertFilePath
  sites,             \* the hosts there are
  hostIdCertMap,
  httpsListenerMap,  \* the certificates that have a listener
  torn               \* history: the certificates that were taken out while in use

certVars == <<cplay, edits, cpc, want, CertFile, sites, hostIdCertMap,
              httpsListenerMap, torn>>

CertInit ==
  /\ cplay \in CertScenes /\ edits = 0 /\ cpc = [t \in Tls |-> "none"]
  /\ want \in [Tls -> {[host |-> h, cert |-> NoCert, left |-> {}, gone |-> h,
                        old |-> NoCert] : h \in Site}]
  /\ CertFile = cplay.certs /\ sites = Site
  /\ hostIdCertMap = [h \in Site |-> NoCert] /\ httpsListenerMap = {} /\ torn = {}

\* A connection that finds no listener sends on one that is nil, and nps is gone.
Crashed == \E t \in Tls : cpc[t] = "nil"
Turn(t, from, to) == ~Crashed /\ cpc[t] = from /\ cpc' = [cpc EXCEPT ![t] = to]
InCert == {t \in Tls : cpc[t] \in {"sweep", "drop", "forget", "load", "known", "delete",
                                  "store", "mark"}}

\* Start: the server name of the hello leads to a host, whose certificate is read,
\* or to none, which closes the connection.
Hello(t) ==
  LET h == want[t].host IN
  /\ IF h \in sites
     THEN /\ Turn(t, "none", "sweep")
          /\ want' = [want EXCEPT ![t].cert = CertFile[h],
                       ![t].left = {i \in Site : hostIdCertMap[i] # NoCert}]
     ELSE Turn(t, "none", "closed") /\ want' = want
  /\ UNCHANGED <<cplay, edits, CertFile, sites, hostIdCertMap, httpsListenerMap>>

\* The first loop of cert(): an entry whose host is gone is taken out, with the
\* listener of its certificate if there is one.
Dead == {h \in Site \ sites : hostIdCertMap[h] \in httpsListenerMap}
Sweep(t) ==
  /\ \/ \E h \in want[t].left \cap Dead :
          /\ Turn(t, "sweep", "drop")
          /\ want' = [want EXCEPT ![t].left = @ \ {h}, ![t].gone = h,
                                  ![t].old = hostIdCertMap[h]]
     \/ \E h \in want[t].left \ Dead :
          /\ Turn(t, "sweep", "sweep")
          /\ want' = [want EXCEPT ![t].left = @ \ {h}]
     \/ want[t].left = {} /\ Turn(t, "sweep", "load") /\ want' = want
  /\ UNCHANGED <<cplay, edits, CertFile, sites, hostIdCertMap, httpsListenerMap>>
DropListener(t) ==
  /\ Turn(t, "drop", "forget")
  /\ httpsListenerMap' = httpsListenerMap \ {want[t].old}
  /\ UNCHANGED <<cplay, edits, want, CertFile, sites, hostIdCertMap>>
ForgetHost(t) ==
  /\ Turn(t, "forget", "sweep")
  /\ hostIdCertMap' = [hostIdCertMap EXCEPT ![want[t].gone] = NoCert]
  /\ UNCHANGED <<cplay, edits, want, CertFile, sites, httpsListenerMap>>

\* hostIdCertMap.Load.
LoadCert(t) ==
  LET w == want[t]  c == hostIdCertMap[w.host] IN
  /\ Turn(t, "load", IF c = w.cert THEN "known" ELSE
                     IF c = NoCert THEN "store" ELSE "delete")
  /\ want' = [want EXCEPT ![t].gone = w.host, ![t].old = c]
  /\ UNCHANGED <<cplay, edits, CertFile, sites, hostIdCertMap, httpsListenerMap>>

\* "The certificate is there, load it directly": without a listener l stays nil.
Known(t) ==
  /\ Turn(t, "known", IF want[t].cert \in httpsListenerMap THEN "send" ELSE "nil")
  /\ UNCHANGED <<cplay, edits, want, CertFile, sites, hostIdCertMap, httpsListenerMap>>

\* "The certificate has changed": the listener of the old one is dropped.
DeleteOld(t) ==
  /\ Turn(t, "delete", "store")
  /\ httpsListenerMap' = httpsListenerMap \ {want[t].old}
  /\ UNCHANGED <<cplay, edits, want, CertFile, sites, hostIdCertMap>>

\* httpsListenerMap.Store of the new listener, and hostIdCertMap.Store.
StoreListener(t) ==
  /\ Turn(t, "store", "mark")
  /\ httpsListenerMap' = httpsListenerMap \cup {want[t].cert}
  /\ UNCHANGED <<cplay, edits, want, CertFile, sites, hostIdCertMap>>
StoreHost(t) ==
  /\ Turn(t, "mark", "send")
  /\ hostIdCertMap' = [hostIdCertMap EXCEPT ![want[t].host] = want[t].cert]
  /\ UNCHANGED <<cplay, edits, want, CertFile, sites, httpsListenerMap>>

\* acceptConn: the server of the listener takes it, which goes on when the listener
\* has left the map; one whose key did not fit has ended, and the connection waits.
Accept(t) ==
  /\ want[t].cert \notin cplay.bad /\ Turn(t, "send", "served")
  /\ UNCHANGED <<cplay, edits, want, CertFile, sites, hostIdCertMap, httpsListenerMap>>

\* The console.
EditHost(h, c) ==
  /\ ~Crashed /\ h \in sites /\ c # CertFile[h]
  /\ edits < cplay.edits /\ edits' = edits + 1
  /\ CertFile' = [CertFile EXCEPT ![h] = c]
  /\ UNCHANGED <<cplay, cpc, want, sites, hostIdCertMap, httpsListenerMap>>
RemoveHost(h) ==
  /\ ~Crashed /\ h \in sites /\ sites' = sites \ {h}
  /\ edits < cplay.edits /\ edits' = edits + 1
  /\ UNCHANGED <<cplay, cpc, want, CertFile, hostIdCertMap, httpsListenerMap>>

-----------------------------------------------------------------------------
CertStep(t) == \/ Sweep(t) \/ DropListener(t) \/ ForgetHost(t) \/ LoadCert(t)
               \/ Known(t) \/ DeleteOld(t) \/ StoreListener(t) \/ StoreHost(t) \/ Accept(t)

\* The certificates in use while a connection takes their listener out and has not
\* yet replaced the entry that led to it: another host has them in its entry, or
\* another connection is in cert() with them.
Contested ==
  {c \in Cert : \E t \in Tls :
     /\ cpc[t] \in {"drop", "forget", "delete", "store", "mark"} /\ want[t].old = c
     /\ \/ \E h \in Site \ {want[t].gone} : hostIdCertMap[h] = c
        \/ \E u \in InCert \ {t} : want[u].cert = c}

CertNext == /\ \/ \E t \in Tls : Hello(t) \/ CertStep(t)
               \/ \E h \in Site : RemoveHost(h) \/ \E c \in Cert : EditHost(h, c)
            /\ torn' = torn \cup Contested'

\* The goroutine of every connection runs on.
CertRun == (\E t \in Tls : CertStep(t)) /\ torn' = torn \cup Contested'
CertFair == WF_certVars(CertRun)

-----------------------------------------------------------------------------
(* Properties.                                                             *)

CertTypeOK ==
  /\ cpc \in [Tls -> {"none", "closed", "sweep", "drop", "forget", "load", "known",
                      "delete", "store", "mark", "send", "nil", "served"}]
  /\ want \in [Tls -> [host: Site, cert: Cert \cup {NoCert}, left: SUBSET Site,
                        gone: Site, old: Cert \cup {NoCert}]]
  /\ CertFile \in [Site -> Cert] /\ sites \subseteq Site /\ torn \subseteq Cert
  /\ hostIdCertMap \in [Site -> Cert \cup {NoCert}] /\ httpsListenerMap \subseteq Cert

\* https.go:206, "the certificate is there, load it directly": a listener is found
\* whenever hostIdCertMap knows the certificate, unless the listener was taken out
\* (a host edited or deleted) while another host had the same certificate or another
\* connection was in cert() with it.  That is the one way to the panic.
ListenerFound == \A t \in Tls : cpc[t] = "nil" => want[t].cert \in torn

\* The two maps agree whenever no connection is between their updates: with the same
\* exception, the certificate of an entry has a listener.
MapsAgree == InCert = {} =>
  \A h \in Site : hostIdCertMap[h] # NoCert => hostIdCertMap[h] \in httpsListenerMap \cup torn

\* A connection with a key that fits is accepted, unless nps is gone.
CertServed == Crashed \/ \A t \in Tls :
  cpc[t] \in {"none", "closed", "served"} \/ want[t].cert \in cplay.bad

\* Each connection with a certificate finds the listener of it, as long as nobody
\* took it away.
CertSound == CertTypeOK /\ ListenerFound /\ MapsAgree
=============================================================================

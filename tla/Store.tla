------------------------------- MODULE Store -------------------------------
(***************************************************************************)
(* The control plane's database, internal/core/store.go: users, nodes and  *)
(* tunnels in memory, guarded by one mutex, and the JSON file that every   *)
(* mutating operation rewrites before it returns.                          *)
(*                                                                         *)
(* An operation holds s.mu from its first read to its save, so each one is *)
(* a single action.  What is not atomic is the save itself: os.WriteFile   *)
(* truncates and then writes, and the memory was changed before it.  The   *)
(* outcome of a save is therefore a parameter of every action, and a crash *)
(* may follow any of them.                                                 *)
(*                                                                         *)
(* Tokens, verify keys, addresses, rate limits, node status, and the flow  *)
(* counters (module Traffic) are payload no guard of the store reads, and  *)
(* are left out.  A map is a function on the set of possible keys that is  *)
(* None where the key is absent.  A refused request changes nothing, so it *)
(* is a stuttering step.                                                   *)
(***************************************************************************)
EXTENDS Naturals, FiniteSets, Sequences

CONSTANTS
  UserName,      \* names a user record may have
  NodeID,        \* ids a node may have
  TunnelID,      \* ids a tunnel may have: supplied by the caller or generated
  DefaultNodeID, \* "local", the node that migrateDefaultNode creates
  AdminName,     \* ADMIN_USER of the environment
  AdminPassword, \* ADMIN_PASSWORD of the environment
  Password,      \* passwords somebody may set
  Domain,        \* domains and pool patterns, each a sequence of labels
  UserInput,     \* requests to UpsertUser
  NodeInput,     \* requests to UpsertNode
  TunnelInput,   \* requests to CreateTunnel and UpdateTunnel
  SaveOutcome,   \* how a save may end: a subset of {"ok", "fail", "short"}
  Retention,     \* how long an expired user is kept (7 days in the code)
  MaxTime,       \* bound on the clock
  None           \* the absent value

VARIABLES
  users,    \* db.Users
  nodes,    \* db.Nodes
  tunnels,  \* db.Tunnels
  file,     \* what the data file holds: a database, Empty or Torn
  phase,    \* "down", "loaded" (NewStore has returned) or "up"
  saveErr,  \* an operation has reported a save error since the last good save
  now       \* the wall clock; 0 is Go's zero time

vars == <<users, nodes, tunnels, file, phase, saveErr, now>>
db   == <<users, nodes, tunnels>>

Empty == <<>>        \* no file, or a file of length 0
Torn  == <<"torn">>  \* a proper prefix of the JSON text

Role       == {"admin", "user"}
PortMode   == {"tcp", "udp", "socks5"}
DomainMode == {"http", "https"}

User == [role: Role, enabled: BOOLEAN, ports: SUBSET Nat,
         domains: SUBSET Domain, maxPorts: Nat, password: Password \cup {None},
         expiresAt: Nat, expiredAt: Nat]
Node == [enabled: BOOLEAN, nps: BOOLEAN, ports: SUBSET Nat,
         domains: SUBSET Domain]
Tunnel == [user: UserName, node: NodeID, mode: PortMode \cup DomainMode,
           port: Nat, domains: SUBSET Domain, enabled: BOOLEAN]

ASSUME NamesAssumption ==
  /\ DefaultNodeID \in NodeID /\ AdminName \in UserName
  /\ AdminPassword \in Password
  /\ None \notin User \cup Node \cup Tunnel \cup TunnelID

ASSUME InputAssumption ==
  /\ UserInput \subseteq
       [name: UserName, role: Role, enabled: BOOLEAN, ports: SUBSET Nat,
        domains: SUBSET Domain, maxPorts: Nat,
        password: Password \cup {None}, expiresAt: Nat]
  /\ NodeInput \subseteq
       [id: NodeID, enabled: BOOLEAN, nps: BOOLEAN, ports: SUBSET Nat,
        domains: SUBSET Domain]
  /\ TunnelInput \subseteq Tunnel

ASSUME BoundsAssumption ==
  /\ SaveOutcome \subseteq {"ok", "fail", "short"}
  /\ Retention \in Nat \ {0} /\ MaxTime \in Nat

ASSUME FiniteAssumption == IsFiniteSet(TunnelID)

----------------------------------------------------------------------------
(* Helpers of store.go *)

HasUser(n)   == users[n] # None
HasNode(n)   == nodes[n] # None
HasTunnel(t) == tunnels[t] # None

isPortMode(m)    == m \in PortMode
isDomainMode(m)  == m \in DomainMode
portTransport(m) == IF m = "udp" THEN "udp" ELSE "tcp"

\* A pool entry is "*", a domain, or "*." followed by a suffix that the domain
\* must properly extend.
domainInPools(d, pools) ==
  \E p \in pools :
    \/ p = <<"*">>
    \/ p = d
    \/ /\ Len(p) > 1 /\ p[1] = "*" /\ Len(d) >= Len(p)
       /\ SubSeq(d, Len(d) - Len(p) + 2, Len(d)) = Tail(p)

EnabledAdmins == {n \in UserName : /\ HasUser(n)
                                   /\ users[n].role = "admin"
                                   /\ users[n].enabled}

\* The user's tunnels, other than the one that is being replaced.
TunnelsOf(n, exceptID) ==
  {t \in TunnelID \ {exceptID} : HasTunnel(t) /\ tunnels[t].user = n}

PortTaken(in, existingID) ==
  \E t \in TunnelID \ {existingID} :
    /\ HasTunnel(t) /\ isPortMode(tunnels[t].mode)
    /\ tunnels[t].node = in.node
    /\ tunnels[t].port = in.port
    /\ portTransport(tunnels[t].mode) = portTransport(in.mode)

\* Domains are compared over the tunnels of every node.
DomainTaken(in, d, existingID) ==
  \E t \in TunnelID \ {existingID} :
    /\ HasTunnel(t) /\ isDomainMode(tunnels[t].mode)
    /\ tunnels[t].mode = in.mode
    /\ d \in tunnels[t].domains

PortAllowed(in, existingID) ==
  /\ in.port > 0
  /\ in.port \in users[in.user].ports
  /\ nodes[in.node].ports = {} \/ in.port \in nodes[in.node].ports
  /\ ~PortTaken(in, existingID)

DomainsAllowed(in, existingID) ==
  /\ in.domains # {}
  /\ \A d \in in.domains :
       /\ domainInPools(d, users[in.user].domains)
       /\ \/ nodes[in.node].domains = {}
          \/ domainInPools(d, nodes[in.node].domains)
       /\ ~DomainTaken(in, d, existingID)

\* Mutant: the quota is off by one.
validateTunnelQuotaOff(in, existingID) ==
  /\ HasNode(in.node) /\ nodes[in.node].enabled /\ nodes[in.node].nps
  /\ HasUser(in.user) /\ users[in.user].enabled
  /\ IF isPortMode(in.mode) THEN PortAllowed(in, existingID)
                            ELSE DomainsAllowed(in, existingID)
  /\ \/ users[in.user].maxPorts = 0
     \/ Cardinality(TunnelsOf(in.user, existingID)) <= users[in.user].maxPorts

validateTunnel(in, existingID) ==
  /\ HasNode(in.node) /\ nodes[in.node].enabled /\ nodes[in.node].nps
  /\ HasUser(in.user) /\ users[in.user].enabled
  /\ IF isPortMode(in.mode) THEN PortAllowed(in, existingID)
                            ELSE DomainsAllowed(in, existingID)
  /\ \/ users[in.user].maxPorts = 0
     \/ Cardinality(TunnelsOf(in.user, existingID)) < users[in.user].maxPorts

\* CreateTunnel and UpdateTunnel drop what the mode does not use.
NormalizeTunnel(in) ==
  IF isDomainMode(in.mode) THEN [in EXCEPT !.port = 0]
                           ELSE [in EXCEPT !.domains = {}]

----------------------------------------------------------------------------
(* Persistence *)

NoUsers   == [n \in UserName |-> None]
NoNodes   == [n \in NodeID |-> None]
NoTunnels == [t \in TunnelID |-> None]

\* Mutant: the error of os.WriteFile is dropped.
saveLockedUnchecked(o) ==
  \/ o = "ok"    /\ file' = db' /\ saveErr' = FALSE
  \/ o = "fail"  /\ file' = file /\ saveErr' = TRUE
  \/ o = "short" /\ file' \in {Empty, Torn} /\ saveErr' = FALSE

\* saveLocked with outcome o, of a memory that is already changed: it succeeds,
\* it fails before the file is opened, or os.WriteFile fails (or the process
\* dies, which Crash adds) after the truncation.
saveLocked(o) ==
  \/ o = "ok"    /\ file' = db' /\ saveErr' = FALSE
  \/ o = "fail"  /\ file' = file /\ saveErr' = TRUE
  \/ o = "short" /\ file' \in {Empty, Torn} /\ saveErr' = TRUE

Idle == UNCHANGED <<phase, now>>

Init ==
  /\ users = NoUsers /\ nodes = NoNodes /\ tunnels = NoTunnels
  /\ file = Empty /\ phase = "down" /\ saveErr = FALSE /\ now = 1

\* Every map is lost with the process.
Crash ==
  /\ phase # "down"
  /\ users' = NoUsers /\ nodes' = NoNodes /\ tunnels' = NoTunnels
  /\ phase' = "down" /\ saveErr' = FALSE
  /\ UNCHANGED <<file, now>>

\* load: an empty file is an empty database; a torn one is a JSON error, after
\* which main exits.
Loaded == IF file = Empty THEN <<NoUsers, NoNodes, NoTunnels>> ELSE file

LocalNode == [enabled |-> TRUE, nps |-> TRUE, ports |-> {}, domains |-> {}]

\* NewStore: load, then migrateDefaultNode, which saves only what it changed.
\* When that save fails NewStore returns the error and the process exits.  The
\* other migrations (tunnels without a node, nodes without a token, passwords in
\* clear) find nothing to do in a file this program wrote.
NewStore(o) ==
  /\ phase = "down" /\ file # Torn
  /\ users' = Loaded[1] /\ tunnels' = Loaded[3]
  /\ IF Loaded[2][DefaultNodeID] # None
     THEN nodes' = Loaded[2] /\ UNCHANGED <<file, saveErr>>
     ELSE /\ o = "ok"
          /\ nodes' = [Loaded[2] EXCEPT ![DefaultNodeID] = LocalNode]
          /\ saveLocked(o)
  /\ phase' = "loaded" /\ now' = now

\* Mutant: the role is left empty.
BootstrapNobody ==
  [role |-> "", enabled |-> TRUE, ports |-> {}, domains |-> {},
   maxPorts |-> 0, password |-> AdminPassword, expiresAt |-> 0, expiredAt |-> 0]

BootstrapAdmin ==
  [role |-> "admin", enabled |-> TRUE, ports |-> {}, domains |-> {},
   maxPorts |-> 0, password |-> AdminPassword, expiresAt |-> 0, expiredAt |-> 0]

\* EnsureAdmin, which main calls before it serves.  With no enabled admin it
\* overwrites whatever record has the configured name; a save error is fatal.
EnsureAdmin(o) ==
  /\ phase = "loaded" /\ phase' = "up"
  /\ UNCHANGED <<nodes, tunnels, now>>
  /\ IF EnabledAdmins # {}
     THEN UNCHANGED <<users, file, saveErr>>
     ELSE /\ o = "ok"
          /\ users' = [users EXCEPT ![AdminName] = BootstrapAdmin]
          /\ saveLocked(o)

\* A save that fails while starting up ends the process.
StartupSaveFails(o) ==
  /\ o # "ok" /\ file # Torn
  /\ \/ phase = "down" /\ Loaded[2][DefaultNodeID] = None
     \/ phase = "loaded" /\ EnabledAdmins = {}
  /\ users' = NoUsers /\ nodes' = NoNodes /\ tunnels' = NoTunnels
  /\ file' \in (IF o = "fail" THEN {file} ELSE {Empty, Torn})
  /\ phase' = "down" /\ saveErr' = FALSE /\ now' = now

----------------------------------------------------------------------------
(* Users *)

Expired(expiresAt) == expiresAt # 0 /\ expiresAt <= now

\* Mutant: an edit with a past date marks the user but leaves it enabled.
UpsertedEnabled(in) ==
  [role |-> in.role, enabled |-> in.enabled,
   ports |-> in.ports, domains |-> in.domains, maxPorts |-> in.maxPorts,
   password |-> in.password, expiresAt |-> in.expiresAt,
   expiredAt |-> IF Expired(in.expiresAt) THEN now ELSE 0]

\* The record UpsertUser leaves for request in.
Upserted(in) ==
  LET old == users[in.name]
      due == Expired(in.expiresAt) /\ in.role # "admin"
      mark == IF old = None THEN 0 ELSE old.expiredAt
  IN  [role |-> in.role,
       enabled |-> in.enabled /\ ~due,
       ports |-> in.ports, domains |-> in.domains, maxPorts |-> in.maxPorts,
       password |-> IF in.password # None THEN in.password
                    ELSE IF old = None THEN None ELSE old.password,
       expiresAt |-> in.expiresAt,
       expiredAt |-> IF ~Expired(in.expiresAt) THEN 0
                     ELSE IF due /\ mark = 0 THEN now ELSE mark]

UpsertUser(in, o) ==
  /\ phase = "up"
  /\ users' = [users EXCEPT ![in.name] = Upserted(in)]
  /\ UNCHANGED <<nodes, tunnels>> /\ saveLocked(o) /\ Idle

WithoutTunnelsOf(names) ==
  [t \in TunnelID |-> IF HasTunnel(t) /\ tunnels[t].user \in names
                      THEN None ELSE tunnels[t]]

\* Mutant: counts the disabled admins too.
DeleteUserAnyAdmin(n, o) ==
  /\ phase = "up" /\ HasUser(n)
  /\ users[n].role = "admin" =>
       \E m \in UserName \ {n} : HasUser(m) /\ users[m].role = "admin"
  /\ users' = [users EXCEPT ![n] = None]
  /\ tunnels' = WithoutTunnelsOf({n})
  /\ UNCHANGED nodes /\ saveLocked(o) /\ Idle

DeleteUser(n, o) ==
  /\ phase = "up" /\ HasUser(n)
  /\ users[n].role = "admin" => Cardinality(EnabledAdmins) > 1
  /\ users' = [users EXCEPT ![n] = None]
  /\ tunnels' = WithoutTunnelsOf({n})
  /\ UNCHANGED nodes /\ saveLocked(o) /\ Idle

SetPassword(n, p, o) ==
  /\ phase = "up" /\ HasUser(n)
  /\ users' = [users EXCEPT ![n].password = p]
  /\ UNCHANGED <<nodes, tunnels>> /\ saveLocked(o) /\ Idle

\* Mutant: skips the users that are disabled already.
DueEnabled(n) ==
  /\ HasUser(n) /\ users[n].role # "admin" /\ users[n].expiresAt # 0
  /\ users[n].enabled

\* One iteration of the loop of EnforceUserExpiry first stamps an overdue user,
\* then removes it if its stamp, as just written, is old enough.
Due(n) == HasUser(n) /\ users[n].role # "admin" /\ users[n].expiresAt # 0

Stamped(n) ==
  LET u == users[n]
  IN  IF ~Due(n) \/ u.expiresAt > now THEN u
      ELSE IF u.enabled THEN [u EXCEPT !.enabled = FALSE, !.expiredAt = now]
      ELSE IF u.expiredAt = 0 THEN [u EXCEPT !.expiredAt = now]
      ELSE u

\* Mutant: counts the retention from the expiry date, not from the mark.
SweptByDate == {n \in UserName : /\ Due(n)
                                 /\ Stamped(n).expiredAt # 0
                                 /\ users[n].expiresAt + Retention <= now}

Swept == {n \in UserName : /\ Due(n)
                           /\ Stamped(n).expiredAt # 0
                           /\ Stamped(n).expiredAt + Retention <= now}

EnforceUserExpiry(o) ==
  /\ phase = "up"
  /\ users' = [n \in UserName |-> IF n \in Swept THEN None ELSE Stamped(n)]
  /\ users' # users
  /\ tunnels' = WithoutTunnelsOf(Swept)
  /\ UNCHANGED nodes /\ saveLocked(o) /\ Idle

----------------------------------------------------------------------------
(* Nodes *)

UpsertNode(in, o) ==
  /\ phase = "up"
  /\ nodes' = [nodes EXCEPT ![in.id] =
                 [enabled |-> in.enabled, nps |-> in.nps, ports |-> in.ports,
                  domains |-> in.domains]]
  /\ UNCHANGED <<users, tunnels>> /\ saveLocked(o) /\ Idle

\* Mutant: does not look for tunnels on the node.
DeleteNodeInUse(n, o) ==
  /\ phase = "up" /\ n # DefaultNodeID /\ HasNode(n)
  /\ nodes' = [nodes EXCEPT ![n] = None]
  /\ UNCHANGED <<users, tunnels>> /\ saveLocked(o) /\ Idle

DeleteNode(n, o) ==
  /\ phase = "up" /\ n # DefaultNodeID /\ HasNode(n)
  /\ \A t \in TunnelID : HasTunnel(t) => tunnels[t].node # n
  /\ nodes' = [nodes EXCEPT ![n] = None]
  /\ UNCHANGED <<users, tunnels>> /\ saveLocked(o) /\ Idle

----------------------------------------------------------------------------
(* Tunnels *)

CreateTunnel(t, input, o) ==
  LET in == NormalizeTunnel(input)
  IN  /\ phase = "up"
      /\ validateTunnel(in, None)
      /\ ~HasTunnel(t)
      /\ tunnels' = [tunnels EXCEPT ![t] = in]
      /\ UNCHANGED <<users, nodes>> /\ saveLocked(o) /\ Idle

UpdateTunnel(t, input, o) ==
  LET in == NormalizeTunnel(input)
  IN  /\ phase = "up" /\ HasTunnel(t)
      /\ validateTunnel(in, t)
      /\ tunnels' = [tunnels EXCEPT ![t] = in]
      /\ UNCHANGED <<users, nodes>> /\ saveLocked(o) /\ Idle

\* Deleting an id that is not there still saves.
DeleteTunnel(t, o) ==
  /\ phase = "up"
  /\ tunnels' = [tunnels EXCEPT ![t] = None]
  /\ UNCHANGED <<users, nodes>> /\ saveLocked(o) /\ Idle

----------------------------------------------------------------------------
(* Operations on payload only.  They still rewrite the file, and with it what *)
(* an earlier operation that reported a save error had left in memory.        *)

UpdateNodeStatus(n, o) ==
  phase = "up" /\ HasNode(n) /\ UNCHANGED db /\ saveLocked(o) /\ Idle

ResetUserFlow(n, o) ==
  phase = "up" /\ HasUser(n) /\ UNCHANGED db /\ saveLocked(o) /\ Idle

----------------------------------------------------------------------------

Tick == now < MaxTime /\ now' = now + 1 /\ UNCHANGED <<db, file, phase, saveErr>>

Start(o) == NewStore(o) \/ EnsureAdmin(o) \/ StartupSaveFails(o)

UserStep(o) ==
  \/ \E in \in UserInput : UpsertUser(in, o)
  \/ \E n \in UserName : DeleteUser(n, o)
  \/ \E n \in UserName, p \in Password : SetPassword(n, p, o)
  \/ EnforceUserExpiry(o)

NodeStep(o) ==
  \/ \E in \in NodeInput : UpsertNode(in, o)
  \/ \E n \in NodeID : DeleteNode(n, o)

TunnelStep(o) ==
  \E t \in TunnelID :
    \/ \E in \in TunnelInput : CreateTunnel(t, in, o) \/ UpdateTunnel(t, in, o)
    \/ DeleteTunnel(t, o)

PayloadStep(o) == \/ \E n \in NodeID : UpdateNodeStatus(n, o)
                  \/ \E n \in UserName : ResetUserFlow(n, o)

Next ==
  \/ \E o \in SaveOutcome :
       Start(o) \/ UserStep(o) \/ NodeStep(o) \/ TunnelStep(o) \/ PayloadStep(o)
  \/ Crash
  \/ Tick

Spec == Init /\ [][Next]_vars

\* The clock advances, main restarts the service (restart: unless-stopped), and
\* userExpiryLoop runs the sweep once a day for as long as the process lives.
Fairness ==
  /\ WF_vars(Tick)
  /\ WF_vars(\E o \in SaveOutcome : NewStore(o) \/ EnsureAdmin(o))
  /\ WF_vars(\E o \in SaveOutcome : EnforceUserExpiry(o))

FairSpec == Spec /\ Fairness

----------------------------------------------------------------------------
(* Properties *)

Users    == [UserName -> User \cup {None}]
Nodes    == [NodeID -> Node \cup {None}]
Tunnels  == [TunnelID -> Tunnel \cup {None}]
Database == Users \X Nodes \X Tunnels

\* Every map holds well-formed records, and the file holds a database or the
\* remains of one.
TypeOK ==
  /\ users \in Users /\ nodes \in Nodes /\ tunnels \in Tunnels
  /\ file \in Database \cup {Empty, Torn}
  /\ phase \in {"down", "loaded", "up"}
  /\ saveErr \in BOOLEAN
  /\ now \in Nat

\* The databases that matter: the one in memory, and the one that a crash at
\* this moment would bring back.
Live == {db} \cup ({file} \ {Empty, Torn})

RefsExist(us, ns, ts) ==
  \A t \in TunnelID : ts[t] # None => us[ts[t].user] # None /\ ns[ts[t].node] # None

\* A tunnel's owner exists and so does its node: DeleteUser and
\* EnforceUserExpiry cascade to the tunnels, DeleteNode refuses a node in use,
\* and a restart never brings back one without the other.
RefIntegrity == \A d \in Live : RefsExist(d[1], d[2], d[3])

PortsDistinct(ts) ==
  \A s, t \in TunnelID :
    /\ s # t /\ ts[s] # None /\ ts[t] # None
    /\ isPortMode(ts[s].mode) /\ isPortMode(ts[t].mode)
    /\ ts[s].node = ts[t].node /\ ts[s].port = ts[t].port
    => portTransport(ts[s].mode) # portTransport(ts[t].mode)

\* Two tunnels never claim the same port and transport of a node
\* (validateTunnelLocked), whatever sequence of updates led there.
PortUnique == \A d \in Live : PortsDistinct(d[3])

DomainsDistinct(ts) ==
  \A s, t \in TunnelID :
    /\ s # t /\ ts[s] # None /\ ts[t] # None
    /\ isDomainMode(ts[s].mode) /\ ts[s].mode = ts[t].mode
    => ts[s].domains \cap ts[t].domains = {}

\* A domain belongs to at most one tunnel of each scheme, over all nodes.
DomainUnique == \A d \in Live : DomainsDistinct(d[3])

\* The default node, which DeleteNode refuses to delete and NewStore restores,
\* is there whenever the API is served.
DefaultNodePresent == phase # "down" => HasNode(DefaultNodeID)

MarkedAreDisabled(us) ==
  \A n \in UserName : us[n] # None =>
    /\ us[n].expiredAt <= now
    /\ us[n].role # "admin" /\ us[n].expiredAt # 0 => ~us[n].enabled

\* A user whose deletion clock runs (ExpiredAt set, never in the future) cannot
\* log in meanwhile: there is no way to be re-enabled without the clock being
\* cleared.  Admins are exempt: EnforceUserExpiry never looks at them.
ExpiredDisabled == \A d \in Live : MarkedAreDisabled(d[1])

\* Unless an operation has reported a save error, a crash now would lose
\* nothing: no operation that returned success left the file behind the memory.
AckedIsDurable == phase = "up" /\ ~saveErr => file = db

\* What the sweep removes had been marked and disabled a whole retention period
\* before: no user goes from active to deleted in one sweep.
SweepKeepsGrace ==
  [][(\E o \in SaveOutcome : EnforceUserExpiry(o)) =>
       \A n \in UserName : HasUser(n) /\ ~HasUser(n)' =>
         /\ users[n].role # "admin" /\ ~users[n].enabled
         /\ users[n].expiredAt # 0 /\ users[n].expiredAt + Retention <= now]_vars

\* Deleting and expiring users never removes the last enabled admin: only an
\* edit of the record (UpsertUser) can leave a running control without one.
LastAdminKept ==
  [][phase' = "up" /\ EnabledAdmins # {} /\ EnabledAdmins' = {} =>
       \A n \in UserName : HasUser(n) => HasUser(n)']_vars

TunnelCount(n) == Cardinality(TunnelsOf(n, None))

\* A user above its quota never gains a tunnel, be it by a creation or by an
\* update that moves somebody else's tunnel to it.
QuotaBoundsGrowth ==
  [][\A n \in UserName :
       phase = "up" /\ HasUser(n)' /\ users'[n].maxPorts > 0 =>
         \/ TunnelCount(n)' <= TunnelCount(n)
         \/ TunnelCount(n)' <= users'[n].maxPorts]_vars

\* Once the control stays up, a user whose deletion clock runs is deleted in the
\* end unless somebody renews it or makes it an admin: no sequence of edits and
\* earlier restarts makes userExpiryLoop forget it.
Removable(n) ==
  /\ HasUser(n) /\ users[n].role # "admin" /\ users[n].expiredAt # 0
  /\ users[n].expiredAt + Retention <= MaxTime

ExpiredIsRemoved ==
  <>[](phase = "up") =>
    \A n \in UserName : Removable(n) ~> (phase = "up" /\ ~Removable(n))

\* After any operations, crashes and restarts: what a tunnel names is there, nothing
\* is given out twice, and neither is the default node missing.
Consistency == RefIntegrity /\ PortUnique /\ DomainUnique /\ DefaultNodePresent
=============================================================================

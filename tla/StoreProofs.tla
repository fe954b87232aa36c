---------------------------- MODULE StoreProofs ----------------------------
(***************************************************************************)
(* Proofs about Store, for every set of users, nodes, tunnels and requests *)
(* and for every outcome of every save: what holds always, what a step may *)
(* never do, and what a save promises.                                     *)
(***************************************************************************)
EXTENDS Store, FiniteSetTheorems, TLAPS

----------------------------------------------------------------------------
(* Type correctness *)

\* A save leaves in the file the new database, the old file, or a remnant.
LEMMA SaveType ==
  ASSUME NEW o, saveLocked(o), file \in Database \cup {Empty, Torn},
         users' \in Users, nodes' \in Nodes, tunnels' \in Tunnels
  PROVE  file' \in Database \cup {Empty, Torn} /\ saveErr' \in BOOLEAN
<1>1. CASE o = "ok"
  <2>1. <<users', nodes', tunnels'>> \in Database
    BY DEF Database
  <2> QED BY <1>1, <2>1 DEF saveLocked, db
<1>2. CASE o # "ok"
  BY <1>2 DEF saveLocked
<1> QED BY <1>1, <1>2

\* What load returns is a database.
LEMMA LoadedType ==
  ASSUME file \in Database \cup {Empty, Torn}, file # Torn
  PROVE  Loaded[1] \in Users /\ Loaded[2] \in Nodes /\ Loaded[3] \in Tunnels
BY DEF Loaded, Database, Users, Nodes, Tunnels, NoUsers, NoNodes, NoTunnels

\* The records the code builds itself are well formed.
LEMMA RecordTypes == BootstrapAdmin \in User /\ LocalNode \in Node
BY NamesAssumption DEF BootstrapAdmin, LocalNode, User, Node, Role

\* So is what UpsertUser makes of a request,
LEMMA UpsertedType ==
  ASSUME TypeOK, NEW in \in UserInput
  PROVE  Upserted(in) \in User /\ in.name \in UserName
BY InputAssumption DEF TypeOK, Users, User, Upserted, Expired

\* what the sweep leaves of a user,
LEMMA StampedType ==
  ASSUME TypeOK, NEW n \in UserName
  PROVE  Stamped(n) \in User \cup {None}
BY NamesAssumption DEF TypeOK, Users, User, Stamped, Due, HasUser

\* what CreateTunnel and UpdateTunnel store,
LEMMA NormalizedType ==
  ASSUME NEW in \in TunnelInput
  PROVE  NormalizeTunnel(in) \in Tunnel
BY InputAssumption DEF NormalizeTunnel, Tunnel

\* and what a cascade leaves of the tunnels.
LEMMA CascadeType ==
  ASSUME tunnels \in Tunnels, NEW S
  PROVE  WithoutTunnelsOf(S) \in Tunnels
BY DEF WithoutTunnelsOf, Tunnels

\* Start-up, with a save or without, or one that fails, is type correct.
LEMMA StartType ==
  ASSUME TypeOK, NEW o, Start(o)
  PROVE  TypeOK'
<1>1. CASE NewStore(o)
  <2>1. users' \in Users /\ nodes' \in Nodes /\ tunnels' \in Tunnels
    BY <1>1, LoadedType, RecordTypes, NamesAssumption DEF NewStore, TypeOK, Nodes
  <2>2. file' \in Database \cup {Empty, Torn} /\ saveErr' \in BOOLEAN
    BY <1>1, <2>1, SaveType DEF NewStore, TypeOK
  <2> QED BY <1>1, <2>1, <2>2 DEF NewStore, TypeOK
<1>2. CASE EnsureAdmin(o)
  <2>1. users' \in Users /\ nodes' \in Nodes /\ tunnels' \in Tunnels
    BY <1>2, RecordTypes, NamesAssumption DEF EnsureAdmin, TypeOK, Users
  <2>2. file' \in Database \cup {Empty, Torn} /\ saveErr' \in BOOLEAN
    BY <1>2, <2>1, SaveType DEF EnsureAdmin, TypeOK
  <2> QED BY <1>2, <2>1, <2>2 DEF EnsureAdmin, TypeOK
<1>3. CASE StartupSaveFails(o)
  BY <1>3 DEF StartupSaveFails, TypeOK, Users, Nodes, Tunnels,
              NoUsers, NoNodes, NoTunnels
<1> QED BY <1>1, <1>2, <1>3 DEF Start

\* An operation that saves is type correct when the maps it leaves are.
LEMMA OperationType ==
  ASSUME TypeOK, NEW o, saveLocked(o), Idle,
         users' \in Users, nodes' \in Nodes, tunnels' \in Tunnels
  PROVE  TypeOK'
BY SaveType DEF TypeOK, Idle

\* The operations on users are type correct.
LEMMA UserStepType ==
  ASSUME TypeOK, NEW o, UserStep(o)
  PROVE  TypeOK'
<1> USE DEF TypeOK
<1>1. ASSUME NEW in \in UserInput, UpsertUser(in, o) PROVE TypeOK'
  BY <1>1, UpsertedType, OperationType DEF UpsertUser, Users
<1>2. ASSUME NEW n \in UserName, DeleteUser(n, o) PROVE TypeOK'
  BY <1>2, CascadeType, OperationType DEF DeleteUser, Users
<1>3. ASSUME NEW n \in UserName, NEW p \in Password, SetPassword(n, p, o)
      PROVE  TypeOK'
  <2>1. users' \in Users
    BY <1>3 DEF SetPassword, Users, User, HasUser
  <2> QED BY <1>3, <2>1, OperationType DEF SetPassword
<1>4. CASE EnforceUserExpiry(o)
  <2>1. users' \in Users
    BY <1>4, StampedType DEF EnforceUserExpiry, Users
  <2> QED BY <1>4, <2>1, CascadeType, OperationType DEF EnforceUserExpiry
<1> QED BY <1>1, <1>2, <1>3, <1>4 DEF UserStep

\* The operations on nodes are type correct.
LEMMA NodeStepType ==
  ASSUME TypeOK, NEW o, NodeStep(o)
  PROVE  TypeOK'
<1> USE DEF TypeOK
<1>1. ASSUME NEW in \in NodeInput, UpsertNode(in, o) PROVE TypeOK'
  <2>1. nodes' \in Nodes
    BY <1>1, InputAssumption DEF UpsertNode, Nodes, Node
  <2> QED BY <1>1, <2>1, OperationType DEF UpsertNode
<1>2. ASSUME NEW n \in NodeID, DeleteNode(n, o) PROVE TypeOK'
  BY <1>2, OperationType DEF DeleteNode, Nodes
<1> QED BY <1>1, <1>2 DEF NodeStep

\* The operations on tunnels are type correct.
LEMMA TunnelStepType ==
  ASSUME TypeOK, NEW o, TunnelStep(o)
  PROVE  TypeOK'
<1> USE DEF TypeOK
<1>1. ASSUME NEW t \in TunnelID, NEW in \in TunnelInput,
             CreateTunnel(t, in, o) \/ UpdateTunnel(t, in, o)
      PROVE  TypeOK'
  <2>1. tunnels' \in Tunnels
    BY <1>1, NormalizedType DEF CreateTunnel, UpdateTunnel, Tunnels
  <2> QED BY <1>1, <2>1, OperationType DEF CreateTunnel, UpdateTunnel
<1>2. ASSUME NEW t \in TunnelID, DeleteTunnel(t, o) PROVE TypeOK'
  BY <1>2, OperationType DEF DeleteTunnel, Tunnels
<1> QED BY <1>1, <1>2 DEF TunnelStep

\* The operations that only save are type correct.
LEMMA PayloadStepType ==
  ASSUME TypeOK, NEW o, PayloadStep(o)
  PROVE  TypeOK'
BY OperationType DEF PayloadStep, UpdateNodeStatus, ResetUserFlow, db, TypeOK

\* The initial state is well formed.
LEMMA TypeInit == Init => TypeOK
<1>1. Init => users \in Users /\ nodes \in Nodes /\ tunnels \in Tunnels
  BY DEF Init, Users, Nodes, Tunnels, NoUsers, NoNodes, NoTunnels
<1>2. Init => now \in Nat
  BY DEF Init
<1> QED BY <1>1, <1>2, Zenon DEF Init, TypeOK

\* Every step of the store keeps the types.
LEMMA TypeStep == TypeOK /\ [Next]_vars => TypeOK'
<1> SUFFICES ASSUME TypeOK, [Next]_vars PROVE TypeOK'
  OBVIOUS
<1>1. ASSUME NEW o \in SaveOutcome,
             \/ Start(o) \/ UserStep(o) \/ NodeStep(o) \/ TunnelStep(o)
             \/ PayloadStep(o)
      PROVE  TypeOK'
  BY <1>1, StartType, UserStepType, NodeStepType, TunnelStepType,
     PayloadStepType
<1>2. CASE Crash
  BY <1>2 DEF Crash, TypeOK, Users, Nodes, Tunnels, NoUsers, NoNodes, NoTunnels
<1>3. CASE Tick
  BY <1>3 DEF Tick, TypeOK, db
<1>4. CASE UNCHANGED vars
  BY <1>4 DEF vars, TypeOK
<1> QED BY <1>1, <1>2, <1>3, <1>4 DEF Next

\* Every map and the file stay well formed, whatever the requests, the save
\* errors and the crashes.
THEOREM TypeCorrect == Spec => []TypeOK
<1> QED BY TypeInit, TypeStep, PTL DEF Spec

----------------------------------------------------------------------------
(* Referential integrity, uniqueness of ports and domains, expiry marks      *)
(*                                                                           *)
(* Each of the four invariants speaks of the memory and of the file at once: *)
(* what a restart brings back must be as good as what the process held.      *)
(* They are proved together, since the cascade of a deletion needs the       *)
(* references and a load needs the file's half of each.                      *)

Sound(d) ==
  /\ RefsExist(d[1], d[2], d[3])
  /\ PortsDistinct(d[3])
  /\ DomainsDistinct(d[3])
  /\ MarkedAreDisabled(d[1])

IInv == TypeOK /\ \A d \in Live : Sound(d)

\* An invariant of a live database only has to be shown for the memory: after
\* a save the file is the memory, or what it was, or not a database.
LEMMA SaveKeepsLive ==
  ASSUME IInv, file' \in {file, db', Empty, Torn}, now' = now, Sound(db)'
  PROVE  (\A d \in Live : Sound(d))'
<1> SUFFICES ASSUME NEW d \in Live' PROVE Sound(d)'
  OBVIOUS
<1>1. d = db' \/ d \in Live
  BY DEF Live
<1>2. CASE d = db'
  BY <1>2 DEF Sound
<1>3. CASE d \in Live
  <2>1. Sound(d)
    BY <1>3 DEF IInv
  <2> QED BY <2>1 DEF Sound, MarkedAreDisabled
<1> QED BY <1>1, <1>2, <1>3

\* Removing tunnels, and changing nothing else about them, cannot break the
\* uniqueness of ports and domains.
LEMMA FewerTunnels ==
  ASSUME NEW ts, NEW less, PortsDistinct(ts), DomainsDistinct(ts),
         \A t \in TunnelID : less[t] # None => less[t] = ts[t]
  PROVE  PortsDistinct(less) /\ DomainsDistinct(less)
<1>1. PortsDistinct(less)
  BY DEF PortsDistinct
<1>2. DomainsDistinct(less)
  BY DEF DomainsDistinct
<1> QED BY <1>1, <1>2

\* The empty database is sound.
LEMMA EmptySound == Sound(<<NoUsers, NoNodes, NoTunnels>>)
BY DEF Sound, RefsExist, PortsDistinct, DomainsDistinct, MarkedAreDisabled,
       NoUsers, NoNodes, NoTunnels

\* The memory is one of the live databases.
LEMMA MemorySound ==
  ASSUME IInv
  PROVE  /\ RefsExist(users, nodes, tunnels)
         /\ PortsDistinct(tunnels) /\ DomainsDistinct(tunnels)
         /\ MarkedAreDisabled(users)
<1>1. db \in Live
  BY DEF Live
<1>2. Sound(db)
  BY <1>1 DEF IInv
<1> QED BY <1>2 DEF Sound, db

\* load yields a sound database.
LEMMA LoadedSound ==
  ASSUME IInv, file # Torn
  PROVE  /\ RefsExist(Loaded[1], Loaded[2], Loaded[3])
         /\ PortsDistinct(Loaded[3]) /\ DomainsDistinct(Loaded[3])
         /\ MarkedAreDisabled(Loaded[1])
<1>1. CASE file = Empty
  BY <1>1, EmptySound DEF Sound, Loaded
<1>2. CASE file # Empty
  <2>1. file \in Live
    BY <1>2 DEF Live
  <2>2. Sound(file)
    BY <2>1 DEF IInv
  <2> QED BY <1>2, <2>2 DEF Sound, Loaded
<1> QED BY <1>1, <1>2

\* The four parts together are Sound of the memory.
LEMMA SoundAfter ==
  ASSUME RefsExist(users', nodes', tunnels'), PortsDistinct(tunnels'),
         DomainsDistinct(tunnels'), MarkedAreDisabled(users)'
  PROVE  Sound(db)'
BY DEF Sound, db

\* A tunnel's owner and node are keys of the other two maps.
LEMMA RefTypes ==
  ASSUME NEW ts \in Tunnels, NEW t \in TunnelID, ts[t] # None
  PROVE  ts[t].user \in UserName /\ ts[t].node \in NodeID
BY DEF Tunnels, Tunnel

\* load, migrateDefaultNode and EnsureAdmin keep the live databases sound.
LEMMA StartSound ==
  ASSUME IInv, NEW o, Start(o)
  PROVE  (\A d \in Live : Sound(d))'
<1>1. CASE NewStore(o)
  <2>0. LocalNode # None
    BY RecordTypes, NamesAssumption
  <2>1. RefsExist(users', nodes', tunnels')
    BY <1>1, <2>0, LoadedSound, LoadedType, RefTypes
    DEF NewStore, RefsExist, IInv, TypeOK, Nodes
  <2>2. PortsDistinct(tunnels') /\ DomainsDistinct(tunnels')
    BY <1>1, LoadedSound DEF NewStore
  <2>3. MarkedAreDisabled(users)'
    BY <1>1, LoadedSound DEF NewStore, MarkedAreDisabled
  <2>4. file' \in {file, db', Empty, Torn}
    BY <1>1 DEF NewStore, saveLocked
  <2> QED BY <1>1, <2>1, <2>2, <2>3, <2>4, SoundAfter, SaveKeepsLive DEF NewStore
<1>2. CASE EnsureAdmin(o)
  <2>0. BootstrapAdmin # None
    BY RecordTypes, NamesAssumption
  <2>1. RefsExist(users', nodes', tunnels')
    BY <1>2, <2>0, MemorySound, RefTypes
    DEF EnsureAdmin, RefsExist, IInv, TypeOK, Users
  <2>2. PortsDistinct(tunnels') /\ DomainsDistinct(tunnels')
    BY <1>2, MemorySound DEF EnsureAdmin
  <2>3. MarkedAreDisabled(users)'
    BY <1>2, MemorySound
    DEF EnsureAdmin, MarkedAreDisabled, BootstrapAdmin, IInv, TypeOK, Users
  <2>4. file' \in {file, db', Empty, Torn}
    BY <1>2 DEF EnsureAdmin, saveLocked
  <2> QED BY <1>2, <2>1, <2>2, <2>3, <2>4, SoundAfter, SaveKeepsLive DEF EnsureAdmin
<1>3. CASE StartupSaveFails(o)
  <2>1. Sound(db)'
    BY <1>3, EmptySound DEF StartupSaveFails, Sound, db, MarkedAreDisabled
  <2>2. file' \in {file, db', Empty, Torn}
    BY <1>3 DEF StartupSaveFails
  <2> QED BY <1>3, <2>1, <2>2, SaveKeepsLive DEF StartupSaveFails
<1> QED BY <1>1, <1>2, <1>3 DEF Start

\* The same for an operation of a running control.
LEMMA OperationSound ==
  ASSUME IInv, NEW o, saveLocked(o), Idle,
         RefsExist(users', nodes', tunnels'), PortsDistinct(tunnels'),
         DomainsDistinct(tunnels'), MarkedAreDisabled(users)'
  PROVE  (\A d \in Live : Sound(d))'
<1>1. file' \in {file, db', Empty, Torn}
  BY DEF saveLocked
<1> QED BY <1>1, SoundAfter, SaveKeepsLive DEF Idle

\* A sweep, or a deletion, leaves no tunnel of a user it removes.
LEMMA CascadeSound ==
  ASSUME IInv, NEW S, tunnels' = WithoutTunnelsOf(S), UNCHANGED nodes,
         \A n \in UserName \ S : users[n] # None => users'[n] # None
  PROVE  /\ RefsExist(users', nodes', tunnels')
         /\ PortsDistinct(tunnels') /\ DomainsDistinct(tunnels')
<1>1. \A t \in TunnelID : tunnels'[t] # None =>
        tunnels'[t] = tunnels[t] /\ tunnels[t].user \notin S
  BY DEF WithoutTunnelsOf, HasTunnel
<1>2. \A t \in TunnelID : tunnels[t] # None => tunnels[t].user \in UserName
  BY RefTypes DEF IInv, TypeOK
<1>3. RefsExist(users', nodes', tunnels')
  BY <1>1, <1>2, MemorySound DEF RefsExist
<1> QED BY <1>1, <1>3, MemorySound, FewerTunnels

\* Edits, deletions and sweeps of users keep the live databases sound.
LEMMA UserStepSound ==
  ASSUME IInv, NEW o, UserStep(o)
  PROVE  (\A d \in Live : Sound(d))'
<1>1. ASSUME NEW in \in UserInput, UpsertUser(in, o)
      PROVE  (\A d \in Live : Sound(d))'
  <2>1. Upserted(in) # None /\ in.name \in UserName
    BY UpsertedType, NamesAssumption DEF IInv
  <2>2. RefsExist(users', nodes', tunnels')
    BY <1>1, <2>1, MemorySound, RefTypes DEF UpsertUser, RefsExist, IInv, TypeOK, Users
  <2>3. \A n \in UserName \ {in.name} : users'[n] = users[n]
    BY <1>1 DEF UpsertUser, IInv, TypeOK, Users
  <2>4. users'[in.name] = Upserted(in) /\ now' = now
    BY <1>1, <2>1 DEF UpsertUser, Idle, IInv, TypeOK, Users
  <2>5. Upserted(in).expiredAt <= now
    BY <2>1, MemorySound DEF Upserted, MarkedAreDisabled, IInv, TypeOK
  <2>6. Upserted(in).role # "admin" /\ Upserted(in).expiredAt # 0
          => ~Upserted(in).enabled
    BY DEF Upserted
  <2>7. MarkedAreDisabled(users)'
    BY <2>3, <2>4, <2>5, <2>6, MemorySound DEF MarkedAreDisabled
  <2> QED BY <1>1, <2>2, <2>7, MemorySound, OperationSound DEF UpsertUser
<1>2. ASSUME NEW n \in UserName, DeleteUser(n, o)
      PROVE  (\A d \in Live : Sound(d))'
  <2>1. \A m \in UserName : users'[m] = IF m = n THEN None ELSE users[m]
    BY <1>2 DEF DeleteUser, IInv, TypeOK, Users
  <2>2. /\ RefsExist(users', nodes', tunnels')
        /\ PortsDistinct(tunnels') /\ DomainsDistinct(tunnels')
    BY <1>2, <2>1, CascadeSound DEF DeleteUser
  <2>3. MarkedAreDisabled(users)'
    BY <1>2, <2>1, MemorySound DEF DeleteUser, Idle, MarkedAreDisabled
  <2> QED BY <1>2, <2>2, <2>3, OperationSound DEF DeleteUser
<1>3. ASSUME NEW n \in UserName, NEW p \in Password, SetPassword(n, p, o)
      PROVE  (\A d \in Live : Sound(d))'
  <2>1. \A m \in UserName : m # n => users'[m] = users[m]
    BY <1>3 DEF SetPassword, IInv, TypeOK, Users
  <2>2. users[n] \in User /\ users'[n] = [users[n] EXCEPT !.password = p]
    BY <1>3 DEF SetPassword, IInv, TypeOK, Users, HasUser
  <2>3. /\ users'[n] \in User
        /\ users'[n].role = users[n].role /\ users'[n].enabled = users[n].enabled
        /\ users'[n].expiredAt = users[n].expiredAt
    BY <2>2 DEF User
  <2>4. users[n] # None /\ users'[n] # None
    BY <2>2, <2>3, NamesAssumption
  <2>5. RefsExist(users', nodes', tunnels')
    BY <1>3, <2>1, <2>4, MemorySound, RefTypes
    DEF SetPassword, RefsExist, IInv, TypeOK
  <2>6. MarkedAreDisabled(users)'
    BY <1>3, <2>1, <2>3, <2>4, MemorySound DEF SetPassword, Idle, MarkedAreDisabled
  <2> QED BY <1>3, <2>5, <2>6, MemorySound, OperationSound DEF SetPassword
<1>4. CASE EnforceUserExpiry(o)
  <2>1. \A n \in UserName : users'[n] = IF n \in Swept THEN None ELSE Stamped(n)
    BY <1>4 DEF EnforceUserExpiry
  <2>2. ASSUME NEW n \in UserName, users[n] # None
        PROVE  Stamped(n) \in User
    <3>1. users[n] \in User /\ now \in Nat
      BY <2>2 DEF IInv, TypeOK, Users
    <3> QED BY <3>1 DEF Stamped, User
  <2>3. \A n \in UserName \ Swept : users[n] # None => users'[n] # None
    BY <2>1, <2>2, NamesAssumption
  <2>4. /\ RefsExist(users', nodes', tunnels')
        /\ PortsDistinct(tunnels') /\ DomainsDistinct(tunnels')
    BY <1>4, <2>3, CascadeSound DEF EnforceUserExpiry
  <2>5. ASSUME NEW n \in UserName, Stamped(n) # None
        PROVE  /\ Stamped(n).expiredAt <= now
               /\ Stamped(n).role # "admin" /\ Stamped(n).expiredAt # 0
                    => ~Stamped(n).enabled
    <3>1. users[n] \in User
      BY <2>5, NamesAssumption DEF Stamped, Due, HasUser, IInv, TypeOK, Users
    <3>2. users[n].expiredAt <= now
      BY <3>1, MemorySound, NamesAssumption DEF MarkedAreDisabled
    <3>3. users[n].role # "admin" /\ users[n].expiredAt # 0 => ~users[n].enabled
      BY <3>1, MemorySound, NamesAssumption DEF MarkedAreDisabled
    <3>4. Stamped(n).expiredAt <= now
      BY <3>1, <3>2 DEF Stamped, User, IInv, TypeOK
    <3>5. Stamped(n).role # "admin" /\ Stamped(n).expiredAt # 0
            => ~Stamped(n).enabled
      BY <3>1, <3>3 DEF Stamped, User
    <3> QED BY <3>4, <3>5
  <2>6. MarkedAreDisabled(users)'
    BY <1>4, <2>1, <2>5 DEF EnforceUserExpiry, Idle, MarkedAreDisabled
  <2> QED BY <1>4, <2>4, <2>6, OperationSound DEF EnforceUserExpiry
<1> QED BY <1>1, <1>2, <1>3, <1>4 DEF UserStep

\* Edits of nodes keep them sound, and so does DeleteNode, which looks for
\* tunnels first.
LEMMA NodeStepSound ==
  ASSUME IInv, NEW o, NodeStep(o)
  PROVE  (\A d \in Live : Sound(d))'
<1>1. ASSUME NEW in \in NodeInput, UpsertNode(in, o)
      PROVE  (\A d \in Live : Sound(d))'
  <2>1. in.id \in NodeID /\ nodes'[in.id] \in Node
    BY <1>1, InputAssumption DEF UpsertNode, Node, IInv, TypeOK, Nodes
  <2>2. \A n \in NodeID \ {in.id} : nodes'[n] = nodes[n]
    BY <1>1 DEF UpsertNode, IInv, TypeOK, Nodes
  <2>3. RefsExist(users', nodes', tunnels')
    BY <1>1, <2>1, <2>2, MemorySound, RefTypes, NamesAssumption
    DEF UpsertNode, RefsExist, IInv, TypeOK
  <2>4. MarkedAreDisabled(users)'
    BY <1>1, MemorySound DEF UpsertNode, Idle, MarkedAreDisabled
  <2> QED BY <1>1, <2>3, <2>4, MemorySound, OperationSound DEF UpsertNode
<1>2. ASSUME NEW n \in NodeID, DeleteNode(n, o)
      PROVE  (\A d \in Live : Sound(d))'
  <2>1. RefsExist(users', nodes', tunnels')
    BY <1>2, MemorySound, RefTypes
    DEF DeleteNode, HasTunnel, RefsExist, IInv, TypeOK, Nodes
  <2>2. MarkedAreDisabled(users)'
    BY <1>2, MemorySound DEF DeleteNode, Idle, MarkedAreDisabled
  <2> QED BY <1>2, <2>1, <2>2, MemorySound, OperationSound DEF DeleteNode
<1> QED BY <1>1, <1>2 DEF NodeStep

\* The heart of the matter: a tunnel that validateTunnelLocked accepts, stored
\* under an id that is free or that the validation left out, collides with none.
LEMMA ValidatedIsUnique ==
  ASSUME IInv, NEW t \in TunnelID, NEW in \in Tunnel, NEW e,
         validateTunnel(in, e), e = t \/ (e \notin TunnelID /\ ~HasTunnel(t)),
         tunnels' = [tunnels EXCEPT ![t] = in]
  PROVE  PortsDistinct(tunnels') /\ DomainsDistinct(tunnels')
<1>1. tunnels'[t] = in /\ \A s \in TunnelID : s # t => tunnels'[s] = tunnels[s]
  BY DEF IInv, TypeOK, Tunnels
<1>2. PortsDistinct(tunnels) /\ DomainsDistinct(tunnels)
  BY MemorySound
<1>3. ASSUME NEW s \in TunnelID, s # t, tunnels[s] # None,
             isPortMode(tunnels[s].mode), isPortMode(in.mode),
             tunnels[s].node = in.node, tunnels[s].port = in.port
      PROVE  portTransport(tunnels[s].mode) # portTransport(in.mode)
  <2>1. ~PortTaken(in, e)
    BY <1>3 DEF validateTunnel, PortAllowed
  <2> QED BY <1>3, <2>1 DEF PortTaken, HasTunnel
<1>4. PortsDistinct(tunnels')
  BY <1>1, <1>2, <1>3 DEF PortsDistinct
<1>5. ASSUME NEW s \in TunnelID, s # t, tunnels[s] # None,
             isDomainMode(in.mode), tunnels[s].mode = in.mode
      PROVE  tunnels[s].domains \cap in.domains = {}
  <2>1. DomainsAllowed(in, e)
    BY <1>5 DEF validateTunnel, isPortMode, isDomainMode, PortMode, DomainMode
  <2> QED BY <1>5, <2>1 DEF DomainsAllowed, DomainTaken, HasTunnel
<1>6. DomainsDistinct(tunnels')
  BY <1>1, <1>2, <1>5 DEF DomainsDistinct
<1> QED BY <1>4, <1>6

\* CreateTunnel, UpdateTunnel and DeleteTunnel keep the live databases sound.
LEMMA TunnelStepSound ==
  ASSUME IInv, NEW o, TunnelStep(o)
  PROVE  (\A d \in Live : Sound(d))'
<1>1. ASSUME NEW t \in TunnelID, NEW input \in TunnelInput,
             CreateTunnel(t, input, o) \/ UpdateTunnel(t, input, o)
      PROVE  (\A d \in Live : Sound(d))'
  <2> DEFINE in == NormalizeTunnel(input)
  <2>1. in \in Tunnel
    BY NormalizedType
  <2>2. PICK e : /\ validateTunnel(in, e)
                 /\ e = t \/ (e \notin TunnelID /\ ~HasTunnel(t))
    BY <1>1, NamesAssumption DEF CreateTunnel, UpdateTunnel
  <2>3. tunnels' = [tunnels EXCEPT ![t] = in] /\ UNCHANGED <<users, nodes, now>>
    BY <1>1 DEF CreateTunnel, UpdateTunnel, Idle
  <2> HIDE DEF in
  <2>4. PortsDistinct(tunnels') /\ DomainsDistinct(tunnels')
    BY <2>1, <2>2, <2>3, ValidatedIsUnique
  <2>5. users[in.user] # None /\ nodes[in.node] # None
    BY <2>2 DEF validateTunnel, HasUser, HasNode
  <2>6. RefsExist(users', nodes', tunnels')
    BY <2>3, <2>5, MemorySound DEF RefsExist, IInv, TypeOK, Tunnels
  <2>7. MarkedAreDisabled(users)'
    BY <2>3, MemorySound DEF MarkedAreDisabled
  <2> QED BY <1>1, <2>4, <2>6, <2>7, OperationSound DEF CreateTunnel, UpdateTunnel
<1>2. ASSUME NEW t \in TunnelID, DeleteTunnel(t, o)
      PROVE  (\A d \in Live : Sound(d))'
  <2>1. \A s \in TunnelID : tunnels'[s] # None => tunnels'[s] = tunnels[s]
    BY <1>2 DEF DeleteTunnel, IInv, TypeOK, Tunnels
  <2>2. PortsDistinct(tunnels') /\ DomainsDistinct(tunnels')
    BY <2>1, MemorySound, FewerTunnels
  <2>3. RefsExist(users', nodes', tunnels')
    BY <1>2, <2>1, MemorySound DEF DeleteTunnel, RefsExist
  <2>4. MarkedAreDisabled(users)'
    BY <1>2, MemorySound DEF DeleteTunnel, Idle, MarkedAreDisabled
  <2> QED BY <1>2, <2>2, <2>3, <2>4, OperationSound DEF DeleteTunnel
<1> QED BY <1>1, <1>2 DEF TunnelStep

\* A save of unchanged maps keeps the live databases sound.
LEMMA PayloadStepSound ==
  ASSUME IInv, NEW o, PayloadStep(o)
  PROVE  (\A d \in Live : Sound(d))'
<1>1. UNCHANGED <<users, nodes, tunnels, now>> /\ saveLocked(o) /\ Idle
  BY DEF PayloadStep, UpdateNodeStatus, ResetUserFlow, db, Idle
<1>2. MarkedAreDisabled(users)'
  BY <1>1, MemorySound DEF MarkedAreDisabled
<1> QED BY <1>1, <1>2, MemorySound, OperationSound

\* The inductive invariant holds initially,
LEMMA IInvInit == Init => IInv
<1> SUFFICES ASSUME Init PROVE IInv
  OBVIOUS
<1>1. Live = {<<NoUsers, NoNodes, NoTunnels>>}
  BY DEF Init, Live, db
<1> QED BY <1>1, TypeInit, EmptySound DEF IInv

\* and every step preserves it.
LEMMA IInvStep == IInv /\ [Next]_vars => IInv'
<1> SUFFICES ASSUME IInv, [Next]_vars PROVE IInv'
  OBVIOUS
<1>1. TypeOK'
  BY TypeStep DEF IInv
<1>2. ASSUME NEW o \in SaveOutcome,
             \/ Start(o) \/ UserStep(o) \/ NodeStep(o) \/ TunnelStep(o)
             \/ PayloadStep(o)
      PROVE  (\A d \in Live : Sound(d))'
  BY <1>2, StartSound, UserStepSound, NodeStepSound, TunnelStepSound,
     PayloadStepSound
<1>3. CASE Crash
  <2>1. Sound(db)'
    BY <1>3, EmptySound DEF Crash, Sound, db, MarkedAreDisabled
  <2> QED BY <1>1, <1>3, <2>1, SaveKeepsLive DEF Crash, IInv
<1>4. CASE Tick
  <2>1. Live' = Live /\ now' = now + 1 /\ now \in Nat
    BY <1>4 DEF Tick, Live, db, IInv, TypeOK
  <2>2. ASSUME NEW d \in Live PROVE Sound(d)'
    <3>1. Sound(d)
      BY DEF IInv
    <3>2. d[1] \in Users
      BY DEF Live, db, IInv, TypeOK, Database
    <3>3. \A n \in UserName : d[1][n] # None => d[1][n].expiredAt \in Nat
      BY <3>2 DEF Users, User
    <3>4. MarkedAreDisabled(d[1])'
      BY <2>1, <3>1, <3>3 DEF Sound, MarkedAreDisabled
    <3> QED BY <3>1, <3>4 DEF Sound
  <2> QED BY <1>1, <2>1, <2>2 DEF IInv
<1>5. CASE UNCHANGED vars
  BY <1>1, <1>5 DEF vars, IInv, Live, db, Sound, MarkedAreDisabled
<1> QED BY <1>1, <1>2, <1>3, <1>4, <1>5 DEF Next, IInv

\* Memory and file are sound in every reachable state of the store.
THEOREM Consistent == Spec => []IInv
<1> QED BY IInvInit, IInvStep, PTL DEF Spec

\* DeleteUser, EnforceUserExpiry and DeleteNode leave no tunnel without its
\* owner or its node, in memory or in the file, through any crash or failed save.
THEOREM RefIntegrityHolds == Spec => []RefIntegrity
<1>1. IInv => RefIntegrity
  BY DEF IInv, Sound, RefIntegrity
<1> QED BY <1>1, Consistent, PTL

\* No sequence of creations and updates gives one port and transport of a node
\* to two tunnels.
THEOREM PortUniqueHolds == Spec => []PortUnique
<1>1. IInv => PortUnique
  BY DEF IInv, Sound, PortUnique
<1> QED BY <1>1, Consistent, PTL

\* ... nor one domain to two tunnels of a scheme.
THEOREM DomainUniqueHolds == Spec => []DomainUnique
<1>1. IInv => DomainUnique
  BY DEF IInv, Sound, DomainUnique
<1> QED BY <1>1, Consistent, PTL

\* A marked user is disabled until it is renewed or removed.
THEOREM ExpiredDisabledHolds == Spec => []ExpiredDisabled
<1>1. IInv => ExpiredDisabled
  BY DEF IInv, Sound, ExpiredDisabled
<1> QED BY <1>1, Consistent, PTL

----------------------------------------------------------------------------
(* The default node *)

\* No step of a running control removes the default node.
LEMMA DefaultNodeStep == IInv /\ DefaultNodePresent /\ [Next]_vars => DefaultNodePresent'
<1> SUFFICES ASSUME IInv, DefaultNodePresent, [Next]_vars PROVE DefaultNodePresent'
  OBVIOUS
<1> USE DEF DefaultNodePresent, HasNode
<1>1. ASSUME NEW o, Start(o) PROVE DefaultNodePresent'
  <2>1. LocalNode # None
    BY RecordTypes, NamesAssumption
  <2>2. CASE NewStore(o)
    BY <2>1, <2>2, LoadedType, NamesAssumption DEF NewStore, IInv, TypeOK, Nodes
  <2>3. CASE EnsureAdmin(o)
    BY <2>3 DEF EnsureAdmin
  <2>4. CASE StartupSaveFails(o)
    BY <2>4 DEF StartupSaveFails
  <2> QED BY <1>1, <2>2, <2>3, <2>4 DEF Start
<1>2. ASSUME NEW o, UserStep(o) \/ TunnelStep(o) \/ PayloadStep(o)
      PROVE  DefaultNodePresent'
  BY <1>2 DEF UserStep, TunnelStep, PayloadStep, UpdateNodeStatus,
              ResetUserFlow, db, UpsertUser, DeleteUser, SetPassword,
              EnforceUserExpiry, CreateTunnel, UpdateTunnel, DeleteTunnel, Idle
<1>3. ASSUME NEW o, NodeStep(o) PROVE DefaultNodePresent'
  <2>1. ASSUME NEW in \in NodeInput, UpsertNode(in, o) PROVE DefaultNodePresent'
    <3>1. in.id \in NodeID /\ nodes'[in.id] \in Node
      BY <2>1, InputAssumption DEF UpsertNode, Node, IInv, TypeOK, Nodes
    <3> QED BY <2>1, <3>1, NamesAssumption DEF UpsertNode, Idle, IInv, TypeOK, Nodes
  <2>2. ASSUME NEW n \in NodeID, DeleteNode(n, o) PROVE DefaultNodePresent'
    BY <2>2, NamesAssumption DEF DeleteNode, Idle, IInv, TypeOK, Nodes
  <2> QED BY <1>3, <2>1, <2>2 DEF NodeStep
<1>4. CASE Crash
  BY <1>4 DEF Crash
<1>5. CASE Tick \/ UNCHANGED vars
  BY <1>5 DEF Tick, vars, db
<1> QED BY <1>1, <1>2, <1>3, <1>4, <1>5 DEF Next

\* Whenever the API is served the default node is there: DeleteNode refuses it
\* and NewStore restores it, even after the file was cut to nothing.
THEOREM DefaultNodeHolds == Spec => []DefaultNodePresent
<1>1. Init => DefaultNodePresent
  BY DEF Init, DefaultNodePresent
<1> QED BY <1>1, Consistent, DefaultNodeStep, PTL DEF Spec

\* All the promises on what a database contains, at every moment of every behaviour,
\* whatever is loaded after a crash (store.go, validateTunnelLocked, DeleteUser,
\* DeleteNode, NewStore).
THEOREM ConsistencyHolds == Spec => []Consistency
<1>1. RefIntegrity /\ PortUnique /\ DomainUnique /\ DefaultNodePresent <=> Consistency
  BY DEF Consistency
<1> QED BY <1>1, RefIntegrityHolds, PortUniqueHolds, DomainUniqueHolds,
           DefaultNodeHolds, PTL

----------------------------------------------------------------------------
(* Durability *)

\* Inductive: the start-up, too, never runs ahead of the file.
Durable == (phase # "down" => (~saveErr => file = db)) /\ (phase = "down" => ~saveErr)

\* After saveLocked the file is the memory or an error was reported.
LEMMA SaveIsDurable ==
  ASSUME NEW o, saveLocked(o), phase' # "down"
  PROVE  Durable'
BY DEF saveLocked, Durable, db

\* No step lets the memory run ahead of the file unnoticed.
LEMMA DurableStep == IInv /\ Durable /\ [Next]_vars => Durable'
<1> SUFFICES ASSUME IInv, Durable, [Next]_vars PROVE Durable'
  OBVIOUS
<1>1. ASSUME NEW o, Start(o) PROVE Durable'
  <2>1. CASE NewStore(o)
    <3>1. CASE Loaded[2][DefaultNodeID] # None
      <4>1. file # Empty
        BY <3>1, NamesAssumption DEF Loaded, NoNodes
      <4>2. file \in Database
        BY <2>1, <4>1 DEF NewStore, IInv, TypeOK
      <4>3. file = <<file[1], file[2], file[3]>>
        BY <4>2 DEF Database
      <4>4. db' = file /\ file' = file
        BY <2>1, <3>1, <4>1, <4>3 DEF NewStore, Loaded, db
      <4> QED BY <2>1, <4>4 DEF NewStore, Durable
    <3>2. CASE Loaded[2][DefaultNodeID] = None
      BY <2>1, <3>2, SaveIsDurable DEF NewStore
    <3> QED BY <3>1, <3>2
  <2>2. CASE EnsureAdmin(o)
    <3>1. CASE EnabledAdmins # {}
      BY <2>2, <3>1 DEF EnsureAdmin, Durable, db
    <3>2. CASE EnabledAdmins = {}
      BY <2>2, <3>2, SaveIsDurable DEF EnsureAdmin
    <3> QED BY <3>1, <3>2
  <2>3. CASE StartupSaveFails(o)
    BY <2>3 DEF StartupSaveFails, Durable
  <2> QED BY <1>1, <2>1, <2>2, <2>3 DEF Start
<1>2. ASSUME NEW o, \/ UserStep(o) \/ NodeStep(o) \/ TunnelStep(o)
                    \/ PayloadStep(o)
      PROVE  Durable'
  <2>1. saveLocked(o) /\ phase' # "down"
    BY <1>2 DEF UserStep, NodeStep, TunnelStep, PayloadStep, UpdateNodeStatus,
                ResetUserFlow, UpsertUser, DeleteUser,
                SetPassword, EnforceUserExpiry, UpsertNode, DeleteNode,
                CreateTunnel, UpdateTunnel, DeleteTunnel, Idle
  <2> QED BY <2>1, SaveIsDurable
<1>3. CASE Crash
  BY <1>3 DEF Crash, Durable
<1>4. CASE Tick \/ UNCHANGED vars
  BY <1>4 DEF Tick, vars, db, Durable
<1> QED BY <1>1, <1>2, <1>3, <1>4 DEF Next

\* An operation that returned success is in the file: a crash loses only what
\* was answered with a save error.
THEOREM AckedIsDurableHolds == Spec => []AckedIsDurable
<1>1. Init => Durable
  BY DEF Init, Durable
<1>2. Durable => AckedIsDurable
  BY DEF Durable, AckedIsDurable
<1> QED BY <1>1, <1>2, Consistent, DurableStep, PTL DEF Spec

----------------------------------------------------------------------------
(* Expiry *)

\* The stamp of this very sweep is too young for the retention period.
LEMMA SweptIsOld ==
  ASSUME IInv, NEW n \in UserName, n \in Swept
  PROVE  /\ users[n].role # "admin" /\ ~users[n].enabled
         /\ users[n].expiredAt # 0 /\ users[n].expiredAt + Retention <= now
<1>1. users[n] \in User /\ users[n] # None /\ users[n].role # "admin" /\ now \in Nat
  BY DEF Swept, Due, HasUser, IInv, TypeOK, Users
<1>2. Stamped(n) = users[n] \/ Stamped(n).expiredAt = now
  BY <1>1 DEF Stamped, User
<1>3. Stamped(n) = users[n]
  BY <1>1, <1>2, BoundsAssumption DEF Swept
<1>4. users[n].expiredAt # 0 /\ users[n].expiredAt + Retention <= now
  BY <1>3 DEF Swept
<1>5. ~users[n].enabled
  BY <1>1, <1>4, MemorySound DEF MarkedAreDisabled
<1> QED BY <1>1, <1>4, <1>5

\* A sweep never deletes a user that was active or freshly marked: each had been
\* disabled and marked for the whole retention period.
THEOREM SweepKeepsGraceHolds == Spec => SweepKeepsGrace
<1> DEFINE Grace ==
      (\E o \in SaveOutcome : EnforceUserExpiry(o)) =>
         \A n \in UserName : HasUser(n) /\ ~HasUser(n)' =>
           /\ users[n].role # "admin" /\ ~users[n].enabled
           /\ users[n].expiredAt # 0 /\ users[n].expiredAt + Retention <= now
<1>1. ASSUME IInv PROVE Grace
  <2> SUFFICES ASSUME NEW o \in SaveOutcome, EnforceUserExpiry(o),
                      NEW n \in UserName, HasUser(n), ~HasUser(n)'
               PROVE  n \in Swept
    BY <1>1, SweptIsOld
  <2> SUFFICES ASSUME n \notin Swept PROVE FALSE
    OBVIOUS
  <2>1. users'[n] = Stamped(n)
    BY DEF EnforceUserExpiry
  <2>2. users[n] \in User /\ now \in Nat
    BY <1>1 DEF HasUser, IInv, TypeOK, Users
  <2>3. Stamped(n) \in User
    BY <2>2 DEF Stamped, User
  <2> QED BY <2>1, <2>3, NamesAssumption DEF HasUser
<1>2. IInv /\ [Next]_vars => [Grace]_vars
  BY <1>1
<1> QED BY <1>2, Consistent, PTL DEF Spec, SweepKeepsGrace

----------------------------------------------------------------------------
(* The last administrator *)

\* Of two enabled admins, the deletion of one leaves another.
LEMMA OtherAdmin ==
  ASSUME NEW n, Cardinality(EnabledAdmins) > 1
  PROVE  \E m \in EnabledAdmins : m # n
<1> SUFFICES ASSUME EnabledAdmins \subseteq {n} PROVE FALSE
  OBVIOUS
<1>1. IsFiniteSet({n}) /\ Cardinality({n}) = 1
  BY FS_Singleton
<1>2. Cardinality(EnabledAdmins) <= 1
  BY <1>1, FS_Subset
<1>3. Cardinality(EnabledAdmins) \in Nat
  BY <1>1, FS_Subset, FS_CardinalityType
<1> QED BY <1>2, <1>3

\* Neither DeleteUser nor EnforceUserExpiry takes the last enabled admin away:
\* only an edit of its record can.
THEOREM LastAdminKeptHolds == Spec => LastAdminKept
<1> DEFINE Kept ==
      phase' = "up" /\ EnabledAdmins # {} /\ EnabledAdmins' = {} =>
        \A n \in UserName : HasUser(n) => HasUser(n)'
<1>1. ASSUME IInv, [Next]_vars PROVE Kept
  <2> SUFFICES ASSUME phase' = "up", NEW a \in EnabledAdmins, EnabledAdmins' = {}
               PROVE  \A n \in UserName : HasUser(n) => HasUser(n)'
    OBVIOUS
  <2>0. /\ a \in UserName /\ users[a] # None
        /\ users[a].role = "admin" /\ users[a].enabled
    BY DEF EnabledAdmins, HasUser
  <2>1. ASSUME NEW o, Start(o) PROVE FALSE
    <3>1. users' = users
      BY <2>0, <2>1 DEF Start, NewStore, EnsureAdmin, StartupSaveFails
    <3> QED BY <2>0, <3>1 DEF EnabledAdmins, HasUser
  <2>2. ASSUME NEW in \in UserInput, NEW o, UpsertUser(in, o)
        PROVE  \A n \in UserName : HasUser(n) => HasUser(n)'
    <3>1. Upserted(in) # None
      BY <1>1, UpsertedType, NamesAssumption DEF IInv
    <3> QED BY <1>1, <2>2, <3>1 DEF UpsertUser, HasUser, IInv, TypeOK, Users
  <2>3. ASSUME NEW n \in UserName, NEW o, DeleteUser(n, o) PROVE FALSE
    <3>1. PICK m \in EnabledAdmins : m # n
      BY <2>0, <2>3, OtherAdmin DEF DeleteUser
    <3>2. users'[m] = users[m]
      BY <1>1, <2>3, <3>1 DEF DeleteUser, EnabledAdmins, IInv, TypeOK, Users
    <3> QED BY <3>2 DEF EnabledAdmins, HasUser
  <2>4. ASSUME NEW n \in UserName, NEW p \in Password, NEW o, SetPassword(n, p, o)
        PROVE  FALSE
    <3>1. users[a] \in User
      BY <1>1, <2>0 DEF IInv, TypeOK, Users
    <3>2. users'[a] = users[a] \/ users'[a] = [users[a] EXCEPT !.password = p]
      BY <1>1, <2>0, <2>4 DEF SetPassword, IInv, TypeOK, Users
    <3>3. /\ users'[a] \in User
          /\ users'[a].role = users[a].role /\ users'[a].enabled = users[a].enabled
      BY <3>1, <3>2 DEF User
    <3> QED BY <2>0, <3>3, NamesAssumption DEF EnabledAdmins, HasUser
  <2>5. ASSUME NEW o, EnforceUserExpiry(o) PROVE FALSE
    <3>1. users'[a] = users[a]
      BY <2>0, <2>5 DEF EnforceUserExpiry, Swept, Stamped, Due
    <3> QED BY <2>0, <3>1, SMTT(30) DEF EnabledAdmins, HasUser
  <2>6. ASSUME users' = users PROVE \A n \in UserName : HasUser(n) => HasUser(n)'
    BY <2>6 DEF HasUser
  <2>7. ASSUME NEW o, NodeStep(o) \/ TunnelStep(o) \/ PayloadStep(o)
        PROVE  users' = users
    BY <2>7 DEF NodeStep, TunnelStep, PayloadStep, UpdateNodeStatus,
                ResetUserFlow, db, UpsertNode, DeleteNode, CreateTunnel,
                UpdateTunnel, DeleteTunnel
  <2>8. ASSUME Tick \/ UNCHANGED vars PROVE users' = users
    BY <2>8 DEF Tick, vars, db
  <2>9. ~Crash
    BY DEF Crash
  <2> QED BY <1>1, <2>1, <2>2, <2>3, <2>4, <2>5, <2>6, <2>7, <2>8, <2>9
          DEF Next, UserStep
<1>2. IInv /\ [Next]_vars => [Kept]_vars
  BY <1>1
<1> QED BY <1>2, Consistent, PTL DEF Spec, LastAdminKept

----------------------------------------------------------------------------
(* Quotas *)

\* Fewer tunnels are not more.
LEMMA FewerOf ==
  ASSUME NEW n, TunnelsOf(n, None)' \subseteq TunnelsOf(n, None)
  PROVE  TunnelCount(n)' <= TunnelCount(n)
<1>1. IsFiniteSet(TunnelsOf(n, None))
  BY FiniteAssumption, FS_Subset DEF TunnelsOf
<1> QED BY <1>1, FS_Subset DEF TunnelCount

\* countUserTunnelsLocked leaves out the tunnel being written, so what it counts
\* is one less than what the user has afterwards.
LEMMA AtMostOneMore ==
  ASSUME NEW n, NEW e, NEW t, NEW max \in Nat,
         Cardinality(TunnelsOf(n, e)) < max,
         TunnelsOf(n, None)' \subseteq TunnelsOf(n, e) \cup {t}
  PROVE  TunnelCount(n)' <= max
<1>1. IsFiniteSet(TunnelsOf(n, e))
  BY FiniteAssumption, FS_Subset DEF TunnelsOf
<1>2. Cardinality(TunnelsOf(n, e)) \in Nat
  BY <1>1, FS_CardinalityType
<1>3. /\ IsFiniteSet(TunnelsOf(n, e) \cup {t})
      /\ Cardinality(TunnelsOf(n, e) \cup {t}) <= Cardinality(TunnelsOf(n, e)) + 1
  BY <1>1, <1>2, FS_AddElement
<1>4. /\ Cardinality(TunnelsOf(n, None)') <= Cardinality(TunnelsOf(n, e) \cup {t})
      /\ IsFiniteSet(TunnelsOf(n, None)')
  BY <1>3, FS_Subset
<1>5. /\ Cardinality(TunnelsOf(n, None)') \in Nat
      /\ Cardinality(TunnelsOf(n, e) \cup {t}) \in Nat
  BY <1>3, <1>4, FS_CardinalityType
<1> QED BY <1>2, <1>3, <1>4, <1>5 DEF TunnelCount

\* Only CreateTunnel and UpdateTunnel give a user more tunnels, and only while
\* the user stays within its quota.
THEOREM QuotaBoundsGrowthHolds == Spec => QuotaBoundsGrowth
<1> DEFINE Bounded ==
      \A n \in UserName :
        phase = "up" /\ HasUser(n)' /\ users'[n].maxPorts > 0 =>
          \/ TunnelCount(n)' <= TunnelCount(n)
          \/ TunnelCount(n)' <= users'[n].maxPorts
<1>1. ASSUME IInv, [Next]_vars PROVE Bounded
  <2> SUFFICES ASSUME NEW n \in UserName, phase = "up", HasUser(n)',
                      users'[n].maxPorts > 0
               PROVE  \/ TunnelCount(n)' <= TunnelCount(n)
                      \/ TunnelCount(n)' <= users'[n].maxPorts
    OBVIOUS
  <2>1. ASSUME \A t \in TunnelID : tunnels'[t] # None => tunnels'[t] = tunnels[t]
        PROVE  TunnelCount(n)' <= TunnelCount(n)
    BY <2>1, FewerOf DEF TunnelsOf, HasTunnel
  <2>2. ASSUME NEW o, Start(o) PROVE FALSE
    BY <2>2 DEF Start, NewStore, EnsureAdmin, StartupSaveFails
  <2>3. ASSUME NEW o, UserStep(o) \/ NodeStep(o) \/ PayloadStep(o)
        PROVE  \A t \in TunnelID : tunnels'[t] # None => tunnels'[t] = tunnels[t]
    BY <2>3 DEF UserStep, NodeStep, PayloadStep, UpdateNodeStatus,
                ResetUserFlow, db, UpsertUser, DeleteUser, SetPassword,
                EnforceUserExpiry, UpsertNode, DeleteNode, WithoutTunnelsOf
  <2>4. ASSUME NEW t \in TunnelID, NEW o, DeleteTunnel(t, o)
        PROVE  \A s \in TunnelID : tunnels'[s] # None => tunnels'[s] = tunnels[s]
    BY <1>1, <2>4 DEF DeleteTunnel, IInv, TypeOK, Tunnels
  <2>5. ASSUME NEW t \in TunnelID, NEW input \in TunnelInput, NEW o,
               CreateTunnel(t, input, o) \/ UpdateTunnel(t, input, o)
        PROVE  \/ TunnelCount(n)' <= TunnelCount(n)
               \/ TunnelCount(n)' <= users'[n].maxPorts
    <3> DEFINE in == NormalizeTunnel(input)
    <3>1. PICK e : /\ validateTunnel(in, e)
                   /\ e = t \/ (e = None /\ ~HasTunnel(t))
      BY <2>5 DEF CreateTunnel, UpdateTunnel
    <3>2. tunnels' = [tunnels EXCEPT ![t] = in] /\ users' = users
      BY <2>5 DEF CreateTunnel, UpdateTunnel
    <3>3. in # None
      BY NormalizedType, NamesAssumption
    <3> HIDE DEF in
    <3>4. \A s \in TunnelID : tunnels'[s] = IF s = t THEN in ELSE tunnels[s]
      BY <1>1, <3>2 DEF IInv, TypeOK, Tunnels
    <3>5. CASE in.user # n
      <4>1. TunnelsOf(n, None)' \subseteq TunnelsOf(n, None)
        BY <3>4, <3>5 DEF TunnelsOf, HasTunnel
      <4> QED BY <4>1, FewerOf
    <3>6. CASE in.user = n
      <4>1. TunnelsOf(n, None)' \subseteq TunnelsOf(n, e) \cup {t}
        BY <3>1, <3>4 DEF TunnelsOf, HasTunnel
      <4>2. users'[n].maxPorts \in Nat
        BY <1>1, <3>2 DEF HasUser, IInv, TypeOK, Users, User
      <4>3. Cardinality(TunnelsOf(n, e)) < users'[n].maxPorts
        BY <3>1, <3>2, <3>6, <4>2 DEF validateTunnel
      <4> QED BY <4>1, <4>2, <4>3, AtMostOneMore
    <3> QED BY <3>5, <3>6
  <2>6. ASSUME Tick \/ UNCHANGED vars PROVE tunnels' = tunnels
    BY <2>6 DEF Tick, vars, db
  <2>7. ASSUME Crash PROVE \A t \in TunnelID : tunnels'[t] = None
    BY <2>7 DEF Crash, NoTunnels
  <2> QED BY <1>1, <2>1, <2>2, <2>3, <2>4, <2>5, <2>6, <2>7 DEF Next, TunnelStep
<1>2. IInv /\ [Next]_vars => [Bounded]_vars
  BY <1>1
<1> QED BY <1>2, Consistent, PTL DEF Spec, QuotaBoundsGrowth
=============================================================================

---------------------------- MODULE ServingProofs ---------------------------
(***************************************************************************)
(* Proofs about the modules that serve requests, for every number of them  *)
(* and every interleaving: the control's API (ControlApi), the sign-in     *)
(* (NpsLogin) and the database (NpsWeb) of NPS' console, and the sessions  *)
(* of frp (FrpWire).                                                       *)
(***************************************************************************)
EXTENDS MCServing, FiniteSetTheorems, SequenceTheorems, WellFoundedInduction, TLAPS

-----------------------------------------------------------------------------
(* The control's API: the invariant.                                       *)

Stage == {"new", "verified", "got", "in", "set", "sync", "write", "act", "end"}
Progress == [at: Stage, me: [name: Name \cup {None}, role: Role],
        ans: {"", "ok", "400", "401", "403"}, snap: [Name -> User \cup {None}]]
NodeState == [there: BOOLEAN, on: BOOLEAN, up: BOOLEAN, shown: BOOLEAN, clients: BOOLEAN,
         left: Nat]

\* Where a request has come to, it has passed what leads there.
Passed(q) ==
  /\ job[q].at # "new" => Q(q) # None
  /\ job[q].at = "verified" => Q(q).name \in Name
  /\ job[q].at \in {"in", "set", "act"} => job[q].me.name \in Name
  /\ job[q].at = "act" => Q(q).op \in {"update", "remove"}

\* What was checked still holds, or somebody else has changed the tunnel's hands.
Checked(q) ==
  job[q].at = "act" /\ ~isAdmin(q) /\ <<q, Q(q).id>> \notin moved
    => tuns[Q(q).id] = job[q].me.name

ApiInv ==
  /\ use \in Setups /\ ApiTypeOK /\ job \in [Req -> Progress] /\ node \in NodeState
  /\ NoOrphanTunnel /\ DeletedNodeGone
  /\ \A q \in Req : Passed(q) /\ Checked(q)

\* What the run checks is part of the invariant.
LEMMA ApiInvSound == ApiInv => ApiSound
BY DEF ApiInv, ApiSound

\* A setup starts with no request under way.
LEMMA ApiInvInit == Init => ApiInv
<1> SUFFICES ASSUME Init PROVE ApiInv
  OBVIOUS
<1> USE ApiAssumption DEF Init
<1>1. use \in Setup /\ Sane(use)
  OBVIOUS
<1>2. /\ users \in [Name -> User \cup {None}] /\ tuns \in [Tid -> Name \cup {None}]
      /\ node \in NodeState /\ job \in [Req -> Progress]
  BY <1>1 DEF Setup, NodeState, Progress, Stage, NoMe, Role
<1>3. ApiTypeOK
  BY <1>2 DEF ApiTypeOK, Setup
<1>4. NoOrphanTunnel
  BY <1>1, <1>2 DEF NoOrphanTunnel, Sane, has, Setup
<1>5. DeletedNodeGone /\ \A q \in Req : Passed(q) /\ Checked(q)
  BY DEF DeletedNodeGone, Passed, Checked
<1> QED BY <1>1, <1>2, <1>3, <1>4, <1>5 DEF ApiInv

-----------------------------------------------------------------------------
(* The control's API: its steps.                                           *)

\* A request goes on, or ends, by itself.
LEMMA StepIs ==
  ASSUME job \in [Req -> Progress], NEW q \in Req, NEW at \in Stage, Step(q, at)
  PROVE  /\ job' \in [Req -> Progress] /\ \A r \in Req \ {q} : job'[r] = job[r]
         /\ job'[q].at = at /\ job'[q].me = job[q].me
<1> DEFINE j == [job[q] EXCEPT !.at = at]
<1>1. j \in Progress /\ j.at = at /\ j.me = job[q].me
  BY DEF Progress
<1>2. job' = [job EXCEPT ![q] = j]
  BY DEF Step
<1> QED BY <1>1, <1>2

\* A handler answers.
LEMMA EndIs ==
  ASSUME job \in [Req -> Progress], NEW q \in Req, End(q, "ok") \/ End(q, "400") \/
         End(q, "401") \/ End(q, "403")
  PROVE  /\ job' \in [Req -> Progress] /\ \A r \in Req \ {q} : job'[r] = job[r]
         /\ job'[q].at = "end" /\ job'[q].me = job[q].me
<1>1. PICK ans \in {"ok", "400", "401", "403"} : End(q, ans)
  OBVIOUS
<1> DEFINE j == [job[q] EXCEPT !.at = "end", !.ans = ans]
<1>2. j \in Progress /\ j.at = "end" /\ j.me = job[q].me
  BY DEF Progress, Stage
<1>3. job' = [job EXCEPT ![q] = j]
  BY <1>1 DEF End
<1> QED BY <1>2, <1>3

\* What the step of request q does to the requests.
Moves(q) ==
  /\ job' \in [Req -> Progress] /\ \A r \in Req \ {q} : job'[r] = job[r]
  /\ Passed(q)'

\* Sign-in, sign-out and the look-up of the session: the request goes on, and none acts yet.
LEMMA SessionMoves ==
  ASSUME ApiInv, NEW q \in Req,
         \/ VerifyLogin(q) \/ createSession(q) \/ sessionsGet(q) \/ currentUser(q)
         \/ logout(q)
  PROVE  Moves(q) /\ job'[q].at # "act"
<1> USE DEF ApiInv, Moves, Passed, Q
<1>1. CASE VerifyLogin(q)
  BY <1>1, StepIs, EndIs DEF VerifyLogin, Where, has, Stage
<1>2. CASE createSession(q)
  BY <1>2, EndIs DEF createSession, Where
<1>3. CASE sessionsGet(q)
  <2>1. CASE End(q, "401")
    BY <1>3, <2>1, EndIs DEF sessionsGet
  <2>2. CASE ~End(q, "401")
    <3> DEFINE n == sess[Q(q).tok]
               j == [job[q] EXCEPT !.at = "got", !.me.name = n]
    <3>1. n \in Name /\ Q(q) # None
      BY <1>3, <2>2 DEF sessionsGet, ApiTypeOK
    <3>2. j \in Progress /\ j.at = "got"
      BY <3>1, ZenonT(60) DEF Progress, Stage
    <3>3. job' = [job EXCEPT ![q] = j]
      <4>1. job' = [job EXCEPT ![q].at = "got", ![q].me.name = n]
        BY <1>3, <2>2 DEF sessionsGet
      <4> HIDE DEF n
      <4> QED BY <4>1 DEF Progress
    <3>4. use' = use
      BY <1>3 DEF sessionsGet
    <3> HIDE DEF j
    <3> QED BY <3>1, <3>2, <3>3, <3>4
  <2> QED BY <2>1, <2>2
<1>4. CASE currentUser(q)
  <2>1. CASE End(q, "401")
    BY <1>4, <2>1, EndIs DEF currentUser
  <2>2. CASE ~End(q, "401")
    <3> DEFINE role == users[job[q].me.name].role
               j == [job[q] EXCEPT !.at = "in", !.me.role = role]
    <3>1. job[q].me.name \in Name /\ role \in Role /\ Q(q) # None
      BY <1>4, <2>2 DEF currentUser, has, ApiTypeOK, User
    <3>2. j \in Progress /\ j.at = "in" /\ j.me.name = job[q].me.name
      BY <3>1, ZenonT(60) DEF Progress, Stage
    <3>3. job' = [job EXCEPT ![q] = j]
      <4>1. job' = [job EXCEPT ![q].at = "in", ![q].me.role = role]
        BY <1>4, <2>2 DEF currentUser
      <4> HIDE DEF role
      <4> QED BY <4>1 DEF Progress
    <3>4. use' = use
      BY <1>4 DEF currentUser
    <3> HIDE DEF j
    <3> QED BY <3>1, <3>2, <3>3, <3>4
  <2> QED BY <2>1, <2>2
<1>5. CASE logout(q)
  BY <1>5, EndIs DEF logout, Where
<1> QED BY <1>1, <1>2, <1>3, <1>4, <1>5

\* Handlers of users and nodes never act on one's tunnel.
LEMMA UserMoves ==
  ASSUME ApiInv, NEW q \in Req,
         \/ changePassword(q) \/ SetPassword(q) \/ upsertUser(q) \/ deleteUser(q)
         \/ enforceUserExpiry(q) \/ syncFRPUsers(q) \/ readUsers(q) \/ writeUsers(q)
         \/ view(q) \/ upsertNode(q) \/ deleteNode(q)
  PROVE  Moves(q) /\ job'[q].at # "act"
<1> USE DEF ApiInv, Moves, Passed, Q
<1>1. CASE changePassword(q)
  BY <1>1, StepIs, EndIs DEF changePassword, Where, Stage
<1>2. CASE SetPassword(q)
  BY <1>2, EndIs DEF SetPassword, Where
<1>3. CASE upsertUser(q)
  BY <1>3, StepIs, EndIs DEF upsertUser, Where, Stage
<1>4. CASE deleteUser(q)
  BY <1>4, StepIs, EndIs DEF deleteUser, Where, Stage
<1>5. CASE enforceUserExpiry(q)
  BY <1>5, StepIs, EndIs DEF enforceUserExpiry, Where, Stage
<1>6. CASE syncFRPUsers(q)
  BY <1>6, StepIs, EndIs DEF syncFRPUsers, Where, Stage
<1>7. CASE readUsers(q)
  <2> DEFINE j == [job[q] EXCEPT !.at = "write", !.snap = users]
  <2>1. j \in Progress /\ j.at = "write" /\ Q(q) # None
    BY <1>7 DEF readUsers, Progress, Stage, ApiTypeOK
  <2>2. job' = [job EXCEPT ![q] = j]
    BY <1>7 DEF readUsers, Progress
  <2>3. use' = use
    BY <1>7 DEF readUsers
  <2> HIDE DEF j
  <2> QED BY <2>1, <2>2, <2>3
<1>8. CASE writeUsers(q)
  BY <1>8, EndIs DEF writeUsers
<1>9. CASE view(q)
  <2>1. CASE End(q, "403")
    BY <1>9, <2>1, EndIs DEF view, Where
  <2>2. CASE ~End(q, "403")
    <3>1. PICK n \in Name :
            job' = [job EXCEPT ![q].at = "end", ![q].ans = "ok",
                      ![q].snap = [m \in Name |-> IF m = n THEN users[n] ELSE None]]
      BY <1>9, <2>2 DEF view, has
    <3> DEFINE snap == [m \in Name |-> IF m = n THEN users[n] ELSE None]
               j == [job[q] EXCEPT !.at = "end", !.ans = "ok", !.snap = snap]
    <3>2. snap \in [Name -> User \cup {None}]
      BY DEF ApiTypeOK
    <3>3. job' = [job EXCEPT ![q] = j] /\ j \in Progress /\ j.at = "end"
      <4>1. job' = [job EXCEPT ![q].at = "end", ![q].ans = "ok", ![q].snap = snap]
        BY <3>1
      <4> HIDE DEF snap
      <4> QED BY <3>2, <4>1, ZenonT(60) DEF Progress, Stage
    <3>4. Q(q) # None
      BY <1>9 DEF view, Where
    <3> HIDE DEF j
    <3> QED BY <1>9, <3>3, <3>4 DEF view
  <2> QED BY <2>1, <2>2
<1>10. CASE upsertNode(q) \/ deleteNode(q)
  BY <1>10, EndIs DEF upsertNode, deleteNode, Where
<1> QED BY <1>1, <1>2, <1>3, <1>4, <1>5, <1>6, <1>7, <1>8, <1>9, <1>10

\* A handler of tunnels acts only on what it was allowed.
LEMMA TunnelMoves ==
  ASSUME ApiInv, NEW q \in Req,
         createTunnel(q) \/ allowed(q) \/ UpdateTunnel(q) \/ DeleteTunnel(q)
  PROVE  Moves(q) /\ (job'[q].at = "act" => allowed(q) /\ job'[q].me = job[q].me)
<1> USE DEF ApiInv, Moves, Passed, Q
<1>1. CASE createTunnel(q)
  BY <1>1, EndIs DEF createTunnel, Where
<1>2. CASE allowed(q)
  BY <1>2, StepIs, EndIs DEF allowed, Stage
<1>3. CASE UpdateTunnel(q)
  BY <1>3, EndIs DEF UpdateTunnel, Where
<1>4. CASE DeleteTunnel(q)
  BY <1>4, EndIs DEF DeleteTunnel, Where
<1> QED BY <1>1, <1>2, <1>3, <1>4

\* A record that is written is that of a user.
LEMMA RecordWritten ==
  ASSUME ApiInv, NEW q \in Req, SetPassword(q) \/ upsertUser(q) \/ enforceUserExpiry(q)
  PROVE  /\ users' = users \/ \E n \in Name, u \in User : users' = [users EXCEPT ![n] = u]
         /\ UNCHANGED <<tuns, sess, file, raced, moved>>
<1> USE DEF ApiInv, ApiTypeOK, Q
<1>0. use \in Setup
  BY ApiAssumption
<1>1. CASE SetPassword(q)
  <2>1. Q(q) \in Request
    BY <1>0, <1>1 DEF SetPassword, Where, Setup
  <2>2. \/ users' = users
        \/ \E n \in Name : /\ users[n] # None
                           /\ users' = [users EXCEPT ![n] = [users[n] EXCEPT !.pw = Q(q).pw]]
    BY <1>1 DEF SetPassword, has
  <2>3. \A n \in Name : users[n] # None => [users[n] EXCEPT !.pw = Q(q).pw] \in User
    BY <2>1 DEF User, Request
  <2> QED BY <1>1, <2>2, <2>3 DEF SetPassword
<1>2. CASE upsertUser(q)
  <2>1. Q(q) \in Request
    BY <1>0, <1>2 DEF upsertUser, Where, Setup
  <2>2. Cardinality({r \in Req : job[r].at = "end"}) \in Nat
    BY ApiAssumption, FS_Subset, FS_CardinalityType
  <2> DEFINE n == Q(q).name
             new == [role |-> Q(q).role, on |-> Q(q).on,
                     pw |-> IF Q(q).pw = 0 /\ has(n) THEN users[n].pw ELSE Q(q).pw,
                     inc |-> IF has(n) THEN users[n].inc
                             ELSE 1 + Cardinality({r \in Req : job[r].at = "end"})]
  <2>3. new \in User
    BY <2>1, <2>2 DEF has, User, Request
  <2>4. users' = users \/ users' = [users EXCEPT ![n] = new]
    BY <1>2 DEF upsertUser
  <2>5. n \notin Name => users' = users
    <3> HIDE DEF n, new
    <3> QED BY <2>4
  <2> QED BY <1>2, <2>3, <2>4, <2>5 DEF upsertUser
<1>3. CASE enforceUserExpiry(q)
  <2>1. \/ users' = users
        \/ \E n \in Name : /\ users[n] # None
                           /\ users' = [users EXCEPT ![n] = [users[n] EXCEPT !.on = FALSE]]
    BY <1>3 DEF enforceUserExpiry, has
  <2>2. \A n \in Name : users[n] # None => [users[n] EXCEPT !.on = FALSE] \in User
    BY DEF User
  <2> QED BY <1>3, <2>1, <2>2 DEF enforceUserExpiry
<1> QED BY <1>1, <1>2, <1>3

\* The store's types, whatever the step writes.
LEMMA StoreTypeStep ==
  ASSUME ApiInv, NEW q \in Req, Handler(q)
  PROVE  ApiTypeOK'
<1> USE DEF ApiInv, ApiTypeOK, Q, nodeOnly
<1> DEFINE Record == User \cup {None}
           Owner == Name \cup {None}
<1>0. use \in Setup /\ Sane(use)
  BY ApiAssumption
<1>1. job' \in [Req -> Progress]
  BY SessionMoves, UserMoves, TunnelMoves DEF Handler, Moves
<1>2. \A r \in Req : job'[r].at \in Stage
  BY <1>1 DEF Progress
<1>3. push' \in [Push -> {"idle", "sent", "good", "bad"}]
  BY DEF Handler, VerifyLogin, createSession, sessionsGet, currentUser, logout,
         changePassword, SetPassword, upsertUser, deleteUser, enforceUserExpiry,
         syncFRPUsers, readUsers, writeUsers, view, createTunnel, allowed, UpdateTunnel,
         DeleteTunnel, upsertNode, deleteNode
<1> DEFINE Rest == /\ users' \in [Name -> Record] /\ file' \in [Name -> Record]
                   /\ tuns' \in [Tid -> Owner] /\ sess' \in [Req -> Owner]
                   /\ raced' \in BOOLEAN /\ moved' \subseteq Req \X Tid
<1>4. ASSUME UNCHANGED <<users, tuns, file, raced, moved>>, sess' \in [Req -> Owner]
      PROVE  Rest
  BY <1>4
<1>5. ASSUME \/ VerifyLogin(q) \/ sessionsGet(q) \/ currentUser(q) \/ changePassword(q)
             \/ syncFRPUsers(q) \/ view(q) \/ upsertNode(q) \/ deleteNode(q)
      PROVE  Rest
  BY <1>4, <1>5 DEF VerifyLogin, sessionsGet, currentUser, changePassword,
                    syncFRPUsers, view, upsertNode, deleteNode
<1>6. ASSUME createSession(q) PROVE Rest
  BY <1>4, <1>6 DEF createSession, Passed, Where
<1>7. ASSUME logout(q) PROVE Rest
  BY <1>4, <1>7 DEF logout
<1>8. ASSUME SetPassword(q) \/ upsertUser(q) \/ enforceUserExpiry(q) PROVE Rest
  <2>1. users' \in [Name -> Record]
    <3> HIDE DEF Record
    <3>1. users \in [Name -> Record] /\ \A u \in User : u \in Record
      BY DEF Record
    <3> QED BY <1>8, <3>1, RecordWritten
  <2> QED BY <1>8, <2>1, RecordWritten
<1>10. ASSUME deleteUser(q) PROVE Rest
  BY <1>10 DEF deleteUser, Active
<1>12. ASSUME readUsers(q) PROVE Rest
  BY <1>12 DEF readUsers
<1>13. ASSUME writeUsers(q) PROVE Rest
  BY <1>13 DEF writeUsers, Progress
<1>14. ASSUME createTunnel(q) PROVE Rest
  BY <1>14 DEF createTunnel, has
<1>15. ASSUME allowed(q) PROVE Rest
  BY <1>15 DEF allowed
<1>16. ASSUME UpdateTunnel(q) \/ DeleteTunnel(q) PROVE Rest
  <2>1. Q(q).id \in Tid
    BY <1>0, <1>16 DEF UpdateTunnel, DeleteTunnel, Where, Setup, Sane, Request
  <2>2. Active \subseteq Req
    BY DEF Active
  <2> QED BY <1>16, <2>1, <2>2 DEF UpdateTunnel, DeleteTunnel, has
<1>17. Rest
  BY <1>5, <1>6, <1>7, <1>8, <1>10, <1>12, <1>13, <1>14, <1>15, <1>16
  DEF Handler
<1> QED BY <1>2, <1>3, <1>17 DEF Stage


\* Users stay, and their tunnels, but for the user that is deleted; and who gets a
\* tunnel is there and enabled.
LEMMA HandsOver ==
  ASSUME ApiInv, NEW q \in Req, Handler(q)
  PROVE  /\ \/ \A n \in Name : users[n] # None => users'[n] # None
            \/ \E n \in Name : /\ users' = [users EXCEPT ![n] = None]
                               /\ \A t \in Tid : tuns'[t] # n
         /\ \A t \in Tid : tuns'[t] \notin {None, tuns[t]} =>
              has(tuns'[t]) /\ users[tuns'[t]].on /\ users' = users
<1> USE DEF ApiInv, has
<1> DEFINE Goal == /\ \/ \A n \in Name : users[n] # None => users'[n] # None
                      \/ \E n \in Name : /\ users' = [users EXCEPT ![n] = None]
                                         /\ \A t \in Tid : tuns'[t] # n
                   /\ \A t \in Tid : tuns'[t] \notin {None, tuns[t]} =>
                        has(tuns'[t]) /\ users[tuns'[t]].on /\ users' = users
<1>0. /\ users \in [Name -> User \cup {None}] /\ tuns \in [Tid -> Name \cup {None}]
      /\ users' \in [Name -> User \cup {None}] /\ tuns' \in [Tid -> Name \cup {None}]
      /\ None \notin User
  BY StoreTypeStep, ApiAssumption DEF ApiTypeOK
<1>1. ASSUME UNCHANGED <<users, tuns>> PROVE Goal
  BY <1>1
<1>2. ASSUME SetPassword(q) \/ upsertUser(q) \/ enforceUserExpiry(q) PROVE Goal
  BY <1>0, <1>2, RecordWritten
<1>4. ASSUME deleteUser(q) PROVE Goal
  <2> DEFINE n == Q(q).name
  <2>1. \/ UNCHANGED <<users, tuns>>
        \/ /\ users' = [users EXCEPT ![n] = None]
           /\ tuns' = [t \in Tid |-> IF tuns[t] = n THEN None ELSE tuns[t]]
    BY <1>4 DEF deleteUser
  <2> HIDE DEF n
  <2>2. CASE n \in Name
    BY <1>0, <2>1, <2>2, ApiAssumption
  <2>3. CASE n \notin Name
    BY <1>0, <2>1, <2>3
  <2> QED BY <2>2, <2>3
<1>5. ASSUME createTunnel(q) PROVE Goal
  BY <1>0, <1>5 DEF createTunnel
<1>6. ASSUME UpdateTunnel(q) PROVE Goal
  BY <1>0, <1>6 DEF UpdateTunnel
<1>7. ASSUME DeleteTunnel(q) PROVE Goal
  BY <1>0, <1>7 DEF DeleteTunnel
<1>8. ASSUME \/ VerifyLogin(q) \/ createSession(q) \/ sessionsGet(q) \/ currentUser(q)
             \/ logout(q) \/ changePassword(q) \/ syncFRPUsers(q) \/ readUsers(q)
             \/ writeUsers(q) \/ view(q) \/ allowed(q) \/ upsertNode(q) \/ deleteNode(q)
      PROVE  UNCHANGED <<users, tuns>>
  BY <1>8 DEF VerifyLogin, createSession, sessionsGet, currentUser, logout,
       changePassword, syncFRPUsers, readUsers, writeUsers, view, allowed, upsertNode,
       deleteNode
<1>9. Goal
  BY <1>1, <1>2, <1>4, <1>5, <1>6, <1>7, <1>8 DEF Handler
<1> QED BY <1>9

\* No step leaves a tunnel without its user.
LEMMA OwnersStep ==
  ASSUME ApiInv, NEW q \in Req, Handler(q)
  PROVE  NoOrphanTunnel'
<1>1. /\ users \in [Name -> User \cup {None}] /\ tuns \in [Tid -> Name \cup {None}]
      /\ tuns' \in [Tid -> Name \cup {None}] /\ NoOrphanTunnel
  BY StoreTypeStep DEF ApiInv, ApiTypeOK
<1> QED BY <1>1, HandsOver DEF NoOrphanTunnel, has

\* The tunnel that was checked changes hands for everybody to see.
LEMMA CheckedStep ==
  ASSUME ApiInv, NEW q \in Req, Handler(q), NEW r \in Req
  PROVE  Checked(r)'
<1> USE DEF ApiInv, Checked
<1>0. /\ use \in Setup /\ Sane(use) /\ use' = use
      /\ tuns \in [Tid -> Name \cup {None}] /\ None \notin Name \cup Tid
  BY ApiAssumption DEF ApiTypeOK, Handler, VerifyLogin, createSession, sessionsGet,
     currentUser, logout, changePassword, SetPassword, upsertUser, deleteUser,
     enforceUserExpiry, syncFRPUsers, readUsers, writeUsers, view, createTunnel, allowed,
     UpdateTunnel, DeleteTunnel, upsertNode, deleteNode
<1>1. /\ job'[r].at = "act" => allowed(q) \/ q # r
      /\ q # r => job'[r] = job[r]
      /\ job'[r].at = "act" => job'[r].me = job[r].me
  BY SessionMoves, UserMoves, TunnelMoves DEF Handler, Moves
<1>2. Q(r)' = Q(r) /\ (job'[r].at = "act" => isAdmin(r)' = isAdmin(r))
  BY <1>0, <1>1 DEF Q, isAdmin
<1>3. CASE allowed(q)
  <2>1. CASE q = r
    <3>1. job'[q].at = "act" => isAdmin(q) \/ tuns[Q(q).id] = job[q].me.name
      BY <1>3, EndIs DEF allowed
    <3> QED BY <1>1, <1>2, <1>3, <2>1, <3>1 DEF allowed
  <2>2. CASE q # r
    BY <1>1, <1>2, <1>3, <2>2 DEF allowed
  <2> QED BY <2>1, <2>2
<1>4. CASE ~allowed(q)
  <2>1. SUFFICES ASSUME q # r, job[r].at = "act", ~isAdmin(r), <<r, Q(r).id>> \notin moved'
                 PROVE  tuns'[Q(r).id] = job[r].me.name
    BY <1>1, <1>2, <1>4
  <2>2. r \in Active /\ Q(r).id \in Tid /\ job[r].me.name \in Name
    BY <1>0, <2>1 DEF Passed, Active, Q, Setup, Sane, Request
  <2>3. \/ UNCHANGED <<tuns, moved>> \/ createTunnel(q) \/ deleteUser(q)
        \/ UpdateTunnel(q) \/ DeleteTunnel(q)
    BY <1>4 DEF Handler, VerifyLogin, createSession, sessionsGet, currentUser, logout,
       changePassword, SetPassword, upsertUser, enforceUserExpiry, syncFRPUsers,
       readUsers, writeUsers, view, upsertNode, deleteNode
  <2>4. moved \subseteq moved'
    BY <2>3 DEF createTunnel, deleteUser, UpdateTunnel, DeleteTunnel
  <2>5. tuns[Q(r).id] = job[r].me.name
    BY <2>1, <2>4
  <2>6. CASE createTunnel(q)
    BY <1>0, <2>2, <2>5, <2>6 DEF createTunnel
  <2>7. CASE deleteUser(q)
    BY <1>0, <2>1, <2>2, <2>5, <2>7 DEF deleteUser
  <2>8. CASE UpdateTunnel(q) \/ DeleteTunnel(q)
    BY <1>0, <2>1, <2>2, <2>5, <2>8 DEF UpdateTunnel, DeleteTunnel
  <2> QED BY <2>3, <2>5, <2>6, <2>7, <2>8
<1> QED BY <1>3, <1>4, SMTT(30)

\* A node that is deleted is neither enabled nor shown.
LEMMA NodeGoneStep ==
  ASSUME ApiInv, \/ \E q \in Req : Handler(q)
                 \/ \E p \in Push : pushRemoteNodes(p) \/ PushStep(p)
                 \/ Outage \/ Recover
  PROVE  node' \in NodeState /\ DeletedNodeGone'
<1> USE DEF ApiInv, DeletedNodeGone, NodeState
<1>0. \A q \in Req : Q(q) # None => Q(q).on \in BOOLEAN
  BY ApiAssumption DEF Q, Setup, Request
<1>1. ASSUME NEW q \in Req, upsertNode(q) \/ deleteNode(q)
      PROVE  node' \in NodeState /\ DeletedNodeGone'
  BY <1>0, <1>1 DEF upsertNode, deleteNode, Where
<1>2. ASSUME NEW q \in Req, Handler(q), ~upsertNode(q), ~deleteNode(q)
      PROVE  node' = node
  BY <1>2 DEF Handler, VerifyLogin, createSession, sessionsGet, currentUser, logout,
     changePassword, SetPassword, upsertUser, deleteUser, enforceUserExpiry,
     syncFRPUsers, readUsers, writeUsers, view, createTunnel, allowed, UpdateTunnel,
     DeleteTunnel, nodeOnly
<1>3. ASSUME NEW p \in Push, pushRemoteNodes(p) \/ UpdateNodeStatus(p)
      PROVE  node' \in NodeState /\ DeletedNodeGone'
  BY <1>3 DEF pushRemoteNodes, UpdateNodeStatus
<1>4. ASSUME NEW p \in Push, pushRemoteNode(p)
      PROVE  node' \in NodeState /\ DeletedNodeGone'
  <2>1. PICK good \in BOOLEAN :
          /\ good \/ ~node.up \/ node.left > 0
          /\ node' = [node EXCEPT !.clients = good, !.left =
                                     IF good \/ ~node.up THEN @ ELSE @ - 1]
    BY <1>4 DEF pushRemoteNode
  <2>2. good \/ ~node.up \/ node.left - 1 \in Nat
    BY <2>1
  <2> QED BY <2>1, <2>2
<1>5. ASSUME Outage \/ Recover PROVE node' \in NodeState /\ DeletedNodeGone'
  <2>1. node.left - 1 \in Nat
    BY <1>5 DEF Outage, Recover
  <2> QED BY <1>5, <2>1 DEF Outage, Recover
<1> QED BY <1>1, <1>2, <1>3, <1>4, <1>5 DEF PushStep

\* Every step, of the module or not, preserves the invariant.
LEMMA ApiInvStep == ApiInv /\ [Next]_vars => ApiInv'
<1> SUFFICES ASSUME ApiInv, [Next]_vars PROVE ApiInv'
  OBVIOUS
<1>1. ASSUME NEW q \in Req, Handler(q) PROVE ApiInv'
  <2>1. Moves(q)
    BY <1>1, SessionMoves, UserMoves, TunnelMoves, SMTT(30) DEF Handler
  <2>2. use' = use
    BY <1>1 DEF Handler, VerifyLogin, createSession, sessionsGet, currentUser, logout,
       changePassword, SetPassword, upsertUser, deleteUser, enforceUserExpiry,
       syncFRPUsers, readUsers, writeUsers, view, createTunnel, allowed, UpdateTunnel,
       DeleteTunnel, upsertNode, deleteNode
  <2>3. \A r \in Req : Passed(r)'
    BY <2>1, <2>2 DEF Moves, Passed, ApiInv, Q
  <2>4. ApiTypeOK' /\ NoOrphanTunnel' /\ \A r \in Req : Checked(r)'
    BY <1>1, StoreTypeStep, OwnersStep, CheckedStep
  <2>5. node' \in NodeState /\ DeletedNodeGone'
    BY <1>1, NodeGoneStep
  <2> QED BY <2>1, <2>2, <2>3, <2>4, <2>5 DEF ApiInv, Moves
<1>2. ASSUME UNCHANGED <<use, api>>, node' \in NodeState, DeletedNodeGone',
             push' \in [Push -> {"idle", "sent", "good", "bad"}]
      PROVE  ApiInv'
  <2> USE <1>2 DEF api
  <2>1. ApiTypeOK' /\ NoOrphanTunnel'
    BY DEF ApiInv, ApiTypeOK, NoOrphanTunnel, has
  <2>2. \A q \in Req : Passed(q)' /\ Checked(q)'
    BY DEF ApiInv, Passed, Checked, Q, isAdmin
  <2> QED BY <2>1, <2>2 DEF ApiInv
<1>3. CASE (\E p \in Push : pushRemoteNodes(p) \/ PushStep(p)) \/ Outage \/ Recover
  <2>1. UNCHANGED <<use, api>>
    BY <1>3 DEF pushRemoteNodes, PushStep, pushRemoteNode, UpdateNodeStatus, Outage,
       Recover, apiOnly
  <2>2. push' \in [Push -> {"idle", "sent", "good", "bad"}]
    BY <1>3 DEF pushRemoteNodes, PushStep, pushRemoteNode, UpdateNodeStatus, Outage,
       Recover, ApiInv, ApiTypeOK
  <2> QED BY <1>2, <1>3, <2>1, <2>2, NodeGoneStep
<1>4. CASE UNCHANGED vars
  BY <1>2, <1>4 DEF vars, ApiInv, ApiTypeOK, DeletedNodeGone
<1> QED BY <1>1, <1>3, <1>4 DEF Next

-----------------------------------------------------------------------------
(* The control's API: the theorems.                                        *)

\* However requests and pushes overlap, no tunnel is left without its user, and a
\* node that was deleted is not brought back by a push on its way.
THEOREM ApiSoundHolds == Spec => []ApiSound
BY ApiInvInit, ApiInvStep, ApiInvSound, PTL DEF Spec

\* The step of a request that ends in somebody's tunnel.
LEMMA ApiGuardsStep ==
  ASSUME ApiInv, [Next]_vars
  PROVE  /\ [\A q \in Req : job[q].at = "act" /\ job'[q].at = "end" /\ ~isAdmin(q)
               /\ tuns[Q(q).id] \notin {None, job[q].me.name} /\ <<q, Q(q).id>> \notin moved
               => tuns' = tuns]_vars
         /\ [\A t \in Tid : tuns'[t] \notin {None, tuns[t]} =>
               has(tuns'[t]) /\ users[tuns'[t]].on]_vars
<1>1. \A q \in Req : job[q].at = "act" /\ ~isAdmin(q) /\ <<q, Q(q).id>> \notin moved
        => tuns[Q(q).id] = job[q].me.name
  BY DEF ApiInv, Checked
<1>2. ASSUME Next
      PROVE  \A t \in Tid : tuns'[t] \notin {None, tuns[t]} =>
               has(tuns'[t]) /\ users[tuns'[t]].on
  <2>1. (\E q \in Req : Handler(q)) \/ tuns' = tuns
    BY <1>2 DEF Next, pushRemoteNodes, PushStep, pushRemoteNode, UpdateNodeStatus, Outage,
       Recover, apiOnly, api
  <2> QED BY <2>1, HandsOver
<1> QED BY <1>1, <1>2

\* A request acts on copies of an earlier moment, and yet who is no administrator
\* touches no tunnel that was somebody else's all the time, and nobody is given a
\* tunnel who is disabled or gone (main.go updateTunnel, deleteTunnel).
THEOREM ApiGuardsHold == Spec => ApiGuards
<1>1. ApiInv /\ [Next]_vars =>
        /\ [\A q \in Req : job[q].at = "act" /\ job'[q].at = "end" /\ ~isAdmin(q)
              /\ tuns[Q(q).id] \notin {None, job[q].me.name} /\ <<q, Q(q).id>> \notin moved
              => tuns' = tuns]_vars
        /\ [\A t \in Tid : tuns'[t] \notin {None, tuns[t]} =>
              has(tuns'[t]) /\ users[tuns'[t]].on]_vars
  BY ApiGuardsStep
<1> QED BY <1>1, ApiInvInit, ApiInvStep, PTL
        DEF Spec, ApiGuards, OthersTunnelsKept, DisabledGetsNothing

-----------------------------------------------------------------------------
(* The sign-in of NPS' console.                                            *)

Deciding == {b \in Browser : attempt[b].at = "decide"}

\* Who is past the look at the record may still count, once each.
LoginInv ==
  /\ ipRecord \in [there: BOOLEAN, times: Nat, age: 0..Period]
  /\ ~ipRecord.there => ipRecord = NoRecord
  /\ ipRecord.times + Cardinality(Deciding) <= MaxFails + Cardinality(Browser) - 1
  /\ attempt \in [Browser -> [at: {"none", "look", "decide"},
                              as: {"admin", "client", "nobody"}, explicit: BOOLEAN]]
  /\ session \in [Browser -> [auth: BOOLEAN, isAdmin: BOOLEAN, client: {0, 1}]]
  /\ OneIdentity

\* How many are deciding when one comes, or goes.
LEMMA DecidingCount ==
  /\ Cardinality(Deciding) \in Nat /\ Cardinality(Browser) \in Nat
  /\ Cardinality(Deciding) <= Cardinality(Browser)
  /\ \A b \in Browser :
       /\ Deciding' = Deciding \cup {b} => Cardinality(Deciding)' <= Cardinality(Deciding) + 1
       /\ b \in Deciding /\ Deciding' = Deciding \ {b} =>
            Cardinality(Deciding)' = Cardinality(Deciding) - 1
       /\ Deciding' = Deciding => Cardinality(Deciding)' = Cardinality(Deciding)
<1>1. IsFiniteSet(Deciding) /\ Cardinality(Deciding) <= Cardinality(Browser)
  BY LoginAssumption, FS_Subset DEF Deciding
<1>2. Cardinality(Deciding) \in Nat /\ Cardinality(Browser) \in Nat
  BY <1>1, LoginAssumption, FS_CardinalityType
<1>3. ASSUME NEW b \in Browser, Deciding' = Deciding \cup {b}
      PROVE  Cardinality(Deciding)' <= Cardinality(Deciding) + 1
  BY <1>1, <1>2, <1>3, FS_AddElement
<1>4. ASSUME NEW b \in Deciding, Deciding' = Deciding \ {b}
      PROVE  Cardinality(Deciding)' = Cardinality(Deciding) - 1
  BY <1>1, <1>2, <1>4, FS_RemoveElement
<1> QED BY <1>1, <1>2, <1>3, <1>4

\* At first nobody is deciding.
LEMMA LoginInvInit ==
  ASSUME NEW s \in {NoLogin} \cup {[wrong |-> w, in |-> {}] : w \in [Browser -> 0..2]},
         LoginInit(s)
  PROVE  LoginInv
<1> USE DEF LoginInit
<1>1. Deciding = {}
  BY DEF Deciding, NoAttempt
<1>2. Cardinality(Deciding) = 0
  BY <1>1, FS_EmptySet
<1>3. ipRecord = NoRecord /\ ipRecord \in [there: BOOLEAN, times: Nat, age: 0..Period]
  BY LoginAssumption DEF NoRecord
<1>4. ipRecord.times + Cardinality(Deciding) <= MaxFails + Cardinality(Browser) - 1
  BY <1>2, <1>3, LoginAssumption, DecidingCount DEF NoRecord
<1>5. /\ attempt \in [Browser -> [at: {"none", "look", "decide"},
                              as: {"admin", "client", "nobody"}, explicit: BOOLEAN]]
      /\ session \in [Browser -> [auth: BOOLEAN, isAdmin: BOOLEAN, client: {0, 1}]]
      /\ OneIdentity
  <2>1. ASSUME NEW b \in Browser
        PROVE  /\ session[b] \in [auth: BOOLEAN, isAdmin: BOOLEAN, client: {0, 1}]
               /\ session[b].auth => (session[b].isAdmin <=> session[b].client = 0)
    <3> DEFINE signed == b \in s.in
    <3>1. session[b] = [auth |-> signed, isAdmin |-> FALSE,
                        client |-> IF signed THEN 1 ELSE 0]
      OBVIOUS
    <3>2. signed \in BOOLEAN
      OBVIOUS
    <3> HIDE DEF signed
    <3>3. CASE signed = TRUE
      BY <3>1, <3>3
    <3>4. CASE signed = FALSE
      BY <3>1, <3>4
    <3> QED BY <3>2, <3>3, <3>4
  <2>2. session = [b \in Browser |-> session[b]]
    OBVIOUS
  <2>3. session \in [Browser -> [auth: BOOLEAN, isAdmin: BOOLEAN, client: {0, 1}]]
    BY <2>1, <2>2
  <2> QED BY <2>1, <2>3 DEF NoAttempt, OneIdentity
<1> QED BY <1>3, <1>4, <1>5 DEF LoginInv

Attempts == [at: {"none", "look", "decide"}, as: {"admin", "client", "nobody"},
             explicit: BOOLEAN]

\* A step of one browser's sign-in.
LEMMA AttemptIs ==
  ASSUME attempt \in [Browser -> Attempts], NEW b \in Browser, NEW a \in Attempts,
         attempt' = [attempt EXCEPT ![b] = a]
  PROVE  /\ attempt' \in [Browser -> Attempts]
         /\ a.at = "decide" => Deciding' = Deciding \cup {b}
         /\ a.at # "decide" => Deciding' = Deciding \ {b}
BY DEF Deciding

\* doLogin looks at the record.
LEMMA LookKeeps ==
  ASSUME LoginInv, NEW b \in Browser, doLoginLook(b)
  PROVE  LoginInv'
<1> USE DEF LoginInv
<1> DEFINE r == IF ipRecord.there /\ Expired THEN [ipRecord EXCEPT !.times = 0] ELSE ipRecord
           a == IF r.times >= MaxFails THEN NoAttempt ELSE [attempt[b] EXCEPT !.at = "decide"]
<1>1. /\ ipRecord' = r /\ attempt' = [attempt EXCEPT ![b] = a]
      /\ UNCHANGED <<session, wrong>> /\ attempt[b].at = "look"
  BY DEF doLoginLook
<1>2. /\ r \in [there: BOOLEAN, times: Nat, age: 0..Period]
      /\ r.times <= ipRecord.times /\ (~r.there => r = NoRecord)
  BY LoginAssumption
<1>3. a \in Attempts /\ (a.at = "decide" <=> r.times < MaxFails)
  BY <1>2, LoginAssumption DEF Attempts, NoAttempt
<1> HIDE DEF r, a
<1>4. attempt \in [Browser -> Attempts] /\ b \notin Deciding
  BY <1>1 DEF Attempts, Deciding
<1>5. r.times + Cardinality(Deciding)' <= MaxFails + Cardinality(Browser) - 1
  <2>1. CASE a.at = "decide"
    <3>1. Cardinality(Deciding)' <= Cardinality(Browser) /\ Cardinality(Deciding)' \in Nat
      <4>1. Deciding' \subseteq Browser
        BY DEF Deciding
      <4> QED BY <4>1, LoginAssumption, FS_Subset, FS_CardinalityType
    <3> QED BY <1>2, <1>3, <2>1, <3>1, LoginAssumption, DecidingCount
  <2>2. CASE a.at # "decide"
    <3>1. Deciding' = Deciding \ {b}
      BY <1>1, <1>3, <1>4, <2>2, AttemptIs
    <3>2. Deciding' = Deciding
      BY <3>1, <1>4
    <3> QED BY <1>2, <3>2, LoginAssumption, DecidingCount
  <2> QED BY <2>1, <2>2
<1>6. attempt' \in [Browser -> Attempts]
  BY <1>1, <1>3, <1>4, AttemptIs
<1> QED BY <1>1, <1>2, <1>5, <1>6 DEF OneIdentity, Attempts

\* doLogin compares the passwords.
LEMMA LoginKeeps ==
  ASSUME LoginInv, NEW b \in Browser, doLogin(b)
  PROVE  LoginInv'
<1> USE DEF LoginInv
<1>1. /\ attempt' = [attempt EXCEPT ![b] = NoAttempt] /\ b \in Deciding
      /\ attempt \in [Browser -> Attempts]
  BY DEF doLogin, Deciding, Attempts
<1>2. NoAttempt \in Attempts /\ NoAttempt.at = "none"
  BY DEF NoAttempt, Attempts
<1>3. /\ attempt' \in [Browser -> Attempts]
      /\ Cardinality(Deciding)' = Cardinality(Deciding) - 1
  <2>1. Deciding' = Deciding \ {b} /\ attempt' \in [Browser -> Attempts]
    BY <1>1, <1>2, AttemptIs
  <2> QED BY <1>1, <2>1, DecidingCount
<1>4. CASE attempt[b].as = "nobody"
  <2>1. PICK n \in {0, 1} : ipRecord' = Fail(attempt[b].explicit, n)
    BY <1>4 DEF doLogin, Counted
  <2>2. /\ ipRecord' \in [there: BOOLEAN, times: Nat, age: 0..Period] /\ ipRecord'.there
        /\ ipRecord'.times <= ipRecord.times + 1
    <3>1. ipRecord.times \in Nat /\ ipRecord.times + n \in Nat
          /\ ipRecord.times + n <= ipRecord.times + 1 /\ 0 \in 0..Period
      BY LoginAssumption
    <3>2. CASE ~ipRecord.there
      <4>1. ipRecord' = [there |-> TRUE, times |-> 1, age |-> 0]
        BY <2>1, <3>2 DEF Fail
      <4> QED BY <4>1, <3>1
    <3>3. CASE ipRecord.there /\ attempt[b].explicit
      <4>1. ipRecord' = [ipRecord EXCEPT !.times = @ + n, !.age = 0]
        BY <2>1, <3>3 DEF Fail
      <4>2. ipRecord' = [there |-> TRUE, times |-> ipRecord.times + n, age |-> 0]
        BY <4>1, <3>3
      <4> QED BY <4>2, <3>1
    <3>4. CASE ipRecord.there /\ ~attempt[b].explicit
      <4>1. ipRecord' = ipRecord
        BY <2>1, <3>4 DEF Fail
      <4> QED BY <4>1, <3>1, <3>4
    <3> QED BY <3>2, <3>3, <3>4
  <2>3. UNCHANGED session
    BY <1>4 DEF doLogin
  <2> QED BY <1>3, <2>2, <2>3, DecidingCount, LoginAssumption DEF OneIdentity, Attempts
<1>5. CASE attempt[b].as # "nobody"
  <2>1. ipRecord' = NoRecord /\ session' = [session EXCEPT ![b] = SignedIn(@, attempt[b].as)]
    BY <1>5 DEF doLogin
  <2>2. NoRecord \in [there: BOOLEAN, times: Nat, age: 0..Period] /\ NoRecord.times = 0
    BY LoginAssumption DEF NoRecord
  <2> DEFINE Session == [auth: BOOLEAN, isAdmin: BOOLEAN, client: {0, 1}]
             new == SignedIn(session[b], attempt[b].as)
  <2>3. new \in Session /\ (new.isAdmin <=> new.client = 0)
    <3>1. session[b] \in Session
      OBVIOUS
    <3>2. CASE attempt[b].as = "admin"
      <4>1. new = [auth |-> TRUE, isAdmin |-> TRUE, client |-> 0]
        BY <3>1, <3>2 DEF SignedIn
      <4> HIDE DEF new
      <4> QED BY <4>1
    <3>3. CASE attempt[b].as # "admin"
      <4>1. new = [auth |-> TRUE, isAdmin |-> FALSE, client |-> 1]
        BY <3>1, <3>3 DEF SignedIn
      <4> HIDE DEF new
      <4> QED BY <4>1
    <3> QED BY <3>2, <3>3
  <2>4. session' \in [Browser -> Session] /\ OneIdentity'
    <3>1. session \in [Browser -> Session] /\ session' = [session EXCEPT ![b] = new]
      BY <2>1
    <3> HIDE DEF new
    <3> QED BY <2>3, <3>1 DEF OneIdentity
  <2> QED BY <1>3, <2>1, <2>2, <2>4, DecidingCount, LoginAssumption DEF Attempts
<1> QED BY <1>4, <1>5

\* Every step, of the module or not, preserves the invariant.
LEMMA LoginInvStep == LoginInv /\ [LoginNext]_loginVars => LoginInv'
<1> SUFFICES ASSUME LoginInv, [LoginNext]_loginVars PROVE LoginInv'
  OBVIOUS
<1> USE DEF LoginInv
<1>1. ASSUME NEW b \in Browser, NEW as \in {"admin", "client", "nobody"},
             NEW e \in BOOLEAN, Submit(b, as, e)
      PROVE  LoginInv'
  <2>1. /\ [at |-> "look", as |-> as, explicit |-> e] \in Attempts
        /\ attempt \in [Browser -> Attempts] /\ b \notin Deciding
        /\ attempt' = [attempt EXCEPT ![b] = [at |-> "look", as |-> as, explicit |-> e]]
        /\ UNCHANGED <<ipRecord, session>>
    BY <1>1 DEF Submit, Attempts, Deciding
  <2> DEFINE a == [at |-> "look", as |-> as, explicit |-> e]
  <2>2. a \in Attempts /\ a.at # "decide"
    BY <2>1
  <2>3. attempt' = [attempt EXCEPT ![b] = a]
    BY <2>1
  <2> HIDE DEF a
  <2>4. attempt' \in [Browser -> Attempts] /\ Deciding' = Deciding \ {b}
    BY <2>1, <2>2, <2>3, AttemptIs
  <2>5. Deciding' = Deciding
    BY <2>1, <2>4
  <2> QED BY <2>1, <2>4, <2>5, DecidingCount DEF OneIdentity, Attempts
<1>2. ASSUME NEW b \in Browser, Out(b) PROVE LoginInv'
  <2>1. Deciding' = Deciding /\ UNCHANGED <<ipRecord, attempt>>
    BY <1>2 DEF Out, Deciding
  <2>2. /\ session' \in [Browser -> [auth: BOOLEAN, isAdmin: BOOLEAN, client: {0, 1}]]
        /\ OneIdentity'
    BY <1>2 DEF Out, OneIdentity
  <2> QED BY <2>1, <2>2, DecidingCount
<1>3. CASE clearIprecord \/ Tick
  <2>1. Deciding' = Deciding /\ UNCHANGED <<session, attempt>> /\ OneIdentity'
    BY <1>3 DEF clearIprecord, Tick, Deciding, OneIdentity
  <2>2. /\ ipRecord' \in [there: BOOLEAN, times: Nat, age: 0..Period]
        /\ ipRecord'.times <= ipRecord.times /\ (~ipRecord'.there => ipRecord' = NoRecord)
    <3>1. CASE clearIprecord
      BY <3>1, LoginAssumption DEF clearIprecord, NoRecord
    <3>2. CASE Tick
      <4>1. ipRecord.age + 1 \in 0..Period
        BY <3>2, LoginAssumption DEF Tick
      <4>2. ipRecord' = [there |-> TRUE, times |-> ipRecord.times, age |-> ipRecord.age + 1]
        BY <3>2 DEF Tick
      <4> QED BY <4>1, <4>2
    <3> QED BY <1>3, <3>1, <3>2
  <2> QED BY <2>1, <2>2, DecidingCount, LoginAssumption
<1>4. CASE UNCHANGED loginVars
  <2>1. Deciding' = Deciding
    BY <1>4 DEF loginVars, Deciding
  <2> QED BY <1>4, <2>1, DecidingCount DEF loginVars, OneIdentity
<1> QED BY <1>1, <1>2, <1>3, <1>4, LookKeeps, LoginKeeps DEF LoginNext, LoginStep, Right

\* What the run checks follows from the invariant.
LEMMA LoginInvSound == LoginInv => SignInSound
<1> SUFFICES ASSUME LoginInv PROVE SignInSound
  OBVIOUS
<1>1. ipRecord.times \in Nat /\ ipRecord.age \in 0..Period
      /\ ipRecord.times + Cardinality(Deciding) <= MaxFails + Cardinality(Browser) - 1
  BY DEF LoginInv
<1>2. ipRecord.times <= MaxFails + Cardinality(Browser) - 1
  BY <1>1, LoginAssumption, DecidingCount
<1> QED BY <1>1, <1>2, LoginAssumption DEF LoginInv, SignInSound, LoginTypeOK

\* However sign-ins of several browsers at one address interleave, the record counts
\* at most those under way beyond the limit, and no session carries two identities
\* (NPS web/controllers/login.go, doLogin).
THEOREM SignInSoundHolds == SceneSpec => []SignInSound
<1>1. SceneInit => LoginInv
  <2>1. SceneInit =>
          \E s \in {NoLogin} \cup {[wrong |-> w, in |-> {}] : w \in [Browser -> 0..2]} :
            LoginInit(s)
    BY DEF SceneInit, Scenes, MCLogins
  <2> QED BY <2>1, LoginInvInit
<1>2. LoginInv /\ [SceneNext]_allVars => LoginInv'
  <2>1. [SceneNext]_allVars => [LoginNext]_loginVars
    BY DEF SceneNext, allVars, loginVars
  <2> QED BY <2>1, LoginInvStep
<1> QED BY <1>1, <1>2, LoginInvSound, PTL DEF SceneSpec

-----------------------------------------------------------------------------
(* NPS' console: what comes after what in the steps of a handler.          *)

\* The names of the steps.
Word == {"close", "copy", "drop", "dropClient", "dropHost", "edit", "editClient",
         "editHost", "forget", "hostsOfClient", "make", "makeClient", "makeHost",
         "nextHost", "nextTask", "put", "putClient", "putHost", "run",
         "saveClients", "saveHosts", "saveTasks", "shutHost", "start", "status",
         "tasksOfClient", "white"}

\* g may come after h.
After(h, g) ==
  /\ g = "put" => h \in {"make", "copy", "edit", "close", "start"}
  /\ g = "putHost" => h = "makeHost"
  /\ g = "putClient" => h \in {"makeClient", "white"}
  /\ g = "saveTasks" => h \in {"put", "drop"}
  /\ g = "saveHosts" => h \in {"putHost", "dropHost", "editHost"}
  /\ g = "saveClients" => h \in {"putClient", "dropClient", "editClient"}
  /\ g = "run" => h = "saveTasks"

\* A step that neither puts, nor saves, nor runs anything.
Free(h) == h \notin {"put", "putHost", "putClient", "saveTasks", "saveHosts", "saveClients", "run"}

\* The n-th step of a request for op, with what it says of the request and of the
\* steps behind it.
InOrder(op, p, n) ==
    /\ p[n] \in {"put", "drop"} => n < Len(p) /\ p[n+1] = "saveTasks"
    /\ p[n] \in {"putHost", "dropHost"} => n < Len(p) /\ p[n+1] = "saveHosts"
    /\ p[n] \in {"dropClient", "putClient"} /\ op # "white" => n < Len(p) /\ p[n+1] = "saveClients"
    /\ op \in {"add", "copy"} => p[n] \in {"make", "copy", "put", "saveTasks", "run"}
                                 /\ (n = Len(p) => p[n] = "run")
    /\ op = "addHost" => p[n] \in {"makeHost", "putHost", "saveHosts"}
                         /\ (n = Len(p) => p[n] = "saveHosts")
    /\ op = "addClient" => p[n] \in {"makeClient", "putClient", "saveClients"}
                           /\ (n = Len(p) => p[n] = "saveClients")
    /\ p[n] = "make" => op = "add"
    /\ p[n] = "run" => op \in {"add", "copy"}
    /\ p[n] = "copy" => op = "copy"
    /\ p[n] = "edit" => op = "edit"
    /\ p[n] = "editHost" => op = "editHost"
    /\ p[n] = "shutHost" => op = "shutHost"
    /\ p[n] = "editClient" => op = "editClient"
    /\ p[n] = "status" => op = "changeStatus"
    /\ p[n] = "makeHost" => op = "addHost"
    /\ p[n] = "makeClient" => op = "addClient"
    /\ p[n] = "putClient" => op \in {"addClient", "white"}
    /\ p[n] = "putHost" => op = "addHost"
    /\ p[n] = "white" => op = "white"
    /\ p[n] \in {"tasksOfClient", "nextTask", "hostsOfClient", "nextHost"} => op = "delClient"
    /\ p[n] = "dropClient" => op = "delClient"
    /\ p[n] = "drop" => op \in {"del", "delClient"}
    /\ p[n] = "dropHost" => op \in {"delHost", "delClient"}
    /\ p[n] = "start" => op \in {"edit", "start"}
    /\ p[n] = "close" => op \in {"edit", "stop", "del", "delClient"}
    /\ p[n] = "close" /\ op # "stop" => n + 4 <= Len(p) /\ Free(p[n+4])
    /\ p[n] = "close" /\ op = "delClient" => n + 6 <= Len(p) /\ Free(p[n+6])

Ordered(op, p) ==
  /\ p \in Seq(Word) /\ Len(p) > 0
  /\ \A n \in 1..Len(p) : InOrder(op, p, n) /\ (n < Len(p) => After(p[n], p[n+1]))

\* The steps of each handler are in order.
LEMMA StepsOrdered == \A op \in WebOps : Ordered(op, Steps(op))
<1>1. Ordered("add", Steps("add"))
  <2>1. PICK p : p = <<"make", "put", "saveTasks", "run">>
    OBVIOUS
  <2>2. p \in Seq(Word) /\ Len(p) = 4
    BY <2>1 DEF Word
  <2>3. p[1] = "make" /\ p[2] = "put" /\ p[3] = "saveTasks" /\ p[4] = "run"
    BY <2>1
  <2>4. p = Steps("add")
    BY <2>1 DEF Steps
  <2>5. ASSUME NEW n \in {1, 2, 3, 4} PROVE InOrder("add", p, n)
    BY <2>2, <2>3 DEF InOrder, Free
  <2>6. After("make", "put") /\ After("put", "saveTasks") /\ After("saveTasks", "run")
    BY DEF After
  <2>7. \A n \in 1..Len(p) : n < Len(p) => After(p[n], p[n + 1])
    BY <2>2, <2>3, <2>6
  <2>8. \A n \in 1..Len(p) : InOrder("add", p, n)
    BY <2>2, <2>5
  <2>9. Ordered("add", p)
    BY <2>2, <2>7, <2>8 DEF Ordered
  <2> QED BY <2>4, <2>9
<1>2. Ordered("copy", Steps("copy"))
  <2>1. PICK p : p = <<"copy", "put", "saveTasks", "run">>
    OBVIOUS
  <2>2. p \in Seq(Word) /\ Len(p) = 4
    BY <2>1 DEF Word
  <2>3. p[1] = "copy" /\ p[2] = "put" /\ p[3] = "saveTasks" /\ p[4] = "run"
    BY <2>1
  <2>4. p = Steps("copy")
    BY <2>1 DEF Steps
  <2>5. ASSUME NEW n \in {1, 2, 3, 4} PROVE InOrder("copy", p, n)
    BY <2>2, <2>3 DEF InOrder, Free
  <2>6. After("copy", "put") /\ After("put", "saveTasks") /\ After("saveTasks", "run")
    BY DEF After
  <2>7. \A n \in 1..Len(p) : n < Len(p) => After(p[n], p[n + 1])
    BY <2>2, <2>3, <2>6
  <2>8. \A n \in 1..Len(p) : InOrder("copy", p, n)
    BY <2>2, <2>5
  <2>9. Ordered("copy", p)
    BY <2>2, <2>7, <2>8 DEF Ordered
  <2> QED BY <2>4, <2>9
<1>3. Ordered("edit", Steps("edit"))
  <2>1. PICK p : p = <<"edit", "put", "saveTasks", "close", "put", "saveTasks",
                     "forget", "start", "put", "saveTasks">>
    OBVIOUS
  <2>2. p \in Seq(Word) /\ Len(p) = 10
    BY <2>1 DEF Word
  <2>3. p[1] = "edit" /\ p[2] = "put" /\ p[3] = "saveTasks" /\ p[4] = "close" /\ p[5] = "put"
        /\ p[6] = "saveTasks" /\ p[7] = "forget" /\ p[8] = "start" /\ p[9] = "put"
        /\ p[10] = "saveTasks"
    BY <2>1
  <2>4. p = Steps("edit")
    BY <2>1 DEF Steps
  <2>5. ASSUME NEW n \in {1, 2, 3, 4, 5, 6, 7, 8, 9, 10} PROVE InOrder("edit", p, n)
    BY <2>2, <2>3 DEF InOrder, Free
  <2>6. After("edit", "put") /\ After("put", "saveTasks") /\ After("saveTasks", "close")
        /\ After("close", "put") /\ After("saveTasks", "forget") /\ After("forget", "start")
        /\ After("start", "put")
    BY DEF After
  <2>7. \A n \in 1..Len(p) : n < Len(p) => After(p[n], p[n + 1])
    BY <2>2, <2>3, <2>6
  <2>8. \A n \in 1..Len(p) : InOrder("edit", p, n)
    BY <2>2, <2>5
  <2>9. Ordered("edit", p)
    BY <2>2, <2>7, <2>8 DEF Ordered
  <2> QED BY <2>4, <2>9
<1>4. Ordered("stop", Steps("stop"))
  <2>1. PICK p : p = <<"close", "put", "saveTasks", "forget">>
    OBVIOUS
  <2>2. p \in Seq(Word) /\ Len(p) = 4
    BY <2>1 DEF Word
  <2>3. p[1] = "close" /\ p[2] = "put" /\ p[3] = "saveTasks" /\ p[4] = "forget"
    BY <2>1
  <2>4. p = Steps("stop")
    BY <2>1 DEF Steps
  <2>5. ASSUME NEW n \in {1, 2, 3, 4} PROVE InOrder("stop", p, n)
    BY <2>2, <2>3 DEF InOrder, Free
  <2>6. After("close", "put") /\ After("put", "saveTasks") /\ After("saveTasks", "forget")
    BY DEF After
  <2>7. \A n \in 1..Len(p) : n < Len(p) => After(p[n], p[n + 1])
    BY <2>2, <2>3, <2>6
  <2>8. \A n \in 1..Len(p) : InOrder("stop", p, n)
    BY <2>2, <2>5
  <2>9. Ordered("stop", p)
    BY <2>2, <2>7, <2>8 DEF Ordered
  <2> QED BY <2>4, <2>9
<1>5. Ordered("start", Steps("start"))
  <2>1. PICK p : p = <<"start", "put", "saveTasks">>
    OBVIOUS
  <2>2. p \in Seq(Word) /\ Len(p) = 3
    BY <2>1 DEF Word
  <2>3. p[1] = "start" /\ p[2] = "put" /\ p[3] = "saveTasks"
    BY <2>1
  <2>4. p = Steps("start")
    BY <2>1 DEF Steps
  <2>5. ASSUME NEW n \in {1, 2, 3} PROVE InOrder("start", p, n)
    BY <2>2, <2>3 DEF InOrder, Free
  <2>6. After("start", "put") /\ After("put", "saveTasks")
    BY DEF After
  <2>7. \A n \in 1..Len(p) : n < Len(p) => After(p[n], p[n + 1])
    BY <2>2, <2>3, <2>6
  <2>8. \A n \in 1..Len(p) : InOrder("start", p, n)
    BY <2>2, <2>5
  <2>9. Ordered("start", p)
    BY <2>2, <2>7, <2>8 DEF Ordered
  <2> QED BY <2>4, <2>9
<1>6. Ordered("del", Steps("del"))
  <2>1. PICK p : p = <<"close", "put", "saveTasks", "forget", "drop", "saveTasks">>
    OBVIOUS
  <2>2. p \in Seq(Word) /\ Len(p) = 6
    BY <2>1 DEF Word
  <2>3. p[1] = "close" /\ p[2] = "put" /\ p[3] = "saveTasks" /\ p[4] = "forget" /\ p[5] = "drop"
        /\ p[6] = "saveTasks"
    BY <2>1
  <2>4. p = Steps("del")
    BY <2>1 DEF Steps, DelTask
  <2>5. ASSUME NEW n \in {1, 2, 3, 4, 5, 6} PROVE InOrder("del", p, n)
    BY <2>2, <2>3 DEF InOrder, Free
  <2>6. After("close", "put") /\ After("put", "saveTasks") /\ After("saveTasks", "forget")
        /\ After("forget", "drop") /\ After("drop", "saveTasks")
    BY DEF After
  <2>7. \A n \in 1..Len(p) : n < Len(p) => After(p[n], p[n + 1])
    BY <2>2, <2>3, <2>6
  <2>8. \A n \in 1..Len(p) : InOrder("del", p, n)
    BY <2>2, <2>5
  <2>9. Ordered("del", p)
    BY <2>2, <2>7, <2>8 DEF Ordered
  <2> QED BY <2>4, <2>9
<1>7. Ordered("addHost", Steps("addHost"))
  <2>1. PICK p : p = <<"makeHost", "putHost", "saveHosts">>
    OBVIOUS
  <2>2. p \in Seq(Word) /\ Len(p) = 3
    BY <2>1 DEF Word
  <2>3. p[1] = "makeHost" /\ p[2] = "putHost" /\ p[3] = "saveHosts"
    BY <2>1
  <2>4. p = Steps("addHost")
    BY <2>1 DEF Steps
  <2>5. ASSUME NEW n \in {1, 2, 3} PROVE InOrder("addHost", p, n)
    BY <2>2, <2>3 DEF InOrder, Free
  <2>6. After("makeHost", "putHost") /\ After("putHost", "saveHosts")
    BY DEF After
  <2>7. \A n \in 1..Len(p) : n < Len(p) => After(p[n], p[n + 1])
    BY <2>2, <2>3, <2>6
  <2>8. \A n \in 1..Len(p) : InOrder("addHost", p, n)
    BY <2>2, <2>5
  <2>9. Ordered("addHost", p)
    BY <2>2, <2>7, <2>8 DEF Ordered
  <2> QED BY <2>4, <2>9
<1>8. Ordered("editHost", Steps("editHost"))
  <2>1. PICK p : p = <<"editHost", "saveHosts">>
    OBVIOUS
  <2>2. p \in Seq(Word) /\ Len(p) = 2
    BY <2>1 DEF Word
  <2>3. p[1] = "editHost" /\ p[2] = "saveHosts"
    BY <2>1
  <2>4. p = Steps("editHost")
    BY <2>1 DEF Steps
  <2>5. ASSUME NEW n \in {1, 2} PROVE InOrder("editHost", p, n)
    BY <2>2, <2>3 DEF InOrder, Free
  <2>6. After("editHost", "saveHosts")
    BY DEF After
  <2>7. \A n \in 1..Len(p) : n < Len(p) => After(p[n], p[n + 1])
    BY <2>2, <2>3, <2>6
  <2>8. \A n \in 1..Len(p) : InOrder("editHost", p, n)
    BY <2>2, <2>5
  <2>9. Ordered("editHost", p)
    BY <2>2, <2>7, <2>8 DEF Ordered
  <2> QED BY <2>4, <2>9
<1>9. Ordered("delHost", Steps("delHost"))
  <2>1. PICK p : p = <<"dropHost", "saveHosts">>
    OBVIOUS
  <2>2. p \in Seq(Word) /\ Len(p) = 2
    BY <2>1 DEF Word
  <2>3. p[1] = "dropHost" /\ p[2] = "saveHosts"
    BY <2>1
  <2>4. p = Steps("delHost")
    BY <2>1 DEF Steps
  <2>5. ASSUME NEW n \in {1, 2} PROVE InOrder("delHost", p, n)
    BY <2>2, <2>3 DEF InOrder, Free
  <2>6. After("dropHost", "saveHosts")
    BY DEF After
  <2>7. \A n \in 1..Len(p) : n < Len(p) => After(p[n], p[n + 1])
    BY <2>2, <2>3, <2>6
  <2>8. \A n \in 1..Len(p) : InOrder("delHost", p, n)
    BY <2>2, <2>5
  <2>9. Ordered("delHost", p)
    BY <2>2, <2>7, <2>8 DEF Ordered
  <2> QED BY <2>4, <2>9
<1>10. Ordered("shutHost", Steps("shutHost"))
  <2>1. PICK p : p = <<"shutHost">>
    OBVIOUS
  <2>2. p \in Seq(Word) /\ Len(p) = 1
    BY <2>1 DEF Word
  <2>3. p[1] = "shutHost"
    BY <2>1
  <2>4. p = Steps("shutHost")
    BY <2>1 DEF Steps
  <2>5. ASSUME NEW n \in {1} PROVE InOrder("shutHost", p, n)
    BY <2>2, <2>3 DEF InOrder, Free
  <2>7. \A n \in 1..Len(p) : n < Len(p) => After(p[n], p[n + 1])
    BY <2>2, <2>3
  <2>8. \A n \in 1..Len(p) : InOrder("shutHost", p, n)
    BY <2>2, <2>5
  <2>9. Ordered("shutHost", p)
    BY <2>2, <2>7, <2>8 DEF Ordered
  <2> QED BY <2>4, <2>9
<1>11. Ordered("addClient", Steps("addClient"))
  <2>1. PICK p : p = <<"makeClient", "putClient", "saveClients">>
    OBVIOUS
  <2>2. p \in Seq(Word) /\ Len(p) = 3
    BY <2>1 DEF Word
  <2>3. p[1] = "makeClient" /\ p[2] = "putClient" /\ p[3] = "saveClients"
    BY <2>1
  <2>4. p = Steps("addClient")
    BY <2>1 DEF Steps
  <2>5. ASSUME NEW n \in {1, 2, 3} PROVE InOrder("addClient", p, n)
    BY <2>2, <2>3 DEF InOrder, Free
  <2>6. After("makeClient", "putClient") /\ After("putClient", "saveClients")
    BY DEF After
  <2>7. \A n \in 1..Len(p) : n < Len(p) => After(p[n], p[n + 1])
    BY <2>2, <2>3, <2>6
  <2>8. \A n \in 1..Len(p) : InOrder("addClient", p, n)
    BY <2>2, <2>5
  <2>9. Ordered("addClient", p)
    BY <2>2, <2>7, <2>8 DEF Ordered
  <2> QED BY <2>4, <2>9
<1>12. Ordered("editClient", Steps("editClient"))
  <2>1. PICK p : p = <<"editClient", "saveClients">>
    OBVIOUS
  <2>2. p \in Seq(Word) /\ Len(p) = 2
    BY <2>1 DEF Word
  <2>3. p[1] = "editClient" /\ p[2] = "saveClients"
    BY <2>1
  <2>4. p = Steps("editClient")
    BY <2>1 DEF Steps
  <2>5. ASSUME NEW n \in {1, 2} PROVE InOrder("editClient", p, n)
    BY <2>2, <2>3 DEF InOrder, Free
  <2>6. After("editClient", "saveClients")
    BY DEF After
  <2>7. \A n \in 1..Len(p) : n < Len(p) => After(p[n], p[n + 1])
    BY <2>2, <2>3, <2>6
  <2>8. \A n \in 1..Len(p) : InOrder("editClient", p, n)
    BY <2>2, <2>5
  <2>9. Ordered("editClient", p)
    BY <2>2, <2>7, <2>8 DEF Ordered
  <2> QED BY <2>4, <2>9
<1>13. Ordered("changeStatus", Steps("changeStatus"))
  <2>1. PICK p : p = <<"status">>
    OBVIOUS
  <2>2. p \in Seq(Word) /\ Len(p) = 1
    BY <2>1 DEF Word
  <2>3. p[1] = "status"
    BY <2>1
  <2>4. p = Steps("changeStatus")
    BY <2>1 DEF Steps
  <2>5. ASSUME NEW n \in {1} PROVE InOrder("changeStatus", p, n)
    BY <2>2, <2>3 DEF InOrder, Free
  <2>7. \A n \in 1..Len(p) : n < Len(p) => After(p[n], p[n + 1])
    BY <2>2, <2>3
  <2>8. \A n \in 1..Len(p) : InOrder("changeStatus", p, n)
    BY <2>2, <2>5
  <2>9. Ordered("changeStatus", p)
    BY <2>2, <2>7, <2>8 DEF Ordered
  <2> QED BY <2>4, <2>9
<1>14. Ordered("delClient", Steps("delClient"))
  <2>1. PICK p : p = <<"dropClient", "saveClients", "tasksOfClient">>
    OBVIOUS
  <2>2. p \in Seq(Word) /\ Len(p) = 3
    BY <2>1 DEF Word
  <2>3. p[1] = "dropClient" /\ p[2] = "saveClients" /\ p[3] = "tasksOfClient"
    BY <2>1
  <2>4. p = Steps("delClient")
    BY <2>1 DEF Steps
  <2>5. ASSUME NEW n \in {1, 2, 3} PROVE InOrder("delClient", p, n)
    BY <2>2, <2>3 DEF InOrder, Free
  <2>6. After("dropClient", "saveClients") /\ After("saveClients", "tasksOfClient")
    BY DEF After
  <2>7. \A n \in 1..Len(p) : n < Len(p) => After(p[n], p[n + 1])
    BY <2>2, <2>3, <2>6
  <2>8. \A n \in 1..Len(p) : InOrder("delClient", p, n)
    BY <2>2, <2>5
  <2>9. Ordered("delClient", p)
    BY <2>2, <2>7, <2>8 DEF Ordered
  <2> QED BY <2>4, <2>9
<1>15. Ordered("white", Steps("white"))
  <2>1. PICK p : p = <<"white", "putClient">>
    OBVIOUS
  <2>2. p \in Seq(Word) /\ Len(p) = 2
    BY <2>1 DEF Word
  <2>3. p[1] = "white" /\ p[2] = "putClient"
    BY <2>1
  <2>4. p = Steps("white")
    BY <2>1 DEF Steps
  <2>5. ASSUME NEW n \in {1, 2} PROVE InOrder("white", p, n)
    BY <2>2, <2>3 DEF InOrder, Free
  <2>6. After("white", "putClient")
    BY DEF After
  <2>7. \A n \in 1..Len(p) : n < Len(p) => After(p[n], p[n + 1])
    BY <2>2, <2>3, <2>6
  <2>8. \A n \in 1..Len(p) : InOrder("white", p, n)
    BY <2>2, <2>5
  <2>9. Ordered("white", p)
    BY <2>2, <2>7, <2>8 DEF Ordered
  <2> QED BY <2>4, <2>9
<1> QED BY <1>1, <1>2, <1>3, <1>4, <1>5, <1>6, <1>7, <1>8, <1>9,
             <1>10, <1>11, <1>12, <1>13, <1>14, <1>15 DEF WebOps

\* And so are those of the loops of delClient.
LEMMA LoopsOrdered ==
  /\ Ordered("delClient", DelTask \o <<"nextTask">>)
  /\ Ordered("delClient", <<"dropHost", "saveHosts", "nextHost">>)
  /\ Ordered("delClient", <<"nextTask">>)
  /\ Ordered("delClient", <<"hostsOfClient">>)
  /\ Ordered("delClient", <<"nextHost">>)
<1>1. Ordered("delClient", DelTask \o <<"nextTask">>)
  <2>1. PICK p : p = <<"close", "put", "saveTasks", "forget", "drop", "saveTasks", "nextTask">>
    OBVIOUS
  <2>2. p \in Seq(Word) /\ Len(p) = 7
    BY <2>1 DEF Word
  <2>3. p[1] = "close" /\ p[2] = "put" /\ p[3] = "saveTasks" /\ p[4] = "forget" /\ p[5] = "drop"
        /\ p[6] = "saveTasks" /\ p[7] = "nextTask"
    BY <2>1
  <2>4. p = DelTask \o <<"nextTask">>
    BY <2>1 DEF DelTask
  <2>5. ASSUME NEW n \in {1, 2, 3, 4, 5, 6, 7} PROVE InOrder("delClient", p, n)
    BY <2>2, <2>3 DEF InOrder, Free
  <2>6. After("close", "put") /\ After("put", "saveTasks") /\ After("saveTasks", "forget")
        /\ After("forget", "drop") /\ After("drop", "saveTasks") /\ After("saveTasks", "nextTask")
    BY DEF After
  <2>7. \A n \in 1..Len(p) : n < Len(p) => After(p[n], p[n + 1])
    BY <2>2, <2>3, <2>6
  <2>8. \A n \in 1..Len(p) : InOrder("delClient", p, n)
    BY <2>2, <2>5
  <2>9. Ordered("delClient", p)
    BY <2>2, <2>7, <2>8 DEF Ordered
  <2> QED BY <2>4, <2>9
<1>2. Ordered("delClient", <<"dropHost", "saveHosts", "nextHost">>)
  <2>1. PICK p : p = <<"dropHost", "saveHosts", "nextHost">>
    OBVIOUS
  <2>2. p \in Seq(Word) /\ Len(p) = 3
    BY <2>1 DEF Word
  <2>3. p[1] = "dropHost" /\ p[2] = "saveHosts" /\ p[3] = "nextHost"
    BY <2>1
  <2>5. ASSUME NEW n \in {1, 2, 3} PROVE InOrder("delClient", p, n)
    BY <2>2, <2>3 DEF InOrder, Free
  <2>6. After("dropHost", "saveHosts") /\ After("saveHosts", "nextHost")
    BY DEF After
  <2>7. \A n \in 1..Len(p) : n < Len(p) => After(p[n], p[n + 1])
    BY <2>2, <2>3, <2>6
  <2>8. \A n \in 1..Len(p) : InOrder("delClient", p, n)
    BY <2>2, <2>5
  <2>9. Ordered("delClient", p)
    BY <2>2, <2>7, <2>8 DEF Ordered
  <2> QED BY <2>1, <2>9
<1>3. Ordered("delClient", <<"nextTask">>)
  <2>1. PICK p : p = <<"nextTask">>
    OBVIOUS
  <2>2. p \in Seq(Word) /\ Len(p) = 1
    BY <2>1 DEF Word
  <2>3. p[1] = "nextTask"
    BY <2>1
  <2>5. ASSUME NEW n \in {1} PROVE InOrder("delClient", p, n)
    BY <2>2, <2>3 DEF InOrder, Free
  <2>7. \A n \in 1..Len(p) : n < Len(p) => After(p[n], p[n + 1])
    BY <2>2, <2>3
  <2>8. \A n \in 1..Len(p) : InOrder("delClient", p, n)
    BY <2>2, <2>5
  <2>9. Ordered("delClient", p)
    BY <2>2, <2>7, <2>8 DEF Ordered
  <2> QED BY <2>1, <2>9
<1>4. Ordered("delClient", <<"hostsOfClient">>)
  <2>1. PICK p : p = <<"hostsOfClient">>
    OBVIOUS
  <2>2. p \in Seq(Word) /\ Len(p) = 1
    BY <2>1 DEF Word
  <2>3. p[1] = "hostsOfClient"
    BY <2>1
  <2>5. ASSUME NEW n \in {1} PROVE InOrder("delClient", p, n)
    BY <2>2, <2>3 DEF InOrder, Free
  <2>7. \A n \in 1..Len(p) : n < Len(p) => After(p[n], p[n + 1])
    BY <2>2, <2>3
  <2>8. \A n \in 1..Len(p) : InOrder("delClient", p, n)
    BY <2>2, <2>5
  <2>9. Ordered("delClient", p)
    BY <2>2, <2>7, <2>8 DEF Ordered
  <2> QED BY <2>1, <2>9
<1>5. Ordered("delClient", <<"nextHost">>)
  <2>1. PICK p : p = <<"nextHost">>
    OBVIOUS
  <2>2. p \in Seq(Word) /\ Len(p) = 1
    BY <2>1 DEF Word
  <2>3. p[1] = "nextHost"
    BY <2>1
  <2>5. ASSUME NEW n \in {1} PROVE InOrder("delClient", p, n)
    BY <2>2, <2>3 DEF InOrder, Free
  <2>7. \A n \in 1..Len(p) : n < Len(p) => After(p[n], p[n + 1])
    BY <2>2, <2>3
  <2>8. \A n \in 1..Len(p) : InOrder("delClient", p, n)
    BY <2>2, <2>5
  <2>9. Ordered("delClient", p)
    BY <2>2, <2>7, <2>8 DEF Ordered
  <2> QED BY <2>1, <2>9
<1> QED BY <1>1, <1>2, <1>3, <1>4, <1>5

-----------------------------------------------------------------------------
(* NPS' console: the invariant of the database.                            *)

\* The step that puts an object in a map, and the step that saves the map.
PutOf(k) == IF k = "tasks" THEN "put" ELSE IF k = "hosts" THEN "putHost" ELSE "putClient"
SaveOf(k) == IF k = "tasks" THEN "saveTasks" ELSE IF k = "hosts" THEN "saveHosts" ELSE "saveClients"
PutAt(s, k) == Doing(s, PutOf(k))
SaveAt(s, k) == Doing(s, SaveOf(k))
RunAt(s, k) == k = "tasks" /\ Doing(s, "run")
New == {"add", "copy", "addHost", "addClient"}
Owned == {"tasks", "hosts"}
Op(s) == serve[s].req.op
DropIn(a, c) == \E q \in a : q.op = "delClient" /\ q.id = c
Drops(c) == DropIn(asked, c)
Adds == \E q \in asked : q.op = "addClient"
FiledIn(f, a, c) ==
  c \in DOMAIN f.clients \/ (\E q \in a : q.op = "addClient") \/ DropIn(a, c)
Filed(c) == FiledIn(files, asked, c)
Whites(k) == k = "clients" /\ \E q \in asked : q.op = "white"

WebShape ==
  /\ IsDb(db) /\ in \in [Kinds -> SUBSET Ids] /\ lastId \in [Kinds -> 0..Cap]
  /\ files = [k \in Kinds |-> files[k]] /\ stuck \cup lost \subseteq Kinds /\ runList \subseteq Ids
  /\ \A k \in Kinds : in[k] \subseteq 1..lastId[k] /\ DOMAIN files[k] \subseteq Ids
  /\ \A i \in DOMAIN files.tasks : IsTask(files.tasks[i])
  /\ \A i \in DOMAIN files.hosts : IsHost(files.hosts[i])
  /\ \A q \in todo : IsPost(q)
  /\ serve = [s \in Slot |-> serve[s]]

UnderWay(s) ==
  LET r == serve[s]
  IN /\ r = [req |-> r.req, at |-> r.at, id |-> r.id, ids |-> r.ids]
     /\ IsPost(r.req) /\ Ordered(r.req.op, r.at)
     /\ \E q \in asked : q.op = r.req.op /\ q.id = r.req.id
     /\ r.req.op \notin New \cup {"delClient"} => r.id = r.req.id

Owes(s, k) ==
  LET i == serve[s].id
  IN /\ PutAt(s, k) => /\ i \in 1..lastId[k]
                       /\ IF k \in Owned THEN Filed(db[k][i].client) ELSE Filed(i)
     /\ SaveAt(s, k) /\ KindOf(Op(s)) = k => i \in 1..lastId[k] /\ (Deleting(k, i) \/ i \in in[k])
     /\ RunAt(s, k) =>
          i \in 1..lastId[k] /\ (Deleting(k, i) \/ (i \in in[k] /\ (k \in lost \/ i \in DOMAIN files[k])))

Fresh(s, k) ==
  PutAt(s, k) /\ Op(s) \in New =>
    /\ serve[s].id \notin in[k]
    /\ \A t \in Slot \ {s} : PutAt(t, k) => serve[t].id # serve[s].id

Remembered(k) ==
  \A a \in answered : KindOf(a[1]) = k /\ ~Deleting(k, a[2]) =>
    a[2] \in in[k] /\ (k \in lost \/ a[2] \in DOMAIN files[k])

Saved(k) ==
  k \notin stuck \cup lost /\ ~Whites(k) /\ (\A s \in Slot : ~SaveAt(s, k)) =>
    /\ in[k] \subseteq DOMAIN files[k]
    /\ \A i \in DOMAIN files[k] \ in[k] : k \in Owned /\ (Adds \/ Drops(files[k][i].client))

Refers ==
  /\ \A c \in in.clients : Filed(c)
  /\ \A k \in Owned : /\ \A i \in in[k] : Filed(db[k][i].client)
                      /\ \A i \in DOMAIN files[k] : Filed(files[k][i].client)
  /\ \A c \in DOMAIN files.clients \ in.clients : Drops(c)

WebInv ==
  /\ WebShape /\ Refers
  /\ \A s \in Slot : serve[s] # Idle => UnderWay(s)
  /\ \A k \in Kinds : Remembered(k) /\ Saved(k) /\ \A s \in Slot : Owes(s, k) /\ Fresh(s, k)

-----------------------------------------------------------------------------
(* NPS' console: a step of a request keeps the invariant.                  *)

\* What a step of request s may do to the map and the file of kind k.
SavedBy(s, k) == SaveAt(s, k) /\ in'[k] = in[k] /\ files'[k] = storeSyncMapToFile(k)
StoreTried(s, k) == SavedBy(s, k) \/ (SaveAt(s, k) /\ in'[k] = in[k] /\ k \in lost')
Turned(s, k) ==
  LET i == serve[s].id
      j == serve'[s].id
  IN /\ \/ in'[k] = in[k]
        \/ PutAt(s, k) /\ in'[k] = in[k] \cup {i} /\ (SaveAt(s, k)' \/ Whites(k))
        \/ SaveAt(s, k)' /\ \E d : Deleting(k, d) /\ in'[k] = in[k] \ {d}
     /\ lastId'[k] = lastId[k] \/ (lastId'[k] = lastId[k] + 1 /\ lastId[k] < Cap)
     /\ files'[k] = files[k] \/ SavedBy(s, k)
     /\ k \in stuck => k \in stuck'
     /\ k \in lost => k \in lost' \/ SavedBy(s, k)
     /\ SaveAt(s, k) => k \in stuck' \/ StoreTried(s, k)
     /\ PutAt(s, k)' => /\ in'[k] = in[k]
                        /\ \/ /\ lastId'[k] = lastId[k] + 1 /\ j = lastId'[k]
                              /\ IF k \in Owned THEN db'[k][j].client \in in.clients ELSE Adds
                           \/ Op(s) \notin New /\ j \in in[k]
     /\ SaveAt(s, k)' /\ KindOf(Op(s)) = k => PutAt(s, k) /\ j = i /\ in'[k] = in[k] \cup {i}
     /\ RunAt(s, k)' => StoreTried(s, k) /\ j = i /\ KindOf(Op(s)) = k
     /\ \A a \in answered' \ answered : KindOf(a[1]) = k =>
          /\ a[2] = i /\ KindOf(Op(s)) = k
          /\ StoreTried(s, k) \/ (RunAt(s, k) /\ in'[k] = in[k] /\ files'[k] = files[k])

\* A step of request s.
Turn(s) ==
  /\ asked' = asked /\ todo' = todo /\ serve' = [serve EXCEPT ![s] = serve'[s]]
  /\ serve'[s] # Idle => serve[s] # Idle /\ UnderWay(s)' /\ Op(s)' = Op(s)
  /\ IsDb(db') /\ runList' \subseteq Ids /\ stuck' \cup lost' \subseteq Kinds
  /\ in' = [k \in Kinds |-> in'[k]] /\ lastId' = [k \in Kinds |-> lastId'[k]]
  /\ files' = [k \in Kinds |-> files'[k]]
  /\ \A k \in Owned, i \in Ids : db'[k][i].client \in {db[k][i].client} \cup in.clients
  /\ \A k \in Kinds : Turned(s, k)

LEMMA IdleDoes == \A s, x : serve[s] = Idle => ~Doing(s, x)
BY DEF Idle, Doing
LEMMA IdleDoes2 == (\A s, x : serve[s] = Idle => ~Doing(s, x))'
BY DEF Idle, Doing

\* Who does what, after a step of request s.
LEMMA Others ==
  ASSUME WebShape, NEW s \in Slot, Turn(s), NEW t \in Slot, t # s
  PROVE  /\ serve'[t] = serve[t] /\ Op(t)' = Op(t)
         /\ \A k : /\ PutAt(t, k)' <=> PutAt(t, k)
                   /\ SaveAt(t, k)' <=> SaveAt(t, k)
                   /\ RunAt(t, k)' <=> RunAt(t, k)
<1>1. serve'[t] = serve[t]
  BY DEF WebShape, Turn
<1> QED BY <1>1 DEF PutAt, SaveAt, RunAt, Doing, Op

LEMMA AskedStay ==
  ASSUME NEW s \in Slot, Turn(s)
  PROVE  /\ Adds' <=> Adds
         /\ \A c : DropIn(asked', c) <=> Drops(c)
         /\ \A k : Whites(k)' <=> Whites(k)
         /\ \A k, i : Deleting(k, i)' <=> Deleting(k, i)
BY DEF Turn, Adds, Drops, DropIn, Whites, Deleting

LEMMA FiledStays ==
  ASSUME WebInv, NEW s \in Slot, Turn(s), NEW c, Filed(c)
  PROVE  FiledIn(files', asked', c)
<1>1. CASE Adds \/ Drops(c)
  BY <1>1 DEF Filed, FiledIn, Adds, Drops, Turn
<1>2. CASE c \in DOMAIN files.clients
  <2>1. files'["clients"] = files["clients"] \/ files'["clients"] = storeSyncMapToFile("clients")
    BY DEF Turn, Turned, SavedBy, Kinds
  <2>2. DOMAIN storeSyncMapToFile("clients") = in.clients
    BY DEF storeSyncMapToFile
  <2>3. c \in in.clients \/ Drops(c)
    BY <1>2 DEF WebInv, Refers
  <2> QED BY <1>2, <2>1, <2>2, <2>3 DEF FiledIn, Drops, Turn
<1> QED BY <1>1, <1>2 DEF Filed, FiledIn, Adds, Drops

LEMMA ShapeTurns ==
  ASSUME WebInv, WebsAssumption, NEW s \in Slot, Turn(s)
  PROVE  WebShape'
<1> USE DEF WebInv, WebShape, WebsAssumption
<1>1. ASSUME NEW k \in Kinds
      PROVE  /\ lastId'[k] \in 0..Cap /\ in'[k] \subseteq 1..lastId'[k] /\ in'[k] \subseteq Ids
             /\ DOMAIN files'[k] \subseteq Ids
  <2>1. lastId[k] \in 0..Cap /\ in[k] \subseteq 1..lastId[k] /\ Turned(s, k) /\ Owes(s, k)
    BY DEF Turn
  <2>2. lastId'[k] \in 0..Cap /\ lastId[k] <= lastId'[k]
    BY <2>1 DEF Turned
  <2>3. in'[k] \subseteq 1..lastId[k]
    BY <2>1 DEF Turned, Owes
  <2>4. \A n \in 1..lastId[k] : n \in 1..lastId'[k] /\ n \in Ids
    BY <2>1, <2>2 DEF Ids
  <2>5. DOMAIN files'[k] \subseteq Ids
    <3>1. DOMAIN storeSyncMapToFile(k) = in[k]
      BY DEF storeSyncMapToFile
    <3> QED BY <2>1, <2>4, <3>1 DEF Turned, SavedBy
  <2> QED BY <2>2, <2>3, <2>4, <2>5
<1>2. in' \in [Kinds -> SUBSET Ids] /\ lastId' \in [Kinds -> 0..Cap]
  BY <1>1 DEF Turn
<1>3. /\ \A i \in DOMAIN files'.tasks : IsTask(files'.tasks[i])
      /\ \A i \in DOMAIN files'.hosts : IsHost(files'.hosts[i])
  <2>1. \A k \in {"tasks", "hosts"} :
          files'[k] = files[k] \/ files'[k] = [i \in in[k] |-> db[k][i]]
    BY DEF Turn, Turned, SavedBy, storeSyncMapToFile, Kinds
  <2>2. \A i \in in["tasks"] : IsTask(db["tasks"][i])
    BY DEF IsDb, Kinds
  <2>3. \A i \in in["hosts"] : IsHost(db["hosts"][i])
    BY DEF IsDb, Kinds
  <2> QED BY <2>1, <2>2, <2>3
<1> QED BY <1>1, <1>2, <1>3 DEF Turn

LEMMA OwesTurns ==
  ASSUME WebInv, NEW s \in Slot, Turn(s), NEW t \in Slot, NEW k \in Kinds
  PROVE  Owes(t, k)'
<1>1. /\ lastId[k] \in 0..Cap /\ in[k] \subseteq 1..lastId[k] /\ Turned(s, k) /\ Cap \in Nat
      /\ in[k] \subseteq Ids
  BY WebsAssumption DEF Turn, WebInv, WebShape, WebsAssumption
<1>2. \A i : i \in 1..lastId[k] => i \in 1..lastId'[k] /\ i \in Ids
  BY <1>1 DEF Turned, Ids
<1>3. \A i : i \in in[k] => i \in in'[k] \/ Deleting(k, i)
  BY <1>1 DEF Turned
<1>4. \A i : i \in in[k] /\ (k \in lost \/ i \in DOMAIN files[k])
             => Deleting(k, i) \/ (i \in in'[k] /\ (k \in lost' \/ i \in DOMAIN files'[k]))
  BY <1>1, <1>3 DEF Turned, SavedBy, storeSyncMapToFile
<1>5. \A i \in Ids : k \in Owned /\ Filed(db[k][i].client) => FiledIn(files', asked', db'[k][i].client)
  <2> SUFFICES ASSUME NEW i \in Ids, k \in Owned, Filed(db[k][i].client)
               PROVE  FiledIn(files', asked', db'[k][i].client)
    OBVIOUS
  <2>1. db'[k][i].client \in {db[k][i].client} \cup in.clients
    BY DEF Turn
  <2>2. Filed(db'[k][i].client)
    BY <2>1 DEF WebInv, Refers
  <2> QED BY <2>2, FiledStays
<1>6. CASE t # s
  <2>1. /\ serve'[t] = serve[t] /\ Op(t)' = Op(t) /\ (PutAt(t, k)' <=> PutAt(t, k))
        /\ (SaveAt(t, k)' <=> SaveAt(t, k)) /\ (RunAt(t, k)' <=> RunAt(t, k))
    BY <1>6, Others DEF WebInv
  <2>2. Owes(t, k)
    BY DEF WebInv
  <2>3. PutAt(t, k) => IF k \in Owned THEN FiledIn(files', asked', db'[k][serve[t].id].client)
                          ELSE FiledIn(files', asked', serve[t].id)
    BY <2>2, <1>2, <1>5, FiledStays DEF Owes
  <2> QED BY <2>1, <2>2, <2>3, <1>2, <1>3, <1>4, AskedStay DEF Owes, Filed
<1>7. CASE t = s
  <2>1. serve'[s] # Idle => Op(s)' = Op(s)
    BY DEF Turn
  <2>2. PutAt(s, k)' => /\ serve'[s].id \in 1..lastId'[k]
                        /\ IF k \in Owned THEN FiledIn(files', asked', db'[k][serve'[s].id].client)
                              ELSE FiledIn(files', asked', serve'[s].id)
    <3> SUFFICES ASSUME PutAt(s, k)' 
                 PROVE /\ serve'[s].id \in 1..lastId'[k]
                       /\ IF k \in Owned THEN FiledIn(files', asked', db'[k][serve'[s].id].client)
                             ELSE FiledIn(files', asked', serve'[s].id)
      OBVIOUS
    <3>1. CASE /\ lastId'[k] = lastId[k] + 1 /\ serve'[s].id = lastId'[k]
               /\ IF k \in Owned THEN db'[k][serve'[s].id].client \in in.clients ELSE Adds
      <4>1. k \notin Owned => Filed(serve'[s].id)
        BY <3>1 DEF Filed, FiledIn, Adds
      <4>2. k \in Owned => Filed(db'[k][serve'[s].id].client)
        BY <3>1 DEF WebInv, Refers
      <4> QED BY <3>1, <4>1, <4>2, <1>1, FiledStays
    <3>2. CASE serve'[s].id \in in[k]
      <4>1. k \in Owned => Filed(db[k][serve'[s].id].client)
        BY <3>2 DEF WebInv, Refers
      <4>2. k \notin Owned => Filed(serve'[s].id)
        BY <3>2 DEF WebInv, Refers, Owned, Kinds
      <4> QED BY <3>2, <4>1, <4>2, <1>1, <1>2, <1>5, FiledStays
    <3> QED BY <1>1, <3>1, <3>2 DEF Turned
  <2>3. SaveAt(s, k)' /\ KindOf(Op(s)) = k =>
          serve'[s].id \in 1..lastId'[k] /\ serve'[s].id \in in'[k]
    BY <1>1, <1>2 DEF Turned, WebInv, Owes
  <2>4. RunAt(s, k)' => /\ serve'[s].id \in 1..lastId'[k]
                        /\ \/ Deleting(k, serve'[s].id)
                           \/ /\ serve'[s].id \in in'[k]
                              /\ k \in lost' \/ serve'[s].id \in DOMAIN files'[k]
    BY <1>1, <1>2 DEF Turned, WebInv, Owes, StoreTried, SavedBy, storeSyncMapToFile
  <2>5. SaveAt(s, k)' => serve'[s] # Idle
    BY IdleDoes2 DEF SaveAt
  <2> QED BY <1>7, <2>1, <2>2, <2>3, <2>4, <2>5, AskedStay DEF Owes, Filed
<1> QED BY <1>6, <1>7

LEMMA FreshTurns ==
  ASSUME WebInv, NEW s \in Slot, Turn(s), NEW t \in Slot, NEW k \in Kinds
  PROVE  Fresh(t, k)'
<1>1. /\ lastId[k] \in 0..Cap /\ in[k] \subseteq 1..lastId[k] /\ Turned(s, k)
  BY DEF Turn, WebInv, WebShape
<1>2. \A u \in Slot : Owes(u, k) /\ Fresh(u, k)
  BY DEF WebInv
<1>3. PutAt(s, k)' => serve'[s] # Idle /\ Op(s)' = Op(s)
  BY IdleDoes2 DEF PutAt, Turn
<1> SUFFICES ASSUME PutAt(t, k)', Op(t)' \in New
             PROVE  /\ serve'[t].id \notin in'[k]
                    /\ \A u \in Slot \ {t} : PutAt(u, k)' => serve'[u].id # serve'[t].id
  BY DEF Fresh
<1>4. CASE t # s
  <2>1. /\ serve'[t] = serve[t] /\ PutAt(t, k) /\ Op(t) \in New
        /\ \A u \in Slot \ {s} : serve'[u] = serve[u] /\ (PutAt(u, k)' <=> PutAt(u, k))
    BY <1>4, Others DEF WebInv
  <2>2. /\ serve[t].id \notin in[k] /\ serve[t].id \in 1..lastId[k]
        /\ \A u \in Slot \ {t} : PutAt(u, k) => serve[u].id # serve[t].id
    BY <1>2, <2>1 DEF Fresh, Owes
  <2>3. serve[t].id \notin in'[k]
    BY <1>1, <1>4, <2>2 DEF Turned
  <2>4. PutAt(s, k)' => serve'[s].id # serve[t].id
    BY <1>1, <2>2 DEF Turned
  <2> QED BY <2>1, <2>2, <2>3, <2>4
<1>5. CASE t = s
  <2>1. /\ in'[k] = in[k] /\ serve'[s].id = lastId[k] + 1
    BY <1>1, <1>3, <1>5 DEF Turned
  <2>2. \A u \in Slot \ {s} : PutAt(u, k)' => serve'[u].id \in 1..lastId[k]
    BY <1>2, Others DEF Owes, WebInv
  <2> QED BY <1>1, <1>5, <2>1, <2>2
<1> QED BY <1>4, <1>5

LEMMA RememberedTurns ==
  ASSUME WebInv, NEW s \in Slot, Turn(s), NEW k \in Kinds
  PROVE  Remembered(k)'
<1>1. /\ Turned(s, k) /\ Owes(s, k) /\ Remembered(k)
  BY DEF Turn, WebInv, WebShape
<1> SUFFICES ASSUME NEW a \in answered', KindOf(a[1]) = k, ~Deleting(k, a[2])'
             PROVE  a[2] \in in'[k] /\ (k \in lost' \/ a[2] \in DOMAIN files'[k])
  BY DEF Remembered
<1>2. ~Deleting(k, a[2])
  BY AskedStay
<1>3. CASE a \in answered
  <2>1. a[2] \in in[k] /\ (k \in lost \/ a[2] \in DOMAIN files[k])
    BY <1>1, <1>2, <1>3 DEF Remembered
  <2>2. a[2] \in in'[k]
    BY <1>1, <1>2, <2>1 DEF Turned
  <2> QED BY <1>1, <2>1, <2>2 DEF Turned, SavedBy, storeSyncMapToFile
<1>4. CASE a \notin answered
  <2>1. /\ a[2] = serve[s].id /\ KindOf(Op(s)) = k
        /\ StoreTried(s, k) \/ (RunAt(s, k) /\ in'[k] = in[k] /\ files'[k] = files[k])
    BY <1>1, <1>4 DEF Turned
  <2>2. CASE StoreTried(s, k)
    <3>1. a[2] \in in[k]
      BY <1>1, <1>2, <2>1, <2>2 DEF Owes, StoreTried, SavedBy
    <3> QED BY <2>2, <3>1 DEF StoreTried, SavedBy, storeSyncMapToFile
  <2>3. CASE RunAt(s, k) /\ in'[k] = in[k] /\ files'[k] = files[k]
    BY <1>1, <1>2, <2>1, <2>3 DEF Owes, Turned, SavedBy, storeSyncMapToFile
  <2> QED BY <2>1, <2>2, <2>3
<1> QED BY <1>3, <1>4

LEMMA SavedTurns ==
  ASSUME WebInv, NEW s \in Slot, Turn(s), NEW k \in Kinds
  PROVE  Saved(k)'
<1>1. /\ Turned(s, k) /\ Owes(s, k) /\ Saved(k)
  BY DEF Turn, WebInv, WebShape
<1> SUFFICES ASSUME k \notin stuck' \cup lost', ~Whites(k)', \A t \in Slot : ~SaveAt(t, k)'
             PROVE  /\ in'[k] \subseteq DOMAIN files'[k]
                    /\ \A i \in DOMAIN files'[k] \ in'[k] :
                         k \in Owned /\ (Adds' \/ DropIn(asked', files'[k][i].client))
  BY DEF Saved, Drops
<1>2. k \notin stuck /\ ~Whites(k) /\ (k \in lost => SavedBy(s, k)) /\ \A t \in Slot \ {s} : ~SaveAt(t, k)
  BY <1>1, AskedStay, Others DEF Turned, WebInv
<1>3. CASE SavedBy(s, k)
  BY <1>3 DEF SavedBy, storeSyncMapToFile
<1>4. CASE ~SavedBy(s, k)
  <2>1. ~SaveAt(s, k) /\ in'[k] = in[k] /\ files'[k] = files[k] /\ k \notin lost
    BY <1>1, <1>2, <1>4 DEF Turned, StoreTried
  <2>2. /\ in[k] \subseteq DOMAIN files[k]
        /\ \A i \in DOMAIN files[k] \ in[k] : k \in Owned /\ (Adds \/ Drops(files[k][i].client))
    BY <1>1, <1>2, <2>1 DEF Saved
  <2> QED BY <2>1, <2>2, AskedStay
<1> QED BY <1>3, <1>4

LEMMA RefersTurns ==
  ASSUME WebInv, NEW s \in Slot, Turn(s)
  PROVE  Refers'
<1>1. \A k \in Kinds : Turned(s, k) /\ Owes(s, k) /\ in[k] \subseteq Ids
  BY DEF Turn, WebInv, WebShape
<1>2. \A c \in in'.clients : FiledIn(files', asked', c)
  <2>1. ASSUME NEW c \in in'.clients PROVE Filed(c)
    <3>1. c \in in["clients"] \/ (PutAt(s, "clients") /\ c = serve[s].id)
      BY <1>1 DEF Turned, Kinds
    <3>2. PutAt(s, "clients") => Filed(serve[s].id)
      BY <1>1 DEF Owes, Kinds, Owned
    <3> QED BY <3>1, <3>2 DEF WebInv, Refers
  <2> QED BY <2>1, FiledStays
<1>3. ASSUME NEW k \in Owned, NEW i \in in'[k] PROVE FiledIn(files', asked', db'[k][i].client)
  <2>0. k \in Kinds
    BY DEF Owned, Kinds
  <2>1. i \in in[k] \/ (PutAt(s, k) /\ i = serve[s].id)
    BY <1>1, <2>0 DEF Turned
  <2>2. PutAt(s, k) => Filed(db[k][serve[s].id].client)
    BY <1>1, <2>0 DEF Owes
  <2>3. Filed(db[k][i].client) /\ i \in Ids
    <3>1. PutAt(s, k) => serve[s].id \in Ids
      <4>1. lastId[k] \in 0..Cap /\ Cap \in Nat /\ Owes(s, k)
        BY <2>0, WebsAssumption DEF WebInv, WebShape, WebsAssumption
      <4> QED BY <4>1 DEF Owes, Ids
    <3> QED BY <1>1, <2>0, <2>1, <2>2, <3>1 DEF WebInv, Refers
  <2>4. db'[k][i].client \in {db[k][i].client} \cup in.clients
    BY <2>3 DEF Turn
  <2>5. Filed(db'[k][i].client)
    BY <2>3, <2>4 DEF WebInv, Refers
  <2> QED BY <2>5, FiledStays
<1>4. ASSUME NEW k \in Owned, NEW i \in DOMAIN files'[k] PROVE FiledIn(files', asked', files'[k][i].client)
  <2>0. k \in Kinds
    BY DEF Owned, Kinds
  <2>1. Filed(files'[k][i].client)
    <3>1. Turned(s, k)
      BY <1>1, <2>0
    <3>2. CASE files'[k] = files[k]
      BY <3>2 DEF WebInv, Refers
    <3>3. CASE files'[k] = [n \in in[k] |-> db[k][n]]
      BY <3>3 DEF WebInv, Refers
    <3> QED BY <3>1, <3>2, <3>3 DEF Turned, SavedBy, storeSyncMapToFile
  <2> QED BY <2>1, FiledStays
<1>5. \A c \in DOMAIN files'.clients \ in'.clients : DropIn(asked', c)
  <2>1. ASSUME NEW c \in DOMAIN files'["clients"], c \notin in'["clients"] PROVE Drops(c)
    <3>1. Turned(s, "clients")
      BY <1>1 DEF Kinds
    <3>2. CASE c \in in["clients"]
      <4>1. Deleting("clients", c)
        BY <2>1, <3>1, <3>2 DEF Turned
      <4> QED BY <4>1 DEF Deleting, Drops, DropIn
    <3>3. CASE c \notin in["clients"]
      BY <2>1, <3>1, <3>3 DEF Turned, SavedBy, storeSyncMapToFile, WebInv, Refers
    <3> QED BY <3>2, <3>3
  <2> QED BY <2>1, AskedStay
<1> QED BY <1>2, <1>3, <1>4, <1>5 DEF Refers, Filed, Drops

LEMMA TurnKeeps ==
  ASSUME WebInv, NEW s \in Slot, Turn(s)
  PROVE  WebInv'
<1>1. ASSUME NEW t \in Slot, serve'[t] # Idle PROVE UnderWay(t)'
  <2>1. CASE t = s
    BY <1>1, <2>1 DEF Turn
  <2>2. CASE t # s
    <3>1. serve'[t] = serve[t] /\ asked' = asked
      BY <2>2, Others DEF WebInv, Turn
    <3> QED BY <1>1, <3>1 DEF WebInv, UnderWay
  <2> QED BY <2>1, <2>2
<1> QED BY <1>1, ShapeTurns, RefersTurns, RememberedTurns, SavedTurns, OwesTurns, FreshTurns,
           WebsAssumption DEF WebInv

-----------------------------------------------------------------------------
(* NPS' console: how a request goes on.                                    *)

LEMMA SuffixOrdered ==
  ASSUME NEW op, NEW p, Ordered(op, p), NEW m \in 1..Len(p)
  PROVE  /\ Ordered(op, SubSeq(p, m, Len(p))) /\ SubSeq(p, m, Len(p)) # <<>>
         /\ Head(SubSeq(p, m, Len(p))) = p[m]
<1> DEFINE l == Len(p)
<1>1. p \in Seq(Word) /\ l \in Nat /\ l > 0 /\ m \in 1..l
  BY DEF Ordered
<1>2. PICK r : r = SubSeq(p, m, l)
  OBVIOUS
<1>3. r \in Seq(Word) /\ Len(r) = l - m + 1 /\ \A n \in 1..Len(r) : r[n] = p[n + m - 1]
  BY <1>1, <1>2
<1> HIDE DEF l
<1>4. ASSUME NEW n \in 1..Len(r) PROVE InOrder(op, r, n) /\ (n < Len(r) => After(r[n], r[n + 1]))
  <2>1. PICK j \in 1..l : j = n + m - 1
    BY <1>1, <1>3
  <2>5. r[n] = p[j]
    BY <1>3, <2>1
  <2>2. /\ (n < Len(r) <=> j < l) /\ (n = Len(r) <=> j = l)
        /\ (n + 4 <= Len(r) <=> j + 4 <= l) /\ (n + 6 <= Len(r) <=> j + 6 <= l)
    BY <1>1, <1>3, <2>1
  <2>3. /\ n < Len(r) => r[n + 1] = p[j + 1]
        /\ n + 4 <= Len(r) => r[n + 4] = p[j + 4]
        /\ n + 6 <= Len(r) => r[n + 6] = p[j + 6]
    BY <1>1, <1>3, <2>1
  <2>4. InOrder(op, p, j) /\ (j < l => After(p[j], p[j + 1])) /\ Len(p) = l
    BY DEF Ordered, l
  <2> QED BY <2>2, <2>3, <2>4, <2>5 DEF InOrder
<1>5. r # <<>> /\ Head(r) = p[m] /\ Len(r) > 0
  BY <1>1, <1>3
<1> QED BY <1>2, <1>3, <1>4, <1>5 DEF Ordered, l

\* What an ordered list of steps says of its first step and of the rest.
LEMMA FirstStep ==
  ASSUME NEW op, NEW p, Ordered(op, p)
  PROVE  LET h == Head(p)
             r == Tail(p)
         IN /\ p # <<>> /\ p \in Seq(Word) /\ InOrder(op, p, 1) /\ h = p[1]
            /\ r # <<>> <=> Len(p) > 1
            /\ r # <<>> => Ordered(op, r) /\ Head(r) = p[2] /\ After(h, p[2])
<1>1. /\ p \in Seq(Word) /\ Len(p) \in Nat /\ Len(p) > 0 /\ InOrder(op, p, 1) /\ p # <<>>
      /\ 1 < Len(p) => After(p[1], p[1 + 1])
  BY DEF Ordered
<1>2. Head(p) = p[1] /\ (Tail(p) # <<>> <=> Len(p) > 1)
  <2>1. Tail(p) \in Seq(Word) /\ Len(Tail(p)) = Len(p) - 1
    BY <1>1
  <2>2. Tail(p) = <<>> <=> Len(Tail(p)) = 0
    BY <2>1
  <2> QED BY <1>1, <2>1, <2>2
<1>3. ASSUME Len(p) > 1 PROVE Ordered(op, Tail(p)) /\ Head(Tail(p)) = p[2]
  <2>1. Tail(p) = SubSeq(p, 2, Len(p)) /\ 2 \in 1..Len(p)
    BY <1>1, <1>3
  <2> QED BY <2>1, SuffixOrdered
<1> QED BY <1>1, <1>2, <1>3

\* Where request s stands when it is over, and when it stands before step h.
LEMMA OverIs ==
  ASSUME WebShape, NEW s \in Slot, serve' = [serve EXCEPT ![s] = Idle]
  PROVE  /\ serve' = [serve EXCEPT ![s] = serve'[s]] /\ serve'[s] = Idle
         /\ \A k : ~PutAt(s, k)' /\ ~SaveAt(s, k)' /\ ~RunAt(s, k)'
<1>1. serve'[s] = Idle
  BY DEF WebShape
<1> QED BY <1>1, IdleDoes2 DEF PutAt, SaveAt, RunAt

LEMMA StandsAt ==
  ASSUME WebInv, NEW s \in Slot, NEW h, Doing(s, h)
  PROVE  /\ serve[s] # Idle /\ UnderWay(s) /\ Ordered(Op(s), serve[s].at) /\ Head(serve[s].at) = h
         /\ InOrder(Op(s), serve[s].at, 1) /\ serve[s].at[1] = h /\ Op(s) \in WebOps
         /\ \A k : /\ PutAt(s, k) <=> h = PutOf(k)
                   /\ SaveAt(s, k) <=> h = SaveOf(k)
                   /\ RunAt(s, k) <=> k = "tasks" /\ h = "run"
<1>1. serve[s] # Idle /\ Head(serve[s].at) = h /\ serve[s].at # <<>>
  BY IdleDoes DEF Doing
<1>2. UnderWay(s)
  BY <1>1 DEF WebInv
<1>3. Ordered(Op(s), serve[s].at) /\ Op(s) \in WebOps
  BY <1>2 DEF UnderWay, Op, IsPost
<1>4. InOrder(Op(s), serve[s].at, 1) /\ serve[s].at[1] = h
  BY <1>1, <1>3, FirstStep
<1> QED BY <1>1, <1>2, <1>3, <1>4 DEF PutAt, SaveAt, RunAt, Doing

LEMMA EntryIs ==
  ASSUME NEW r, r = [req |-> r.req, at |-> r.at, id |-> r.id, ids |-> r.ids], NEW i
  PROVE  /\ [r EXCEPT !.at = Tail(@), !.id = i] =
              [req |-> r.req, at |-> Tail(r.at), id |-> i, ids |-> r.ids]
         /\ [r EXCEPT !.at = Tail(@)] = [r EXCEPT !.at = Tail(@), !.id = r.id]
<1>1. r \in [req: {r.req}, at: {r.at}, id: {r.id}, ids: {r.ids}]
  OBVIOUS
<1>2. [r EXCEPT !.at = Tail(@), !.id = i] \in [req: {r.req}, at: {Tail(r.at)}, id: {i}, ids: {r.ids}]
  BY <1>1
<1>3. [r EXCEPT !.at = Tail(@)] \in [req: {r.req}, at: {Tail(r.at)}, id: {r.id}, ids: {r.ids}]
  BY <1>1
<1>4. [r EXCEPT !.at = Tail(@), !.id = r.id] \in [req: {r.req}, at: {Tail(r.at)}, id: {r.id}, ids: {r.ids}]
  BY <1>1
<1>5. \A x, y, z : x \in [req: {r.req}, at: {y}, id: {z}, ids: {r.ids}] =>
                   x = [req |-> r.req, at |-> y, id |-> z, ids |-> r.ids]
  OBVIOUS
<1> QED BY <1>2, <1>3, <1>4, <1>5

\* The request goes on with the rest of its steps.
LEMMA GoesOn ==
  ASSUME WebInv, NEW s \in Slot, NEW h, Doing(s, h), asked' = asked, NEW i,
         Op(s) \notin New \cup {"delClient"} => i = serve[s].id,
         Go(s, [serve[s] EXCEPT !.at = Tail(@), !.id = i])
  PROVE  /\ serve' = [serve EXCEPT ![s] = serve'[s]]
         /\ serve'[s] # Idle => /\ serve[s] # Idle /\ UnderWay(s)' /\ Op(s)' = Op(s)
                                /\ serve'[s].id = i
         /\ Len(serve[s].at) > 1 => answered' = answered
         /\ Len(serve[s].at) <= 1 => serve'[s] = Idle /\ answered' = answered \cup {<<Op(s), i>>}
         /\ \A x : Doing(s, x)' <=> Len(serve[s].at) > 1 /\ x = serve[s].at[2]
         /\ \A x : Doing(s, x)' => After(h, x)
<1> DEFINE r == Tail(serve[s].at)
           c == [serve[s] EXCEPT !.at = Tail(@), !.id = i]
<1>1. /\ serve[s] # Idle /\ UnderWay(s) /\ Ordered(Op(s), serve[s].at) /\ Head(serve[s].at) = h
      /\ Len(serve[s].at) \in Nat
  BY StandsAt DEF Ordered
<1>2. /\ (r # <<>>) <=> Len(serve[s].at) > 1
      /\ r # <<>> => Ordered(Op(s), r) /\ Head(r) = serve[s].at[2] /\ After(h, serve[s].at[2])
  BY <1>1, FirstStep
<1>3. c = [req |-> serve[s].req, at |-> r, id |-> i, ids |-> serve[s].ids]
  <2>1. serve[s] = [req |-> serve[s].req, at |-> serve[s].at, id |-> serve[s].id,
                    ids |-> serve[s].ids]
    BY <1>1 DEF UnderWay
  <2> QED BY <2>1, EntryIs
<1>4. serve' = [serve EXCEPT ![s] = IF r = <<>> THEN Idle ELSE c]
      /\ answered' = IF r = <<>> THEN answered \cup {<<Op(s), i>>} ELSE answered
  BY <1>3 DEF Go, Op
<1> HIDE DEF r, c
<1>5. serve'[s] = IF r = <<>> THEN Idle ELSE c
  BY <1>4 DEF WebInv, WebShape
<1>6. CASE r = <<>>
  <2>1. serve'[s] = Idle
    BY <1>5, <1>6
  <2>2. \A x : ~Doing(s, x)'
    BY <2>1, IdleDoes2
  <2> QED BY <1>1, <1>2, <1>4, <1>6, <2>1, <2>2
<1>7. CASE r # <<>>
  <2>1. /\ serve'[s] = [req |-> serve[s].req, at |-> r, id |-> i, ids |-> serve[s].ids]
        /\ answered' = answered
    BY <1>3, <1>4, <1>5, <1>7
  <2>2. serve'[s].req = serve[s].req /\ serve'[s].at = r /\ serve'[s].id = i
    BY <2>1
  <2>3. UnderWay(s)' /\ Op(s)' = Op(s)
    BY <1>1, <1>2, <1>7, <2>1, <2>2 DEF UnderWay, Op
  <2>4. \A x : Doing(s, x)' <=> x = serve[s].at[2]
    BY <1>2, <1>7, <2>2 DEF Doing
  <2>5. serve' = [serve EXCEPT ![s] = serve'[s]]
    BY <1>4, <1>5
  <2> QED BY <1>1, <1>2, <1>7, <2>1, <2>2, <2>3, <2>4, <2>5
<1> QED BY <1>6, <1>7

LEMMA DoneIs ==
  ASSUME WebInv, NEW s \in Slot, NEW h, Doing(s, h), Done(s)
  PROVE  Go(s, [serve[s] EXCEPT !.at = Tail(@), !.id = serve[s].id])
<1>1. serve[s] = [req |-> serve[s].req, at |-> serve[s].at, id |-> serve[s].id, ids |-> serve[s].ids]
  BY StandsAt DEF UnderWay
<1>2. [serve[s] EXCEPT !.at = Tail(@)] = [serve[s] EXCEPT !.at = Tail(@), !.id = serve[s].id]
  BY <1>1, EntryIs
<1> QED BY <1>2 DEF Done

-----------------------------------------------------------------------------
(* NPS' console: what a step writes.                                       *)

\* One object of the database is written.
Written(d, e, k, i, v) ==
  e = [x \in Kinds |-> IF x = k THEN [d[k] EXCEPT ![i] = v] ELSE d[x]]
LEMMA WrittenIs ==
  ASSUME NEW d, IsDb(d), NEW k \in Kinds, NEW i, NEW v, NEW e, Written(d, e, k, i, v),
         k = "tasks" => IsTask(v), k = "hosts" => IsHost(v)
  PROVE  /\ IsDb(e)
         /\ \A x \in Kinds, j \in Ids : e[x][j] = IF x = k /\ j = i THEN v ELSE d[x][j]
<1> USE DEF IsDb, Written
<1>1. \A x \in Kinds, j \in Ids : e[x][j] = IF x = k /\ j = i THEN v ELSE d[x][j]
  OBVIOUS
<1>2. ASSUME NEW x \in Kinds PROVE e[x] = [j \in Ids |-> e[x][j]]
  OBVIOUS
<1>3. e = [x \in Kinds |-> [j \in Ids |-> e[x][j]]]
  BY <1>2
<1>4. \A j \in Ids : IsTask(e["tasks"][j]) /\ IsHost(e["hosts"][j])
  BY <1>1 DEF Kinds
<1> QED BY <1>1, <1>3, <1>4

LEMMA WritesTask ==
  ASSUME IsDb(db), NEW i, NEW v
  PROVE  /\ Written(db, [db EXCEPT !.tasks[i] = v], "tasks", i, v)
         /\ Written(db, [db EXCEPT !.hosts[i] = v], "hosts", i, v)
         /\ Written(db, [db EXCEPT !.clients[i] = v], "clients", i, v)
BY DEF Written, IsDb, Kinds
LEMMA WritesFields ==
  ASSUME IsDb(db), NEW i, NEW v, NEW w, NEW u
  PROVE  /\ Written(db, [db EXCEPT !.tasks[i].on = v], "tasks", i, [db.tasks[i] EXCEPT !.on = v])
         /\ Written(db, [db EXCEPT !.hosts[i].shut = v], "hosts", i, [db.hosts[i] EXCEPT !.shut = v])
         /\ Written(db, [db EXCEPT !.clients[i].on = v], "clients", i, [db.clients[i] EXCEPT !.on = v])
BY DEF Written, IsDb, Kinds

-----------------------------------------------------------------------------
(* NPS' console: a step that goes on with its request is a turn.           *)

Shapes ==
  /\ in' = [k \in Kinds |-> in'[k]] /\ lastId' = [k \in Kinds |-> lastId'[k]]
  /\ files' = [k \in Kinds |-> files'[k]]
Still(s) ==
  /\ UNCHANGED <<todo, asked>> /\ stuck' \cup lost' \subseteq Kinds /\ runList' \subseteq Ids /\ IsDb(db')
  /\ \A k \in Owned, i \in Ids : db'[k][i].client \in {db[k][i].client} \cup in.clients
NextOf(s) == IF Len(serve[s].at) > 1 THEN serve[s].at[2] ELSE ""

\* What a step from h does to kind k, when the request goes on with its next step.
FileWritten(k) == in'[k] = in[k] /\ files'[k] = storeSyncMapToFile(k)
Fits(s, k, h, g, i) ==
  /\ \/ in'[k] = in[k]
     \/ h = PutOf(k) /\ in'[k] = in[k] \cup {serve[s].id} /\ (g = SaveOf(k) \/ Whites(k))
     \/ g = SaveOf(k) /\ \E d : Deleting(k, d) /\ in'[k] = in[k] \ {d}
  /\ lastId'[k] = lastId[k] \/ (lastId'[k] = lastId[k] + 1 /\ lastId[k] < Cap)
  /\ files'[k] = files[k] \/ (h = SaveOf(k) /\ FileWritten(k))
  /\ k \in stuck => k \in stuck'
  /\ k \in lost => k \in lost' \/ (h = SaveOf(k) /\ FileWritten(k))
  /\ h = SaveOf(k) => FileWritten(k) \/ (in'[k] = in[k] /\ k \in lost')
  /\ g = PutOf(k) => /\ in'[k] = in[k]
                     /\ \/ /\ lastId'[k] = lastId[k] + 1 /\ i = lastId'[k]
                           /\ IF k \in Owned THEN db'[k][i].client \in in.clients ELSE Adds
                        \/ Op(s) \notin New /\ i \in in[k]
  /\ g = SaveOf(k) /\ KindOf(Op(s)) = k =>
       h = PutOf(k) /\ i = serve[s].id /\ in'[k] = in[k] \cup {serve[s].id}
  /\ k = "tasks" /\ g = "run" => h = SaveOf(k) /\ i = serve[s].id /\ KindOf(Op(s)) = k
  /\ g = "" /\ KindOf(Op(s)) = k =>
       /\ i = serve[s].id
       /\ \/ h = SaveOf(k)
          \/ k = "tasks" /\ h = "run" /\ in'[k] = in[k] /\ files'[k] = files[k]

LEMMA GoesTurns ==
  ASSUME WebInv, NEW s \in Slot, NEW h, Doing(s, h), NEW i,
         Op(s) \notin New \cup {"delClient"} => i = serve[s].id,
         Go(s, [serve[s] EXCEPT !.at = Tail(@), !.id = i]), Still(s), Shapes,
         \A k \in Kinds : Fits(s, k, h, NextOf(s), i)
  PROVE  Turn(s)
<1> DEFINE g == NextOf(s)
<1>0. /\ asked' = asked /\ Ordered(Op(s), serve[s].at)
      /\ \A k : /\ PutAt(s, k) <=> h = PutOf(k)
                /\ SaveAt(s, k) <=> h = SaveOf(k)
                /\ RunAt(s, k) <=> k = "tasks" /\ h = "run"
  BY StandsAt DEF Still
<1>1. /\ serve' = [serve EXCEPT ![s] = serve'[s]]
      /\ serve'[s] # Idle => /\ serve[s] # Idle /\ UnderWay(s)' /\ Op(s)' = Op(s)
                             /\ serve'[s].id = i
      /\ g # "" => answered' = answered
      /\ answered' \subseteq answered \cup {<<Op(s), i>>}
      /\ \A x : Doing(s, x)' => serve'[s] # Idle
      /\ \A x \in {"put", "putHost", "putClient", "saveTasks", "saveHosts", "saveClients", "run"} :
           Doing(s, x)' <=> x = g
  <2>1. /\ serve' = [serve EXCEPT ![s] = serve'[s]]
        /\ serve'[s] # Idle => /\ serve[s] # Idle /\ UnderWay(s)' /\ Op(s)' = Op(s)
                               /\ serve'[s].id = i
        /\ Len(serve[s].at) > 1 => answered' = answered
        /\ Len(serve[s].at) <= 1 => answered' = answered \cup {<<Op(s), i>>}
        /\ \A x : Doing(s, x)' <=> Len(serve[s].at) > 1 /\ x = serve[s].at[2]
    BY <1>0, GoesOn
  <2>2. Len(serve[s].at) \in Nat
    BY <1>0 DEF Ordered
  <2>3. \A x : Doing(s, x)' => serve'[s] # Idle
    BY IdleDoes2
  <2>4. Len(serve[s].at) > 1 => serve[s].at[2] # ""
    <3>1. serve[s].at \in Seq(Word)
      BY <1>0 DEF Ordered
    <3>2. Len(serve[s].at) > 1 => serve[s].at[2] \in Word
      BY <3>1
    <3> QED BY <3>2 DEF Word
  <2>5. CASE Len(serve[s].at) > 1
    BY <2>1, <2>3, <2>4, <2>5 DEF NextOf
  <2>6. CASE ~(Len(serve[s].at) > 1)
    <3>1. g = ""
      BY <2>6 DEF NextOf
    <3>3. Len(serve[s].at) <= 1
      BY <2>2, <2>6
    <3>2. \A x : ~Doing(s, x)'
      BY <2>1, <2>6
    <3> HIDE DEF g
    <3> QED BY <2>1, <2>3, <3>1, <3>2, <3>3
  <2> QED BY <2>5, <2>6
<1> HIDE DEF g
<1>2. ASSUME NEW k \in Kinds PROVE Turned(s, k)
  <2>1. Fits(s, k, h, g, i)
    BY DEF g
  <2>2. /\ PutAt(s, k)' <=> g = PutOf(k)
        /\ SaveAt(s, k)' <=> g = SaveOf(k)
        /\ RunAt(s, k)' <=> k = "tasks" /\ g = "run"
        /\ PutAt(s, k)' \/ SaveAt(s, k)' \/ RunAt(s, k)' => serve'[s].id = i
    BY <1>1 DEF PutAt, SaveAt, RunAt, PutOf, SaveOf
  <2>3. \A a \in answered' \ answered : KindOf(a[1]) = k =>
          /\ a[2] = serve[s].id /\ KindOf(Op(s)) = k
          /\ StoreTried(s, k) \/ (RunAt(s, k) /\ in'[k] = in[k] /\ files'[k] = files[k])
    <3> SUFFICES ASSUME NEW a \in answered' \ answered, KindOf(a[1]) = k
                 PROVE  /\ a[2] = serve[s].id /\ KindOf(Op(s)) = k
                        /\ StoreTried(s, k) \/ (RunAt(s, k) /\ in'[k] = in[k] /\ files'[k] = files[k])
      OBVIOUS
    <3>1. a = <<Op(s), i>> /\ g = ""
      BY <1>1
    <3>2. a[1] = Op(s) /\ a[2] = i
      BY <3>1
    <3> QED BY <1>0, <2>1, <3>1, <3>2 DEF Fits, StoreTried, SavedBy, FileWritten
  <2> QED BY <1>0, <2>1, <2>2, <2>3 DEF Fits, Turned, StoreTried, SavedBy, FileWritten
<1> QED BY <1>1, <1>2 DEF Turn, Still, Shapes

\* A request that ends unanswered.
LEMMA EndTurns ==
  ASSUME WebInv, NEW s \in Slot, Refuse(s), Still(s), Shapes,
         \A k \in Kinds :
           /\ in'[k] = in[k] /\ files'[k] = files[k]
           /\ (k \in stuck => k \in stuck') /\ (k \in lost => k \in lost')
           /\ lastId'[k] = lastId[k] \/ (lastId'[k] = lastId[k] + 1 /\ lastId[k] < Cap)
           /\ SaveAt(s, k) => k \in stuck'
  PROVE  Turn(s)
<1>1. /\ serve' = [serve EXCEPT ![s] = serve'[s]] /\ serve'[s] = Idle
      /\ \A k : ~PutAt(s, k)' /\ ~SaveAt(s, k)' /\ ~RunAt(s, k)'
  BY OverIs DEF Refuse, WebInv
<1> QED BY <1>1 DEF Turn, Turned, Still, Shapes, Refuse

LEMMA StillIs ==
  ASSUME WebInv, UNCHANGED <<db, runList, stuck, todo, asked>>, lost' = lost \/ lost' \subseteq Kinds,
         NEW s
  PROVE Still(s)
BY DEF Still, WebInv, WebShape

\* What comes after step h.
LEMMA NextIs ==
  ASSUME WebInv, NEW s \in Slot, NEW h, Doing(s, h)
  PROVE  LET g == NextOf(s)
         IN /\ h \in {"put", "drop"} => g = "saveTasks"
            /\ h \in {"putHost", "dropHost"} => g = "saveHosts"
            /\ h = "dropClient" \/ (h = "putClient" /\ Op(s) # "white") => g = "saveClients"
            /\ g # "" => After(h, g)
            /\ Op(s) \in {"add", "copy"} => h \in {"make", "copy", "put", "saveTasks", "run"}
                                            /\ (g = "" => h = "run")
            /\ Op(s) = "addHost" => h \in {"makeHost", "putHost", "saveHosts"}
                                    /\ (g = "" => h = "saveHosts")
            /\ Op(s) = "addClient" => h \in {"makeClient", "putClient", "saveClients"}
                                      /\ (g = "" => h = "saveClients")
            /\ InOrder(Op(s), serve[s].at, 1) /\ serve[s].at[1] = h
<1> DEFINE p == serve[s].at
<1>1. Ordered(Op(s), p) /\ InOrder(Op(s), p, 1) /\ p[1] = h
  BY StandsAt
<1>2. Len(p) \in Nat /\ Len(p) > 0 /\ (1 < Len(p) => After(p[1], p[1 + 1]))
  BY <1>1 DEF Ordered
<1>0. Len(p) \in Nat /\ Len(p) > 0
  BY <1>2
<1>3. Len(p) > 1 => p[1 + 1] # "" /\ p[1 + 1] = p[2]
  <2>1. p \in Seq(Word)
    BY <1>1 DEF Ordered
  <2>2. Len(p) > 1 => p[2] \in Word
    BY <2>1
  <2>3. 1 + 1 = 2
    OBVIOUS
  <2>4. Len(p) > 1 => p[2] # ""
    BY <2>2 DEF Word
  <2> QED BY <2>3, <2>4
<1>4. NextOf(s) = IF Len(p) > 1 THEN p[2] ELSE ""
  BY DEF NextOf
<1>5. NextOf(s) # "" => After(h, NextOf(s))
  BY <1>1, <1>2, <1>3, <1>4
<1>6. NextOf(s) = "" => 1 = Len(p)
  <2>1. NextOf(s) = "" => ~(Len(p) > 1)
    BY <1>3, <1>4
  <2>2. ~(Len(p) > 1) => 1 = Len(p)
    <3>1. \A n \in Nat : n > 0 /\ ~(n > 1) => 1 = n
      OBVIOUS
    <3> HIDE DEF p
    <3> QED BY <1>0, <3>1
  <2> HIDE DEF p
  <2> QED BY <2>1, <2>2
<1>7. 1 < Len(p) => p[1 + 1] = NextOf(s)
  <2>1. 1 < Len(p) => Len(p) > 1
    BY <1>2
  <2> QED BY <2>1, <1>3, <1>4
<1> HIDE DEF p
<1>8. LET g == NextOf(s)
      IN /\ h \in {"put", "drop"} => g = "saveTasks"
         /\ h \in {"putHost", "dropHost"} => g = "saveHosts"
         /\ h = "dropClient" \/ (h = "putClient" /\ Op(s) # "white") => g = "saveClients"
  BY <1>1, <1>7 DEF InOrder
<1>9. LET g == NextOf(s)
      IN /\ Op(s) \in {"add", "copy"} => h \in {"make", "copy", "put", "saveTasks", "run"}
                                         /\ (g = "" => h = "run")
         /\ Op(s) = "addHost" => h \in {"makeHost", "putHost", "saveHosts"}
                                 /\ (g = "" => h = "saveHosts")
         /\ Op(s) = "addClient" => h \in {"makeClient", "putClient", "saveClients"}
                                   /\ (g = "" => h = "saveClients")
  BY <1>1, <1>6 DEF InOrder
<1> QED BY <1>1, <1>5, <1>8, <1>9 DEF p

LEMMA StoreTaskTurns == ASSUME WebInv, NEW s \in Slot, StoreTask(s) PROVE Turn(s)
<1>1. /\ Doing(s, "put") /\ in' = [in EXCEPT !.tasks = @ \cup {serve[s].id}] /\ Done(s) 
      /\ UNCHANGED <<db, lastId, runList, files, stuck, lost, todo, asked, budget>>
  BY DEF StoreTask
<1>2. Go(s, [serve[s] EXCEPT !.at = Tail(@), !.id = serve[s].id]) /\ Still(s) /\ Shapes
  BY <1>1, DoneIs, StillIs DEF Shapes, WebInv, WebShape
<1>3. \A k \in Kinds : in'[k] = IF k = "tasks" THEN in[k] \cup {serve[s].id} ELSE in[k]
  BY <1>1 DEF WebInv, WebShape, Kinds
<1>4. \A k \in Kinds : Fits(s, k, "put", NextOf(s), serve[s].id)
  BY <1>1, <1>3, NextIs DEF Fits, PutOf, SaveOf, Kinds
<1> QED BY <1>1, <1>2, <1>4, GoesTurns

-----------------------------------------------------------------------------
(* NPS' console: every step of a handler is a turn.                        *)

\* The maps of the other kinds, and their files.
LEMMA InChanges ==
  ASSUME WebInv, NEW k \in Kinds, NEW v
  PROVE  /\ in' = [in EXCEPT ![k] = v] =>
              /\ in' = [x \in Kinds |-> in'[x]]
              /\ \A x \in Kinds : in'[x] = IF x = k THEN v ELSE in[x]
         /\ lastId' = [lastId EXCEPT ![k] = v] =>
              /\ lastId' = [x \in Kinds |-> lastId'[x]]
              /\ \A x \in Kinds : lastId'[x] = IF x = k THEN v ELSE lastId[x]
         /\ files' = [files EXCEPT ![k] = v] =>
              /\ files' = [x \in Kinds |-> files'[x]]
              /\ \A x \in Kinds : files'[x] = IF x = k THEN v ELSE files[x]
         /\ in' = in => in' = [x \in Kinds |-> in'[x]]
         /\ lastId' = lastId => lastId' = [x \in Kinds |-> lastId'[x]]
         /\ files' = files => files' = [x \in Kinds |-> files'[x]]
BY DEF WebInv, WebShape

\* A step that leaves the maps and the files alone and neither adds nor saves next.
LEMMA QuietFits ==
  ASSUME NEW s, NEW h, NEW g, NEW i, UNCHANGED <<in, lastId, files, stuck, lost>>,
         \A k \in Kinds :
           /\ h # SaveOf(k) /\ g # PutOf(k) /\ (g = SaveOf(k) => KindOf(Op(s)) # k)
           /\ k = "tasks" => g # "run"
           /\ g = "" /\ KindOf(Op(s)) = k => k = "tasks" /\ h = "run" /\ i = serve[s].id
  PROVE  \A k \in Kinds : Fits(s, k, h, g, i)
BY DEF Fits

LEMMA SameShapes == WebInv /\ UNCHANGED <<in, lastId, files>> => Shapes
BY DEF WebInv, WebShape, Shapes

\* A step that changes the ids in one map.
LEMMA MapIs ==
  ASSUME WebInv, NEW s \in Slot, NEW k \in Kinds, NEW v, in' = [in EXCEPT ![k] = v],
         UNCHANGED <<db, lastId, runList, files, stuck, lost, todo, asked>>
  PROVE  Still(s) /\ Shapes /\ \A x \in Kinds : in'[x] = IF x = k THEN v ELSE in[x]
<1>1. Still(s)
  BY StillIs
<1>2. in' = [x \in Kinds |-> in'[x]] /\ \A x \in Kinds : in'[x] = IF x = k THEN v ELSE in[x]
  BY InChanges
<1>3. lastId' = [x \in Kinds |-> lastId'[x]] /\ files' = [x \in Kinds |-> files'[x]]
  BY InChanges
<1> QED BY <1>1, <1>2, <1>3 DEF Shapes

\* A request that ends without having added anything.
LEMMA LeaveTurns ==
  ASSUME WebInv, NEW s \in Slot, serve' = [serve EXCEPT ![s] = Idle], Still(s),
         UNCHANGED <<in, lastId, files, stuck, lost>>, KindOf(Op(s)) = "none", \A k \in Kinds : ~SaveAt(s, k),
         NEW i, answered' \subseteq answered \cup {<<Op(s), i>>}
  PROVE  Turn(s)
<1>1. /\ serve' = [serve EXCEPT ![s] = serve'[s]] /\ serve'[s] = Idle
      /\ \A k : ~PutAt(s, k)' /\ ~SaveAt(s, k)' /\ ~RunAt(s, k)'
  BY OverIs DEF WebInv
<1>2. \A k \in Kinds, a \in answered' \ answered : KindOf(a[1]) # k
  <2>1. \A a \in answered' \ answered : a[1] = Op(s)
    <3>1. \A a \in answered' \ answered : a = <<Op(s), i>>
      OBVIOUS
    <3> QED BY <3>1
  <2> QED BY <2>1 DEF Kinds
<1> QED BY <1>1, <1>2, SameShapes DEF Turn, Turned, Still, Shapes

\* A request that jumps to other steps.
LEMMA JumpTurns ==
  ASSUME WebInv, NEW s \in Slot, NEW h, Doing(s, h), Still(s), UNCHANGED <<in, lastId, files, stuck, lost>>,
         NEW a, Ordered(Op(s), a), Free(Head(a)), NEW i, NEW x,
         Op(s) \notin New \cup {"delClient"} => i = serve[s].id,
         serve' = [serve EXCEPT ![s] = [req |-> serve[s].req, at |-> a, id |-> i, ids |-> x]],
         answered' = answered, \A k \in Kinds : ~SaveAt(s, k)
  PROVE  Turn(s)
<1>1. serve'[s] = [req |-> serve[s].req, at |-> a, id |-> i, ids |-> x]
  BY DEF WebInv, WebShape
<1>2. /\ serve'[s].req = serve[s].req /\ serve'[s].at = a /\ serve'[s].id = i
      /\ serve' = [serve EXCEPT ![s] = serve'[s]]
  <2>1. serve' = [serve EXCEPT ![s] = serve'[s]]
    BY <1>1
  <2>2. PICK r : r = serve'[s]
    OBVIOUS
  <2>3. r.req = serve[s].req /\ r.at = a /\ r.id = i
    BY <1>1, <2>2
  <2> QED BY <2>1, <2>2, <2>3
<1>3. serve[s] # Idle /\ UnderWay(s)
  BY StandsAt
<1>4. UnderWay(s)' /\ Op(s)' = Op(s)
  BY <1>1, <1>2, <1>3 DEF UnderWay, Still, Op
<1>5. \A k : ~PutAt(s, k)' /\ ~SaveAt(s, k)' /\ ~RunAt(s, k)'
  BY <1>2 DEF PutAt, SaveAt, RunAt, PutOf, SaveOf, Doing, Free
<1>6. \A k \in Kinds : Turned(s, k)
  BY <1>5 DEF Turned
<1> QED BY <1>2, <1>3, <1>4, <1>6, SameShapes DEF Turn, Still, Shapes

LEMMA AddTaskTurns == ASSUME WebInv, NEW s \in Slot, AddTask(s) PROVE Turn(s)
<1>1. /\ Doing(s, "run") /\ UNCHANGED <<db, in, lastId, files, stuck, lost, todo, asked, budget>>
      /\ \/ runList' = runList \cup {serve[s].id} /\ Done(s)
         \/ Refuse(s) /\ UNCHANGED runList
  BY DEF AddTask
<1>2. Shapes /\ ~(\E k \in Kinds : SaveAt(s, k)) /\ RunAt(s, "tasks")
  BY <1>1, SameShapes, StandsAt DEF SaveOf
<1>3. serve[s].id \in Ids
  <2>1. Owes(s, "tasks") /\ lastId["tasks"] \in 0..Cap /\ Cap \in Nat
    BY WebsAssumption DEF WebInv, WebShape, Kinds, WebsAssumption
  <2> QED BY <1>2, <2>1 DEF Owes, Ids
<1>4. Still(s)
  BY <1>1, <1>3 DEF Still, WebInv, WebShape
<1>5. CASE Done(s)
  <2>1. Go(s, [serve[s] EXCEPT !.at = Tail(@), !.id = serve[s].id])
    BY <1>1, <1>5, DoneIs
  <2>2. \A k \in Kinds : Fits(s, k, "run", NextOf(s), serve[s].id)
    <3>1. PICK g : g = NextOf(s)
      OBVIOUS
    <3>2. /\ g # "" => After("run", g)
          /\ Op(s) \in {"add", "copy"}
      BY <1>1, <3>1, NextIs DEF InOrder
    <3>3. KindOf(Op(s)) = "tasks"
      BY <3>2 DEF KindOf
    <3>4. \A k \in Kinds : Fits(s, k, "run", g, serve[s].id)
      BY <1>1, <3>2, <3>3, QuietFits DEF PutOf, SaveOf, Kinds, After
    <3> QED BY <3>1, <3>4
  <2> QED BY <1>1, <1>2, <1>4, <2>1, <2>2, GoesTurns
<1>6. CASE Refuse(s)
  BY <1>1, <1>2, <1>4, <1>6, EndTurns
<1> QED BY <1>1, <1>5, <1>6

LEMMA ForgetTurns == ASSUME WebInv, NEW s \in Slot, Forget(s) PROVE Turn(s)
<1>1. /\ Doing(s, "forget") /\ UNCHANGED <<db, in, lastId, files, stuck, lost, todo, asked, budget>>
      /\ runList' = runList \ {serve[s].id} /\ Done(s)
  BY DEF Forget
<1>2. Still(s) /\ Shapes
  BY <1>1, SameShapes DEF Still, WebInv, WebShape
<1>3. Go(s, [serve[s] EXCEPT !.at = Tail(@), !.id = serve[s].id])
  BY <1>1, DoneIs
<1>4. \A k \in Kinds : Fits(s, k, "forget", NextOf(s), serve[s].id)
  <2>1. PICK g : g = NextOf(s)
    OBVIOUS
  <2>6. /\ g # "" => After("forget", g)
        /\ InOrder(Op(s), serve[s].at, 1) /\ serve[s].at[1] = "forget"
    BY <1>1, <2>1, NextIs
  <2>2. /\ g # "" => After("forget", g)
        /\ Op(s) \notin New
    BY <2>6 DEF InOrder, New
  <2>3. Op(s) \in WebOps
    BY <1>1, StandsAt
  <2>4. KindOf(Op(s)) = "none"
    BY <2>2, <2>3 DEF KindOf, New
  <2>5. \A k \in Kinds : Fits(s, k, "forget", g, serve[s].id)
    BY <1>1, <2>2, <2>4, QuietFits DEF PutOf, SaveOf, Kinds, After
  <2> QED BY <2>1, <2>5
<1> QED BY <1>1, <1>2, <1>3, <1>4, GoesTurns

LEMMA DropTaskTurns == ASSUME WebInv, NEW s \in Slot, DropTask(s) PROVE Turn(s)
<1>1. /\ Doing(s, "drop") /\ in' = [in EXCEPT !["tasks"] = in["tasks"] \ {serve[s].id}] /\ Done(s)
      /\ UNCHANGED <<db, lastId, runList, files, stuck, lost, todo, asked, budget>>
  BY DEF DropTask
<1>2. /\ Still(s) /\ Shapes
      /\ \A k \in Kinds : in'[k] = IF k = "tasks" THEN in[k] \ {serve[s].id} ELSE in[k]
  <2>1. PICK x, v : x = "tasks" /\ v = in["tasks"] \ {serve[s].id}
    OBVIOUS
  <2>2. x \in Kinds /\ in' = [in EXCEPT ![x] = v]
    BY <1>1, <2>1 DEF Kinds
  <2>3. Still(s) /\ Shapes /\ \A k \in Kinds : in'[k] = IF k = x THEN v ELSE in[k]
    BY <1>1, <2>2, MapIs
  <2> QED BY <2>1, <2>3
<1>3. Go(s, [serve[s] EXCEPT !.at = Tail(@), !.id = serve[s].id])
  BY <1>1, DoneIs
<1>4. Op(s) \in {"del", "delClient"} /\ NextOf(s) = "saveTasks" /\ KindOf(Op(s)) = "none"
  BY <1>1, NextIs DEF InOrder, KindOf
<1>5. Deleting("tasks", serve[s].id)
  <2>1. UnderWay(s)
    BY <1>1, StandsAt
  <2> QED BY <2>1, <1>4 DEF UnderWay, Deleting, New, Op
<1>6. \A k \in Kinds : Fits(s, k, "drop", NextOf(s), serve[s].id)
  BY <1>1, <1>2, <1>4, <1>5 DEF Fits, PutOf, SaveOf, Kinds
<1> QED BY <1>1, <1>2, <1>3, <1>6, GoesTurns

LEMMA StoreHostTurns == ASSUME WebInv, NEW s \in Slot, StoreHost(s) PROVE Turn(s)
<1>1. /\ Doing(s, "putHost") /\ in' = [in EXCEPT !["hosts"] = in["hosts"] \cup {serve[s].id}] /\ Done(s)
      /\ UNCHANGED <<db, lastId, runList, files, stuck, lost, todo, asked, budget>>
  BY DEF StoreHost
<1>2. /\ Still(s) /\ Shapes
      /\ \A k \in Kinds : in'[k] = IF k = "hosts" THEN in[k] \cup {serve[s].id} ELSE in[k]
  <2>1. PICK x, v : x = "hosts" /\ v = in["hosts"] \cup {serve[s].id}
    OBVIOUS
  <2>2. x \in Kinds /\ in' = [in EXCEPT ![x] = v]
    BY <1>1, <2>1 DEF Kinds
  <2>3. Still(s) /\ Shapes /\ \A k \in Kinds : in'[k] = IF k = x THEN v ELSE in[k]
    BY <1>1, <2>2, MapIs
  <2> QED BY <2>1, <2>3
<1>3. Go(s, [serve[s] EXCEPT !.at = Tail(@), !.id = serve[s].id])
  BY <1>1, DoneIs
<1>4. \A k \in Kinds : Fits(s, k, "putHost", NextOf(s), serve[s].id)
  BY <1>1, <1>2, NextIs DEF Fits, PutOf, SaveOf, Kinds
<1> QED BY <1>1, <1>2, <1>3, <1>4, GoesTurns

LEMMA DelHostTurns == ASSUME WebInv, NEW s \in Slot, DelHost(s) PROVE Turn(s)
<1>1. /\ Doing(s, "dropHost") /\ in' = [in EXCEPT !["hosts"] = in["hosts"] \ {serve[s].id}] /\ Done(s)
      /\ UNCHANGED <<db, lastId, runList, files, stuck, lost, todo, asked, budget>>
  BY DEF DelHost
<1>2. /\ Still(s) /\ Shapes
      /\ \A k \in Kinds : in'[k] = IF k = "hosts" THEN in[k] \ {serve[s].id} ELSE in[k]
  <2>1. PICK x, v : x = "hosts" /\ v = in["hosts"] \ {serve[s].id}
    OBVIOUS
  <2>2. x \in Kinds /\ in' = [in EXCEPT ![x] = v]
    BY <1>1, <2>1 DEF Kinds
  <2>3. Still(s) /\ Shapes /\ \A k \in Kinds : in'[k] = IF k = x THEN v ELSE in[k]
    BY <1>1, <2>2, MapIs
  <2> QED BY <2>1, <2>3
<1>3. Go(s, [serve[s] EXCEPT !.at = Tail(@), !.id = serve[s].id])
  BY <1>1, DoneIs
<1>4. Op(s) \in {"delHost", "delClient"} /\ NextOf(s) = "saveHosts" /\ KindOf(Op(s)) = "none"
  BY <1>1, NextIs DEF InOrder, KindOf
<1>5. Deleting("hosts", serve[s].id)
  <2>1. UnderWay(s)
    BY <1>1, StandsAt
  <2> QED BY <2>1, <1>4 DEF UnderWay, Deleting, New, Op
<1>6. \A k \in Kinds : Fits(s, k, "dropHost", NextOf(s), serve[s].id)
  BY <1>1, <1>2, <1>4, <1>5 DEF Fits, PutOf, SaveOf, Kinds
<1> QED BY <1>1, <1>2, <1>3, <1>6, GoesTurns

LEMMA StoreClientTurns == ASSUME WebInv, NEW s \in Slot, StoreClient(s) PROVE Turn(s)
<1>1. /\ Doing(s, "putClient") /\ in' = [in EXCEPT !["clients"] = in["clients"] \cup {serve[s].id}] /\ Done(s)
      /\ UNCHANGED <<db, lastId, runList, files, stuck, lost, todo, asked, budget>>
  BY DEF StoreClient
<1>2. /\ Still(s) /\ Shapes
      /\ \A k \in Kinds : in'[k] = IF k = "clients" THEN in[k] \cup {serve[s].id} ELSE in[k]
  <2>1. PICK x, v : x = "clients" /\ v = in["clients"] \cup {serve[s].id}
    OBVIOUS
  <2>2. x \in Kinds /\ in' = [in EXCEPT ![x] = v]
    BY <1>1, <2>1 DEF Kinds
  <2>3. Still(s) /\ Shapes /\ \A k \in Kinds : in'[k] = IF k = x THEN v ELSE in[k]
    BY <1>1, <2>2, MapIs
  <2> QED BY <2>1, <2>3
<1>3. Go(s, [serve[s] EXCEPT !.at = Tail(@), !.id = serve[s].id])
  BY <1>1, DoneIs
<1>4. Op(s) = "white" => Whites("clients")
  <2>1. UnderWay(s)
    BY <1>1, StandsAt
  <2> QED BY <2>1 DEF UnderWay, Whites, Op
<1>5. ASSUME NEW k \in Kinds PROVE Fits(s, k, "putClient", NextOf(s), serve[s].id)
  <2>1. PICK g : g = NextOf(s)
    OBVIOUS
  <2>2. /\ Op(s) # "white" => g = "saveClients"
        /\ g # "" => After("putClient", g)
        /\ InOrder(Op(s), serve[s].at, 1) /\ serve[s].at[1] = "putClient"
    BY <1>1, <2>1, NextIs
  <2>3. Op(s) \in {"addClient", "white"}
    BY <2>2 DEF InOrder
  <2>4. g = "saveClients" \/ (g # PutOf(k) /\ g # SaveOf(k) /\ g # "run" /\ Op(s) = "white")
    BY <2>2, <2>3 DEF After, PutOf, SaveOf, Kinds
  <2>5. Fits(s, k, "putClient", g, serve[s].id)
    BY <1>1, <1>2, <1>4, <2>3, <2>4 DEF Fits, PutOf, SaveOf, Kinds, KindOf
  <2> QED BY <2>1, <2>5
<1> QED BY <1>1, <1>2, <1>3, <1>5, GoesTurns

LEMMA DropClientTurns == ASSUME WebInv, NEW s \in Slot, DropClient(s) PROVE Turn(s)
<1>1. /\ Doing(s, "dropClient") /\ in' = [in EXCEPT !["clients"] = in["clients"] \ {Posted(s).id}] /\ Done(s)
      /\ UNCHANGED <<db, lastId, runList, files, stuck, lost, todo, asked, budget>>
  BY DEF DropClient
<1>2. /\ Still(s) /\ Shapes
      /\ \A k \in Kinds : in'[k] = IF k = "clients" THEN in[k] \ {Posted(s).id} ELSE in[k]
  <2>1. PICK x, v : x = "clients" /\ v = in["clients"] \ {Posted(s).id}
    OBVIOUS
  <2>2. x \in Kinds /\ in' = [in EXCEPT ![x] = v]
    BY <1>1, <2>1 DEF Kinds
  <2>3. Still(s) /\ Shapes /\ \A k \in Kinds : in'[k] = IF k = x THEN v ELSE in[k]
    BY <1>1, <2>2, MapIs
  <2> QED BY <2>1, <2>3
<1>3. Go(s, [serve[s] EXCEPT !.at = Tail(@), !.id = serve[s].id])
  BY <1>1, DoneIs
<1>4. Op(s) = "delClient" /\ NextOf(s) = "saveClients" /\ KindOf(Op(s)) = "none"
  BY <1>1, NextIs DEF InOrder, KindOf
<1>5. Deleting("clients", Posted(s).id)
  <2>1. UnderWay(s)
    BY <1>1, StandsAt
  <2> QED BY <2>1, <1>4 DEF UnderWay, Deleting, Op, Posted
<1>6. \A k \in Kinds : Fits(s, k, "dropClient", NextOf(s), serve[s].id)
  BY <1>1, <1>2, <1>4, <1>5 DEF Fits, PutOf, SaveOf, Kinds
<1> QED BY <1>1, <1>2, <1>3, <1>6, GoesTurns

LEMMA IpWhiteAuthTurns == ASSUME WebInv, NEW s \in Slot, IpWhiteAuth(s) PROVE Turn(s)
<1>1. /\ Doing(s, "white") /\ UNCHANGED <<db, in, lastId, runList, files, stuck, lost, todo, asked, budget>>
      /\ (Posted(s).id \in in.clients /\ Done(s)) \/ Refuse(s)
  BY DEF IpWhiteAuth
<1>2. Still(s) /\ Shapes /\ ~(\E k \in Kinds : SaveAt(s, k))
  BY <1>1, StillIs, SameShapes, StandsAt DEF SaveOf
<1>3. CASE Posted(s).id \in in.clients /\ Done(s)
  <2>1. Go(s, [serve[s] EXCEPT !.at = Tail(@), !.id = serve[s].id])
    BY <1>1, <1>3, DoneIs
  <2>2. Op(s) = "white" /\ serve[s].id = Posted(s).id
    <3>1. UnderWay(s) /\ Op(s) = "white"
      BY <1>1, StandsAt, NextIs DEF InOrder
    <3> QED BY <3>1 DEF UnderWay, New, Op, Posted
  <2>3. \A k \in Kinds : Fits(s, k, "white", NextOf(s), serve[s].id)
    BY <1>1, <1>3, <2>2, NextIs DEF Fits, PutOf, SaveOf, Kinds, After, KindOf, New
  <2> QED BY <1>1, <1>2, <2>1, <2>3, GoesTurns
<1>4. CASE Refuse(s)
  BY <1>1, <1>2, <1>4, EndTurns
<1> QED BY <1>1, <1>3, <1>4

LEMMA SaveTurns == ASSUME WebInv, NEW s \in Slot, Save(s) PROVE Turn(s)
<1>1. PICK k \in Kinds : /\ k = FileOf(Head(serve[s].at)) /\ Done(s) /\ serve[s].at # <<>>
                         /\ files' = [files EXCEPT ![k] = storeSyncMapToFile(k)] /\ k \notin stuck
                         /\ lost' = lost \ {k}
                         /\ UNCHANGED <<db, in, lastId, runList, stuck, todo, asked, budget>>
  BY DEF Save
<1>2. Doing(s, SaveOf(k))
  BY <1>1 DEF FileOf, SaveOf, Kinds, Doing
<1>3. /\ Still(s) /\ Shapes
      /\ \A x \in Kinds : files'[x] = IF x = k THEN storeSyncMapToFile(k) ELSE files[x]
  <2>1. lost' \subseteq Kinds
    BY <1>1 DEF WebInv, WebShape
  <2> QED BY <1>1, <2>1, StillIs, InChanges DEF Shapes
<1>4. Go(s, [serve[s] EXCEPT !.at = Tail(@), !.id = serve[s].id])
  BY <1>1, <1>2, DoneIs
<1>5. ASSUME NEW x \in Kinds PROVE Fits(s, x, SaveOf(k), NextOf(s), serve[s].id)
  <2>1. PICK g : g = NextOf(s)
    OBVIOUS
  <2>2. /\ g # "" => After(SaveOf(k), g)
        /\ Op(s) \in {"add", "copy"} => SaveOf(k) = "saveTasks" /\ g # ""
        /\ Op(s) = "addHost" => SaveOf(k) = "saveHosts"
        /\ Op(s) = "addClient" => SaveOf(k) = "saveClients"
    BY <1>2, <2>1, NextIs DEF SaveOf, Kinds
  <2>3. /\ \A y \in Kinds : g # PutOf(y) /\ g # SaveOf(y)
        /\ g = "run" => SaveOf(k) = "saveTasks"
    BY <2>2 DEF After, SaveOf, PutOf, Kinds
  <2>4. SaveOf(x) = SaveOf(k) => x = k
    BY DEF SaveOf, Kinds
  <2>5. g \in {"", "run"} /\ KindOf(Op(s)) = x => x = k
    BY <2>2 DEF KindOf, SaveOf, Kinds
  <2>6. g = "run" => KindOf(Op(s)) = "tasks" /\ k = "tasks"
    <3>1. ASSUME g = "run" PROVE Op(s) \in {"add", "copy"}
      <4>1. /\ Ordered(Op(s), serve[s].at) /\ Len(serve[s].at) > 1 /\ serve[s].at[2] = "run"
        BY <1>2, <2>1, <3>1, StandsAt DEF NextOf
      <4>2. Len(serve[s].at) \in Nat /\ 2 \in 1..Len(serve[s].at)
        BY <4>1 DEF Ordered
      <4> QED BY <4>1, <4>2 DEF Ordered, InOrder
    <3> QED BY <2>3, <3>1 DEF KindOf, SaveOf, Kinds
  <2>7. Fits(s, x, SaveOf(k), g, serve[s].id)
    BY <1>1, <1>3, <2>3, <2>4, <2>5, <2>6 DEF Fits, FileWritten
  <2> QED BY <2>1, <2>7
<1> QED BY <1>2, <1>3, <1>4, <1>5, GoesTurns

LEMMA SaveLostTurns == ASSUME WebInv, NEW s \in Slot, SaveLost(s) PROVE Turn(s)
<1>1. PICK k \in Kinds : /\ k = FileOf(Head(serve[s].at)) /\ Done(s) /\ serve[s].at # <<>>
                         /\ lost' = lost \cup {k}
                         /\ UNCHANGED <<db, in, lastId, runList, files, stuck, todo, asked>>
  BY DEF SaveLost
<1>2. Doing(s, SaveOf(k))
  BY <1>1 DEF FileOf, SaveOf, Kinds, Doing
<1>3. Still(s) /\ Shapes
  <2>1. lost' \subseteq Kinds
    BY <1>1 DEF WebInv, WebShape
  <2> QED BY <1>1, <2>1, StillIs, SameShapes
<1>4. Go(s, [serve[s] EXCEPT !.at = Tail(@), !.id = serve[s].id])
  BY <1>1, <1>2, DoneIs
<1>5. ASSUME NEW x \in Kinds PROVE Fits(s, x, SaveOf(k), NextOf(s), serve[s].id)
  <2>1. PICK g : g = NextOf(s)
    OBVIOUS
  <2>2. /\ g # "" => After(SaveOf(k), g)
        /\ Op(s) \in {"add", "copy"} => SaveOf(k) = "saveTasks" /\ g # ""
        /\ Op(s) = "addHost" => SaveOf(k) = "saveHosts"
        /\ Op(s) = "addClient" => SaveOf(k) = "saveClients"
    BY <1>2, <2>1, NextIs DEF SaveOf, Kinds
  <2>3. /\ \A y \in Kinds : g # PutOf(y) /\ g # SaveOf(y)
        /\ g = "run" => SaveOf(k) = "saveTasks"
    BY <2>2 DEF After, SaveOf, PutOf, Kinds
  <2>4. SaveOf(x) = SaveOf(k) => x = k
    BY DEF SaveOf, Kinds
  <2>5. g \in {"", "run"} /\ KindOf(Op(s)) = x => x = k
    BY <2>2 DEF KindOf, SaveOf, Kinds
  <2>6. g = "run" => KindOf(Op(s)) = "tasks" /\ k = "tasks"
    <3>1. ASSUME g = "run" PROVE Op(s) \in {"add", "copy"}
      <4>1. /\ Ordered(Op(s), serve[s].at) /\ Len(serve[s].at) > 1 /\ serve[s].at[2] = "run"
        BY <1>2, <2>1, <3>1, StandsAt DEF NextOf
      <4>2. Len(serve[s].at) \in Nat /\ 2 \in 1..Len(serve[s].at)
        BY <4>1 DEF Ordered
      <4> QED BY <4>1, <4>2 DEF Ordered, InOrder
    <3> QED BY <2>3, <3>1 DEF KindOf, SaveOf, Kinds
  <2>7. Fits(s, x, SaveOf(k), g, serve[s].id)
    BY <1>1, <1>3, <2>3, <2>4, <2>5, <2>6 DEF Fits, FileWritten
  <2> QED BY <2>1, <2>7
<1> QED BY <1>2, <1>3, <1>4, <1>5, GoesTurns

LEMMA SaveFailsTurns == ASSUME WebInv, NEW s \in Slot, SaveFails(s) PROVE Turn(s)
<1>1. PICK k \in Kinds : /\ k = FileOf(Head(serve[s].at)) /\ Refuse(s) /\ serve[s].at # <<>>
                         /\ stuck' = stuck \cup {k}
                         /\ UNCHANGED <<db, in, lastId, runList, files, lost, todo, asked>>
  BY DEF SaveFails
<1>2. Doing(s, SaveOf(k))
  BY <1>1 DEF FileOf, SaveOf, Kinds, Doing
<1>3. \A x \in Kinds : SaveAt(s, x) => x = k
  BY <1>2, StandsAt DEF SaveOf, Kinds
<1>4. Still(s) /\ Shapes
  BY <1>1, SameShapes DEF Still, WebInv, WebShape
<1> QED BY <1>1, <1>3, <1>4, EndTurns

\* A step that writes one object, and only to a client that is there.
LEMMA StillWrites ==
  ASSUME WebInv, NEW s, NEW k \in Kinds, NEW i, NEW v, Written(db, db', k, i, v),
         k = "tasks" => IsTask(v), k = "hosts" => IsHost(v),
         k \in Owned => v.client \in {db[k][i].client} \cup in.clients,
         UNCHANGED <<todo, asked>>, stuck' \cup lost' \subseteq Kinds, runList' \subseteq Ids
  PROVE  Still(s) /\ (i \in Ids => db'[k][i] = v)
<1>1. IsDb(db)
  BY DEF WebInv, WebShape
<1>2. /\ IsDb(db')
      /\ \A x \in Kinds, j \in Ids : db'[x][j] = IF x = k /\ j = i THEN v ELSE db[x][j]
  BY <1>1, WrittenIs
<1>3. \A x \in Owned, j \in Ids : db'[x][j].client \in {db[x][j].client} \cup in.clients
  <2>1. \A x \in Owned : x \in Kinds
    BY DEF Owned, Kinds
  <2> QED BY <1>2, <2>1
<1> QED BY <1>2, <1>3 DEF Still

\* A step that may be followed by putting back a task that is in the map.
LEMMA DoneFits ==
  ASSUME WebInv, NEW s \in Slot, NEW h, Doing(s, h), UNCHANGED <<in, lastId, files, stuck, lost>>,
         h \in {"edit", "start", "close", "editHost", "editClient", "status", "shutHost"},
         NextOf(s) = "put" => serve[s].id \in in.tasks
  PROVE  /\ \A k \in Kinds : Fits(s, k, h, NextOf(s), serve[s].id)
         /\ Op(s) \in WebOps /\ KindOf(Op(s)) = "none"
<1>1. PICK g : g = NextOf(s)
  OBVIOUS
<1>2. (g # "" => After(h, g)) /\ InOrder(Op(s), serve[s].at, 1) /\ serve[s].at[1] = h
  BY <1>1, NextIs
<1>3. Op(s) \notin New /\ Op(s) \in WebOps
  <2>1. Op(s) \notin New
    BY <1>2 DEF InOrder, New
  <2>2. Op(s) \in WebOps
    BY StandsAt
  <2> QED BY <2>1, <2>2
<1>4. KindOf(Op(s)) = "none"
  BY <1>3 DEF KindOf, New
<1>5. /\ g \notin {"putHost", "putClient", "run"} /\ h \notin {"saveTasks", "saveHosts", "saveClients"}
  BY <1>2 DEF After
<1>6. \A k \in Kinds : g = PutOf(k) => k = "tasks" /\ g = "put"
  BY <1>5 DEF PutOf, Kinds
<1>7. \A k \in Kinds : h # SaveOf(k)
  BY <1>5 DEF SaveOf, Kinds
<1>8. \A k \in Kinds : KindOf(Op(s)) # k
  BY <1>4 DEF Kinds
<1> HIDE <1>2
<1>9. \A k \in Kinds : Fits(s, k, h, g, serve[s].id)
  BY <1>1, <1>3, <1>5, <1>6, <1>7, <1>8 DEF Fits
<1> QED BY <1>1, <1>3, <1>4, <1>9

LEMMA LeaveIs ==
  ASSUME WebInv, NEW s \in Slot, NEW h, Doing(s, h), Go(s, [serve[s] EXCEPT !.at = <<>>])
  PROVE  /\ serve' = [serve EXCEPT ![s] = Idle]
         /\ answered' \subseteq answered \cup {<<Op(s), serve[s].id>>}
<1>1. PICK r : r = serve[s]
  OBVIOUS
<1>2. r = [req |-> r.req, at |-> r.at, id |-> r.id, ids |-> r.ids]
  BY <1>1, StandsAt DEF UnderWay
<1>3. r \in [req: {r.req}, at: {r.at}, id: {r.id}, ids: {r.ids}]
  BY <1>2
<1>4. [r EXCEPT !.at = <<>>] \in [req: {r.req}, at: {<<>>}, id: {r.id}, ids: {r.ids}]
  BY <1>3
<1>5. PICK c : c = [r EXCEPT !.at = <<>>]
  OBVIOUS
<1>6. c.at = <<>> /\ c.req = r.req /\ c.id = r.id
  BY <1>4, <1>5
<1>7. Go(s, c)
  BY <1>1, <1>5
<1> QED BY <1>1, <1>6, <1>7 DEF Go, Op

\* None of these steps saves a file.
LEMMA SavesNot ==
  ASSUME WebInv, NEW s \in Slot, NEW h, Doing(s, h),
         h \notin {"saveTasks", "saveHosts", "saveClients"}
  PROVE  \A k \in Kinds : ~SaveAt(s, k)
BY StandsAt DEF SaveOf

\* The id that is drawn for a new object.
LEMMA NewIdIs ==
  ASSUME WebInv, NEW k \in Kinds, NEW id, id = lastId[k] + 1, id <= Cap,
         lastId' = [lastId EXCEPT ![k] = id]
  PROVE  /\ id \in Ids /\ lastId[k] < Cap /\ lastId' = [x \in Kinds |-> lastId'[x]]
         /\ \A x \in Kinds : lastId'[x] = IF x = k THEN id ELSE lastId[x]
<1>1. lastId[k] \in 0..Cap /\ Cap \in Nat
  BY WebsAssumption DEF WebInv, WebShape, WebsAssumption
<1>2. id \in Ids /\ lastId[k] < Cap
  BY <1>1 DEF Ids
<1>3. /\ lastId' = [x \in Kinds |-> lastId'[x]]
      /\ \A x \in Kinds : lastId'[x] = IF x = k THEN id ELSE lastId[x]
  BY InChanges
<1> QED BY <1>2, <1>3

\* A request that has made a new object of kind k goes on to put it in the map.
LEMMA MakeTurns ==
  ASSUME WebInv, NEW s \in Slot, NEW k \in Kinds, NEW h, Doing(s, h), NEW id,
         id = lastId[k] + 1, id <= Cap, lastId' = [lastId EXCEPT ![k] = id],
         UNCHANGED <<in, runList, files, stuck, lost, todo, asked>>,
         Go(s, [serve[s] EXCEPT !.at = Tail(@), !.id = id]),
         NEW v, Written(db, db', k, id, v), k = "tasks" => IsTask(v), k = "hosts" => IsHost(v),
         k \in Owned => v.client \in in.clients, k = "clients" => Adds,
         \/ h \in {"make", "copy"} /\ k = "tasks"
         \/ h = "makeHost" /\ k = "hosts"
         \/ h = "makeClient" /\ k = "clients"
  PROVE  Turn(s)
<1>1. /\ id \in Ids /\ lastId[k] < Cap /\ lastId' = [x \in Kinds |-> lastId'[x]]
      /\ \A x \in Kinds : lastId'[x] = IF x = k THEN id ELSE lastId[x]
  BY NewIdIs
<1>2. Still(s) /\ db'[k][id] = v
  <2>1. stuck' \cup lost' \subseteq Kinds /\ runList' \subseteq Ids
    BY DEF WebInv, WebShape
  <2> QED BY <1>1, <2>1, StillWrites
<1>3. Shapes
  BY <1>1, InChanges DEF Shapes
<1>4. PICK g : g = NextOf(s)
  OBVIOUS
<1>5. /\ g # "" => After(h, g)
      /\ InOrder(Op(s), serve[s].at, 1) /\ serve[s].at[1] = h
      /\ Op(s) \in {"add", "copy"} => (g = "" => h = "run")
      /\ Op(s) = "addHost" => (g = "" => h = "saveHosts")
      /\ Op(s) = "addClient" => (g = "" => h = "saveClients")
  BY <1>4, NextIs
<1>6. /\ h \in {"make", "copy"} => Op(s) \in {"add", "copy"}
      /\ h = "makeHost" => Op(s) = "addHost"
      /\ h = "makeClient" => Op(s) = "addClient"
  BY <1>5 DEF InOrder
<1>7. g # "" /\ Op(s) \in New
  BY <1>5, <1>6 DEF New
<1>8. /\ g \notin {"saveTasks", "saveHosts", "saveClients", "run"}
      /\ g = "put" => k = "tasks"
      /\ g = "putHost" => k = "hosts"
      /\ g = "putClient" => k = "clients"
  BY <1>5, <1>7 DEF After
<1>9. \A x \in Kinds : /\ g # SaveOf(x) /\ h # SaveOf(x) /\ (g = PutOf(x) => x = k)
                       /\ (x = "clients" <=> x \notin Owned)
  BY <1>8 DEF SaveOf, PutOf, Kinds, Owned
<1>10. \A x \in Kinds : Fits(s, x, h, g, id)
  BY <1>1, <1>2, <1>7, <1>8, <1>9 DEF Fits
<1> QED BY <1>2, <1>3, <1>4, <1>7, <1>10, GoesTurns

\* A request that has drawn an id and ends unanswered.
LEMMA DrawTurns ==
  ASSUME WebInv, NEW s \in Slot, NEW k \in Kinds, NEW h, Doing(s, h), NEW id,
         id = lastId[k] + 1, id <= Cap, lastId' = [lastId EXCEPT ![k] = id],
         UNCHANGED <<db, in, runList, files, stuck, lost, todo, asked>>, Refuse(s),
         h \notin {"saveTasks", "saveHosts", "saveClients"}
  PROVE  Turn(s)
<1>1. /\ lastId[k] < Cap /\ lastId' = [x \in Kinds |-> lastId'[x]]
      /\ \A x \in Kinds : lastId'[x] = IF x = k THEN id ELSE lastId[x]
  BY NewIdIs
<1>2. Still(s) /\ Shapes
  BY <1>1, StillIs, InChanges DEF Shapes
<1>3. \A x \in Kinds : ~SaveAt(s, x)
  BY SavesNot
<1> QED BY <1>1, <1>2, <1>3, EndTurns

\* A request that ends unanswered, having written at most one object.
LEMMA RefuseTurns ==
  ASSUME WebInv, NEW s \in Slot, NEW h, Doing(s, h), Refuse(s), Still(s),
         UNCHANGED <<in, lastId, files, stuck, lost>>, h \notin {"saveTasks", "saveHosts", "saveClients"}
  PROVE  Turn(s)
<1>1. \A x \in Kinds : ~SaveAt(s, x)
  BY SavesNot
<1> QED BY <1>1, SameShapes, EndTurns

LEMMA NewTaskTurns ==
  ASSUME WebInv, NEW s \in Slot, NEW h \in {"make", "copy"}, Doing(s, h), NEW t, IsTask(t),
         t.client \in in.clients, NewTask(s, t),
         UNCHANGED <<in, runList, files, stuck, lost, todo, asked>>
  PROVE  Turn(s)
<1>1. PICK id : /\ id = lastId["tasks"] + 1 /\ id <= Cap /\ lastId' = [lastId EXCEPT !["tasks"] = id]
                /\ \/ Refuse(s) /\ UNCHANGED db
                   \/ \E p : /\ db' = [db EXCEPT !.tasks[id] = [t EXCEPT !.port = p]]
                             /\ Go(s, [serve[s] EXCEPT !.at = Tail(@), !.id = id])
  BY DEF NewTask
<1>2. "tasks" \in Kinds /\ h \notin {"saveTasks", "saveHosts", "saveClients"}
  BY DEF Kinds
<1>3. CASE Refuse(s) /\ UNCHANGED db
  BY <1>1, <1>2, <1>3, DrawTurns
<1>4. CASE \E p : /\ db' = [db EXCEPT !.tasks[id] = [t EXCEPT !.port = p]]
                  /\ Go(s, [serve[s] EXCEPT !.at = Tail(@), !.id = id])
  <2>1. PICK p : /\ db' = [db EXCEPT !.tasks[id] = [t EXCEPT !.port = p]]
                 /\ Go(s, [serve[s] EXCEPT !.at = Tail(@), !.id = id])
    BY <1>4
  <2>2. PICK v : v = [t EXCEPT !.port = p]
    OBVIOUS
  <2>3. IsTask(v) /\ v.client = t.client
    BY <2>2 DEF IsTask
  <2>4. Written(db, db', "tasks", id, v)
    BY <2>1, <2>2, WritesTask DEF WebInv, WebShape
  <2>5. "tasks" # "clients" /\ "tasks" # "hosts"
    OBVIOUS
  <2> QED BY <1>1, <1>2, <2>1, <2>3, <2>4, <2>5, MakeTurns
<1> QED BY <1>1, <1>3, <1>4

LEMMA AddTurns == ASSUME WebInv, NEW s \in Slot, Add(s) PROVE Turn(s)
<1>1. /\ Doing(s, "make") /\ UNCHANGED <<in, runList, files, stuck, lost, todo, asked, budget>>
      /\ IF Posted(s).cl \in in.clients
         THEN NewTask(s, [Posted(s).val EXCEPT !.client = Posted(s).cl, !.on = TRUE])
         ELSE NoClient(s)
  BY DEF Add
<1>2. CASE Posted(s).cl \in in.clients
  <2>0. PICK o : o = TRUE
    OBVIOUS
  <2>1. PICK t : t = [Posted(s).val EXCEPT !.client = Posted(s).cl, !.on = o]
    OBVIOUS
  <2>2. Op(s) = "add"
    <3>1. InOrder(Op(s), serve[s].at, 1) /\ serve[s].at[1] = "make"
      BY <1>1, StandsAt
    <3> QED BY <3>1 DEF InOrder
  <2>3. IsTask(Posted(s).val)
    <3>1. UnderWay(s)
      BY <1>1, StandsAt
    <3> QED BY <2>2, <3>1 DEF UnderWay, IsPost, Op, Posted
  <2>4. IsTask(t) /\ t.client = Posted(s).cl
    BY <2>1, <2>3 DEF IsTask
  <2> QED BY <1>1, <1>2, <2>0, <2>1, <2>4, NewTaskTurns
<1>3. CASE Posted(s).cl \notin in.clients
  <2>1. Still(s)
    BY <1>1, <1>3, StillIs DEF NoClient
  <2> QED BY <1>1, <1>3, <2>1, RefuseTurns DEF NoClient
<1> QED BY <1>2, <1>3

LEMMA CopyTurns == ASSUME WebInv, NEW s \in Slot, Copy(s) PROVE Turn(s)
<1> DEFINE j == Posted(s).id
<1>1. /\ Doing(s, "copy") /\ UNCHANGED <<in, runList, files, stuck, lost, todo, asked, budget>>
      /\ IF j \in in.tasks /\ Task(j).client \in in.clients
         THEN NewTask(s, [Task(j) EXCEPT !.port = 0, !.on = TRUE])
         ELSE NoClient(s)
  BY DEF Copy
<1>2. CASE j \in in.tasks /\ Task(j).client \in in.clients
  <2>1. PICK o, p : o = TRUE /\ p = 0
    OBVIOUS
  <2>2. PICK u : u = Task(j)
    OBVIOUS
  <2>3. PICK t : t = [u EXCEPT !.port = p, !.on = o]
    OBVIOUS
  <2>4. j \in Ids
    BY <1>2 DEF WebInv, WebShape, Kinds
  <2>5. IsTask(u) /\ u.client \in in.clients
    BY <1>2, <2>2, <2>4 DEF WebInv, WebShape, IsDb, Task
  <2>6. IsTask(t) /\ t.client = u.client
    BY <2>3, <2>5 DEF IsTask
  <2>7. NewTask(s, t)
    BY <1>1, <1>2, <2>1, <2>2, <2>3
  <2> QED BY <1>1, <2>5, <2>6, <2>7, NewTaskTurns
<1>3. CASE ~(j \in in.tasks /\ Task(j).client \in in.clients)
  <2>0. NoClient(s)
    BY <1>1, <1>3
  <2>1. Still(s)
    BY <1>1, <2>0, StillIs DEF NoClient
  <2> QED BY <1>1, <2>0, <2>1, RefuseTurns DEF NoClient
<1> QED BY <1>2, <1>3

\* Edit writes the client, the mode and the port before it checks the port.
LEMMA HalfEdit ==
  ASSUME IsDb(db), NEW i, NEW c, NEW m, NEW p
  PROVE  LET t == db.tasks[i]
             w == [client |-> c, mode |-> m, port |-> p, pw |-> t.pw, on |-> t.on]
             e == [db EXCEPT !.tasks[i].client = c, !.tasks[i].mode = m, !.tasks[i].port = p]
         IN /\ IsTask(w) /\ w.client = c
            /\ i \in Ids => Written(db, e, "tasks", i, w)
<1> DEFINE t == db.tasks[i]
           w == [client |-> c, mode |-> m, port |-> p, pw |-> t.pw, on |-> t.on]
           e == [db EXCEPT !.tasks[i].client = c, !.tasks[i].mode = m, !.tasks[i].port = p]
<1>1. IsTask(w) /\ w.client = c
  BY DEF IsTask
<1>2. ASSUME i \in Ids PROVE Written(db, e, "tasks", i, w)
  <2>1. IsTask(t)
    BY <1>2 DEF IsDb
  <2>2. PICK x : x = [t EXCEPT !.client = c]
    OBVIOUS
  <2>3. PICK y : y = [x EXCEPT !.mode = m]
    OBVIOUS
  <2>4. PICK z : z = [y EXCEPT !.port = p]
    OBVIOUS
  <2>5. PICK a, b, d : /\ a = [db EXCEPT !.tasks[i].client = c]
                       /\ b = [a EXCEPT !.tasks[i].mode = m]
                       /\ d = [b EXCEPT !.tasks[i].port = p]
    OBVIOUS
  <2>6. d = e
    BY <2>5
  <2>7. z = w
    <3>1. t \in [client: {t.client}, mode: {t.mode}, port: {t.port}, pw: {t.pw}, on: {t.on}]
      BY <2>1 DEF IsTask
    <3>2. x \in [client: {c}, mode: {t.mode}, port: {t.port}, pw: {t.pw}, on: {t.on}]
      BY <2>2, <3>1
    <3>3. y \in [client: {c}, mode: {m}, port: {t.port}, pw: {t.pw}, on: {t.on}]
      BY <2>3, <3>2
    <3>4. z \in [client: {c}, mode: {m}, port: {p}, pw: {t.pw}, on: {t.on}]
      BY <2>4, <3>3
    <3> QED BY <3>4
  <2>8. a = [k \in Kinds |-> IF k = "tasks" THEN [db["tasks"] EXCEPT ![i] = x] ELSE db[k]]
    BY <2>2, <2>5 DEF IsDb, Kinds
  <2>9. b = [k \in Kinds |-> IF k = "tasks" THEN [db["tasks"] EXCEPT ![i] = y] ELSE db[k]]
    <3>1. a["tasks"] = [db["tasks"] EXCEPT ![i] = x] /\ a["tasks"][i] = x
      BY <1>2, <2>8 DEF IsDb, Kinds
    <3>2. b = [a EXCEPT !["tasks"] = [a["tasks"] EXCEPT ![i] = y]]
      BY <2>3, <2>5, <3>1
    <3>3. [a["tasks"] EXCEPT ![i] = y] = [db["tasks"] EXCEPT ![i] = y]
      BY <3>1 DEF IsDb, Kinds
    <3> QED BY <2>8, <3>2, <3>3 DEF Kinds
  <2>10. d = [k \in Kinds |-> IF k = "tasks" THEN [db["tasks"] EXCEPT ![i] = z] ELSE db[k]]
    <3>1. b["tasks"] = [db["tasks"] EXCEPT ![i] = y] /\ b["tasks"][i] = y
      BY <1>2, <2>9 DEF IsDb, Kinds
    <3>2. d = [b EXCEPT !["tasks"] = [b["tasks"] EXCEPT ![i] = z]]
      BY <2>4, <2>5, <3>1
    <3>3. [b["tasks"] EXCEPT ![i] = z] = [db["tasks"] EXCEPT ![i] = z]
      BY <3>1 DEF IsDb, Kinds
    <3> QED BY <2>9, <3>2, <3>3 DEF Kinds
  <2> QED BY <2>6, <2>7, <2>10 DEF Written
<1> QED BY <1>1, <1>2

\* A handler that is done with the object it was asked for, or leaves it.
LEMMA WriteTurns ==
  ASSUME WebInv, NEW s \in Slot, NEW h, Doing(s, h), Still(s), UNCHANGED <<in, lastId, files, stuck, lost>>,
         h \in {"edit", "start", "close", "editHost", "editClient", "status", "shutHost"},
         \/ Done(s) /\ (NextOf(s) = "put" => serve[s].id \in in.tasks)
         \/ Refuse(s)
         \/ Go(s, [serve[s] EXCEPT !.at = <<>>])
  PROVE  Turn(s)
<1>1. CASE Done(s) /\ (NextOf(s) = "put" => serve[s].id \in in.tasks)
  <2>1. \A k \in Kinds : Fits(s, k, h, NextOf(s), serve[s].id)
    BY <1>1, DoneFits
  <2>2. Go(s, [serve[s] EXCEPT !.at = Tail(@), !.id = serve[s].id])
    BY <1>1, DoneIs
  <2> QED BY <2>1, <2>2, SameShapes, GoesTurns
<1>2. CASE Refuse(s)
  <2>1. h \notin {"saveTasks", "saveHosts", "saveClients"}
    OBVIOUS
  <2> QED BY <1>2, <2>1, RefuseTurns
<1>3. CASE Go(s, [serve[s] EXCEPT !.at = <<>>])
  <2>1. h \notin {"saveTasks", "saveHosts", "saveClients"}
    OBVIOUS
  <2>2. KindOf(Op(s)) = "none"
    <3>1. InOrder(Op(s), serve[s].at, 1) /\ serve[s].at[1] = h /\ Op(s) \in WebOps
      BY StandsAt
    <3>2. Op(s) \notin New
      BY <3>1 DEF InOrder, New
    <3> QED BY <3>1, <3>2 DEF KindOf, New
  <2>3. \A k \in Kinds : ~SaveAt(s, k)
    BY <2>1, SavesNot
  <2>4. /\ serve' = [serve EXCEPT ![s] = Idle]
        /\ answered' \subseteq answered \cup {<<Op(s), serve[s].id>>}
    BY <1>3, LeaveIs
  <2> QED BY <2>2, <2>3, <2>4, LeaveTurns
<1> QED BY <1>1, <1>2, <1>3

\* What a request asks for, by its step.
LEMMA AsksFor ==
  ASSUME WebInv, NEW s \in Slot, NEW h, Doing(s, h)
  PROVE  /\ h = "edit" => Op(s) = "edit" /\ IsTask(Posted(s).val)
         /\ h = "editHost" => Op(s) = "editHost" /\ IsHost(Posted(s).val)
         /\ h = "makeHost" => Op(s) = "addHost" /\ IsHost(Posted(s).val)
         /\ h = "makeClient" => Op(s) = "addClient" /\ Adds
         /\ Op(s) \notin New \cup {"delClient"} => serve[s].id = Posted(s).id
         /\ h \in {"edit", "start", "editHost", "editClient", "status", "shutHost"} =>
              serve[s].id = Posted(s).id
<1>1. /\ UnderWay(s) /\ InOrder(Op(s), serve[s].at, 1) /\ serve[s].at[1] = h
      /\ Op(s) = Posted(s).op /\ Op(s) \in WebOps
  BY StandsAt DEF Op, Posted
<1>2. /\ IsPost(Posted(s)) /\ (Op(s) \notin New \cup {"delClient"} => serve[s].id = Posted(s).id)
      /\ Op(s) = "addClient" => Adds
  BY <1>1 DEF UnderWay, Op, Posted, Adds
<1>3. /\ h = "edit" => Op(s) = "edit"
      /\ h = "makeHost" => Op(s) = "addHost"
      /\ h = "makeClient" => Op(s) = "addClient"
      /\ h = "editHost" => Op(s) = "editHost"
      /\ h \in {"edit", "start", "editHost", "editClient", "status", "shutHost"} =>
           Op(s) \notin New \cup {"delClient"}
  BY <1>1 DEF InOrder, New
<1> QED BY <1>1, <1>2, <1>3 DEF IsPost

LEMMA EditTurns == ASSUME WebInv, NEW s \in Slot, Edit(s) PROVE Turn(s)
<1> DEFINE id == Posted(s).id
           new == [Posted(s).val EXCEPT !.client = Posted(s).cl, !.on = Task(id).on]
<1>1. /\ Doing(s, "edit") /\ UNCHANGED <<in, lastId, runList, files, stuck, lost, todo, asked, budget>>
      /\ \/ id \notin in.tasks /\ Go(s, [serve[s] EXCEPT !.at = <<>>]) /\ UNCHANGED db
         \/ Refuse(s) /\ UNCHANGED db
         \/ /\ id \in in.tasks /\ Posted(s).cl \in in.clients /\ Refuse(s)
            /\ db' = [db EXCEPT !.tasks[id].client = new.client, !.tasks[id].mode = new.mode,
                                !.tasks[id].port = new.port]
         \/ /\ id \in in.tasks /\ Posted(s).cl \in in.clients /\ Done(s)
            /\ \E p : db' = [db EXCEPT !.tasks[id] = [new EXCEPT !.port = p]]
  BY DEF Edit
<1> HIDE DEF new
<1>2. IsTask(new) /\ new.client = Posted(s).cl
  <2>1. IsTask(Posted(s).val)
    BY <1>1, AsksFor
  <2>2. PICK u, c, o : u = Posted(s).val /\ c = Posted(s).cl /\ o = Task(id).on
    OBVIOUS
  <2>3. new = [u EXCEPT !.client = c, !.on = o]
    BY <2>2 DEF new
  <2> QED BY <2>1, <2>2, <2>3 DEF IsTask
<1>3. /\ "tasks" \in Kinds /\ IsDb(db) /\ stuck' \cup lost' \subseteq Kinds /\ runList' \subseteq Ids
      /\ \A i \in in.tasks : i \in Ids
  BY <1>1 DEF WebInv, WebShape, Kinds
<1>4. serve[s].id = id
  BY <1>1, AsksFor
<1>5. CASE UNCHANGED db
  BY <1>1, <1>3, <1>4, <1>5, StillIs, WriteTurns
<1>6. CASE /\ id \in in.tasks /\ Posted(s).cl \in in.clients /\ Refuse(s)
           /\ db' = [db EXCEPT !.tasks[id].client = new.client, !.tasks[id].mode = new.mode,
                               !.tasks[id].port = new.port]
  <2>1. PICK c, m, p : c = new.client /\ m = new.mode /\ p = new.port
    OBVIOUS
  <2>2. PICK w : IsTask(w) /\ w.client = c /\ Written(db, db', "tasks", id, w)
    BY <1>3, <1>6, <2>1, HalfEdit
  <2>3. Still(s)
    <3>1. w.client \in in.clients
      BY <1>2, <1>6, <2>1, <2>2
    <3> QED BY <1>1, <1>3, <2>2, <3>1, StillWrites
  <2> QED BY <1>1, <1>6, <2>3, WriteTurns
<1>7. CASE /\ id \in in.tasks /\ Posted(s).cl \in in.clients /\ Done(s)
           /\ \E p : db' = [db EXCEPT !.tasks[id] = [new EXCEPT !.port = p]]
  <2>1. PICK p : db' = [db EXCEPT !.tasks[id] = [new EXCEPT !.port = p]]
    BY <1>7
  <2>2. PICK v : v = [new EXCEPT !.port = p]
    OBVIOUS
  <2>3. IsTask(v) /\ v.client = Posted(s).cl
    BY <1>2, <2>2 DEF IsTask
  <2>4. Written(db, db', "tasks", id, v)
    BY <1>3, <2>1, <2>2, WritesTask
  <2>5. Still(s)
    BY <1>1, <1>3, <1>7, <2>3, <2>4, StillWrites
  <2> QED BY <1>1, <1>4, <1>7, <2>5, WriteTurns
<1> QED BY <1>1, <1>5, <1>6, <1>7

LEMMA StartTaskTurns == ASSUME WebInv, NEW s \in Slot, StartTask(s) PROVE Turn(s)
<1> DEFINE id == serve[s].id
<1>1. /\ Doing(s, "start") /\ UNCHANGED <<in, lastId, files, stuck, lost, todo, asked, budget>>
      /\ \/ /\ id \in in.tasks /\ runList' \in {runList, runList \cup {id}}
            /\ db' = [db EXCEPT !.tasks[id].on = TRUE] /\ Done(s)
         \/ /\ UNCHANGED <<db, runList>>
            /\ Go(s, [serve[s] EXCEPT !.at = <<>>]) \/ Refuse(s)
  BY DEF StartTask
<1>2. /\ "tasks" \in Kinds /\ IsDb(db) /\ stuck' \cup lost' \subseteq Kinds
      /\ \A i \in in.tasks : i \in Ids
  BY <1>1 DEF WebInv, WebShape, Kinds
<1>3. CASE /\ id \in in.tasks /\ runList' \in {runList, runList \cup {id}}
           /\ db' = [db EXCEPT !.tasks[id].on = TRUE] /\ Done(s)
  <2>0. PICK o : o = TRUE
    OBVIOUS
  <2>1. PICK v : v = [db.tasks[id] EXCEPT !.on = o]
    OBVIOUS
  <2>2. IsTask(db.tasks[id])
    BY <1>2, <1>3 DEF IsDb
  <2>3. IsTask(v) /\ v.client = db["tasks"][id].client
    BY <2>1, <2>2 DEF IsTask
  <2>4. Written(db, db', "tasks", id, v)
    BY <1>2, <1>3, <2>0, <2>1, WritesFields
  <2>5. runList' \subseteq Ids
    BY <1>2, <1>3 DEF WebInv, WebShape
  <2>6. Still(s)
    BY <1>1, <1>2, <1>3, <2>3, <2>4, <2>5, StillWrites
  <2> QED BY <1>1, <1>3, <2>6, WriteTurns
<1>4. CASE /\ UNCHANGED <<db, runList>>
           /\ Go(s, [serve[s] EXCEPT !.at = <<>>]) \/ Refuse(s)
  BY <1>1, <1>4, StillIs, WriteTurns
<1> QED BY <1>1, <1>3, <1>4

\* StopServer that drops the next n steps.
LEMMA CutTurns ==
  ASSUME WebInv, NEW s \in Slot, Doing(s, "close"), NEW n \in {4, 6}, CutTo(s, n), Op(s) # "stop",
         n = 6 => Op(s) = "delClient",
         UNCHANGED <<db, in, lastId, runList, files, stuck, lost, todo, asked>>
  PROVE  Turn(s)
<1>1. PICK r : r = serve[s]
  OBVIOUS
<1>2. /\ r = [req |-> r.req, at |-> r.at, id |-> r.id, ids |-> r.ids] /\ Ordered(Op(s), r.at)
      /\ InOrder(Op(s), r.at, 1) /\ r.at[1] = "close"
  BY <1>1, StandsAt DEF UnderWay
<1>3. 1 + n <= Len(r.at) /\ Free(r.at[1 + n]) /\ Len(r.at) \in Nat /\ 1 + n = n + 1 /\ n + 1 \in 1..Len(r.at)
  <2>1. Len(r.at) \in Nat
    BY <1>2 DEF Ordered
  <2>2. 1 + n <= Len(r.at) /\ Free(r.at[1 + n])
    BY <1>2 DEF InOrder
  <2> QED BY <2>1, <2>2
<1>4. PICK a : a = SubSeq(r.at, n + 1, Len(r.at))
  OBVIOUS
<1>5. Ordered(Op(s), a) /\ a # <<>> /\ Free(Head(a))
  BY <1>2, <1>3, <1>4, SuffixOrdered
<1>6. r \in [req: {r.req}, at: {r.at}, id: {r.id}, ids: {r.ids}]
  BY <1>2
<1>7. [r EXCEPT !.at = a] \in [req: {r.req}, at: {a}, id: {r.id}, ids: {r.ids}]
  BY <1>6
<1>8. [r EXCEPT !.at = a] = [req |-> r.req, at |-> a, id |-> r.id, ids |-> r.ids]
  BY <1>7
<1>9. PICK c : c = [r EXCEPT !.at = a]
  OBVIOUS
<1>10. Go(s, c) /\ c.at = a
  BY <1>1, <1>4, <1>8, <1>9 DEF CutTo
<1>11. /\ serve' = [serve EXCEPT ![s] = [req |-> serve[s].req, at |-> a, id |-> serve[s].id, ids |-> serve[s].ids]]
       /\ answered' = answered
  BY <1>1, <1>5, <1>8, <1>9, <1>10 DEF Go
<1>12. \A k \in Kinds : ~SaveAt(s, k)
  BY SavesNot
<1> QED BY <1>5, <1>11, <1>12, StillIs, JumpTurns

LEMMA StopServerTurns == ASSUME WebInv, NEW s \in Slot, StopServer(s) PROVE Turn(s)
<1> DEFINE id == serve[s].id
<1>1. /\ Doing(s, "close") /\ UNCHANGED <<in, lastId, runList, files, stuck, lost, todo, asked, budget>>
      /\ \/ CutTo(s, 4) /\ Op(s) \in {"del", "delClient", "edit"} /\ UNCHANGED db
         \/ CutTo(s, 6) /\ Op(s) = "delClient" /\ UNCHANGED db
         \/ Refuse(s) /\ UNCHANGED db
         \/ id \in in.tasks /\ db' = [db EXCEPT !.tasks[id].on = FALSE] /\ Done(s)
  <2>1. Posted(s).op = Op(s)
    BY DEF Posted, Op
  <2> QED BY <2>1 DEF StopServer, StopError
<1>2. CASE CutTo(s, 4) /\ Op(s) \in {"del", "delClient", "edit"} /\ UNCHANGED db
  BY <1>1, <1>2, CutTurns
<1>3. CASE CutTo(s, 6) /\ Op(s) = "delClient" /\ UNCHANGED db
  BY <1>1, <1>3, CutTurns
<1>4. CASE Refuse(s) /\ UNCHANGED db
  BY <1>1, <1>4, StillIs, WriteTurns
<1>5. CASE id \in in.tasks /\ db' = [db EXCEPT !.tasks[id].on = FALSE] /\ Done(s)
  <2>0. PICK o : o = FALSE
    OBVIOUS
  <2>1. PICK v : v = [db.tasks[id] EXCEPT !.on = o]
    OBVIOUS
  <2>2. /\ "tasks" \in Kinds /\ IsDb(db) /\ stuck' \cup lost' \subseteq Kinds /\ runList' \subseteq Ids
        /\ id \in Ids
    BY <1>1, <1>5 DEF WebInv, WebShape, Kinds
  <2>3. IsTask(db.tasks[id])
    BY <2>2 DEF IsDb
  <2>4. IsTask(v) /\ v.client = db["tasks"][id].client
    BY <2>1, <2>3 DEF IsTask
  <2>5. Written(db, db', "tasks", id, v)
    BY <1>5, <2>0, <2>1, <2>2, WritesFields
  <2>6. Still(s)
    BY <1>1, <2>2, <2>4, <2>5, StillWrites
  <2> QED BY <1>1, <1>5, <2>6, WriteTurns
<1> QED BY <1>1, <1>2, <1>3, <1>4, <1>5

LEMMA PutAfter ==
  ASSUME WebInv, NEW s \in Slot, NEW h, Doing(s, h),
         h \notin {"make", "copy", "edit", "close", "start"}
  PROVE  NextOf(s) # "put"
<1>1. NextOf(s) # "" => After(h, NextOf(s))
  BY NextIs
<1> QED BY <1>1 DEF After

LEMMA AddHostTurns == ASSUME WebInv, NEW s \in Slot, AddHost(s) PROVE Turn(s)
<1> DEFINE h == [Posted(s).val EXCEPT !.client = Posted(s).cl, !.loc = IF @ = "" THEN "/" ELSE @]
<1>1. PICK id : /\ id = lastId["hosts"] + 1 /\ id <= Cap /\ lastId' = [lastId EXCEPT !["hosts"] = id]
                /\ Doing(s, "makeHost") /\ UNCHANGED <<in, runList, files, stuck, lost, todo, asked, budget>>
                /\ \/ Refuse(s) /\ UNCHANGED db
                   \/ /\ Posted(s).cl \in in.clients /\ db' = [db EXCEPT !.hosts[id] = h]
                      /\ Go(s, [serve[s] EXCEPT !.at = Tail(@), !.id = id])
  BY DEF AddHost
<1>2. /\ "hosts" \in Kinds /\ "hosts" # "tasks" /\ "hosts" # "clients" /\ IsDb(db)
      /\ "makeHost" \notin {"saveTasks", "saveHosts", "saveClients"}
  BY DEF Kinds, WebInv, WebShape
<1>3. CASE Refuse(s) /\ UNCHANGED db
  BY <1>1, <1>2, <1>3, DrawTurns
<1>4. CASE /\ Posted(s).cl \in in.clients /\ db' = [db EXCEPT !.hosts[id] = h]
           /\ Go(s, [serve[s] EXCEPT !.at = Tail(@), !.id = id])
  <2>1. PICK u, c, l : u = Posted(s).val /\ c = Posted(s).cl /\ l = IF u.loc = "" THEN "/" ELSE u.loc
    OBVIOUS
  <2>2. PICK v : v = [u EXCEPT !.client = c, !.loc = l]
    OBVIOUS
  <2>3. IsHost(u)
    BY <1>1, <2>1, AsksFor
  <2>4. IsHost(v) /\ v.client = c
    BY <2>2, <2>3 DEF IsHost
  <2>5. h = v
    BY <2>1, <2>2
  <2>6. Written(db, db', "hosts", id, v)
    BY <1>2, <1>4, <2>5, WritesTask
  <2> QED BY <1>1, <1>2, <1>4, <2>1, <2>4, <2>6, MakeTurns
<1> QED BY <1>1, <1>3, <1>4

LEMMA EditHostTurns == ASSUME WebInv, NEW s \in Slot, EditHost(s) PROVE Turn(s)
<1> DEFINE id == Posted(s).id
           h == [Posted(s).val EXCEPT !.client = Posted(s).cl]
<1>1. /\ Doing(s, "editHost") /\ UNCHANGED <<in, lastId, runList, files, stuck, lost, todo, asked, budget>>
      /\ \/ Go(s, [serve[s] EXCEPT !.at = <<>>]) /\ UNCHANGED db
         \/ Refuse(s) /\ UNCHANGED db
         \/ /\ id \in in.hosts /\ Posted(s).cl \in in.clients /\ Done(s)
            /\ db' = [db EXCEPT !.hosts[id] = [h EXCEPT !.shut = Host(id).shut]]
  BY DEF EditHost
<1>2. /\ "hosts" \in Kinds /\ "hosts" # "tasks" /\ IsDb(db) /\ stuck' \cup lost' \subseteq Kinds /\ runList' \subseteq Ids
      /\ NextOf(s) # "put"
  <2>1. NextOf(s) # "put"
    BY <1>1, PutAfter
  <2> QED BY <1>1, <2>1 DEF WebInv, WebShape, Kinds
<1>3. CASE UNCHANGED db
  BY <1>1, <1>2, <1>3, StillIs, WriteTurns
<1>4. CASE /\ id \in in.hosts /\ Posted(s).cl \in in.clients /\ Done(s)
           /\ db' = [db EXCEPT !.hosts[id] = [h EXCEPT !.shut = Host(id).shut]]
  <2>1. PICK u, c, b : u = Posted(s).val /\ c = Posted(s).cl /\ b = Host(id).shut
    OBVIOUS
  <2>2. PICK w : w = [u EXCEPT !.client = c]
    OBVIOUS
  <2>3. PICK v : v = [w EXCEPT !.shut = b]
    OBVIOUS
  <2>4. IsHost(u)
    BY <1>1, <2>1, AsksFor
  <2>5. IsHost(w) /\ w.client = c
    BY <2>2, <2>4 DEF IsHost
  <2>6. IsHost(v) /\ v.client = c
    BY <2>3, <2>5 DEF IsHost
  <2>7. Written(db, db', "hosts", id, v)
    BY <1>2, <1>4, <2>1, <2>2, <2>3, WritesTask
  <2>8. Still(s)
    BY <1>1, <1>2, <1>4, <2>1, <2>6, <2>7, StillWrites
  <2> QED BY <1>1, <1>2, <1>4, <2>8, WriteTurns
<1> QED BY <1>1, <1>3, <1>4

LEMMA HostStopTurns == ASSUME WebInv, NEW s \in Slot, HostStop(s) PROVE Turn(s)
<1> DEFINE id == Posted(s).id
<1>1. /\ Doing(s, "shutHost") /\ UNCHANGED <<in, lastId, runList, files, stuck, lost, todo, asked, budget>>
      /\ \/ Refuse(s) /\ UNCHANGED db
         \/ id \in in.hosts /\ db' = [db EXCEPT !.hosts[id].shut = ~Posted(s).on] /\ Done(s)
  BY DEF HostStop
<1>2. /\ "hosts" \in Kinds /\ "hosts" # "tasks" /\ IsDb(db) /\ stuck' \cup lost' \subseteq Kinds /\ runList' \subseteq Ids
      /\ \A i \in in.hosts : i \in Ids
  BY <1>1 DEF WebInv, WebShape, Kinds
<1>3. NextOf(s) # "put"
  BY <1>1, PutAfter
<1>4. CASE Refuse(s) /\ UNCHANGED db
  BY <1>1, <1>4, StillIs, WriteTurns
<1>5. CASE id \in in.hosts /\ db' = [db EXCEPT !.hosts[id].shut = ~Posted(s).on] /\ Done(s)
  <2>1. PICK u, b : u = db["hosts"][id] /\ b = ~Posted(s).on
    OBVIOUS
  <2>2. PICK v : v = [u EXCEPT !.shut = b]
    OBVIOUS
  <2>3. IsHost(u)
    BY <1>2, <1>5, <2>1 DEF IsDb
  <2>4. IsHost(v) /\ v.client = u.client
    BY <2>2, <2>3 DEF IsHost
  <2>5. Written(db, db', "hosts", id, v)
    BY <1>2, <1>5, <2>1, <2>2, WritesFields
  <2>6. Still(s)
    BY <1>1, <1>2, <2>1, <2>4, <2>5, StillWrites
  <2> QED BY <1>1, <1>3, <1>5, <2>6, WriteTurns
<1> QED BY <1>1, <1>4, <1>5

LEMMA AddClientTurns == ASSUME WebInv, NEW s \in Slot, AddClient(s) PROVE Turn(s)
<1>1. PICK id : /\ id = lastId["clients"] + 1 /\ id <= Cap /\ lastId' = [lastId EXCEPT !["clients"] = id]
                /\ Doing(s, "makeClient") /\ UNCHANGED <<in, runList, files, stuck, lost, todo, asked, budget>>
                /\ \/ Refuse(s) /\ UNCHANGED db
                   \/ /\ \E v : db' = [db EXCEPT !.clients[id] = v]
                      /\ Go(s, [serve[s] EXCEPT !.at = Tail(@), !.id = id])
  BY DEF AddClient
<1>2. /\ "clients" \in Kinds /\ "clients" # "tasks" /\ "clients" # "hosts" /\ IsDb(db)
      /\ "makeClient" \notin {"saveTasks", "saveHosts", "saveClients"} /\ "clients" \notin Owned
  BY DEF Kinds, WebInv, WebShape, Owned
<1>3. CASE Refuse(s) /\ UNCHANGED db
  BY <1>1, <1>2, <1>3, DrawTurns
<1>4. CASE /\ \E v : db' = [db EXCEPT !.clients[id] = v]
           /\ Go(s, [serve[s] EXCEPT !.at = Tail(@), !.id = id])
  <2>1. PICK v : db' = [db EXCEPT !.clients[id] = v]
    BY <1>4
  <2>2. Written(db, db', "clients", id, v)
    BY <1>2, <2>1, WritesTask
  <2>3. Adds
    BY <1>1, AsksFor
  <2> QED BY <1>1, <1>2, <1>4, <2>2, <2>3, MakeTurns
<1> QED BY <1>1, <1>3, <1>4

\* A step that writes to a client.
LEMMA ClientTurns ==
  ASSUME WebInv, NEW s \in Slot, NEW h \in {"editClient", "status"}, Doing(s, h),
         UNCHANGED <<in, lastId, runList, files, stuck, lost, todo, asked>>,
         \/ Refuse(s) /\ UNCHANGED db
         \/ Done(s) /\ \E i, v : Written(db, db', "clients", i, v)
  PROVE  Turn(s)
<1>1. /\ "clients" \in Kinds /\ "clients" # "tasks" /\ "clients" # "hosts" /\ "clients" \notin Owned
      /\ stuck' \cup lost' \subseteq Kinds /\ runList' \subseteq Ids
  BY DEF Kinds, WebInv, WebShape, Owned
<1>2. NextOf(s) # "put"
  BY PutAfter
<1>3. CASE Refuse(s) /\ UNCHANGED db
  BY <1>3, StillIs, WriteTurns
<1>4. CASE Done(s) /\ \E i, v : Written(db, db', "clients", i, v)
  <2>1. PICK i, v : Written(db, db', "clients", i, v)
    BY <1>4
  <2>2. Still(s)
    BY <1>1, <2>1, StillWrites
  <2> QED BY <1>2, <1>4, <2>2, WriteTurns
<1> QED BY <1>3, <1>4

LEMMA EditClientTurns == ASSUME WebInv, NEW s \in Slot, EditClient(s) PROVE Turn(s)
<1>1. /\ Doing(s, "editClient") /\ UNCHANGED <<in, lastId, runList, files, stuck, lost, todo, asked, budget>>
      /\ \/ Refuse(s) /\ UNCHANGED db
         \/ Done(s) /\ \E i, v : db' = [db EXCEPT !.clients[i] = v]
  BY DEF EditClient
<1>2. (\E i, v : db' = [db EXCEPT !.clients[i] = v]) => \E i, v : Written(db, db', "clients", i, v)
  <2>1. IsDb(db)
    BY DEF WebInv, WebShape
  <2>2. ASSUME NEW i, NEW v, db' = [db EXCEPT !.clients[i] = v] PROVE Written(db, db', "clients", i, v)
    BY <2>1, <2>2, WritesTask
  <2> QED BY <2>2
<1> QED BY <1>1, <1>2, ClientTurns

LEMMA ChangeStatusTurns == ASSUME WebInv, NEW s \in Slot, ChangeStatus(s) PROVE Turn(s)
<1>1. /\ Doing(s, "status") /\ UNCHANGED <<in, lastId, runList, files, stuck, lost, todo, asked, budget>>
      /\ \/ Refuse(s) /\ UNCHANGED db
         \/ Done(s) /\ \E i, b : db' = [db EXCEPT !.clients[i].on = b]
  BY DEF ChangeStatus
<1>2. (\E i, b : db' = [db EXCEPT !.clients[i].on = b]) => \E i, v : Written(db, db', "clients", i, v)
  <2>1. IsDb(db)
    BY DEF WebInv, WebShape
  <2>2. ASSUME NEW i, NEW b, db' = [db EXCEPT !.clients[i].on = b]
        PROVE  Written(db, db', "clients", i, [db.clients[i] EXCEPT !.on = b])
    BY <2>1, <2>2, WritesFields
  <2> QED BY <2>2
<1> QED BY <1>1, <1>2, ClientTurns

\* The loops of delClient.
LEMMA LoopTurns ==
  ASSUME WebInv, NEW s \in Slot, NEW h \in {"tasksOfClient", "nextTask", "hostsOfClient", "nextHost"},
         Doing(s, h), NEW c, serve' = [serve EXCEPT ![s] = c], UNCHANGED answered,
         UNCHANGED <<db, in, lastId, runList, files, stuck, lost, todo, asked>>,
         NEW a, Ordered("delClient", a), Free(Head(a)), NEW i, NEW x,
         c = [req |-> serve[s].req, at |-> a, id |-> i, ids |-> x]
  PROVE  Turn(s)
<1>1. Op(s) = "delClient"
  <2>1. InOrder(Op(s), serve[s].at, 1) /\ serve[s].at[1] = h
    BY StandsAt
  <2> QED BY <2>1 DEF InOrder
<1>2. \A k \in Kinds : ~SaveAt(s, k)
  BY SavesNot
<1> QED BY <1>1, <1>2, StillIs, JumpTurns

LEMMA DelClientLoop ==
  ASSUME WebInv, NEW s \in Slot, NEW h \in {"nextTask", "nextHost"}, Doing(s, h),
         NEW ids, NEW body, NEW next, Loop(s, ids, body, next),
         UNCHANGED <<db, in, lastId, runList, files, stuck, lost, todo, asked>>,
         Ordered("delClient", body), Free(Head(body)),
         next # <<>> => Ordered("delClient", next) /\ Free(Head(next))
  PROVE  Turn(s)
<1>1. PICK r : r = serve[s]
  OBVIOUS
<1>2. r = [req |-> r.req, at |-> r.at, id |-> r.id, ids |-> r.ids]
  BY <1>1, StandsAt DEF UnderWay
<1>3. r \in [req: {r.req}, at: {r.at}, id: {r.id}, ids: {r.ids}]
  BY <1>2
<1>4. ASSUME NEW a, NEW i, NEW x
      PROVE  [r EXCEPT !.at = a, !.id = i, !.ids = x] = [req |-> r.req, at |-> a, id |-> i, ids |-> x]
  <2>1. PICK v : v = [r EXCEPT !.at = a, !.id = i, !.ids = x]
    OBVIOUS
  <2>2. v \in [req: {r.req}, at: {a}, id: {i}, ids: {x}]
    BY <1>3, <2>1
  <2>3. v = [req |-> r.req, at |-> a, id |-> i, ids |-> x]
    BY <2>2
  <2> QED BY <2>1, <2>3
<1>5. PICK a, i, x, c : /\ c = [req |-> r.req, at |-> a, id |-> i, ids |-> x] /\ Go(s, c)
                        /\ a = body \/ a = next
  <2>1. CASE ids = {}
    <3>1. PICK i, x : i = Posted(s).id /\ x = {}
      OBVIOUS
    <3>2. PICK c : c = [r EXCEPT !.at = next, !.id = i, !.ids = x]
      OBVIOUS
    <3>3. c = [req |-> r.req, at |-> next, id |-> i, ids |-> x]
      BY <1>4, <3>2
    <3>4. Go(s, c)
      BY <1>1, <2>1, <3>1, <3>2 DEF Loop
    <3> QED BY <3>3, <3>4
  <2>2. CASE ids # {}
    <3>1. PICK i, x : i = Min(ids) /\ x = ids \ {Min(ids)}
      OBVIOUS
    <3>2. PICK c : c = [r EXCEPT !.at = body, !.id = i, !.ids = x]
      OBVIOUS
    <3>3. c = [req |-> r.req, at |-> body, id |-> i, ids |-> x]
      BY <1>4, <3>2
    <3>4. Go(s, c)
      BY <1>1, <2>2, <3>1, <3>2 DEF Loop
    <3> QED BY <3>3, <3>4
  <2> QED BY <2>1, <2>2
<1>7. c.at = a /\ c.req = r.req /\ c.id = i
  BY <1>5
<1>8. Go(s, c)
  BY <1>5
<1>9. CASE a = <<>>
  <2>1. serve' = [serve EXCEPT ![s] = Idle] /\ answered' \subseteq answered \cup {<<Op(s), i>>}
    BY <1>1, <1>7, <1>8, <1>9 DEF Go, Op
  <2>2. Op(s) = "delClient"
    <3>1. InOrder(Op(s), serve[s].at, 1) /\ serve[s].at[1] = h
      BY StandsAt
    <3> QED BY <3>1 DEF InOrder
  <2>3. KindOf(Op(s)) = "none"
    BY <2>2 DEF KindOf
  <2>4. \A k \in Kinds : ~SaveAt(s, k)
    BY SavesNot
  <2> QED BY <2>1, <2>3, <2>4, StillIs, LeaveTurns
<1>10. CASE a # <<>>
  <2>1. serve' = [serve EXCEPT ![s] = c] /\ answered' = answered
    BY <1>7, <1>8, <1>10 DEF Go
  <2>2. Ordered("delClient", a) /\ Free(Head(a))
    BY <1>5, <1>10
  <2> QED BY <1>1, <1>5, <2>1, <2>2, LoopTurns
<1> QED BY <1>9, <1>10

\* delClient looks its tasks, or its hosts, up.
LEMMA LookTurns ==
  ASSUME WebInv, NEW s \in Slot, NEW h \in {"tasksOfClient", "hostsOfClient"}, Doing(s, h),
         NEW g \in {"nextTask", "nextHost"}, NEW x,
         serve' = [serve EXCEPT ![s].at = <<g>>, ![s].ids = x], UNCHANGED answered,
         UNCHANGED <<db, in, lastId, runList, files, stuck, lost, todo, asked>>
  PROVE  Turn(s)
<1>1. PICK r : r = serve[s]
  OBVIOUS
<1>2. r = [req |-> r.req, at |-> r.at, id |-> r.id, ids |-> r.ids]
  BY <1>1, StandsAt DEF UnderWay
<1>3. PICK a : a = <<g>>
  OBVIOUS
<1>4. [r EXCEPT !.at = a, !.ids = x] = [req |-> r.req, at |-> a, id |-> r.id, ids |-> x]
  <2>1. r \in [req: {r.req}, at: {r.at}, id: {r.id}, ids: {r.ids}]
    BY <1>2
  <2>2. PICK v : v = [r EXCEPT !.at = a, !.ids = x]
    OBVIOUS
  <2>3. v \in [req: {r.req}, at: {a}, id: {r.id}, ids: {x}]
    BY <2>1, <2>2
  <2>4. v = [req |-> r.req, at |-> a, id |-> r.id, ids |-> x]
    BY <2>3
  <2> QED BY <2>2, <2>4
<1>5. serve' = [serve EXCEPT ![s] = [r EXCEPT !.at = a, !.ids = x]]
  BY <1>1, <1>3 DEF WebInv, WebShape
<1>6. Ordered("delClient", a) /\ Free(Head(a))
  <2>1. Ordered("delClient", a)
    BY <1>3, LoopsOrdered
  <2>2. Head(a) = g
    BY <1>3
  <2> QED BY <2>1, <2>2 DEF Free
<1>7. PICK c : c = [r EXCEPT !.at = a, !.ids = x]
  OBVIOUS
<1> QED BY <1>1, <1>4, <1>5, <1>6, <1>7, LoopTurns

LEMMA DelTasksTurns == ASSUME WebInv, NEW s \in Slot, DelTasks(s) PROVE Turn(s)
<1>1. UNCHANGED <<db, in, lastId, runList, files, stuck, lost, todo, asked>>
  BY DEF DelTasks
<1>2. CASE /\ Doing(s, "tasksOfClient") /\ UNCHANGED answered
           /\ \E x : serve' = [serve EXCEPT ![s].at = <<"nextTask">>, ![s].ids = x]
  BY <1>1, <1>2, LookTurns
<1>3. CASE /\ Doing(s, "nextTask")
           /\ Loop(s, serve[s].ids, DelTask \o <<"nextTask">>, <<"hostsOfClient">>)
  <2>1. PICK b, n : b = DelTask \o <<"nextTask">> /\ n = <<"hostsOfClient">>
    OBVIOUS
  <2>2. Head(b) = "close" /\ Head(n) = "hostsOfClient"
    BY <2>1 DEF DelTask
  <2>3. Ordered("delClient", b) /\ Ordered("delClient", n)
    BY <2>1, LoopsOrdered
  <2>4. Free(Head(b)) /\ Free(Head(n))
    BY <2>2 DEF Free
  <2>5. Loop(s, serve[s].ids, b, n)
    BY <1>3, <2>1
  <2> QED BY <1>1, <1>3, <2>3, <2>4, <2>5, DelClientLoop
<1> QED BY <1>2, <1>3 DEF DelTasks

LEMMA DelHostsTurns == ASSUME WebInv, NEW s \in Slot, DelHosts(s) PROVE Turn(s)
<1>1. UNCHANGED <<db, in, lastId, runList, files, stuck, lost, todo, asked>>
  BY DEF DelHosts
<1>2. CASE /\ Doing(s, "hostsOfClient") /\ UNCHANGED answered
           /\ \E x : serve' = [serve EXCEPT ![s].at = <<"nextHost">>, ![s].ids = x]
  BY <1>1, <1>2, LookTurns
<1>3. CASE /\ Doing(s, "nextHost")
           /\ Loop(s, serve[s].ids, <<"dropHost", "saveHosts", "nextHost">>, <<>>)
  <2>1. PICK b, n : b = <<"dropHost", "saveHosts", "nextHost">> /\ n = <<>>
    OBVIOUS
  <2>2. Head(b) = "dropHost"
    BY <2>1
  <2>3. Ordered("delClient", b)
    BY <2>1, LoopsOrdered
  <2>4. Free(Head(b))
    BY <2>2 DEF Free
  <2>5. Loop(s, serve[s].ids, b, n)
    BY <1>3, <2>1
  <2> QED BY <1>1, <1>3, <2>1, <2>3, <2>4, <2>5, DelClientLoop
<1> QED BY <1>2, <1>3 DEF DelHosts

\* Every step of a handler is a turn.
LEMMA StepTurns == ASSUME WebInv, NEW s \in Slot, WebStep(s) \/ SaveFails(s) \/ SaveLost(s) PROVE Turn(s)
BY AddTurns, CopyTurns, EditTurns, StoreTaskTurns, AddTaskTurns, StartTaskTurns, StopServerTurns,
   ForgetTurns, DropTaskTurns, AddHostTurns, StoreHostTurns, EditHostTurns, DelHostTurns,
   HostStopTurns, AddClientTurns, StoreClientTurns, EditClientTurns, ChangeStatusTurns,
   IpWhiteAuthTurns, DropClientTurns, DelTasksTurns, DelHostsTurns, SaveTurns, SaveFailsTurns, SaveLostTurns
DEF WebStep

-----------------------------------------------------------------------------
(* NPS' console: a start of the server.                                    *)

\* The largest of finitely many ids.
LEMMA MaxIs ==
  ASSUME NEW n \in Nat, NEW S, S \subseteq 0..n, S # {}
  PROVE  Max(S) \in S /\ \A y \in S : y <= Max(S)
<1> DEFINE D(x) == {y \in S : y > x}
           F == {D(x) : x \in S}
           R == StrictSubsetOrdering(S)
<1>1. F \subseteq FiniteSubsetsOf(S) /\ F # {}
  <2>1. IsFiniteSet(S)
    <3>1. IsFiniteSet(0..n)
      BY FS_Interval
    <3> QED BY <3>1, FS_Subset
  <2>2. \A x \in S : D(x) \subseteq S /\ IsFiniteSet(D(x))
    BY <2>1, FS_Subset
  <2> QED BY <2>2 DEF FiniteSubsetsOf
<1>2. IsWellFoundedOn(R, FiniteSubsetsOf(S))
  BY FS_StrictSubsetOrderingWellFounded
<1> HIDE DEF R
<1>3. \E d \in F : \A e \in F : ~(<<e, d>> \in R)
  <2> HIDE DEF F
  <2> QED BY <1>1, <1>2, WFMin
<1>4. PICK x \in S : \A y \in S : ~(<<D(y), D(x)>> \in R)
  BY <1>3
<1>5. ASSUME NEW y \in S, y > x PROVE FALSE
  <2>1. x \in Int /\ y \in Int /\ \A z \in S : z \in Int
    OBVIOUS
  <2>2. D(y) \subseteq D(x) /\ y \in D(x) /\ y \notin D(y)
    <3>1. \A z \in S : z > y => z > x
      BY <1>5, <2>1
    <3>2. ~(y > y)
      BY <2>1
    <3> QED BY <1>5, <3>1, <3>2
  <2>3. D(y) \in SUBSET S /\ D(x) \in SUBSET S /\ D(y) # D(x)
    BY <2>2
  <2>4. <<D(y), D(x)>> \in R
    BY <2>2, <2>3 DEF R, StrictSubsetOrdering
  <2> QED BY <1>4, <2>4
<1>6. \A y \in S : x >= y
  <2>1. \A y \in S : y \in Int
    OBVIOUS
  <2> QED BY <1>5, <2>1
<1>7. PICK m : m = Max(S)
  OBVIOUS
<1>8. m \in S /\ \A y \in S : m >= y
  BY <1>6, <1>7 DEF Max
<1> QED BY <1>7, <1>8

\* The ids of a map, and the counter that was set from them.
LEMMA IncreaseIs ==
  ASSUME WebsAssumption, NEW S, S \subseteq Ids
  PROVE  Max(S \cup {0}) \in 0..Cap /\ S \subseteq 1..Max(S \cup {0})
<1>1. Cap \in Nat /\ S \cup {0} \subseteq 0..Cap
  BY DEF WebsAssumption, Ids
<1>2. PICK m : m = Max(S \cup {0})
  OBVIOUS
<1>3. m \in S \cup {0} /\ \A y \in S \cup {0} : y <= m
  <2>1. PICK T : T = S \cup {0}
    OBVIOUS
  <2> QED BY <1>1, <1>2, <2>1, MaxIs
<1>4. \A y \in S : y \in 1..m
  BY <1>1, <1>3 DEF Ids
<1> QED BY <1>1, <1>2, <1>3, <1>4

\* A server that starts, with nobody to serve yet.
LEMMA NobodyYet ==
  ASSUME serve' = [s \in Slot |-> Idle]
  PROVE  /\ \A s \in Slot : serve'[s] = Idle
         /\ \A s \in Slot, k \in Kinds : ~PutAt(s, k)' /\ ~SaveAt(s, k)' /\ ~RunAt(s, k)'
         /\ \A s \in Slot, k \in Kinds : Owes(s, k)' /\ Fresh(s, k)'
<1>1. \A s \in Slot : serve'[s] = Idle
  OBVIOUS
<1>2. \A s \in Slot, k \in Kinds : ~PutAt(s, k)' /\ ~SaveAt(s, k)' /\ ~RunAt(s, k)'
  BY <1>1, IdleDoes2 DEF PutAt, SaveAt, RunAt
<1> QED BY <1>1, <1>2 DEF Owes, Fresh

LEMMA RestartKeeps == ASSUME WebInv, WebsAssumption, Restart PROVE WebInv'
<1>1. /\ in' = [clients |-> LoadClients, tasks |-> LoadTasks, hosts |-> LoadHosts]
      /\ db' = [k \in Kinds |-> [i \in Ids |-> IF i \in DOMAIN files[k] THEN files[k][i] ELSE db[k][i]]]
      /\ lastId' = [clients |-> Increase(LoadClients), tasks |-> Increase(LoadTasks),
                    hosts |-> Increase(LoadHosts)]
      /\ runList' \subseteq LoadTasks /\ stuck' = {} /\ lost' = {} /\ answered' = {} /\ serve' = [s \in Slot |-> Idle]
      /\ UNCHANGED <<files, todo, asked>>
  BY DEF Restart
<1>2. /\ LoadClients = DOMAIN files["clients"]
      /\ LoadTasks = {i \in DOMAIN files["tasks"] : files["tasks"][i].client \in LoadClients}
      /\ LoadHosts = {i \in DOMAIN files["hosts"] : files["hosts"][i].client \in LoadClients}
  BY DEF LoadClients, LoadTasks, LoadHosts
<1>3. LoadClients \subseteq Ids /\ LoadTasks \subseteq Ids /\ LoadHosts \subseteq Ids
  BY <1>2 DEF WebInv, WebShape, Kinds
<1>4. /\ in'["clients"] = LoadClients /\ in'["tasks"] = LoadTasks /\ in'["hosts"] = LoadHosts
      /\ lastId'["clients"] = Increase(LoadClients) /\ lastId'["tasks"] = Increase(LoadTasks)
      /\ lastId'["hosts"] = Increase(LoadHosts)
  BY <1>1
<1> HIDE DEF LoadClients, LoadTasks, LoadHosts
<1>5. \A k \in Kinds : in'[k] \subseteq Ids /\ lastId'[k] \in 0..Cap /\ in'[k] \subseteq 1..lastId'[k]
  BY <1>3, <1>4, IncreaseIs DEF Kinds, Increase
<1>6. in' \in [Kinds -> SUBSET Ids] /\ lastId' \in [Kinds -> 0..Cap]
  <2>1. DOMAIN in' = Kinds /\ DOMAIN lastId' = Kinds
    BY <1>1 DEF Kinds
  <2>2. in' = [k \in Kinds |-> in'[k]] /\ lastId' = [k \in Kinds |-> lastId'[k]]
    BY <1>1, <1>4 DEF Kinds
  <2> QED BY <1>5, <2>2
<1>7. IsDb(db')
  <2>1. /\ \A k \in Kinds, i \in Ids : db'[k][i] = IF i \in DOMAIN files[k] THEN files[k][i] ELSE db[k][i]
        /\ db' = [k \in Kinds |-> [i \in Ids |-> db'[k][i]]]
    BY <1>1
  <2>2. \A i \in Ids : IsTask(db["tasks"][i]) /\ IsHost(db["hosts"][i])
    BY DEF WebInv, WebShape, IsDb
  <2>3. /\ \A i \in DOMAIN files["tasks"] : IsTask(files["tasks"][i])
        /\ \A i \in DOMAIN files["hosts"] : IsHost(files["hosts"][i])
    BY DEF WebInv, WebShape
  <2>4. \A i \in Ids : IsTask(db'["tasks"][i]) /\ IsHost(db'["hosts"][i])
    BY <2>1, <2>2, <2>3 DEF Kinds
  <2> QED BY <2>1, <2>4 DEF IsDb
<1>8. serve' = [s \in Slot |-> serve'[s]] /\ \A s \in Slot : serve'[s] = Idle
  BY <1>1
<1>9. WebShape'
  BY <1>1, <1>3, <1>5, <1>6, <1>7, <1>8 DEF WebInv, WebShape
<1>10. \A k \in Owned : /\ in'[k] = {i \in DOMAIN files[k] : files[k][i].client \in DOMAIN files["clients"]}
                        /\ \A i \in in'[k] : db'[k][i] = files[k][i]
  <2>1. \A k \in Owned : in'[k] = {i \in DOMAIN files[k] : files[k][i].client \in DOMAIN files["clients"]}
    BY <1>2, <1>4 DEF Owned
  <2>2. \A k \in Owned : k \in Kinds /\ in'[k] \subseteq Ids
    BY <1>5 DEF Owned, Kinds
  <2> QED BY <1>1, <2>1, <2>2
<1>11. Refers'
  <2>1. in'["clients"] = DOMAIN files["clients"] /\ files' = files /\ asked' = asked
    BY <1>1, <1>2, <1>4
  <2>2. \A k \in Owned : \A i \in DOMAIN files[k] : Filed(files[k][i].client)
    BY DEF WebInv, Refers
  <2>3. \A c : FiledIn(files', asked', c) <=> Filed(c)
    BY <2>1 DEF Filed
  <2>4. \A c \in in'["clients"] : FiledIn(files', asked', c)
    BY <2>1 DEF FiledIn
  <2>5. \A k \in Owned : /\ \A i \in in'[k] : FiledIn(files', asked', db'[k][i].client)
                         /\ \A i \in DOMAIN files'[k] : FiledIn(files', asked', files'[k][i].client)
    BY <1>10, <2>1, <2>2, <2>3
  <2> QED BY <2>1, <2>4, <2>5 DEF Refers, Filed
<1>12. ASSUME NEW k \in Kinds PROVE Saved(k)'
  <2>1. CASE k = "clients"
    BY <1>1, <1>2, <1>4, <2>1 DEF Saved
  <2>2. CASE k \in Owned
    <3>1. \A i \in DOMAIN files[k] \ in'[k] : files[k][i].client \notin DOMAIN files["clients"]
      BY <1>10, <2>2
    <3>2. \A i \in DOMAIN files[k] : Filed(files[k][i].client)
      BY <2>2 DEF WebInv, Refers
    <3>3. \A i \in DOMAIN files[k] \ in'[k] : Adds \/ Drops(files[k][i].client)
      BY <3>1, <3>2 DEF Filed, FiledIn, Adds, Drops
    <3>4. in'[k] \subseteq DOMAIN files[k]
      BY <1>10, <2>2
    <3> QED BY <1>1, <2>2, <3>3, <3>4 DEF Saved, Adds, Drops
  <2> QED BY <2>1, <2>2 DEF Kinds, Owned
<1>13. \A k \in Kinds : Remembered(k)'
  BY <1>1 DEF Remembered
<1> QED BY <1>1, <1>8, <1>9, <1>11, <1>12, <1>13, NobodyYet DEF WebInv

-----------------------------------------------------------------------------
(* NPS' console: a request comes.                                          *)

\* No handler starts by putting, saving or running anything.
LEMMA StepsStart == \A op \in WebOps : Free(Head(Steps(op)))
<1>1. /\ Head(Steps("add")) = "make" /\ Head(Steps("copy")) = "copy" /\ Head(Steps("edit")) = "edit"
      /\ Head(Steps("stop")) = "close" /\ Head(Steps("start")) = "start" /\ Head(Steps("del")) = "close"
  BY DEF Steps, DelTask
<1>2. /\ Head(Steps("addHost")) = "makeHost" /\ Head(Steps("editHost")) = "editHost"
      /\ Head(Steps("delHost")) = "dropHost" /\ Head(Steps("shutHost")) = "shutHost"
  BY DEF Steps
<1>3. /\ Head(Steps("addClient")) = "makeClient" /\ Head(Steps("editClient")) = "editClient"
      /\ Head(Steps("changeStatus")) = "status" /\ Head(Steps("delClient")) = "dropClient"
      /\ Head(Steps("white")) = "white"
  BY DEF Steps
<1> QED BY <1>1, <1>2, <1>3 DEF WebOps, Free

\* What Prepare makes of a request.
LEMMA PrepareIs ==
  ASSUME NEW q, IsPost(q)
  PROVE  IsPost(Prepare(q)) /\ Prepare(q).op = q.op /\ Prepare(q).id = q.id
<1>1. q \in [op: {q.op}, who: {q.who}, id: {q.id}, cl: {q.cl}, val: {q.val}, on: {q.on}, no: {q.no}]
  BY DEF IsPost
<1>2. PICK c, r : c = q.who /\ r = [q EXCEPT !.cl = c]
  OBVIOUS
<1>3. r \in [op: {q.op}, who: {q.who}, id: {q.id}, cl: {c}, val: {q.val}, on: {q.on}, no: {q.no}]
  BY <1>1, <1>2
<1>4. r = [op |-> r.op, who |-> r.who, id |-> r.id, cl |-> r.cl, val |-> r.val, on |-> r.on, no |-> r.no]
  BY <1>3
<1>5. r.op = q.op /\ r.id = q.id /\ r.val = q.val
  BY <1>3
<1>6. IsPost(r)
  BY <1>4, <1>5 DEF IsPost
<1>7. Prepare(q) = q \/ Prepare(q) = r
  BY <1>2 DEF Prepare
<1> QED BY <1>5, <1>6, <1>7

\* One more request has come.
LEMMA AskedMore ==
  ASSUME NEW q, asked' = asked \cup {q}
  PROVE  /\ \A c : Drops(c) => DropIn(asked', c)
         /\ Adds => Adds'
         /\ \A k, i : Deleting(k, i) => Deleting(k, i)'
         /\ \A k : Whites(k) => Whites(k)'
         /\ \A c : Filed(c) => FiledIn(files, asked', c)
BY DEF Drops, DropIn, Adds, Deleting, Whites, Filed, FiledIn

LEMMA ArriveKeeps == ASSUME WebInv, NEW s \in Slot, Arrive(s) PROVE WebInv'
<1>1. PICK q \in todo :
        /\ serve[s] = Idle /\ todo' = todo \ {q} /\ asked' = asked \cup {q}
        /\ \/ serve' = serve
           \/ serve' = [serve EXCEPT ![s] = [req |-> Prepare(q), at |-> Steps(q.op), id |-> q.id, ids |-> {}]]
        /\ UNCHANGED <<db, in, lastId, runList, files, stuck, lost, answered, budget>>
  BY DEF Arrive
<1>2. IsPost(q) /\ q.op \in WebOps
  BY DEF WebInv, WebShape, IsPost
<1>3. \A t \in Slot \ {s} : serve'[t] = serve[t]
  BY <1>1 DEF WebInv, WebShape
<1>4. serve'[s] = Idle \/ serve'[s] = [req |-> Prepare(q), at |-> Steps(q.op), id |-> q.id, ids |-> {}]
  BY <1>1 DEF WebInv, WebShape
<1>5. serve' = [t \in Slot |-> serve'[t]]
  BY <1>1 DEF WebInv, WebShape
<1>6. ASSUME serve'[s] # Idle PROVE UnderWay(s)' /\ Free(Head(serve'[s].at))
  <2>1. PICK p, a, i, x : /\ p = Prepare(q) /\ a = Steps(q.op) /\ i = q.id /\ x = {}
                          /\ serve'[s] = [req |-> p, at |-> a, id |-> i, ids |-> x]
    BY <1>4, <1>6
  <2>2. serve'[s].req = p /\ serve'[s].at = a /\ serve'[s].id = i /\ serve'[s].ids = x
    BY <2>1
  <2>3. IsPost(p) /\ p.op = q.op /\ p.id = q.id
    BY <1>2, <2>1, PrepareIs
  <2>4. Ordered(p.op, a) /\ Free(Head(a))
    BY <1>2, <2>1, <2>3, StepsOrdered, StepsStart
  <2>5. q \in asked'
    BY <1>1
  <2> QED BY <2>1, <2>2, <2>3, <2>4, <2>5 DEF UnderWay
<1>7. \A k \in Kinds : ~PutAt(s, k)' /\ ~SaveAt(s, k)' /\ ~RunAt(s, k)'
  <2>1. CASE serve'[s] = Idle
    BY <2>1, IdleDoes2 DEF PutAt, SaveAt, RunAt
  <2>2. CASE serve'[s] # Idle
    BY <1>6, <2>2 DEF PutAt, SaveAt, RunAt, PutOf, SaveOf, Doing, Free
  <2> QED BY <2>1, <2>2
<1>8. \A k \in Kinds : ~PutAt(s, k) /\ ~SaveAt(s, k) /\ ~RunAt(s, k)
  BY <1>1, IdleDoes DEF PutAt, SaveAt, RunAt
<1>9. \A t \in Slot \ {s} : Op(t)' = Op(t) /\ (UnderWay(t) => UnderWay(t)')
  BY <1>1, <1>3 DEF Op, UnderWay
<1>10. \A t \in Slot, k \in Kinds :
         (PutAt(t, k)' <=> PutAt(t, k)) /\ (SaveAt(t, k)' <=> SaveAt(t, k)) /\ (RunAt(t, k)' <=> RunAt(t, k))
  <2>1. ASSUME NEW t \in Slot, t # s, NEW k \in Kinds
        PROVE  (PutAt(t, k)' <=> PutAt(t, k)) /\ (SaveAt(t, k)' <=> SaveAt(t, k)) /\ (RunAt(t, k)' <=> RunAt(t, k))
    BY <1>3, <2>1 DEF PutAt, SaveAt, RunAt, Doing
  <2> QED BY <1>7, <1>8, <2>1
<1>11. /\ \A c : Drops(c) => DropIn(asked', c)
       /\ Adds => Adds'
       /\ \A k, i : Deleting(k, i) => Deleting(k, i)'
       /\ \A k : Whites(k) => Whites(k)'
       /\ \A c : Filed(c) => FiledIn(files, asked', c)
  BY <1>1, AskedMore
<1>12. WebShape'
  BY <1>1, <1>5 DEF WebInv, WebShape
<1>13. Refers'
  <2>1. /\ \A c \in in.clients : FiledIn(files, asked', c)
        /\ \A k \in Owned : /\ \A i \in in[k] : FiledIn(files, asked', db[k][i].client)
                            /\ \A i \in DOMAIN files[k] : FiledIn(files, asked', files[k][i].client)
        /\ \A c \in DOMAIN files.clients \ in.clients : DropIn(asked', c)
    BY <1>11 DEF WebInv, Refers
  <2> QED BY <1>1, <2>1 DEF Refers, Filed, Drops
<1>14. ASSUME NEW t \in Slot, serve'[t] # Idle PROVE UnderWay(t)'
  BY <1>3, <1>6, <1>9, <1>14 DEF WebInv
<1>15. ASSUME NEW k \in Kinds PROVE Remembered(k)' /\ Saved(k)'
  <2>1. Remembered(k)'
    BY <1>1, <1>11 DEF WebInv, Remembered
  <2>2. Saved(k)'
    <3>1. Saved(k)
      BY DEF WebInv
    <3>2. ASSUME k \notin stuck' \cup lost', ~Whites(k)', \A t \in Slot : ~SaveAt(t, k)'
          PROVE  /\ in[k] \subseteq DOMAIN files[k]
                 /\ \A i \in DOMAIN files[k] \ in[k] : k \in Owned /\ (Adds' \/ DropIn(asked', files[k][i].client))
      <4>1. k \notin stuck \cup lost /\ ~Whites(k) /\ \A t \in Slot : ~SaveAt(t, k)
        BY <1>1, <1>10, <1>11, <3>2
      <4> QED BY <1>11, <3>1, <4>1 DEF Saved
    <3> QED BY <1>1, <3>2 DEF Saved, Drops
  <2> QED BY <2>1, <2>2
<1>16. ASSUME NEW k \in Kinds, NEW t \in Slot PROVE Owes(t, k)' /\ Fresh(t, k)'
  <2>1. CASE t = s
    BY <1>7, <2>1 DEF Owes, Fresh
  <2>2. CASE t # s
    <3>1. serve'[t] = serve[t] /\ Op(t)' = Op(t) /\ Owes(t, k) /\ Fresh(t, k)
      BY <1>3, <1>9, <2>2 DEF WebInv
    <3>2. Owes(t, k)'
      <4>1. PutAt(t, k) => /\ serve[t].id \in 1..lastId[k]
                           /\ IF k \in Owned THEN FiledIn(files, asked', db[k][serve[t].id].client)
                              ELSE FiledIn(files, asked', serve[t].id)
        BY <1>11, <3>1 DEF Owes
      <4> QED BY <1>1, <1>10, <1>11, <3>1, <4>1 DEF Owes, Filed
    <3>3. Fresh(t, k)'
      <4>1. \A u \in Slot \ {s} : serve'[u] = serve[u]
        BY <1>3
      <4> QED BY <1>1, <1>7, <1>10, <3>1, <4>1 DEF Fresh
    <3> QED BY <3>2, <3>3
  <2> QED BY <2>1, <2>2
<1> QED BY <1>12, <1>13, <1>14, <1>15, <1>16 DEF WebInv

LEMMA WebRests == ASSUME WebInv, UNCHANGED webVars PROVE WebInv'
<1>1. UNCHANGED <<db, in, lastId, runList, files, stuck, lost, serve, todo, asked, answered>>
  BY DEF webVars
<1>2. WebShape'
  BY <1>1 DEF WebInv, WebShape
<1>3. Refers'
  BY <1>1 DEF WebInv, Refers, Filed, FiledIn, Drops, DropIn
<1>4. \A s \in Slot : serve'[s] # Idle => UnderWay(s)'
  BY <1>1 DEF WebInv, UnderWay
<1>5. \A s, k : /\ PutAt(s, k)' <=> PutAt(s, k)
                /\ SaveAt(s, k)' <=> SaveAt(s, k)
                /\ RunAt(s, k)' <=> RunAt(s, k)
  BY <1>1 DEF PutAt, SaveAt, RunAt, Doing
<1>6. /\ \A k, i : Deleting(k, i)' <=> Deleting(k, i)
      /\ \A k : Whites(k)' <=> Whites(k)
      /\ Adds' <=> Adds
      /\ \A c : Filed(c) <=> FiledIn(files', asked', c)
  BY <1>1 DEF Deleting, Whites, Adds, Filed
<1>7. ASSUME NEW k \in Kinds PROVE Remembered(k)' /\ Saved(k)'
  BY <1>1, <1>5, <1>6 DEF WebInv, Remembered, Saved, Drops
<1>8. ASSUME NEW k \in Kinds, NEW s \in Slot PROVE Owes(s, k)' /\ Fresh(s, k)'
  <2>1. Owes(s, k)'
    BY <1>1, <1>5, <1>6 DEF WebInv, Owes, Op, Filed
  <2>2. Fresh(s, k)'
    BY <1>1, <1>5 DEF WebInv, Fresh, Op
  <2> QED BY <2>1, <2>2
<1> QED BY <1>2, <1>3, <1>4, <1>7, <1>8 DEF WebInv

LEMMA WebInvStep == WebInv /\ [WebNext]_webVars => WebInv'
<1> SUFFICES ASSUME WebInv, [WebNext]_webVars PROVE WebInv'
  OBVIOUS
<1>1. ASSUME NEW s \in Slot, Arrive(s) PROVE WebInv'
  BY <1>1, ArriveKeeps
<1>2. ASSUME NEW s \in Slot, WebStep(s) \/ SaveFails(s) \/ SaveLost(s) PROVE WebInv'
  BY <1>2, StepTurns, TurnKeeps
<1>3. CASE Restart
  BY <1>3, RestartKeeps, WebsAssumption
<1>4. CASE UNCHANGED webVars
  BY <1>4, WebRests
<1> QED BY <1>1, <1>2, <1>3, <1>4 DEF WebNext

LEMMA WebInvInit == ASSUME NEW sc, WebSceneOK(sc), WebInit(sc) PROVE WebInv
<1>1. /\ db = sc.db /\ in = sc.in /\ todo = sc.todo
      /\ lastId = [k \in Kinds |-> Max(in[k] \cup {0})]
      /\ files = [k \in Kinds |-> [i \in in[k] |-> db[k][i]]]
      /\ runList = {i \in in.tasks : db.tasks[i].on}
      /\ stuck = {} /\ lost = {} /\ asked = {} /\ answered = {} /\ serve = [s \in Slot |-> Idle]
  BY DEF WebInit
<1>2. /\ IsDb(db) /\ in \in [Kinds -> SUBSET Ids] /\ \A q \in todo : IsPost(q)
      /\ \A k \in Owned : \A i \in in[k] : db[k][i].client \in in["clients"]
  BY <1>1 DEF WebSceneOK, Owned
<1>3. \A k \in Kinds : /\ in[k] \subseteq Ids /\ lastId[k] \in 0..Cap /\ in[k] \subseteq 1..lastId[k]
                       /\ files[k] = [i \in in[k] |-> db[k][i]] /\ DOMAIN files[k] = in[k]
  <2>1. \A k \in Kinds : in[k] \subseteq Ids /\ lastId[k] = Max(in[k] \cup {0})
    BY <1>1, <1>2
  <2>2. \A k \in Kinds : lastId[k] \in 0..Cap /\ in[k] \subseteq 1..lastId[k]
    BY <2>1, WebsAssumption, IncreaseIs
  <2> QED BY <1>1, <2>1, <2>2
<1>4. \A k \in Owned : k \in Kinds
  BY DEF Owned, Kinds
<1>5. \A s \in Slot : serve[s] = Idle
  BY <1>1
<1>6. \A s \in Slot, k \in Kinds : ~PutAt(s, k) /\ ~SaveAt(s, k) /\ ~RunAt(s, k)
  BY <1>5, IdleDoes DEF PutAt, SaveAt, RunAt
<1>7. WebShape
  <2>1. /\ \A i \in DOMAIN files["tasks"] : IsTask(files["tasks"][i])
        /\ \A i \in DOMAIN files["hosts"] : IsHost(files["hosts"][i])
    BY <1>2, <1>3 DEF IsDb, Kinds
  <2>2. lastId \in [Kinds -> 0..Cap] /\ files = [k \in Kinds |-> files[k]]
    BY <1>1, <1>3
  <2>3. runList \subseteq Ids
    BY <1>1, <1>3 DEF Kinds
  <2>4. serve = [s \in Slot |-> serve[s]]
    BY <1>1
  <2> QED BY <1>1, <1>2, <1>3, <2>1, <2>2, <2>3, <2>4 DEF WebShape
<1>8. Refers
  <2>1. "clients" \in Kinds
    BY DEF Kinds
  <2>2. \A c \in in["clients"] : Filed(c)
    BY <1>3, <2>1 DEF Filed, FiledIn
  <2>3. \A k \in Owned : /\ \A i \in in[k] : Filed(db[k][i].client)
                         /\ \A i \in DOMAIN files[k] : Filed(files[k][i].client)
    <3>1. ASSUME NEW k \in Owned PROVE \A i \in in[k] : Filed(db[k][i].client)
      BY <1>2, <2>2
    <3>2. ASSUME NEW k \in Owned, NEW i \in DOMAIN files[k] PROVE Filed(files[k][i].client)
      <4>1. i \in in[k] /\ files[k][i] = db[k][i]
        BY <1>3, <1>4
      <4> QED BY <3>1, <4>1
    <3> QED BY <3>1, <3>2
  <2> QED BY <1>3, <2>1, <2>2, <2>3 DEF Refers
<1>9. \A k \in Kinds : Saved(k) /\ Remembered(k)
  BY <1>1, <1>3 DEF Saved, Remembered
<1> QED BY <1>5, <1>6, <1>7, <1>8, <1>9 DEF WebInv, Owes, Fresh

\* What the run checks follows from the invariant.
LEMMA WebInvSound == WebInv => WebSound
<1> SUFFICES ASSUME WebInv PROVE WebSound
  OBVIOUS
<1>1. \A s \in Slot : serve[s] = Idle \/ serve[s].at # <<>>
  <2>1. ASSUME NEW s \in Slot, serve[s] # Idle PROVE serve[s].at # <<>>
    <3>1. Ordered(Op(s), serve[s].at)
      BY <2>1 DEF WebInv, UnderWay, Op
    <3> QED BY <3>1, FirstStep
  <2> QED BY <2>1
<1>2. WebTypeOK
  BY <1>1 DEF WebInv, WebShape, WebTypeOK
<1>3. DrawnIsFresh
  <2>1. ASSUME NEW s \in Slot, NEW t \in Slot, NEW k \in Kinds, NEW put, put = PutOf(k),
               Doing(s, put), Posted(s).op \in New
        PROVE  /\ serve[s].id \notin in[k]
               /\ Doing(t, put) /\ s # t => serve[s].id # serve[t].id
    <3>1. Fresh(s, k) /\ PutAt(s, k) /\ Op(s) \in New /\ (PutAt(t, k) <=> Doing(t, put))
      BY <2>1 DEF WebInv, PutAt, Op, Posted
    <3> QED BY <3>1 DEF Fresh
  <2>2. \A k \in Kinds : [clients |-> "putClient", tasks |-> "put", hosts |-> "putHost"][k] = PutOf(k)
    BY DEF Kinds, PutOf
  <2> QED BY <2>1, <2>2 DEF DrawnIsFresh, New
<1>4. AddedIsKept
  <2>1. ASSUME NEW a \in answered, KindOf(a[1]) \in Kinds \ lost, ~Deleting(KindOf(a[1]), a[2])
        PROVE  a[2] \in DOMAIN files[KindOf(a[1])]
    <3>1. KindOf(a[1]) \in Kinds
      BY <2>1 DEF KindOf, Kinds
    <3> QED BY <2>1, <3>1 DEF WebInv, Remembered
  <2> QED BY <2>1 DEF AddedIsKept
<1>5. FileHasAll
  <2>1. ASSUME NEW k \in Kinds \ (stuck \cup lost), Writers(k) = {}, ~(k = "clients" /\ \E q \in asked : q.op = "white")
        PROVE  /\ in[k] \subseteq DOMAIN files[k]
               /\ \A i \in DOMAIN files[k] \ in[k] :
                    /\ k # "clients"
                    /\ \E q \in asked : q.op = "addClient" \/ (q.op = "delClient" /\ q.id = files[k][i].client)
    <3>1. ASSUME NEW s \in Slot, SaveAt(s, k) PROVE FALSE
      <4>1. /\ Ordered(Op(s), serve[s].at) /\ serve[s].at[1] = SaveOf(k)
        BY <3>1, StandsAt DEF SaveAt
      <4>2. 1 \in DOMAIN serve[s].at
        BY <4>1 DEF Ordered
      <4>3. FileOf(SaveOf(k)) = k
        BY DEF FileOf, SaveOf, Kinds
      <4> QED BY <2>1, <4>1, <4>2, <4>3 DEF Writers
    <3>2. Saved(k) /\ k \notin stuck \cup lost /\ ~Whites(k)
      BY <2>1 DEF WebInv, Whites
    <3> QED BY <3>1, <3>2 DEF Saved, Owned, Adds, Drops, DropIn
  <2> QED BY <2>1 DEF FileHasAll
<1> QED BY <1>2, <1>3, <1>4, <1>5 DEF WebSound

\* The same for every database to start from and every list of requests.
THEOREM WebSoundHolds ==
  ASSUME NEW sc, WebSceneOK(sc)
  PROVE  WebInit(sc) /\ [][WebNext]_webVars => []WebSound
<1>1. WebInit(sc) => WebInv
  BY WebInvInit
<1> QED BY <1>1, WebInvStep, WebInvSound, PTL

\* However the handlers of the console interleave, whatever file cannot be written
\* and wherever the server stops, its database is sound: an id that was drawn is
\* fresh, what was added with success is in its file, and the files have what the
\* maps have; and so are its sessions (NPS lib/file and web/controllers).
THEOREM ConsoleSoundHolds == SceneSpec => []ConsoleSound
<1>1. SceneInit => WebInv
  <2>1. SceneInit => \E sc \in MCWebs \cup {NoWeb} : WebInit(sc)
    BY DEF SceneInit, Scenes
  <2>2. \A sc \in MCWebs \cup {NoWeb} : WebSceneOK(sc)
    BY WebsAssumption DEF WebsAssumption
  <2> QED BY <2>1, <2>2, WebInvInit
<1>2. WebInv /\ [SceneNext]_allVars => WebInv'
  <2>1. [SceneNext]_allVars => [WebNext]_webVars
    BY DEF SceneNext, allVars, webVars
  <2> QED BY <2>1, WebInvStep
<1>3. SceneSpec => []SignInSound
  BY SignInSoundHolds
<1> QED BY <1>1, <1>2, <1>3, WebInvSound, SignInSoundHolds, PTL DEF SceneSpec, ConsoleSound

-----------------------------------------------------------------------------
(* Sessions of frp: what is said on a connection and how far each end has  *)
(* read it.                                                                *)

Muxed(c) == IF c.mux THEN <<Token("mux")>> ELSE <<>>
Opens(c) == (IF c.tls = "" THEN <<>> ELSE <<Token(c.tls)>>) \o Muxed(c)
Hello(k, c) == [t |-> "hello", algs |-> c.algs, random |-> k]
Greets(c) == c.wire = "v2" /\ c.ask = "Login"
Message(c) == <<[t |-> "msg", ask |-> c.ask]>>
Asks(k, c) == (IF Greets(c) THEN <<Hello(k, c)>> ELSE <<>>) \o Message(c)
Says(k, c) == (IF c.wire = "v2" THEN <<Token("magic")>> ELSE <<>>) \o Asks(k, c)
OpensSays(k, c) == Opens(c) \o Says(k, c)
MuxedSays(k, c) == Muxed(c) \o Says(k, c)
Answer(k, c) == NewServerHello(Hello(k, c))
Context(k, c) == NewCryptoContext(Hello(k, c), Answer(k, c))
Replies(k, c) == {Answer(k, c), resp(TRUE), resp(FALSE)}

\* Values have the fields of their kind.
IsNet(n) == n = [c2s |-> n.c2s, s2c |-> n.s2c, cshut |-> n.cshut, sshut |-> n.sshut]
IsDialer(d) == d = [at |-> d.at, ctx |-> d.ctx]
IsHandler(h) == h = [at |-> h.at, proto |-> h.proto, ctx |-> h.ctx, first |-> h.first]

\* What the handler still has to read.
Unread(k, c, s, h) ==
  /\ h.at = "none" => s = <<>>
  /\ h.at \in {"queued", "check"} => s \in {<<>>, Opens(c), OpensSays(k, c)}
  /\ h.at = "mux" => s \in {<<>>, Muxed(c), MuxedSays(k, c)}
  /\ h.at = "magic" => s \in {<<>>, Muxed(c), MuxedSays(k, c), Says(k, c)}
  /\ h.at = "first" /\ h.proto = "v1" =>
       \/ s = <<>>
       \/ c.mux /\ s \in {Muxed(c), MuxedSays(k, c)}
       \/ c.wire = "v1" /\ s = Says(k, c)
  /\ h.at = "first" /\ h.proto = "v2" =>
       s = <<>> \/ s = (IF h.ctx = NoCtx THEN Asks(k, c) ELSE Message(c))

\* As long as frpc has only dialled, nothing but the opening was written.
Unsaid(c, s, d, h) ==
  d.at = "open" /\ c.stops = "" =>
    /\ h.at \in {"queued", "check"} => s = Opens(c)
    /\ h.at = "mux" => s = Muxed(c)
    /\ h.at = "magic" => s \in {<<>>, Muxed(c)}
    /\ h.at = "first" => h.proto = "v1" /\ c.mux /\ s = Muxed(c)
    /\ h.at \notin {"handle", "on", "work"}

\* What the handler knows of the connection.
Known(k, c, h) ==
  /\ h.at \in {"none", "queued", "check", "mux", "magic"} => h.ctx = NoCtx
  /\ h.at \in {"first", "handle", "on"} =>
       /\ h.proto \in {"v1", "v2"}
       /\ h.proto = "v1" => h.ctx = NoCtx
       /\ h.proto = "v2" => c.wire = "v2"
       /\ h.ctx # NoCtx => Greets(c) /\ h.ctx = Context(k, c) /\ Answer(k, c).alg # ""
  /\ h.at \in {"handle", "on"} =>
       /\ h.proto = c.wire /\ h.first = c.ask
       /\ Greets(c) => h.ctx # NoCtx
  /\ h.at = "on" => c.ask = "Login"

\* What frpc knows of it.
Agrees(k, c, d) ==
  /\ d.at = "hello" => Greets(c)
  /\ d.at \in {"new", "open", "hello"} => d.ctx = NoCtx
  /\ d.at \in {"resp", "up"} => d.ctx = IF Greets(c) THEN Context(k, c) ELSE NoCtx

Talk(k, c, n, d, h) ==
  /\ IsNet(n) /\ IsDialer(d) /\ IsHandler(h)
  /\ d.at \in {"new", "open", "hello", "resp", "up", "failed"}
  /\ h.at \in {"none", "queued", "check", "mux", "magic", "first", "handle", "on", "work", "closed"}
  /\ d.at = "new" <=> h.at = "none"
  /\ h.at \in {"queued", "check", "mux"} => c.of = k \/ ~c.mux
  /\ n.s2c \in Seq(Replies(k, c))
  /\ Unread(k, c, n.c2s, h) /\ Unsaid(c, n.c2s, d, h) /\ Known(k, c, h) /\ Agrees(k, c, d)

\* The accept loop has one connection, and the others wait in the backlog.
LoopOK ==
  /\ backlog \in Seq(Dialled) /\ IsInjective(backlog)
  /\ loop \in {<<>>} \cup {<<k>> : k \in Dialled}
  /\ \A k \in Wire :
       /\ handler[k].at = "check" <=> loop = <<k>>
       /\ handler[k].at = "queued" <=> Supports(backlog, k)

WireInv ==
  /\ WireSceneOK(wscene)
  /\ net = [k \in Wire |-> net[k]] /\ dialer = [k \in Wire |-> dialer[k]]
  /\ handler = [k \in Wire |-> handler[k]]
  /\ \A k \in Wire :
       IF k \in Dialled THEN Talk(k, cl(k), net[k], dialer[k], handler[k])
       ELSE dialer[k].at = "new" /\ handler[k].at = "none"
  /\ LoopOK

\* A settings record that a scene may have.
IsDial(c) ==
  c.wire \in {"v1", "v2"} /\ c.tls \in {"", "tls17", "tls16"} /\ c.mux \in BOOLEAN

\* Putting one token in front of others.
LEMMA Before ==
  ASSUME NEW S, NEW x \in S, NEW s \in Seq(S)
  PROVE  <<x>> \o s \in Seq(S) /\ <<x>> \o s # <<>> /\ Head(<<x>> \o s) = x /\ Tail(<<x>> \o s) = s
<1>1. <<x>> \in Seq(S) /\ Len(<<x>>) = 1 /\ <<x>>[1] = x
  OBVIOUS
<1>2. PICK q : q = <<x>> \o s
  OBVIOUS
<1>3. q \in Seq(S) /\ Len(q) = 1 + Len(s) /\ q[1] = x /\ \A i \in 1..Len(s) : q[i + 1] = s[i]
  BY <1>1, <1>2
<1>4. q # <<>> /\ Head(q) = q[1]
  BY <1>3
<1>5. Tail(q) \in Seq(S) /\ Len(Tail(q)) = Len(s) /\ \A i \in 1..Len(Tail(q)) : Tail(q)[i] = q[i + 1]
  BY <1>3
<1>6. Tail(q) = s
  BY <1>3, <1>5, SeqEqual
<1> QED BY <1>2, <1>3, <1>4, <1>6

\* What stands at the head of each thing that is said, and what follows it.
TokenFacts(k, c) ==
  /\ c.mux => /\ Muxed(c) # <<>> /\ Head(Muxed(c)).t = "mux" /\ Tail(Muxed(c)) = <<>>
              /\ MuxedSays(k, c) # <<>> /\ Head(MuxedSays(k, c)).t = "mux"
              /\ Tail(MuxedSays(k, c)) = Says(k, c)
  /\ ~c.mux => Muxed(c) = <<>> /\ MuxedSays(k, c) = Says(k, c)
  /\ c.tls # "" => /\ Opens(c) # <<>> /\ Head(Opens(c)).t \in {"tls17", "tls16"}
                   /\ Tail(Opens(c)) = Muxed(c)
                   /\ OpensSays(k, c) # <<>> /\ Head(OpensSays(k, c)).t \in {"tls17", "tls16"}
                   /\ Tail(OpensSays(k, c)) = MuxedSays(k, c)
  /\ c.tls = "" => Opens(c) = Muxed(c) /\ OpensSays(k, c) = MuxedSays(k, c)
  /\ Says(k, c) # <<>>
  /\ c.wire = "v2" => Head(Says(k, c)).t = "magic" /\ Tail(Says(k, c)) = Asks(k, c)
  /\ c.wire = "v1" => Says(k, c) = Message(c) /\ Head(Says(k, c)).t = "msg"
  /\ Asks(k, c) # <<>>
  /\ Greets(c) => Head(Asks(k, c)) = Hello(k, c) /\ Tail(Asks(k, c)) = Message(c)
  /\ ~Greets(c) => Asks(k, c) = Message(c)
  /\ Message(c) # <<>> /\ Head(Message(c)) = [t |-> "msg", ask |-> c.ask] /\ Tail(Message(c)) = <<>>
  /\ <<>> \o Says(k, c) = Says(k, c)

LEMMA Tokens ==
  ASSUME NEW k, NEW c, IsDial(c)
  PROVE  TokenFacts(k, c)
<1>1. PICK S : S = {Token("mux"), Token("magic"), Token(c.tls), Hello(k, c), [t |-> "msg", ask |-> c.ask]}
  OBVIOUS
<1>2. Token("mux") \in S /\ Token("magic") \in S /\ Token(c.tls) \in S /\ Hello(k, c) \in S
      /\ [t |-> "msg", ask |-> c.ask] \in S
  BY <1>1
<1>3. \A t : Token(t).t = t
  BY DEF Token
<1>4. PICK m : m = [t |-> "msg", ask |-> c.ask]
  OBVIOUS
<1>5. Message(c) = <<m>> /\ <<m>> \in Seq(S) /\ <<m>> # <<>> /\ Head(<<m>>) = m /\ Tail(<<m>>) = <<>>
  BY <1>2, <1>4 DEF Message
<1>e. \A s \in Seq(S) : <<>> \o s = s
  BY ConcatEmptySeq
<1>6. /\ Asks(k, c) \in Seq(S) /\ Asks(k, c) # <<>>
      /\ Greets(c) => Head(Asks(k, c)) = Hello(k, c) /\ Tail(Asks(k, c)) = Message(c)
      /\ ~Greets(c) => Asks(k, c) = Message(c)
  <2>1. CASE Greets(c)
    <3>1. PICK x : x = Hello(k, c)
      OBVIOUS
    <3>2. Asks(k, c) = <<x>> \o <<m>>
      BY <2>1, <3>1, <1>5 DEF Asks
    <3>3. x \in S
      BY <3>1, <1>2
    <3>4. /\ <<x>> \o <<m>> \in Seq(S) /\ <<x>> \o <<m>> # <<>>
          /\ Head(<<x>> \o <<m>>) = x /\ Tail(<<x>> \o <<m>>) = <<m>>
      BY <3>3, <1>5, Before
    <3> QED BY <2>1, <3>1, <3>2, <3>4, <1>5
  <2>2. CASE ~Greets(c)
    <3>1. Asks(k, c) = <<m>>
      BY <2>2, <1>5, <1>e DEF Asks
    <3> QED BY <2>2, <3>1, <1>5
  <2> QED BY <2>1, <2>2
<1>7. /\ Says(k, c) \in Seq(S) /\ Says(k, c) # <<>>
      /\ c.wire = "v2" => Head(Says(k, c)).t = "magic" /\ Tail(Says(k, c)) = Asks(k, c)
      /\ c.wire = "v1" => Says(k, c) = Message(c) /\ Head(Says(k, c)).t = "msg"
  <2>1. CASE c.wire = "v2"
    <3>1. PICK x : x = Token("magic")
      OBVIOUS
    <3>2. PICK a : a = Asks(k, c)
      OBVIOUS
    <3>3. Says(k, c) = <<x>> \o a
      BY <2>1, <3>1, <3>2 DEF Says
    <3> QED BY <2>1, <3>1, <3>2, <3>3, <1>2, <1>3, <1>6, Before
  <2>2. CASE c.wire = "v1"
    <3>1. Says(k, c) = Asks(k, c) /\ ~Greets(c)
      BY <2>2, <1>6, <1>e DEF Says, Greets
    <3>2. m.t = "msg"
      BY <1>4
    <3> QED BY <2>2, <3>1, <3>2, <1>5, <1>6
  <2> QED BY <2>1, <2>2 DEF IsDial
<1>8. PICK p : p = Says(k, c)
  OBVIOUS
<1>9. /\ c.mux => /\ Muxed(c) \in Seq(S) /\ Muxed(c) # <<>> /\ Head(Muxed(c)).t = "mux" /\ Tail(Muxed(c)) = <<>>
                  /\ MuxedSays(k, c) \in Seq(S) /\ MuxedSays(k, c) # <<>> /\ Head(MuxedSays(k, c)).t = "mux"
                  /\ Tail(MuxedSays(k, c)) = Says(k, c)
      /\ ~c.mux => Muxed(c) = <<>> /\ MuxedSays(k, c) = Says(k, c)
  <2>1. CASE c.mux
    <3>1. PICK x : x = Token("mux")
      OBVIOUS
    <3>2. Muxed(c) = <<x>> /\ <<x>> \in Seq(S) /\ <<x>> # <<>> /\ Head(<<x>>) = x /\ Tail(<<x>>) = <<>>
      BY <2>1, <3>1, <1>2 DEF Muxed
    <3>3. MuxedSays(k, c) = <<x>> \o p
      BY <3>2, <1>8 DEF MuxedSays
    <3>4. /\ <<x>> \o p \in Seq(S) /\ <<x>> \o p # <<>> /\ Head(<<x>> \o p) = x /\ Tail(<<x>> \o p) = p
      BY <3>1, <1>2, <1>7, <1>8, Before
    <3> QED BY <2>1, <3>1, <3>2, <3>3, <3>4, <1>3, <1>8
  <2>2. CASE ~c.mux
    <3>1. Muxed(c) = <<>>
      BY <2>2 DEF Muxed
    <3> QED BY <2>2, <3>1, <1>7, <1>e DEF MuxedSays
  <2> QED BY <2>1, <2>2
<1>10. Muxed(c) \in Seq(S) /\ MuxedSays(k, c) \in Seq(S)
  <2>1. PICK all, y, z : all = Seq(S) /\ y = Muxed(c) /\ z = MuxedSays(k, c)
    OBVIOUS
  <2>2. CASE c.mux
    BY <2>1, <2>2, <1>9
  <2>3. CASE ~c.mux
    <3>1. y = <<>> /\ z = Says(k, c)
      BY <2>1, <2>3, <1>9
    <3> QED BY <2>1, <3>1, <1>7, EmptySeq
  <2>4. y \in all /\ z \in all
    BY <2>1, <2>2, <2>3
  <2> QED BY <2>1, <2>4
<1>11. PICK y : y = Muxed(c)
  OBVIOUS
<1>12. ASSUME c.tls # ""
       PROVE  /\ Opens(c) # <<>> /\ Head(Opens(c)).t \in {"tls17", "tls16"}
              /\ Tail(Opens(c)) = Muxed(c)
              /\ OpensSays(k, c) # <<>> /\ Head(OpensSays(k, c)).t \in {"tls17", "tls16"}
              /\ Tail(OpensSays(k, c)) = MuxedSays(k, c)
  <2>1. PICK x : x = Token(c.tls)
    OBVIOUS
  <2>2. x \in S /\ x.t \in {"tls17", "tls16"}
    BY <1>12, <2>1, <1>2, <1>3 DEF IsDial
  <2>3. Opens(c) = <<x>> \o y
    BY <1>12, <2>1, <1>11 DEF Opens
  <2>4. /\ <<x>> \o y # <<>> /\ Head(<<x>> \o y) = x /\ Tail(<<x>> \o y) = y
    BY <2>2, <1>10, <1>11, Before
  <2>5. OpensSays(k, c) = (<<x>> \o y) \o p
    BY <2>3, <1>8 DEF OpensSays
  <2>6. (<<x>> \o y) \o p = <<x>> \o (y \o p)
    BY <2>2, <1>10, <1>11, <1>7, <1>8, ConcatAssociative
  <2>7. PICK z : z = MuxedSays(k, c)
    OBVIOUS
  <2>8. z = y \o p
    BY <2>7, <1>8, <1>11 DEF MuxedSays
  <2>9. OpensSays(k, c) = <<x>> \o z
    BY <2>5, <2>6, <2>8
  <2>10. /\ <<x>> \o z # <<>> /\ Head(<<x>> \o z) = x /\ Tail(<<x>> \o z) = z
    BY <2>2, <2>7, <1>10, Before
  <2> QED BY <1>12, <2>2, <2>3, <2>4, <2>7, <2>9, <2>10, <1>11
<1>13. ASSUME c.tls = "" PROVE Opens(c) = Muxed(c) /\ OpensSays(k, c) = MuxedSays(k, c)
  <2>1. Opens(c) = Muxed(c)
    BY <1>13, <1>10, <1>e DEF Opens
  <2> QED BY <1>13, <2>1 DEF OpensSays, MuxedSays
<1>14. <<>> \o Says(k, c) = Says(k, c)
  BY <1>7, <1>e
<1> QED BY <1>4, <1>5, <1>6, <1>7, <1>9, <1>12, <1>13, <1>14 DEF TokenFacts

\* What frpc may do with a connection.
LEMMA DialTalks ==
  ASSUME NEW k, NEW c, NEW n, NEW d, NEW h, NEW n2, NEW d2, NEW h2,
         Talk(k, c, n, d, h), d.at = "new", IsNet(n2), IsDialer(d2), IsHandler(h2),
         n2.s2c = n.s2c, d2.at = "open", d2.ctx = d.ctx, h2.ctx = h.ctx,
         \/ /\ h2.at = "queued" /\ (c.of = k \/ ~c.mux)
            /\ n2.c2s = IF c.stops = "dial" THEN <<>> ELSE Opens(c)
         \/ h2.at = "magic" /\ n2.c2s = n.c2s
  PROVE  Talk(k, c, n2, d2, h2)
<1>1. Unread(k, c, n2.c2s, h2) /\ Unsaid(c, n2.c2s, d2, h2)
  BY DEF Talk, Unread, Unsaid
<1>2. Known(k, c, h2) /\ Agrees(k, c, d2)
  BY DEF Talk, Known, Agrees
<1> QED BY <1>1, <1>2 DEF Talk

LEMMA SendTalks ==
  ASSUME NEW k, NEW c, NEW n, NEW d, NEW h, NEW n2, NEW d2, IsDial(c),
         Talk(k, c, n, d, h), d.at = "open", c.stops = "", IsNet(n2), IsDialer(d2),
         n2.c2s = n.c2s \o Says(k, c), n2.s2c = n.s2c,
         d2.at = (IF Greets(c) THEN "hello" ELSE "resp"), d2.ctx = d.ctx
  PROVE  Talk(k, c, n2, d2, h)
<1>t. TokenFacts(k, c)
  BY Tokens
<1>1. Unread(k, c, n2.c2s, h)
  <2>1. Unsaid(c, n.c2s, d, h)
    BY DEF Talk
  <2>2. h.at \in {"queued", "check"} => n2.c2s = OpensSays(k, c)
    BY <2>1 DEF Unsaid, OpensSays
  <2>3. h.at = "mux" => n2.c2s = MuxedSays(k, c)
    BY <2>1 DEF Unsaid, MuxedSays
  <2>4. h.at = "magic" => n2.c2s \in {MuxedSays(k, c), Says(k, c)}
    BY <2>1, <1>t DEF TokenFacts, Unsaid, MuxedSays
  <2>5. h.at = "first" => h.proto = "v1" /\ c.mux /\ n2.c2s = MuxedSays(k, c)
    BY <2>1 DEF Unsaid, MuxedSays
  <2>6. h.at # "none"
    BY DEF Talk
  <2> QED BY <2>2, <2>3, <2>4, <2>5, <2>6 DEF Unread
<1>2. Unsaid(c, n2.c2s, d2, h) /\ Agrees(k, c, d2)
  BY DEF Talk, Unsaid, Agrees
<1> QED BY <1>1, <1>2 DEF Talk

LEMMA DropTalks ==
  ASSUME NEW k, NEW c, NEW n, NEW d, NEW h, NEW n2, NEW d2,
         Talk(k, c, n, d, h), IsNet(n2), IsDialer(d2),
         n2.c2s = n.c2s \/ n2.c2s = <<>>, n2.s2c = <<>>, d2.ctx = d.ctx,
         d2.at = (IF d.at = "new" THEN "new" ELSE "failed")
  PROVE  Talk(k, c, n2, d2, h)
<1>1. Unread(k, c, n2.c2s, h) /\ Unsaid(c, n2.c2s, d2, h) /\ Agrees(k, c, d2)
  BY DEF Talk, Unread, Unsaid, Agrees
<1>2. n2.s2c \in Seq(Replies(k, c))
  BY EmptySeq
<1> QED BY <1>1, <1>2 DEF Talk

LEMMA HelloTalks ==
  ASSUME NEW k, NEW c, NEW n, NEW d, NEW h, NEW n2, NEW d2,
         Talk(k, c, n, d, h), d.at = "hello", n.s2c # <<>>, Head(n.s2c).t = "serverhello",
         IsNet(n2), IsDialer(d2), n2.c2s = n.c2s, n2.s2c = Tail(n.s2c),
         d2.at = "resp", d2.ctx = NewCryptoContext(Hello(k, c), Head(n.s2c))
  PROVE  Talk(k, c, n2, d2, h)
<1>1. Head(n.s2c) \in Replies(k, c) /\ Tail(n.s2c) \in Seq(Replies(k, c))
  BY HeadTailProperties DEF Talk
<1>2. \A e : resp(e).t = "resp"
  BY DEF resp
<1>3. PICK a : a = Answer(k, c)
  OBVIOUS
<1>4. Head(n.s2c) = a
  BY <1>1, <1>2, <1>3 DEF Replies
<1>5. d2.ctx = Context(k, c)
  BY <1>3, <1>4 DEF Context
<1>6. Unsaid(c, n2.c2s, d2, h) /\ Agrees(k, c, d2)
  BY <1>5 DEF Talk, Unsaid, Agrees
<1>7. Unread(k, c, n2.c2s, h)
  BY DEF Talk
<1> QED BY <1>1, <1>6, <1>7 DEF Talk

LEMMA RespTalks ==
  ASSUME NEW k, NEW c, NEW n, NEW d, NEW h, NEW n2, NEW d2,
         Talk(k, c, n, d, h), d.at = "resp", n.s2c # <<>>,
         IsNet(n2), IsDialer(d2), n2.c2s = n.c2s, n2.s2c = Tail(n.s2c),
         d2.at = "up", d2.ctx = d.ctx
  PROVE  Talk(k, c, n2, d2, h)
<1>1. Tail(n.s2c) \in Seq(Replies(k, c))
  BY HeadTailProperties DEF Talk
<1>2. Unsaid(c, n2.c2s, d2, h) /\ Agrees(k, c, d2)
  BY DEF Talk, Unsaid, Agrees
<1>3. Unread(k, c, n2.c2s, h)
  BY DEF Talk
<1> QED BY <1>1, <1>2, <1>3 DEF Talk

\* What the server may do: close, or write, or look further at its input.
LEMMA CloseTalks ==
  ASSUME NEW k, NEW c, NEW n, NEW d, NEW h, NEW n2, NEW h2,
         Talk(k, c, n, d, h), IsNet(n2), IsHandler(h2), h.at # "none", h2.at = "closed",
         n2.s2c \in Seq(Replies(k, c))
  PROVE  Talk(k, c, n2, d, h2)
<1>1. Unread(k, c, n2.c2s, h2) /\ Unsaid(c, n2.c2s, d, h2)
  BY DEF Unread, Unsaid
<1>2. Known(k, c, h2) /\ Agrees(k, c, d)
  BY DEF Talk, Known
<1> QED BY <1>1, <1>2 DEF Talk

LEMMA ShutTalks ==
  ASSUME NEW k, NEW c, NEW n, NEW d, NEW h, NEW n2,
         Talk(k, c, n, d, h), IsNet(n2), n2.c2s = n.c2s, n2.s2c \in Seq(Replies(k, c))
  PROVE  Talk(k, c, n2, d, h)
BY DEF Talk

LEMMA AcceptTalks ==
  ASSUME NEW k, NEW c, NEW n, NEW d, NEW h, NEW h2,
         Talk(k, c, n, d, h), h.at = "queued", IsHandler(h2), h2.at = "check", h2.ctx = h.ctx
  PROVE  Talk(k, c, n, d, h2)
<1>1. Unread(k, c, n.c2s, h2) /\ Unsaid(c, n.c2s, d, h2) /\ Known(k, c, h2)
  BY DEF Talk, Unread, Unsaid, Known
<1> QED BY <1>1 DEF Talk

LEMMA CheckTalks ==
  ASSUME NEW k, NEW c, NEW n, NEW d, NEW h, NEW n2, NEW h2, IsDial(c),
         Talk(k, c, n, d, h), h.at = "check", n.c2s # <<>>, IsNet(n2), IsHandler(h2),
         n2.s2c = n.s2c, h2.ctx = h.ctx, h2.at \in {"mux", "magic"},
         n2.c2s = (IF Head(n.c2s).t \in {"tls17", "tls16"} THEN Tail(n.c2s) ELSE n.c2s)
  PROVE  Talk(k, c, n2, d, h2)
<1>t. TokenFacts(k, c)
  BY Tokens
<1>1. n.c2s \in {Opens(c), OpensSays(k, c)}
  BY DEF Talk, Unread
<1>2. /\ n.c2s = Opens(c) => n2.c2s = Muxed(c)
      /\ n.c2s = OpensSays(k, c) => n2.c2s = MuxedSays(k, c)
  <2>1. CASE c.tls # ""
    BY <2>1, <1>1, <1>t DEF TokenFacts
  <2>2. CASE c.tls = ""
    <3>1. Opens(c) = Muxed(c) /\ OpensSays(k, c) = MuxedSays(k, c)
      BY <2>2, <1>t DEF TokenFacts
    <3>2. CASE c.mux
      BY <3>1, <3>2, <1>1, <1>t DEF TokenFacts
    <3>3. CASE ~c.mux
      <4>1. n.c2s = Says(k, c) /\ MuxedSays(k, c) = Says(k, c)
        BY <3>1, <3>3, <1>1, <1>t DEF TokenFacts
      <4>2. Head(Says(k, c)).t \in {"magic", "msg"}
        BY <1>t DEF TokenFacts, IsDial
      <4> QED BY <4>1, <4>2, <3>1, <3>3, <1>t DEF TokenFacts
    <3> QED BY <3>2, <3>3
  <2> QED BY <2>1, <2>2
<1>3. Unread(k, c, n2.c2s, h2) /\ Known(k, c, h2)
  BY <1>1, <1>2 DEF Talk, Unread, Known
<1>4. Unsaid(c, n2.c2s, d, h2)
  BY <1>1, <1>2 DEF Talk, Unsaid
<1> QED BY <1>3, <1>4 DEF Talk

LEMMA MuxTalks ==
  ASSUME NEW k, NEW c, NEW n, NEW d, NEW h, NEW n2, NEW h2, IsDial(c),
         Talk(k, c, n, d, h), h.at = "mux", n.c2s # <<>>, Head(n.c2s).t = "mux",
         IsNet(n2), IsHandler(h2), n2.s2c = n.s2c, n2.c2s = Tail(n.c2s),
         h2.at = "magic", h2.ctx = h.ctx
  PROVE  Talk(k, c, n2, d, h2)
<1>t. TokenFacts(k, c)
  BY Tokens
<1>1. n.c2s \in {Muxed(c), MuxedSays(k, c)}
  BY DEF Talk, Unread
<1>2. c.mux
  <2>1. Head(Says(k, c)).t \in {"magic", "msg"}
    BY <1>t DEF TokenFacts, IsDial
  <2> QED BY <2>1, <1>1, <1>t DEF TokenFacts
<1>3. /\ n.c2s = Muxed(c) => n2.c2s = <<>>
      /\ n.c2s = MuxedSays(k, c) => n2.c2s = Says(k, c)
  BY <1>2, <1>t DEF TokenFacts
<1>4. Unread(k, c, n2.c2s, h2) /\ Known(k, c, h2)
  BY <1>1, <1>3 DEF Talk, Unread, Known
<1>5. Unsaid(c, n2.c2s, d, h2)
  BY <1>1, <1>3 DEF Talk, Unsaid
<1> QED BY <1>4, <1>5 DEF Talk

LEMMA MagicTalks ==
  ASSUME NEW k, NEW c, NEW n, NEW d, NEW h, NEW n2, NEW h2, IsDial(c),
         Talk(k, c, n, d, h), h.at = "magic", n.c2s # <<>>, IsNet(n2), IsHandler(h2),
         n2.s2c = n.s2c, h2.at = "first", h2.ctx = h.ctx,
         IF Head(n.c2s).t = "magic" THEN n2.c2s = Tail(n.c2s) /\ h2.proto = "v2"
         ELSE n2.c2s = n.c2s /\ h2.proto = "v1"
  PROVE  Talk(k, c, n2, d, h2)
<1>t. TokenFacts(k, c)
  BY Tokens
<1>1. n.c2s \in {Muxed(c), MuxedSays(k, c), Says(k, c)} /\ h.ctx = NoCtx
  BY DEF Talk, Unread, Known
<1>2. CASE n.c2s \in {Muxed(c), MuxedSays(k, c)} /\ c.mux
  <2>1. Head(n.c2s).t = "mux"
    BY <1>2, <1>t DEF TokenFacts
  <2>2. Unread(k, c, n2.c2s, h2) /\ Known(k, c, h2)
    BY <1>1, <1>2, <2>1 DEF Unread, Known
  <2>3. Unsaid(c, n2.c2s, d, h2)
    BY <1>2, <2>1 DEF Talk, Unsaid
  <2> QED BY <2>2, <2>3 DEF Talk
<1>3. CASE ~(n.c2s \in {Muxed(c), MuxedSays(k, c)} /\ c.mux)
  <2>1. n.c2s = Says(k, c)
    BY <1>1, <1>3, <1>t DEF TokenFacts
  <2>2. ~(d.at = "open" /\ c.stops = "")
    BY <1>3, <2>1, <1>t DEF TokenFacts, Talk, Unsaid
  <2>3. CASE c.wire = "v2"
    <3>1. n2.c2s = Asks(k, c) /\ h2.proto = "v2"
      BY <2>1, <2>3, <1>t DEF TokenFacts
    <3>2. Unread(k, c, n2.c2s, h2) /\ Known(k, c, h2) /\ Unsaid(c, n2.c2s, d, h2)
      BY <1>1, <2>2, <2>3, <3>1 DEF Unread, Known, Unsaid
    <3> QED BY <3>2 DEF Talk
  <2>4. CASE c.wire = "v1"
    <3>1. n2.c2s = Says(k, c) /\ h2.proto = "v1"
      BY <2>1, <2>4, <1>t DEF TokenFacts
    <3>2. Unread(k, c, n2.c2s, h2) /\ Known(k, c, h2) /\ Unsaid(c, n2.c2s, d, h2)
      BY <1>1, <2>2, <2>4, <3>1 DEF Unread, Known, Unsaid
    <3> QED BY <3>2 DEF Talk
  <2> QED BY <2>3, <2>4 DEF IsDial
<1> QED BY <1>2, <1>3

LEMMA FirstTalks ==
  ASSUME NEW k, NEW c, NEW n, NEW d, NEW h, NEW n2, NEW h2, IsDial(c),
         Talk(k, c, n, d, h), h.at = "first", n.c2s # <<>>, Head(n.c2s).t = "msg",
         ~(h.proto = "v2" /\ Head(n.c2s).t = "hello" /\ h.ctx = NoCtx),
         IsNet(n2), IsHandler(h2), n2.s2c = n.s2c,
         h2 = [at |-> "handle", proto |-> h.proto, ctx |-> h.ctx, first |-> Head(n.c2s).ask]
  PROVE  Talk(k, c, n2, d, h2)
<1>t. TokenFacts(k, c)
  BY Tokens
<1>0. h2.at = "handle" /\ h2.proto = h.proto /\ h2.ctx = h.ctx /\ h2.first = Head(n.c2s).ask
  OBVIOUS
<1>1. h.proto \in {"v1", "v2"}
  BY DEF Talk, Known
<1>2. PICK m : m = [t |-> "msg", ask |-> c.ask]
  OBVIOUS
<1>3. m.t = "msg" /\ m.ask = c.ask /\ Head(Message(c)) = m
  BY <1>2, <1>t DEF TokenFacts
<1>4. PICK g : g = Hello(k, c)
  OBVIOUS
<1>5. g.t = "hello"
  BY <1>4 DEF Hello
<1>6. /\ n.c2s = Message(c) /\ h.proto = c.wire /\ (Greets(c) => h.ctx # NoCtx)
      /\ ~(d.at = "open" /\ c.stops = "")
  <2>1. CASE h.proto = "v1"
    <3>1. c.wire = "v1" /\ n.c2s = Says(k, c)
      <4>1. n.c2s \in {Muxed(c), MuxedSays(k, c)} /\ c.mux => Head(n.c2s).t = "mux"
        BY <1>t DEF TokenFacts
      <4> QED BY <2>1, <4>1 DEF Talk, Unread
    <3>2. ~Greets(c) /\ n.c2s = Message(c)
      BY <3>1, <1>t DEF TokenFacts, Greets
    <3>3. ~(d.at = "open" /\ c.stops = "")
      <4>1. Head(Muxed(c)).t = "mux" \/ ~c.mux
        BY <1>t DEF TokenFacts
      <4> QED BY <4>1 DEF Talk, Unsaid
    <3> QED BY <2>1, <3>1, <3>2, <3>3
  <2>2. CASE h.proto = "v2"
    <3>1. c.wire = "v2" /\ ~(d.at = "open" /\ c.stops = "")
      BY <2>2 DEF Talk, Known, Unsaid
    <3>2. n.c2s = (IF h.ctx = NoCtx THEN Asks(k, c) ELSE Message(c))
      BY <2>2 DEF Talk, Unread
    <3>3. CASE h.ctx = NoCtx
      <4>1. ~Greets(c)
        BY <3>2, <3>3, <1>4, <1>5, <1>t DEF TokenFacts
      <4> QED BY <2>2, <3>1, <3>2, <3>3, <4>1, <1>t DEF TokenFacts
    <3>4. CASE h.ctx # NoCtx
      BY <2>2, <3>1, <3>2, <3>4
    <3> QED BY <3>3, <3>4
  <2> QED BY <1>1, <2>1, <2>2
<1>7. h2.first = c.ask
  BY <1>0, <1>3, <1>6
<1>8. Unread(k, c, n2.c2s, h2) /\ Unsaid(c, n2.c2s, d, h2)
  BY <1>0, <1>6 DEF Unread, Unsaid
<1>9. Known(k, c, h2)
  BY <1>0, <1>6, <1>7 DEF Talk, Known
<1> QED BY <1>0, <1>8, <1>9 DEF Talk

LEMMA GreetTalks ==
  ASSUME NEW k, NEW c, NEW n, NEW d, NEW h, NEW n2, NEW h2, IsDial(c),
         Talk(k, c, n, d, h), h.at = "first", n.c2s # <<>>,
         h.proto = "v2", Head(n.c2s).t = "hello", h.ctx = NoCtx,
         ~NewServerHello(Head(n.c2s)).err, IsNet(n2),
         n2.c2s = Tail(n.c2s),
         \/ n2.s2c = <<>>
         \/ n2.s2c = Append(n.s2c, NewServerHello(Head(n.c2s))),
         IsHandler(h2), h2.at = "first", h2.proto = h.proto,
         h2.ctx = NewCryptoContext(Head(n.c2s), NewServerHello(Head(n.c2s)))
  PROVE  Talk(k, c, n2, d, h2)
<1>t. TokenFacts(k, c)
  BY Tokens
<1>1. n.c2s = Asks(k, c) /\ c.wire = "v2" /\ ~(d.at = "open" /\ c.stops = "")
  BY DEF Talk, Unread, Known, Unsaid
<1>2. Greets(c)
  <2>1. PICK m : m = [t |-> "msg", ask |-> c.ask]
    OBVIOUS
  <2>2. m.t = "msg" /\ Head(Message(c)) = m
    BY <2>1, <1>t DEF TokenFacts
  <2> QED BY <2>2, <1>1, <1>t DEF TokenFacts
<1>3. PICK g : g = Hello(k, c)
  OBVIOUS
<1>4. Head(n.c2s) = g /\ n2.c2s = Message(c)
  BY <1>1, <1>2, <1>3, <1>t DEF TokenFacts
<1>5. PICK a : a = Answer(k, c)
  OBVIOUS
<1>6. NewServerHello(Head(n.c2s)) = a
  BY <1>3, <1>4, <1>5 DEF Answer
<1>7. ~a.err
  BY <1>6
<1>8. a.alg # ""
  BY <1>5, <1>7 DEF Answer, NewServerHello
<1>9. h2.ctx = Context(k, c)
  BY <1>3, <1>4, <1>5, <1>6 DEF Context
<1>10. Context(k, c) # NoCtx
  <2>1. Context(k, c).alg = a.alg
    BY <1>5 DEF Context, NewCryptoContext
  <2>2. NoCtx.alg = ""
    BY DEF NoCtx
  <2> QED BY <2>1, <2>2, <1>8
<1>11. Unread(k, c, n2.c2s, h2) /\ Unsaid(c, n2.c2s, d, h2)
  BY <1>1, <1>4, <1>9, <1>10 DEF Unread, Unsaid
<1>12. Known(k, c, h2)
  BY <1>1, <1>2, <1>5, <1>8, <1>9 DEF Known
<1>13. n2.s2c \in Seq(Replies(k, c))
  <2>1. a \in Replies(k, c) /\ n.s2c \in Seq(Replies(k, c))
    BY <1>5 DEF Replies, Talk
  <2>2. Append(n.s2c, a) \in Seq(Replies(k, c))
    BY <2>1, AppendProperties
  <2> QED BY <2>2, <1>6, EmptySeq
<1> QED BY <1>11, <1>12, <1>13 DEF Talk

LEMMA OnTalks ==
  ASSUME NEW k, NEW c, NEW n, NEW d, NEW h, NEW n2, NEW h2,
         Talk(k, c, n, d, h), h.at = "handle", IsNet(n2),
         n2.c2s = n.c2s, n2.s2c \in Seq(Replies(k, c)),
         IsHandler(h2), h2.proto = h.proto, h2.ctx = h.ctx, h2.first = h.first,
         h2.at = "work" \/ (h2.at = "on" /\ h.first = "Login")
  PROVE  Talk(k, c, n2, d, h2)
<1>1. Unread(k, c, n2.c2s, h2) /\ Unsaid(c, n2.c2s, d, h2) /\ Known(k, c, h2)
  BY DEF Talk, Unread, Unsaid, Known
<1> QED BY <1>1 DEF Talk

\* What is queued is dialled once.
LEMMA Joins ==
  ASSUME NEW D, NEW b \in Seq(D), IsInjective(b), NEW k \in D, ~Supports(b, k), NEW b2, b2 = Append(b, k)
  PROVE  /\ b2 \in Seq(D) /\ IsInjective(b2)
         /\ \A x : Supports(b2, x) <=> Supports(b, x) \/ x = k
<1>1. /\ b2 \in Seq(D) /\ Len(b2) = Len(b) + 1 /\ Len(b) \in Nat
      /\ \A i \in 1..Len(b) : b2[i] = b[i]
      /\ b2[Len(b) + 1] = k
  BY AppendProperties
<1>2. DOMAIN b2 = 1..Len(b) + 1 /\ DOMAIN b = 1..Len(b)
  BY <1>1
<1>3. IsInjective(b2)
  BY <1>1, <1>2 DEF IsInjective, Supports
<1>4. ASSUME NEW x PROVE Supports(b2, x) <=> Supports(b, x) \/ x = k
  BY <1>1, <1>2 DEF Supports
<1> QED BY <1>1, <1>3, <1>4

LEMMA Leaves ==
  ASSUME NEW D, NEW b \in Seq(D), IsInjective(b), b # <<>>, NEW b2, b2 = Tail(b)
  PROVE  /\ Head(b) \in D /\ b2 \in Seq(D) /\ IsInjective(b2)
         /\ Supports(b, Head(b)) /\ \A x : Supports(b2, x) <=> Supports(b, x) /\ x # Head(b)
<1>1. /\ Head(b) \in D /\ b2 \in Seq(D) /\ Len(b2) = Len(b) - 1 /\ Len(b) \in Nat /\ Len(b) > 0
      /\ \A i \in 1..Len(b2) : b2[i] = b[i + 1]
      /\ Head(b) = b[1]
  BY HeadTailProperties
<1>2. DOMAIN b2 = 1..Len(b) - 1 /\ DOMAIN b = 1..Len(b)
  BY <1>1
<1>3. IsInjective(b2)
  <2>1. ASSUME NEW i \in 1..Len(b2), NEW j \in 1..Len(b2), b2[i] = b2[j] PROVE i = j
    <3>1. b[i + 1] = b[j + 1] /\ i + 1 \in DOMAIN b /\ j + 1 \in DOMAIN b
      BY <1>1, <1>2, <2>1
    <3>2. i + 1 = j + 1
      BY <3>1 DEF IsInjective
    <3> QED BY <3>2, <1>1
  <2> QED BY <2>1, <1>1, <1>2 DEF IsInjective
<1>4. Supports(b, Head(b))
  BY <1>1, <1>2 DEF Supports
<1>5. ASSUME NEW x PROVE Supports(b2, x) <=> Supports(b, x) /\ x # Head(b)
  <2>1. ASSUME NEW i \in DOMAIN b2, b2[i] = x PROVE Supports(b, x) /\ x # Head(b)
    <3>1. b[i + 1] = x /\ i + 1 \in DOMAIN b /\ 1 \in DOMAIN b /\ i + 1 # 1
      BY <1>1, <1>2, <2>1
    <3>2. b[i + 1] # b[1]
      BY <3>1 DEF IsInjective
    <3> QED BY <3>1, <3>2, <1>1 DEF Supports
  <2>2. ASSUME NEW i \in DOMAIN b, b[i] = x, x # Head(b) PROVE Supports(b2, x)
    <3>1. i - 1 \in 1..Len(b2) /\ i - 1 + 1 = i
      BY <1>1, <1>2, <2>2
    <3>2. b2[i - 1] = b[i]
      BY <3>1, <1>1
    <3> QED BY <3>1, <3>2, <1>1, <1>2, <2>2 DEF Supports
  <2> QED BY <2>1, <2>2 DEF Supports
<1> QED BY <1>1, <1>3, <1>4, <1>5

-----------------------------------------------------------------------------

\* The definitions of the model, by the settings of one connection.
LEMMA ByClient ==
  ASSUME NEW k
  PROVE  opening(k) = Opens(cl(k)) /\ sent(k) = Says(k, cl(k)) /\ NewClientHello(k) = Hello(k, cl(k))
<1>1. opening(k) = Opens(cl(k)) /\ NewClientHello(k) = Hello(k, cl(k))
  BY DEF opening, Opens, Muxed, NewClientHello, Hello
<1>2. sent(k) = Says(k, cl(k))
  <2>1. PICK m : m = [t |-> "msg", ask |-> cl(k).ask]
    OBVIOUS
  <2>2. PICK g : g = Hello(k, cl(k))
    OBVIOUS
  <2>3. PICK v : v = Token("magic")
    OBVIOUS
  <2>4. PICK S : S = {m, g, v}
    OBVIOUS
  <2>5. PICK a : a = IF cl(k).wire = "v2" THEN <<v>> ELSE <<>>
    OBVIOUS
  <2>6. PICK b : b = IF Greets(cl(k)) THEN <<g>> ELSE <<>>
    OBVIOUS
  <2>7. a \in Seq(S) /\ b \in Seq(S) /\ <<m>> \in Seq(S)
    <3>1. m \in S /\ g \in S /\ v \in S
      BY <2>4
    <3>2. <<m>> \in Seq(S) /\ <<g>> \in Seq(S) /\ <<v>> \in Seq(S)
      BY <3>1
    <3>3. a \in Seq(S)
      BY <3>2, <2>5, EmptySeq
    <3>4. b \in Seq(S)
      BY <3>2, <2>6, EmptySeq
    <3> QED BY <3>2, <3>3, <3>4
  <2>8. (a \o b) \o <<m>> = a \o (b \o <<m>>)
    BY <2>7, ConcatAssociative
  <2>9. Says(k, cl(k)) = a \o (b \o <<m>>)
    BY <2>1, <2>2, <2>3, <2>5, <2>6 DEF Says, Asks, Message
  <2>10. sent(k) = (a \o b) \o <<m>>
    BY <1>1, <2>1, <2>2, <2>3, <2>5, <2>6 DEF sent, Greets
  <2> QED BY <2>8, <2>9, <2>10
<1> QED BY <1>1, <1>2

\* One connection of the state, and the whole of it.
TalkAt(k) == Talk(k, cl(k), net[k], dialer[k], handler[k])
WireFunctions ==
  /\ net = [k \in Wire |-> net[k]] /\ dialer = [k \in Wire |-> dialer[k]]
  /\ handler = [k \in Wire |-> handler[k]]

\* A step that keeps the scene and every connection's talk keeps the invariant.
LEMMA TalksOn ==
  ASSUME WireInv, WireSceneOK(wscene)', wscene'.cl = wscene.cl, WireFunctions', LoopOK',
         \A x \in Dialled : Talk(x, cl(x), net'[x], dialer'[x], handler'[x]),
         \A x \in Wire \ Dialled : dialer'[x].at = dialer[x].at /\ handler'[x].at = handler[x].at
  PROVE  WireInv'
<1>1. Dialled' = Dialled /\ \A x : cl(x)' = cl(x)
  BY DEF Dialled, cl
<1>2. ASSUME NEW x \in Wire
      PROVE  IF x \in Dialled' THEN Talk(x, cl(x)', net'[x], dialer'[x], handler'[x])
             ELSE dialer'[x].at = "new" /\ handler'[x].at = "none"
  <2>1. x \in Dialled => Talk(x, cl(x)', net'[x], dialer'[x], handler'[x])
    BY <1>1
  <2>2. x \notin Dialled => dialer'[x].at = "new" /\ handler'[x].at = "none"
    BY DEF WireInv
  <2> QED BY <2>1, <2>2, <1>1
<1> QED BY <1>2 DEF WireInv, WireFunctions

\* The accept loop sees nothing of a step that neither queues nor looks.
LEMMA LoopStays ==
  ASSUME LoopOK, wscene'.cl = wscene.cl, backlog' = backlog, loop' = loop,
         \A x \in Wire : /\ handler'[x].at = "check" <=> handler[x].at = "check"
                         /\ handler'[x].at = "queued" <=> handler[x].at = "queued"
  PROVE  LoopOK'
<1>1. Dialled' = Dialled
  BY DEF Dialled
<1>2. ASSUME NEW x \in Wire
      PROVE  /\ handler'[x].at = "check" <=> loop' = <<x>>
             /\ handler'[x].at = "queued" <=> Supports(backlog', x)
  BY DEF LoopOK
<1> QED BY <1>1, <1>2 DEF LoopOK

\* A step of one connection.
LEMMA OneTalks ==
  ASSUME WireInv, NEW k \in Dialled, wscene' = wscene, WireFunctions', LoopOK',
         \A x \in Wire \ {k} : net'[x] = net[x] /\ dialer'[x] = dialer[x] /\ handler'[x] = handler[x],
         Talk(k, cl(k), net'[k], dialer'[k], handler'[k])
  PROVE  WireInv'
<1>1. WireSceneOK(wscene)' /\ wscene'.cl = wscene.cl
  BY DEF WireInv
<1>2. Dialled \subseteq Wire
  BY DEF WireInv, WireSceneOK, Dialled
<1>3. ASSUME NEW x \in Dialled PROVE Talk(x, cl(x), net'[x], dialer'[x], handler'[x])
  <2>1. CASE x = k
    BY <2>1
  <2>2. CASE x # k
    <3>1. x \in Wire \ {k}
      BY <2>2, <1>2
    <3>2. net'[x] = net[x] /\ dialer'[x] = dialer[x] /\ handler'[x] = handler[x]
      BY <3>1
    <3>3. TalkAt(x)
      BY <1>2 DEF WireInv, TalkAt
    <3> QED BY <3>2, <3>3 DEF TalkAt
  <2> QED BY <2>1, <2>2
<1>4. \A x \in Wire \ Dialled : dialer'[x].at = dialer[x].at /\ handler'[x].at = handler[x].at
  OBVIOUS
<1> QED BY <1>1, <1>3, <1>4, TalksOn

LEMMA WireFacts ==
  ASSUME WireInv, NEW k \in Dialled
  PROVE  /\ k \in Wire /\ Dialled \subseteq Wire /\ IsDial(cl(k)) /\ TalkAt(k)
         /\ IsNet(net[k]) /\ IsDialer(dialer[k]) /\ IsHandler(handler[k])
         /\ WireFunctions /\ LoopOK
<1>1. k \in Wire /\ Dialled \subseteq Wire /\ IsDial(cl(k))
  BY DEF WireInv, WireSceneOK, Dialled, IsDial, cl
<1>2. TalkAt(k)
  BY <1>1 DEF WireInv, TalkAt
<1>3. IsNet(net[k]) /\ IsDialer(dialer[k]) /\ IsHandler(handler[k])
  BY <1>2 DEF TalkAt, Talk
<1> QED BY <1>1, <1>2, <1>3 DEF WireInv, WireFunctions

\* Closing a connection on frpc's side, its streams with it.
LEMMA ClientClosesTalks ==
  ASSUME WireInv, NEW k \in Dialled, clientCloses(k), UNCHANGED <<wscene, handler, backlog, loop>>
  PROVE  WireInv'
<1>1. WireFunctions' /\ WireFunctions
  BY DEF WireInv, clientCloses, WireFunctions
<1>2. WireSceneOK(wscene)' /\ wscene'.cl = wscene.cl /\ LoopOK
  BY DEF WireInv
<1>3. LoopOK'
  BY <1>2, LoopStays
<1>4. ASSUME NEW x \in Dialled PROVE Talk(x, cl(x), net'[x], dialer'[x], handler'[x])
  <2>1. x \in Wire /\ TalkAt(x) /\ IsNet(net[x]) /\ IsDialer(dialer[x])
    BY WireFacts
  <2>2. PICK n, d, h, n2, d2, c : n = net[x] /\ d = dialer[x] /\ h = handler[x] /\ n2 = net'[x]
                               /\ d2 = dialer'[x] /\ c = cl(x)
    OBVIOUS
  <2>3. Talk(x, c, n, d, h) /\ IsNet(n) /\ IsDialer(d)
    BY <2>1, <2>2 DEF TalkAt
  <2>4. CASE x \in streams(k)
    <3>1. n2 = [n EXCEPT !.cshut = TRUE, !.s2c = <<>>]
      BY <2>1, <2>2, <2>4 DEF clientCloses
    <3>2. IsNet(n2) /\ n2.c2s = n.c2s /\ n2.s2c = <<>>
      BY <3>1, <2>3 DEF IsNet
    <3>3. d2 = IF d.at # "new" THEN [d EXCEPT !.at = "failed"] ELSE d
      BY <2>1, <2>2, <2>4 DEF clientCloses
    <3>4. IsDialer(d2) /\ d2.ctx = d.ctx /\ d2.at = (IF d.at = "new" THEN "new" ELSE "failed")
      BY <3>3, <2>3 DEF IsDialer
    <3>5. Talk(x, c, n2, d2, h)
      BY <2>3, <3>2, <3>4, DropTalks
    <3> QED BY <2>2, <3>5
  <2>5. CASE x \notin streams(k)
    <3>1. n2 = n /\ d2 = d
      BY <2>1, <2>2, <2>5 DEF clientCloses
    <3> QED BY <2>2, <2>3, <3>1
  <2> QED BY <2>4, <2>5
<1>5. ASSUME NEW x \in Wire \ Dialled PROVE dialer'[x].at = dialer[x].at /\ handler'[x].at = handler[x].at
  BY DEF clientCloses, streams
<1> QED BY <1>1, <1>2, <1>3, <1>4, <1>5, TalksOn

\* The network breaks a connection.
LEMMA CutTalks ==
  ASSUME WireInv, NEW k \in Dialled, Cut(k)
  PROVE  WireInv'
<1>1. WireFunctions' /\ WireFunctions
  BY DEF WireInv, Cut, WireFunctions
<1>2. WireSceneOK(wscene)' /\ wscene'.cl = wscene.cl /\ LoopOK
  <2>1. wscene' = [wscene EXCEPT !.cuts = wscene.cuts - 1]
    BY DEF Cut
  <2>2. wscene = [cl |-> wscene.cl, force |-> wscene.force, mux |-> wscene.mux, cuts |-> wscene.cuts]
    BY DEF WireInv, WireSceneOK
  <2>3. PICK s, t : s = wscene /\ t = wscene'
    OBVIOUS
  <2>4. PICK v : v = s.cuts - 1
    OBVIOUS
  <2>5. t = [cl |-> s.cl, force |-> s.force, mux |-> s.mux, cuts |-> v]
    BY <2>1, <2>2, <2>3, <2>4
  <2>6. WireSceneOK(s)
    BY <2>3 DEF WireInv
  <2>7. WireSceneOK(t) /\ t.cl = s.cl
    BY <2>5, <2>6 DEF WireSceneOK
  <2> QED BY <2>3, <2>7 DEF WireInv
<1>3. LoopOK'
  BY <1>2, LoopStays DEF Cut
<1>4. ASSUME NEW x \in Dialled PROVE Talk(x, cl(x), net'[x], dialer'[x], handler'[x])
  <2>1. x \in Wire /\ TalkAt(x) /\ IsNet(net[x]) /\ IsDialer(dialer[x])
    BY WireFacts
  <2>2. PICK n, d, h, n2, d2, c : n = net[x] /\ d = dialer[x] /\ h = handler[x] /\ n2 = net'[x]
                               /\ d2 = dialer'[x] /\ c = cl(x)
    OBVIOUS
  <2>3. Talk(x, c, n, d, h) /\ IsNet(n) /\ IsDialer(d) /\ handler'[x] = h
    BY <2>1, <2>2 DEF TalkAt, Cut
  <2>4. CASE x \in streams(k)
    <3>1. n2 = [n EXCEPT !.cshut = TRUE, !.sshut = TRUE, !.c2s = <<>>, !.s2c = <<>>]
      BY <2>1, <2>2, <2>4 DEF Cut
    <3>2. IsNet(n2) /\ n2.c2s = <<>> /\ n2.s2c = <<>>
      BY <3>1, <2>3 DEF IsNet
    <3>3. d2 = IF d.at # "new" THEN [d EXCEPT !.at = "failed"] ELSE d
      BY <2>1, <2>2, <2>4 DEF Cut
    <3>4. IsDialer(d2) /\ d2.ctx = d.ctx /\ d2.at = (IF d.at = "new" THEN "new" ELSE "failed")
      BY <3>3, <2>3 DEF IsDialer
    <3>5. Talk(x, c, n2, d2, h)
      BY <2>3, <3>2, <3>4, DropTalks
    <3> QED BY <2>2, <2>3, <3>5
  <2>5. CASE x \notin streams(k)
    <3>1. n2 = n /\ d2 = d
      BY <2>1, <2>2, <2>5 DEF Cut
    <3> QED BY <2>2, <2>3, <3>1
  <2> QED BY <2>4, <2>5
<1>5. ASSUME NEW x \in Wire \ Dialled PROVE dialer'[x].at = dialer[x].at /\ handler'[x].at = handler[x].at
  BY DEF Cut, streams
<1> QED BY <1>1, <1>2, <1>3, <1>4, <1>5, TalksOn

\* The handler of a connection is done, and with it those of its streams.
LEMMA FinishTalks ==
  ASSUME WireInv, NEW k \in Dialled, NEW a, finish(k, a), a \in Seq(Replies(k, cl(k))),
         handler[k].at \notin {"none", "queued"}, UNCHANGED <<wscene, dialer, backlog>>,
         loop' = IF handler[k].at = "check" THEN <<>> ELSE loop
  PROVE  WireInv'
<1>1. WireFunctions' /\ WireFunctions
  BY DEF WireInv, finish, WireFunctions
<1>2. WireSceneOK(wscene)' /\ wscene'.cl = wscene.cl /\ LoopOK /\ k \in Wire /\ Dialled' = Dialled
  BY WireFacts DEF WireInv, Dialled
<1>3. ASSUME NEW x \in Dialled, x # k, x \in streams(k)
      PROVE  handler[x].at \notin {"queued", "check", "mux"}
  <2>1. cl(x).of = k /\ cl(x).mux
    BY <1>3 DEF streams
  <2>2. TalkAt(x)
    BY WireFacts
  <2> QED BY <1>3, <2>1, <2>2 DEF TalkAt, Talk
<1>4. ASSUME NEW x \in Wire
      PROVE  IF x = k \/ (x \in streams(k) /\ handler[x].at # "none")
             THEN handler'[x] = [handler[x] EXCEPT !.at = "closed"] ELSE handler'[x] = handler[x]
  BY DEF finish
<1>5. ASSUME NEW x \in Dialled, x = k \/ (x \in streams(k) /\ handler[x].at # "none")
      PROVE  IsHandler(handler'[x]) /\ handler'[x].at = "closed"
  <2>1. x \in Wire /\ IsHandler(handler[x])
    BY WireFacts
  <2>2. PICK h, h2 : h = handler[x] /\ h2 = handler'[x]
    OBVIOUS
  <2>3. h2 = [h EXCEPT !.at = "closed"] /\ IsHandler(h)
    BY <1>4, <1>5, <2>1, <2>2
  <2>4. IsHandler(h2) /\ h2.at = "closed"
    BY <2>3 DEF IsHandler
  <2> QED BY <2>2, <2>4
<1>6. ASSUME NEW x \in Wire
      PROVE  /\ handler'[x].at = "queued" <=> handler[x].at = "queued"
             /\ handler'[x].at = "check" <=> handler[x].at = "check" /\ x # k
  <2>1. CASE x = k
    BY <2>1, <1>5
  <2>2. CASE x # k /\ x \in streams(k) /\ handler[x].at # "none"
    <3>1. x \in Dialled
      BY <2>2 DEF streams
    <3> QED BY <2>2, <3>1, <1>3, <1>5
  <2>3. CASE ~(x = k \/ (x \in streams(k) /\ handler[x].at # "none"))
    BY <2>3, <1>4
  <2> QED BY <2>1, <2>2, <2>3
<1>7. LoopOK'
  <2>1. CASE handler[k].at = "check"
    <3>1. loop = <<k>> /\ loop' = <<>>
      BY <2>1, <1>2 DEF LoopOK
    <3>2. ASSUME NEW x \in Wire
          PROVE  /\ handler'[x].at = "check" <=> loop' = <<x>>
                 /\ handler'[x].at = "queued" <=> Supports(backlog', x)
      <4>1. handler[x].at = "check" => x = k
        <5>1. handler[x].at = "check" => <<k>> = <<x>>
          BY <3>1, <1>2 DEF LoopOK
        <5> QED BY <5>1
      <4>2. <<>> # <<x>>
        OBVIOUS
      <4> QED BY <4>1, <4>2, <1>2, <1>6, <3>1 DEF LoopOK
    <3> QED BY <1>2, <3>1, <3>2 DEF LoopOK
  <2>2. CASE handler[k].at # "check"
    <3>1. \A x \in Wire : handler'[x].at = "check" <=> handler[x].at = "check"
      BY <2>2, <1>6
    <3> QED BY <2>2, <3>1, <1>2, <1>6, LoopStays
  <2> QED BY <2>1, <2>2
<1>8. ASSUME NEW x \in Dialled PROVE Talk(x, cl(x), net'[x], dialer'[x], handler'[x])
  <2>1. x \in Wire /\ TalkAt(x) /\ IsNet(net[x])
    BY WireFacts
  <2>2. PICK n, d, h, n2, h2, c : n = net[x] /\ d = dialer[x] /\ h = handler[x] /\ n2 = net'[x]
                               /\ h2 = handler'[x] /\ c = cl(x)
    OBVIOUS
  <2>3. Talk(x, c, n, d, h) /\ IsNet(n) /\ dialer'[x] = d /\ n.s2c \in Seq(Replies(x, c))
    BY <2>1, <2>2 DEF TalkAt, Talk
  <2>4. IsNet(n2) /\ n2.s2c \in Seq(Replies(x, c)) /\ (x # k => n2.c2s = n.c2s)
    <3>1. CASE x = k
      <4>1. \/ n2 = [n EXCEPT !.sshut = TRUE, !.c2s = <<>>, !.s2c = <<>>]
            \/ n2 = [n EXCEPT !.sshut = TRUE, !.c2s = <<>>, !.s2c = n.s2c \o a]
        BY <2>1, <2>2, <3>1 DEF finish
      <4>2. PICK r : r \in {<<>>, n.s2c \o a} /\ n2 = [n EXCEPT !.sshut = TRUE, !.c2s = <<>>, !.s2c = r]
        BY <4>1
      <4>3. IsNet(n2) /\ n2.s2c = r
        BY <4>2, <2>3 DEF IsNet
      <4>4. PICK R : R = Replies(x, c)
        OBVIOUS
      <4>5. n.s2c \o a \in Seq(R)
        BY <4>4, <2>2, <2>3, <3>1, ConcatProperties
      <4> QED BY <4>2, <4>3, <4>4, <4>5, <3>1, EmptySeq
    <3>2. CASE x # k /\ x \in streams(k)
      <4>1. n2 = [n EXCEPT !.sshut = TRUE]
        BY <2>1, <2>2, <3>2 DEF finish
      <4>2. IsNet(n2) /\ n2.s2c = n.s2c /\ n2.c2s = n.c2s
        BY <4>1, <2>3 DEF IsNet
      <4> QED BY <4>2, <2>3
    <3>3. CASE x # k /\ x \notin streams(k)
      <4>1. n2 = n
        BY <2>1, <2>2, <3>3 DEF finish
      <4> QED BY <4>1, <2>3
    <3> QED BY <3>1, <3>2, <3>3
  <2>5. CASE x = k \/ (x \in streams(k) /\ handler[x].at # "none")
    <3>1. IsHandler(h2) /\ h2.at = "closed" /\ h.at # "none"
      BY <2>2, <2>5, <1>5
    <3>2. Talk(x, c, n2, d, h2)
      BY <2>3, <2>4, <3>1, CloseTalks
    <3> QED BY <2>2, <2>3, <3>2
  <2>6. CASE ~(x = k \/ (x \in streams(k) /\ handler[x].at # "none"))
    <3>1. h2 = h /\ x # k
      BY <2>1, <2>2, <2>6, <1>4
    <3>2. Talk(x, c, n2, d, h)
      BY <2>3, <2>4, <3>1, ShutTalks
    <3> QED BY <2>2, <2>3, <3>1, <3>2
  <2> QED BY <2>5, <2>6
<1>9. ASSUME NEW x \in Wire \ Dialled PROVE dialer'[x].at = dialer[x].at /\ handler'[x].at = handler[x].at
  BY <1>4 DEF streams
<1> QED BY <1>1, <1>2, <1>7, <1>8, <1>9, TalksOn

\* The values a step of one connection reads.
LEMMA DialWire ==
  ASSUME WireInv, NEW k \in Dialled, Dial(k)
  PROVE  WireInv'
<1>0. /\ k \in Wire /\ TalkAt(k) /\ IsNet(net[k]) /\ IsDialer(dialer[k]) /\ IsHandler(handler[k])
      /\ WireFunctions /\ LoopOK /\ opening(k) = Opens(cl(k))
  BY WireFacts, ByClient
<1>1. WireFunctions' /\ wscene' = wscene
  BY <1>0 DEF Dial, WireFunctions
<1>2. \A x \in Wire \ {k} : net'[x] = net[x] /\ dialer'[x] = dialer[x] /\ handler'[x] = handler[x]
  BY <1>0 DEF Dial, WireFunctions
<1>3. PICK n, d, h, n2, d2, h2, c : n = net[k] /\ d = dialer[k] /\ h = handler[k] /\ n2 = net'[k]
                                 /\ d2 = dialer'[k] /\ h2 = handler'[k] /\ c = cl(k)
  OBVIOUS
<1>4. Talk(k, c, n, d, h) /\ IsNet(n) /\ IsDialer(d) /\ IsHandler(h)
  BY <1>0, <1>3 DEF TalkAt
<1>5. PICK s : s = IF c.stops = "dial" THEN <<>> ELSE Opens(c)
  OBVIOUS
<1>6. n2 = [n EXCEPT !.c2s = s] /\ d2 = [d EXCEPT !.at = "open"] /\ h2 = [h EXCEPT !.at = "queued"]
      /\ d.at = "new"
  BY <1>0, <1>3, <1>5 DEF Dial, WireFunctions
<1>7. /\ IsNet(n2) /\ n2.c2s = s /\ n2.s2c = n.s2c
      /\ IsDialer(d2) /\ d2.at = "open" /\ d2.ctx = d.ctx
      /\ IsHandler(h2) /\ h2.at = "queued" /\ h2.ctx = h.ctx
  BY <1>4, <1>6 DEF IsNet, IsDialer, IsHandler
<1>8. c.of = k \/ ~c.mux
  BY <1>3 DEF Dial, ownConnection
<1>9. Talk(k, c, n2, d2, h2)
  <2>1. n2.c2s = IF c.stops = "dial" THEN <<>> ELSE Opens(c)
    BY <1>5, <1>7
  <2>2. \/ /\ h2.at = "queued" /\ (c.of = k \/ ~c.mux)
           /\ n2.c2s = IF c.stops = "dial" THEN <<>> ELSE Opens(c)
        \/ h2.at = "magic" /\ n2.c2s = n.c2s
    BY <2>1, <1>7, <1>8
  <2>3. /\ Talk(k, c, n, d, h) /\ d.at = "new" /\ IsNet(n2) /\ IsDialer(d2) /\ IsHandler(h2)
        /\ n2.s2c = n.s2c /\ d2.at = "open" /\ d2.ctx = d.ctx /\ h2.ctx = h.ctx
    BY <1>4, <1>6, <1>7
  <2> QED BY <2>2, <2>3, DialTalks
<1>10. LoopOK'
  <2>1. handler[k].at = "none"
    BY <1>3, <1>4, <1>6 DEF Talk
  <2>2. ~Supports(backlog, k) /\ loop # <<k>>
    BY <1>0, <2>1 DEF LoopOK
  <2>3. backlog' = Append(backlog, k) /\ loop' = loop /\ Dialled' = Dialled
    BY <1>1 DEF Dial, Dialled
  <2>4. /\ backlog' \in Seq(Dialled) /\ IsInjective(backlog')
        /\ \A x : Supports(backlog', x) <=> Supports(backlog, x) \/ x = k
    <3>1. PICK D, b, b2 : D = Dialled /\ b = backlog /\ b2 = backlog'
      OBVIOUS
    <3>2. b \in Seq(D) /\ IsInjective(b) /\ k \in D /\ ~Supports(b, k) /\ b2 = Append(b, k)
      BY <1>0, <2>2, <2>3, <3>1 DEF LoopOK
    <3>3. /\ b2 \in Seq(D) /\ IsInjective(b2)
          /\ \A x : Supports(b2, x) <=> Supports(b, x) \/ x = k
      BY <3>2, Joins
    <3> QED BY <3>1, <3>3
  <2>5. ASSUME NEW x \in Wire
        PROVE  /\ handler'[x].at = "check" <=> loop' = <<x>>
               /\ handler'[x].at = "queued" <=> Supports(backlog', x)
    <3>1. CASE x = k
      BY <3>1, <1>3, <1>7, <2>2, <2>3, <2>4
    <3>2. CASE x # k
      BY <3>2, <1>0, <1>2, <2>3, <2>4 DEF LoopOK
    <3> QED BY <3>1, <3>2
  <2> QED BY <2>3, <2>4, <2>5, <1>0 DEF LoopOK
<1> QED BY <1>1, <1>2, <1>3, <1>9, <1>10, OneTalks

LEMMA OpenStreamWire ==
  ASSUME WireInv, NEW k \in Dialled, OpenStream(k)
  PROVE  WireInv'
<1>0. /\ k \in Wire /\ TalkAt(k) /\ IsNet(net[k]) /\ IsDialer(dialer[k]) /\ IsHandler(handler[k])
      /\ WireFunctions /\ LoopOK
  BY WireFacts
<1>1. WireFunctions' /\ wscene' = wscene
  BY <1>0 DEF OpenStream, WireFunctions
<1>2. \A x \in Wire \ {k} : net'[x] = net[x] /\ dialer'[x] = dialer[x] /\ handler'[x] = handler[x]
  BY <1>0 DEF OpenStream, WireFunctions
<1>3. PICK n, d, h, d2, h2, c : n = net[k] /\ d = dialer[k] /\ h = handler[k]
                             /\ d2 = dialer'[k] /\ h2 = handler'[k] /\ c = cl(k)
  OBVIOUS
<1>4. Talk(k, c, n, d, h) /\ IsNet(n) /\ IsDialer(d) /\ IsHandler(h)
  BY <1>0, <1>3 DEF TalkAt
<1>5. net'[k] = n /\ d2 = [d EXCEPT !.at = "open"] /\ h2 = [h EXCEPT !.at = "magic"] /\ d.at = "new"
  BY <1>0, <1>3 DEF OpenStream, WireFunctions
<1>6. /\ IsDialer(d2) /\ d2.at = "open" /\ d2.ctx = d.ctx
      /\ IsHandler(h2) /\ h2.at = "magic" /\ h2.ctx = h.ctx
  BY <1>4, <1>5 DEF IsDialer, IsHandler
<1>7. Talk(k, c, n, d2, h2)
  <2>1. \/ /\ h2.at = "queued" /\ (c.of = k \/ ~c.mux)
           /\ n.c2s = IF c.stops = "dial" THEN <<>> ELSE Opens(c)
        \/ h2.at = "magic" /\ n.c2s = n.c2s
    BY <1>6
  <2>2. /\ Talk(k, c, n, d, h) /\ d.at = "new" /\ IsNet(n) /\ IsDialer(d2) /\ IsHandler(h2)
        /\ n.s2c = n.s2c /\ d2.at = "open" /\ d2.ctx = d.ctx /\ h2.ctx = h.ctx
    BY <1>4, <1>5, <1>6
  <2> QED BY <2>1, <2>2, DialTalks
<1>8. LoopOK'
  <2>1. h.at = "none"
    BY <1>4, <1>5 DEF Talk
  <2>2. \A x \in Wire : /\ handler'[x].at = "check" <=> handler[x].at = "check"
                        /\ handler'[x].at = "queued" <=> handler[x].at = "queued"
    BY <2>1, <1>2, <1>3, <1>6
  <2> QED BY <2>2, <1>0, <1>1, LoopStays DEF OpenStream
<1> QED BY <1>1, <1>2, <1>3, <1>5, <1>7, <1>8, OneTalks

LEMMA SendWire ==
  ASSUME WireInv, NEW k \in Dialled, Send(k)
  PROVE  WireInv'
<1>0. /\ k \in Wire /\ TalkAt(k) /\ IsNet(net[k]) /\ IsDialer(dialer[k])
      /\ WireFunctions /\ LoopOK /\ IsDial(cl(k)) /\ sent(k) = Says(k, cl(k))
  BY WireFacts, ByClient
<1>1. CASE ~cl(k).fits
  <2>1. clientCloses(k) /\ UNCHANGED <<wscene, handler, backlog, loop>>
    BY <1>1 DEF Send
  <2> QED BY <2>1, ClientClosesTalks
<1>2. CASE cl(k).fits
  <2>1. WireFunctions' /\ wscene' = wscene /\ handler' = handler
    BY <1>0, <1>2 DEF Send, WireFunctions
  <2>2. \A x \in Wire \ {k} : net'[x] = net[x] /\ dialer'[x] = dialer[x] /\ handler'[x] = handler[x]
    BY <1>0, <1>2 DEF Send, WireFunctions
  <2>3. PICK n, d, h, n2, d2, c : n = net[k] /\ d = dialer[k] /\ h = handler[k] /\ n2 = net'[k]
                               /\ d2 = dialer'[k] /\ c = cl(k)
    OBVIOUS
  <2>4. Talk(k, c, n, d, h) /\ IsNet(n) /\ IsDialer(d) /\ IsDial(c)
    BY <1>0, <2>3 DEF TalkAt
  <2>5. PICK a : a = IF Greets(c) THEN "hello" ELSE "resp"
    OBVIOUS
  <2>6. PICK s : s = n.c2s \o Says(k, c)
    OBVIOUS
  <2>7. n2 = [n EXCEPT !.c2s = s] /\ d2 = [d EXCEPT !.at = a] /\ d.at = "open" /\ c.stops = ""
    BY <1>0, <1>2, <2>3, <2>5, <2>6 DEF Send, WireFunctions, Greets
  <2>8. /\ IsNet(n2) /\ n2.c2s = s /\ n2.s2c = n.s2c
        /\ IsDialer(d2) /\ d2.at = a /\ d2.ctx = d.ctx
    BY <2>4, <2>7 DEF IsNet, IsDialer
  <2>9. Talk(k, c, n2, d2, h)
    BY <2>4, <2>5, <2>6, <2>7, <2>8, SendTalks
  <2>10. LoopOK'
    BY <1>0, <2>1, LoopStays DEF Send
  <2> QED BY <2>1, <2>2, <2>3, <2>9, <2>10, OneTalks
<1> QED BY <1>1, <1>2

\* The client reads an answer.
LEMMA RecvWire ==
  ASSUME WireInv, NEW k \in Dialled, RecvHello(k) \/ RecvResp(k)
  PROVE  WireInv'
<1>0. /\ k \in Wire /\ TalkAt(k) /\ IsNet(net[k]) /\ IsDialer(dialer[k])
      /\ WireFunctions /\ LoopOK /\ NewClientHello(k) = Hello(k, cl(k))
  BY WireFacts, ByClient
<1>1. CASE clientCloses(k)
  <2>1. UNCHANGED <<wscene, handler, backlog, loop>>
    BY DEF RecvHello, RecvResp
  <2> QED BY <1>1, <2>1, ClientClosesTalks
<1>2. CASE ~clientCloses(k)
  <2>1. /\ net' = [net EXCEPT ![k].s2c = Tail(@)] /\ net[k].s2c # <<>>
        /\ UNCHANGED <<wscene, handler, backlog, loop>>
        /\ \/ /\ dialer[k].at = "hello" /\ Head(net[k].s2c).t = "serverhello"
              /\ dialer' = [dialer EXCEPT ![k].at = "resp",
                             ![k].ctx = NewCryptoContext(NewClientHello(k), Head(net[k].s2c))]
           \/ dialer[k].at = "resp" /\ dialer' = [dialer EXCEPT ![k].at = "up"]
    BY <1>2 DEF RecvHello, RecvResp, answer
  <2>2. WireFunctions' /\ handler' = handler
    BY <1>0, <2>1 DEF WireFunctions
  <2>3. \A x \in Wire \ {k} : net'[x] = net[x] /\ dialer'[x] = dialer[x] /\ handler'[x] = handler[x]
    BY <1>0, <2>1 DEF WireFunctions
  <2>4. PICK n, d, h, n2, d2, c : n = net[k] /\ d = dialer[k] /\ h = handler[k] /\ n2 = net'[k]
                               /\ d2 = dialer'[k] /\ c = cl(k)
    OBVIOUS
  <2>5. Talk(k, c, n, d, h) /\ IsNet(n) /\ IsDialer(d)
    BY <1>0, <2>4 DEF TalkAt
  <2>6. PICK s : s = Tail(n.s2c)
    OBVIOUS
  <2>7. n2 = [n EXCEPT !.s2c = s] /\ n.s2c # <<>>
    BY <1>0, <2>1, <2>4, <2>6 DEF WireFunctions
  <2>8. IsNet(n2) /\ n2.s2c = s /\ n2.c2s = n.c2s
    BY <2>5, <2>7 DEF IsNet
  <2>9. Talk(k, c, n2, d2, h)
    <3>1. CASE d.at = "hello"
      <4>1. PICK g : g = NewCryptoContext(Hello(k, c), Head(n.s2c))
        OBVIOUS
      <4>2. d2 = [d EXCEPT !.at = "resp", !.ctx = g] /\ Head(n.s2c).t = "serverhello"
        BY <1>0, <2>1, <2>4, <3>1, <4>1 DEF WireFunctions
      <4>3. IsDialer(d2) /\ d2.at = "resp" /\ d2.ctx = g
        BY <2>5, <4>2 DEF IsDialer
      <4> QED BY <2>5, <2>6, <2>7, <2>8, <3>1, <4>1, <4>2, <4>3, HelloTalks
    <3>2. CASE d.at # "hello"
      <4>1. d2 = [d EXCEPT !.at = "up"] /\ d.at = "resp"
        BY <1>0, <2>1, <2>4, <3>2 DEF WireFunctions
      <4>2. IsDialer(d2) /\ d2.at = "up" /\ d2.ctx = d.ctx
        BY <2>5, <4>1 DEF IsDialer
      <4> QED BY <2>5, <2>6, <2>7, <2>8, <4>1, <4>2, RespTalks
    <3> QED BY <3>1, <3>2
  <2>10. LoopOK'
    BY <1>0, <2>1, <2>2, LoopStays
  <2> QED BY <2>1, <2>2, <2>3, <2>4, <2>9, <2>10, OneTalks
<1> QED BY <1>1, <1>2

LEMMA AcceptWire ==
  ASSUME WireInv, Accept
  PROVE  WireInv'
<1>1. PICK k : k = Head(backlog)
  OBVIOUS
<1>2. LoopOK /\ backlog # <<>> /\ loop = <<>> /\ loop' = <<k>> /\ backlog' = Tail(backlog)
  BY <1>1 DEF WireInv, Accept
<1>3. /\ k \in Dialled /\ backlog' \in Seq(Dialled) /\ IsInjective(backlog') /\ Supports(backlog, k)
      /\ \A x : Supports(backlog', x) <=> Supports(backlog, x) /\ x # k
  <2>1. PICK D, b, b2 : D = Dialled /\ b = backlog /\ b2 = backlog'
    OBVIOUS
  <2>2. b \in Seq(D) /\ IsInjective(b) /\ b # <<>> /\ b2 = Tail(b)
    BY <1>2, <2>1 DEF LoopOK
  <2>3. /\ Head(b) \in D /\ b2 \in Seq(D) /\ IsInjective(b2)
        /\ Supports(b, Head(b)) /\ \A x : Supports(b2, x) <=> Supports(b, x) /\ x # Head(b)
    BY <2>2, Leaves
  <2> QED BY <1>1, <2>1, <2>3
<1>4. /\ k \in Wire /\ TalkAt(k) /\ IsHandler(handler[k]) /\ WireFunctions
  BY <1>3, WireFacts
<1>5. WireFunctions' /\ wscene' = wscene /\ Dialled' = Dialled
  BY <1>4 DEF Accept, WireFunctions, Dialled
<1>6. \A x \in Wire \ {k} : net'[x] = net[x] /\ dialer'[x] = dialer[x] /\ handler'[x] = handler[x]
  BY <1>1, <1>4 DEF Accept, WireFunctions
<1>7. PICK n, d, h, h2, c : n = net[k] /\ d = dialer[k] /\ h = handler[k]
                         /\ h2 = handler'[k] /\ c = cl(k)
  OBVIOUS
<1>8. Talk(k, c, n, d, h) /\ IsHandler(h) /\ h.at = "queued"
  BY <1>2, <1>3, <1>4, <1>7 DEF TalkAt, LoopOK
<1>9. h2 = [h EXCEPT !.at = "check"] /\ net' = net /\ dialer' = dialer
  BY <1>1, <1>4, <1>7 DEF Accept, WireFunctions
<1>10. IsHandler(h2) /\ h2.at = "check" /\ h2.ctx = h.ctx
  BY <1>8, <1>9 DEF IsHandler
<1>11. Talk(k, c, n, d, h2)
  BY <1>8, <1>10, AcceptTalks
<1>12. LoopOK'
  <2>1. ASSUME NEW x \in Wire
        PROVE  /\ handler'[x].at = "check" <=> loop' = <<x>>
               /\ handler'[x].at = "queued" <=> Supports(backlog', x)
    <3>1. CASE x = k
      BY <3>1, <1>2, <1>3, <1>7, <1>10
    <3>2. CASE x # k
      <4>1. handler[x].at # "check"
        BY <1>2 DEF LoopOK
      <4>2. loop' # <<x>>
        BY <3>2, <1>2
      <4> QED BY <3>2, <4>1, <4>2, <1>2, <1>3, <1>6 DEF LoopOK
    <3> QED BY <3>1, <3>2
  <2> QED BY <2>1, <1>2, <1>3, <1>5 DEF LoopOK
<1> QED BY <1>3, <1>5, <1>6, <1>7, <1>9, <1>11, <1>12, OneTalks

\* A handler that reads on, neither queued nor looked at: what its step has to keep.
LEMMA HandlerTalks ==
  ASSUME WireInv, NEW k \in Dialled, UNCHANGED handled, WireFunctions',
         handler[k].at \notin {"queued", "check"}, handler'[k].at \notin {"queued", "check"},
         \A x \in Wire \ {k} : net'[x] = net[x] /\ handler'[x] = handler[x],
         Talk(k, cl(k), net'[k], dialer[k], handler'[k])
  PROVE  WireInv'
<1>1. /\ wscene' = wscene /\ dialer' = dialer /\ backlog' = backlog /\ loop' = loop
      /\ LoopOK /\ k \in Wire
  BY WireFacts DEF handled
<1>2. \A x \in Wire : /\ handler'[x].at = "check" <=> handler[x].at = "check"
                      /\ handler'[x].at = "queued" <=> handler[x].at = "queued"
  OBVIOUS
<1>3. LoopOK'
  BY <1>1, <1>2, LoopStays
<1> QED BY <1>1, <1>3, OneTalks

\* A handler that gives up writes nothing, or a reply.
LEMMA GivesUp ==
  ASSUME WireInv, NEW k \in Dialled, NEW a, finish(k, a), UNCHANGED handled,
         handler[k].at \notin {"none", "queued", "check"},
         a = <<>> \/ \E e \in Replies(k, cl(k)) : a = <<e>>
  PROVE  WireInv'
<1>1. PICK R : R = Replies(k, cl(k))
  OBVIOUS
<1>2. a \in Seq(R)
  <2>1. CASE a = <<>>
    BY <2>1, EmptySeq
  <2>2. CASE \E e \in R : a = <<e>>
    BY <2>2
  <2> QED BY <1>1, <2>1, <2>2
<1>3. UNCHANGED <<wscene, dialer, backlog>> /\ loop' = loop
  BY DEF handled
<1> QED BY <1>1, <1>2, <1>3, FinishTalks

LEMMA CheckTLSWire ==
  ASSUME WireInv, NEW k \in Dialled, CheckTLS(k) \/ CheckTLSFails(k)
  PROVE  WireInv'
<1>0. /\ k \in Wire /\ TalkAt(k) /\ IsNet(net[k]) /\ IsHandler(handler[k])
      /\ WireFunctions /\ LoopOK /\ IsDial(cl(k))
  BY WireFacts
<1>1. handler[k].at = "check" /\ loop = <<k>> /\ loop' = <<>> /\ UNCHANGED <<wscene, dialer, backlog>>
  BY <1>0 DEF LoopOK, CheckTLS, CheckTLSFails
<1>2. CASE finish(k, <<>>)
  <2>1. <<>> \in Seq(Replies(k, cl(k)))
    BY EmptySeq
  <2> QED BY <1>1, <1>2, <2>1, FinishTalks
<1>3. CASE ~finish(k, <<>>)
  <2>1. PICK v : v = IF wscene.mux THEN "mux" ELSE "magic"
    OBVIOUS
  <2>2. /\ net[k].c2s # <<>> /\ handler' = [handler EXCEPT ![k].at = v]
        /\ IF Head(net[k].c2s).t \in {"tls17", "tls16"}
           THEN net' = [net EXCEPT ![k].c2s = Tail(@)] ELSE net' = net
    BY <1>3, <2>1 DEF CheckTLS, CheckTLSFails, first
  <2>3. WireFunctions'
    BY <1>0, <1>1, <2>2 DEF WireFunctions
  <2>4. \A x \in Wire \ {k} : net'[x] = net[x] /\ dialer'[x] = dialer[x] /\ handler'[x] = handler[x]
    BY <1>0, <1>1, <2>2 DEF WireFunctions
  <2>5. PICK n, d, h, n2, h2, c : n = net[k] /\ d = dialer[k] /\ h = handler[k] /\ n2 = net'[k]
                               /\ h2 = handler'[k] /\ c = cl(k)
    OBVIOUS
  <2>6. Talk(k, c, n, d, h) /\ IsNet(n) /\ IsHandler(h) /\ IsDial(c) /\ h.at = "check"
    BY <1>0, <1>1, <2>5 DEF TalkAt
  <2>7. PICK s : s = IF Head(n.c2s).t \in {"tls17", "tls16"} THEN Tail(n.c2s) ELSE n.c2s
    OBVIOUS
  <2>8. IsNet(n2) /\ n2.c2s = s /\ n2.s2c = n.s2c
    <3>1. CASE Head(n.c2s).t \in {"tls17", "tls16"}
      <4>1. n2 = [n EXCEPT !.c2s = s]
        BY <1>0, <2>2, <2>5, <2>7, <3>1 DEF WireFunctions
      <4> QED BY <4>1, <2>6 DEF IsNet
    <3>2. CASE Head(n.c2s).t \notin {"tls17", "tls16"}
      BY <2>2, <2>5, <2>6, <2>7, <3>2
    <3> QED BY <3>1, <3>2
  <2>9. h2 = [h EXCEPT !.at = v]
    BY <1>0, <2>2, <2>5 DEF WireFunctions
  <2>10. IsHandler(h2) /\ h2.at = v /\ h2.ctx = h.ctx
    BY <2>6, <2>9 DEF IsHandler
  <2>11. /\ Talk(k, c, n, d, h) /\ h.at = "check" /\ n.c2s # <<>> /\ IsNet(n2) /\ IsHandler(h2)
         /\ n2.s2c = n.s2c /\ h2.ctx = h.ctx /\ h2.at \in {"mux", "magic"} /\ IsDial(c)
         /\ n2.c2s = (IF Head(n.c2s).t \in {"tls17", "tls16"} THEN Tail(n.c2s) ELSE n.c2s)
    BY <2>1, <2>2, <2>5, <2>6, <2>7, <2>8, <2>10
  <2>12. Talk(k, c, n2, d, h2)
    BY <2>11, CheckTalks
  <2>13. LoopOK'
    <3>1. Dialled' = Dialled
      BY <1>1 DEF Dialled
    <3>2. ASSUME NEW x \in Wire
          PROVE  /\ handler'[x].at = "check" <=> loop' = <<x>>
                 /\ handler'[x].at = "queued" <=> Supports(backlog', x)
      <4>1. CASE x = k
        BY <4>1, <1>0, <1>1, <2>5, <2>11 DEF LoopOK
      <4>2. CASE x # k
        <5>1. loop # <<x>> /\ loop' # <<x>>
          BY <4>2, <1>1
        <5> QED BY <4>2, <5>1, <1>0, <1>1, <2>4 DEF LoopOK
      <4> QED BY <4>1, <4>2
    <3> QED BY <3>1, <3>2, <1>0, <1>1 DEF LoopOK
  <2> QED BY <1>1, <2>3, <2>4, <2>5, <2>12, <2>13, OneTalks
<1> QED BY <1>2, <1>3

LEMMA MuxSessionWire ==
  ASSUME WireInv, NEW k \in Dialled, MuxSession(k)
  PROVE  WireInv'
<1>0. /\ k \in Wire /\ TalkAt(k) /\ IsNet(net[k]) /\ IsHandler(handler[k])
      /\ WireFunctions /\ LoopOK /\ IsDial(cl(k))
  BY WireFacts
<1>1. UNCHANGED handled /\ handler[k].at = "mux" /\ net[k].c2s # <<>>
  BY DEF MuxSession, At
<1>2. CASE Head(net[k].c2s).t # "mux"
  <2>1. finish(k, <<>>)
    BY <1>2 DEF MuxSession, first
  <2> QED BY <1>1, <2>1, GivesUp
<1>3. CASE Head(net[k].c2s).t = "mux"
  <2>1. /\ handler' = [handler EXCEPT ![k].at = "magic"]
        /\ net' = [net EXCEPT ![k].c2s = Tail(@)] /\ dialer' = dialer
    BY <1>1, <1>3 DEF MuxSession, first, handled
  <2>2. WireFunctions' /\ \A x \in Wire \ {k} : net'[x] = net[x] /\ handler'[x] = handler[x]
    BY <1>0, <2>1 DEF WireFunctions
  <2>3. PICK n, d, h, n2, h2, c : n = net[k] /\ d = dialer[k] /\ h = handler[k] /\ n2 = net'[k]
                               /\ h2 = handler'[k] /\ c = cl(k)
    OBVIOUS
  <2>4. Talk(k, c, n, d, h) /\ IsNet(n) /\ IsHandler(h) /\ IsDial(c) /\ h.at = "mux"
    BY <1>0, <1>1, <2>3 DEF TalkAt
  <2>5. PICK s : s = Tail(n.c2s)
    OBVIOUS
  <2>6. n2 = [n EXCEPT !.c2s = s] /\ h2 = [h EXCEPT !.at = "magic"]
    BY <1>0, <2>1, <2>3, <2>5 DEF WireFunctions
  <2>7. /\ IsNet(n2) /\ n2.c2s = s /\ n2.s2c = n.s2c
        /\ IsHandler(h2) /\ h2.at = "magic" /\ h2.ctx = h.ctx
    BY <2>4, <2>6 DEF IsNet, IsHandler
  <2>8. n.c2s # <<>> /\ Head(n.c2s).t = "mux"
    BY <1>1, <1>3, <2>3
  <2>9. Talk(k, c, n2, d, h2)
    BY <2>4, <2>5, <2>7, <2>8, MuxTalks
  <2> QED BY <1>1, <2>2, <2>3, <2>4, <2>7, <2>9, HandlerTalks
<1> QED BY <1>2, <1>3

LEMMA CheckMagicWire ==
  ASSUME WireInv, NEW k \in Dialled, CheckMagic(k)
  PROVE  WireInv'
<1>0. /\ k \in Wire /\ TalkAt(k) /\ IsNet(net[k]) /\ IsHandler(handler[k])
      /\ WireFunctions /\ LoopOK /\ IsDial(cl(k))
  BY WireFacts
<1>1. UNCHANGED handled /\ handler[k].at = "magic" /\ net[k].c2s # <<>>
  BY DEF CheckMagic, At
<1>2. PICK n, d, h, n2, h2, c : n = net[k] /\ d = dialer[k] /\ h = handler[k] /\ n2 = net'[k]
                             /\ h2 = handler'[k] /\ c = cl(k)
  OBVIOUS
<1>3. PICK p : p = IF Head(n.c2s).t = "magic" THEN "v2" ELSE "v1"
  OBVIOUS
<1>4. PICK s : s = IF Head(n.c2s).t = "magic" THEN Tail(n.c2s) ELSE n.c2s
  OBVIOUS
<1>5. /\ handler' = [handler EXCEPT ![k].at = "first", ![k].proto = p]
      /\ IF Head(net[k].c2s).t = "magic" THEN net' = [net EXCEPT ![k].c2s = Tail(@)] ELSE net' = net
  BY <1>2, <1>3 DEF CheckMagic, first
<1>6. WireFunctions' /\ \A x \in Wire \ {k} : net'[x] = net[x] /\ handler'[x] = handler[x]
  BY <1>0, <1>1, <1>5 DEF WireFunctions, handled
<1>7. Talk(k, c, n, d, h) /\ IsNet(n) /\ IsHandler(h) /\ IsDial(c) /\ h.at = "magic" /\ n.c2s # <<>>
  BY <1>0, <1>1, <1>2 DEF TalkAt
<1>8. IsNet(n2) /\ n2.c2s = s /\ n2.s2c = n.s2c
  <2>1. CASE Head(n.c2s).t = "magic"
    <3>1. n2 = [n EXCEPT !.c2s = s]
      BY <1>0, <1>2, <1>4, <1>5, <2>1 DEF WireFunctions
    <3> QED BY <3>1, <1>7 DEF IsNet
  <2>2. CASE Head(n.c2s).t # "magic"
    BY <1>2, <1>4, <1>5, <1>7, <2>2
  <2> QED BY <2>1, <2>2
<1>9. h2 = [h EXCEPT !.at = "first", !.proto = p]
  BY <1>0, <1>2, <1>5 DEF WireFunctions
<1>10. IsHandler(h2) /\ h2.at = "first" /\ h2.proto = p /\ h2.ctx = h.ctx
  BY <1>7, <1>9 DEF IsHandler
<1>11. IF Head(n.c2s).t = "magic" THEN n2.c2s = Tail(n.c2s) /\ h2.proto = "v2"
       ELSE n2.c2s = n.c2s /\ h2.proto = "v1"
  BY <1>3, <1>4, <1>8, <1>10
<1>12. Talk(k, c, n2, d, h2)
  BY <1>7, <1>8, <1>10, <1>11, MagicTalks
<1> QED BY <1>1, <1>2, <1>6, <1>10, <1>12, HandlerTalks

LEMMA ReadFirstWire ==
  ASSUME WireInv, NEW k \in Dialled, readFirstMsg(k)
  PROVE  WireInv'
<1>0. /\ k \in Wire /\ TalkAt(k) /\ IsNet(net[k]) /\ IsHandler(handler[k])
      /\ WireFunctions /\ LoopOK /\ IsDial(cl(k))
  BY WireFacts
<1>1. /\ UNCHANGED handled /\ handler[k].at = "first" /\ net[k].c2s # <<>>
      /\ ~(handler[k].proto = "v2" /\ Head(net[k].c2s).t = "hello" /\ handler[k].ctx = NoCtx)
  BY DEF readFirstMsg, At, helloFirst, first
<1>2. CASE Head(net[k].c2s).t # "msg"
  <2>1. finish(k, <<>>)
    BY <1>2 DEF readFirstMsg, first
  <2> QED BY <1>1, <2>1, GivesUp
<1>3. CASE Head(net[k].c2s).t = "msg"
  <2>1. /\ handler' = [handler EXCEPT ![k].at = "handle", ![k].first = Head(net[k].c2s).ask]
        /\ net' = [net EXCEPT ![k].c2s = Tail(@)] /\ dialer' = dialer
    BY <1>1, <1>3 DEF readFirstMsg, first, handled
  <2>2. WireFunctions' /\ \A x \in Wire \ {k} : net'[x] = net[x] /\ handler'[x] = handler[x]
    BY <1>0, <2>1 DEF WireFunctions
  <2>3. PICK n, d, h, n2, h2, c : n = net[k] /\ d = dialer[k] /\ h = handler[k] /\ n2 = net'[k]
                               /\ h2 = handler'[k] /\ c = cl(k)
    OBVIOUS
  <2>4. Talk(k, c, n, d, h) /\ IsNet(n) /\ IsHandler(h) /\ IsDial(c) /\ h.at = "first"
    BY <1>0, <1>1, <2>3 DEF TalkAt
  <2>5. PICK s, v, p, x : s = Tail(n.c2s) /\ v = Head(n.c2s).ask /\ p = h.proto /\ x = h.ctx
    OBVIOUS
  <2>6. n2 = [n EXCEPT !.c2s = s] /\ h2 = [h EXCEPT !.at = "handle", !.first = v]
    BY <1>0, <2>1, <2>3, <2>5 DEF WireFunctions
  <2>7. IsNet(n2) /\ n2.c2s = s /\ n2.s2c = n.s2c
    BY <2>4, <2>6 DEF IsNet
  <2>8. h2 = [at |-> "handle", proto |-> p, ctx |-> x, first |-> v]
    BY <2>4, <2>5, <2>6 DEF IsHandler
  <2>9. IsHandler(h2) /\ h2.at = "handle"
    BY <2>8 DEF IsHandler
  <2>10. h2 = [at |-> "handle", proto |-> h.proto, ctx |-> h.ctx, first |-> Head(n.c2s).ask]
    BY <2>5, <2>8
  <2>11. /\ n.c2s # <<>> /\ Head(n.c2s).t = "msg"
         /\ ~(h.proto = "v2" /\ Head(n.c2s).t = "hello" /\ h.ctx = NoCtx)
    BY <1>1, <1>3, <2>3
  <2>12. Talk(k, c, n2, d, h2)
    BY <2>4, <2>7, <2>9, <2>10, <2>11, FirstTalks
  <2> QED BY <1>1, <2>2, <2>3, <2>4, <2>9, <2>12, HandlerTalks
<1> QED BY <1>2, <1>3

LEMMA GreetWire ==
  ASSUME WireInv, NEW k \in Dialled, handleClientHello(k)
  PROVE  WireInv'
<1>0. /\ k \in Wire /\ TalkAt(k) /\ IsNet(net[k]) /\ IsHandler(handler[k])
      /\ WireFunctions /\ LoopOK /\ IsDial(cl(k))
  BY WireFacts
<1>1. PICK f, a : f = Head(net[k].c2s) /\ a = NewServerHello(f)
  OBVIOUS
<1>2. /\ UNCHANGED handled /\ handler[k].at = "first" /\ net[k].c2s # <<>>
      /\ handler[k].proto = "v2" /\ f.t = "hello" /\ handler[k].ctx = NoCtx
  BY <1>1 DEF handleClientHello, At, helloFirst, first
<1>3. CASE a.err
  <2>1. finish(k, <<a>>)
    BY <1>1, <1>3 DEF handleClientHello, first
  <2>2. a \in Replies(k, cl(k))
    <3>1. PICK n, d, h, c : n = net[k] /\ d = dialer[k] /\ h = handler[k] /\ c = cl(k)
      OBVIOUS
    <3>2. Talk(k, c, n, d, h) /\ TokenFacts(k, c)
      BY <1>0, <3>1, Tokens DEF TalkAt
    <3>3. n.c2s = Asks(k, c)
      BY <1>2, <3>1, <3>2 DEF Talk, Unread
    <3>4. PICK m : m = [t |-> "msg", ask |-> c.ask]
      OBVIOUS
    <3>5. m.t = "msg" /\ Head(Message(c)) = m
      BY <3>2, <3>4 DEF TokenFacts
    <3>6. Greets(c) /\ f = Hello(k, c)
      BY <1>1, <1>2, <3>1, <3>2, <3>3, <3>5 DEF TokenFacts
    <3> QED BY <1>1, <3>1, <3>6 DEF Replies, Answer
  <2> QED BY <1>2, <2>1, <2>2, GivesUp
<1>4. CASE ~a.err
  <2>1. PICK n, d, h, n2, h2, c : n = net[k] /\ d = dialer[k] /\ h = handler[k] /\ n2 = net'[k]
                               /\ h2 = handler'[k] /\ c = cl(k)
    OBVIOUS
  <2>2. PICK s, r, g : /\ s = Tail(n.c2s) /\ g = NewCryptoContext(f, a)
                       /\ r = IF n.cshut THEN <<>> ELSE Append(n.s2c, a)
    OBVIOUS
  <2>3. /\ handler' = [handler EXCEPT ![k].ctx = g]
        /\ net' = [net EXCEPT ![k].c2s = s, ![k].s2c = r] /\ dialer' = dialer
    BY <1>0, <1>1, <1>2, <1>4, <2>1, <2>2 DEF handleClientHello, first, handled, WireFunctions
  <2>4. WireFunctions' /\ \A x \in Wire \ {k} : net'[x] = net[x] /\ handler'[x] = handler[x]
    BY <1>0, <2>3 DEF WireFunctions
  <2>5. Talk(k, c, n, d, h) /\ IsNet(n) /\ IsHandler(h) /\ IsDial(c) /\ h.at = "first"
    BY <1>0, <1>2, <2>1 DEF TalkAt
  <2>6. n2 = [n EXCEPT !.c2s = s, !.s2c = r] /\ h2 = [h EXCEPT !.ctx = g]
    BY <1>0, <2>1, <2>3 DEF WireFunctions
  <2>7. /\ IsNet(n2) /\ n2.c2s = s /\ n2.s2c = r
        /\ IsHandler(h2) /\ h2.at = "first" /\ h2.proto = h.proto /\ h2.ctx = g
    BY <2>5, <2>6 DEF IsNet, IsHandler
  <2>8. /\ Talk(k, c, n, d, h) /\ h.at = "first" /\ n.c2s # <<>> /\ IsDial(c)
        /\ h.proto = "v2" /\ Head(n.c2s).t = "hello" /\ h.ctx = NoCtx
        /\ IsNet(n2) /\ n2.c2s = Tail(n.c2s) /\ IsHandler(h2) /\ h2.at = "first" /\ h2.proto = h.proto
    BY <1>1, <1>2, <2>1, <2>2, <2>5, <2>7
  <2>9. /\ ~NewServerHello(Head(n.c2s)).err
        /\ n2.s2c = <<>> \/ n2.s2c = Append(n.s2c, NewServerHello(Head(n.c2s)))
        /\ h2.ctx = NewCryptoContext(Head(n.c2s), NewServerHello(Head(n.c2s)))
    <3>1. f = Head(n.c2s) /\ NewServerHello(Head(n.c2s)) = a
      BY <1>1, <2>1
    <3>2. r = <<>> \/ r = Append(n.s2c, a)
      BY <2>2
    <3> QED BY <1>4, <2>2, <2>7, <3>1, <3>2
  <2>10. Talk(k, c, n2, d, h2)
    BY <2>8, <2>9, GreetTalks
  <2> QED BY <1>2, <2>1, <2>4, <2>8, <2>10, HandlerTalks
<1> QED BY <1>3, <1>4

LEMMA ReadFailsWire ==
  ASSUME WireInv, NEW k \in Dialled, ReadFails(k) \/ SessionEnds(k) \/ handleOther(k)
  PROVE  WireInv'
<1>1. finish(k, <<>>) /\ UNCHANGED handled /\ handler[k].at \notin {"none", "queued", "check"}
  BY DEF ReadFails, SessionEnds, handleOther
<1> QED BY <1>1, GivesUp

LEMMA HandlesWire ==
  ASSUME WireInv, NEW k \in Dialled, handleLogin(k) \/ handleNewWorkConn(k) \/ handleNewVisitorConn(k)
  PROVE  WireInv'
<1>0. /\ k \in Wire /\ TalkAt(k) /\ IsNet(net[k]) /\ IsHandler(handler[k])
      /\ WireFunctions /\ LoopOK
  BY WireFacts
<1>1. UNCHANGED handled /\ handler[k].at = "handle"
  BY DEF handleLogin, handleNewWorkConn, handleNewVisitorConn
<1>2. resp(TRUE) \in Replies(k, cl(k)) /\ resp(FALSE) \in Replies(k, cl(k))
  BY DEF Replies
<1>3. CASE finish(k, <<>>) \/ finish(k, <<resp(TRUE)>>)
  <2>1. PICK e : e = resp(TRUE)
    OBVIOUS
  <2>2. e \in Replies(k, cl(k))
    BY <1>2, <2>1
  <2>3. CASE finish(k, <<>>)
    BY <1>1, <2>3, GivesUp
  <2>4. CASE finish(k, <<e>>)
    BY <1>1, <2>2, <2>4, GivesUp
  <2> QED BY <1>3, <2>1, <2>3, <2>4
<1>4. CASE ~(finish(k, <<>>) \/ finish(k, <<resp(TRUE)>>))
  <2>1. PICK n, d, h, n2, h2, c : n = net[k] /\ d = dialer[k] /\ h = handler[k] /\ n2 = net'[k]
                               /\ h2 = handler'[k] /\ c = cl(k)
    OBVIOUS
  <2>2. PICK e, r : e = resp(FALSE) /\ r = IF n.cshut THEN <<>> ELSE Append(n.s2c, e)
    OBVIOUS
  <2>3. PICK v : /\ v = "work" \/ (v = "on" /\ h.first = "Login")
                 /\ handler' = [handler EXCEPT ![k].at = v]
                 /\ net' = [net EXCEPT ![k].s2c = r] \/ net' = net
    <3>1. CASE handleLogin(k)
      <4>1. /\ h.first = "Login" /\ handler' = [handler EXCEPT ![k].at = "on"]
            /\ net' = [net EXCEPT ![k].s2c = r]
        BY <1>0, <1>4, <2>1, <2>2, <3>1 DEF handleLogin, WireFunctions
      <4> QED BY <4>1
    <3>2. CASE handleNewWorkConn(k)
      <4>1. handler' = [handler EXCEPT ![k].at = "work"] /\ net' = net
        BY <1>4, <3>2 DEF handleNewWorkConn
      <4> QED BY <4>1
    <3>3. CASE handleNewVisitorConn(k)
      <4>1. handler' = [handler EXCEPT ![k].at = "work"] /\ net' = [net EXCEPT ![k].s2c = r]
        BY <1>0, <1>4, <2>1, <2>2, <3>3 DEF handleNewVisitorConn, WireFunctions
      <4> QED BY <4>1
    <3> QED BY <3>1, <3>2, <3>3
  <2>4. WireFunctions' /\ \A x \in Wire \ {k} : net'[x] = net[x] /\ handler'[x] = handler[x]
    <3>1. dialer' = dialer
      BY <1>1 DEF handled
    <3>2. CASE net' = [net EXCEPT ![k].s2c = r]
      BY <1>0, <2>3, <3>1, <3>2 DEF WireFunctions
    <3>3. CASE net' = net
      BY <1>0, <2>3, <3>1, <3>3 DEF WireFunctions
    <3> QED BY <2>3, <3>2, <3>3
  <2>5. Talk(k, c, n, d, h) /\ IsNet(n) /\ IsHandler(h) /\ h.at = "handle"
    BY <1>0, <1>1, <2>1 DEF TalkAt
  <2>6. (n2 = [n EXCEPT !.s2c = r] \/ n2 = n) /\ h2 = [h EXCEPT !.at = v]
    BY <1>0, <2>1, <2>3 DEF WireFunctions
  <2>7. PICK R : R = Replies(k, c)
    OBVIOUS
  <2>8. n.s2c \in Seq(R) /\ r \in Seq(R)
    <3>1. n.s2c \in Seq(R) /\ e \in R
      BY <1>2, <2>1, <2>2, <2>5, <2>7 DEF Talk
    <3>2. Append(n.s2c, e) \in Seq(R)
      BY <3>1, AppendProperties
    <3> QED BY <2>2, <3>1, <3>2, EmptySeq
  <2>9. IsNet(n2) /\ n2.c2s = n.c2s /\ n2.s2c \in {r, n.s2c}
    BY <2>5, <2>6 DEF IsNet
  <2>10. IsHandler(h2) /\ h2.at = v /\ h2.proto = h.proto /\ h2.ctx = h.ctx /\ h2.first = h.first
    BY <2>5, <2>6 DEF IsHandler
  <2>11. n2.s2c \in Seq(Replies(k, c))
    BY <2>7, <2>8, <2>9
  <2>12. h2.at = "work" \/ (h2.at = "on" /\ h.first = "Login")
    BY <2>3, <2>10
  <2>13. Talk(k, c, n2, d, h2)
    BY <2>5, <2>9, <2>10, <2>11, <2>12, OnTalks
  <2>14. dialer[k] = d /\ handler[k].at = "handle" /\ handler'[k].at \in {"work", "on"}
    BY <1>1, <2>1, <2>12
  <2> QED BY <1>1, <2>1, <2>4, <2>13, <2>14, HandlerTalks
<1> QED BY <1>3, <1>4

-----------------------------------------------------------------------------

LEMMA WireInvStep == WireInv /\ [WireNext]_wireVars => WireInv'
<1> SUFFICES ASSUME WireInv, [WireNext]_wireVars PROVE WireInv'
  OBVIOUS
<1>1. CASE Accept
  BY <1>1, AcceptWire
<1>2. ASSUME NEW k \in Dialled, CheckTLS(k) \/ CheckTLSFails(k) PROVE WireInv'
  BY <1>2, CheckTLSWire
<1>3. ASSUME NEW k \in Dialled, Dial(k) \/ OpenStream(k) \/ Cut(k) PROVE WireInv'
  BY <1>3, DialWire, OpenStreamWire, CutTalks
<1>4. ASSUME NEW k \in Dialled, clientStep(k) PROVE WireInv'
  <2>1. CASE Send(k)
    BY <2>1, SendWire
  <2>2. CASE RecvHello(k) \/ RecvResp(k)
    BY <2>2, RecvWire
  <2>3. CASE LoginTimeout(k) \/ ClientEnds(k)
    <3>1. clientCloses(k) /\ UNCHANGED <<wscene, handler, backlog, loop>>
      BY <2>3 DEF LoginTimeout, ClientEnds
    <3> QED BY <3>1, ClientClosesTalks
  <2> QED BY <1>4, <2>1, <2>2, <2>3 DEF clientStep
<1>5. ASSUME NEW k \in Dialled, handlerStep(k) PROVE WireInv'
  <2>1. CASE MuxSession(k)
    BY <2>1, MuxSessionWire
  <2>2. CASE CheckMagic(k)
    BY <2>2, CheckMagicWire
  <2>3. CASE readFirstMsg(k)
    BY <2>3, ReadFirstWire
  <2>4. CASE handleClientHello(k)
    BY <2>4, GreetWire
  <2>5. CASE ReadFails(k) \/ SessionEnds(k) \/ handleOther(k)
    BY <2>5, ReadFailsWire
  <2>6. CASE handleLogin(k) \/ handleNewWorkConn(k) \/ handleNewVisitorConn(k)
    BY <2>6, HandlesWire
  <2> QED BY <1>5, <2>1, <2>2, <2>3, <2>4, <2>5, <2>6 DEF handlerStep
<1>6. CASE UNCHANGED wireVars
  <2>1. /\ wscene' = wscene /\ net' = net /\ dialer' = dialer /\ handler' = handler
        /\ backlog' = backlog /\ loop' = loop
    BY <1>6 DEF wireVars
  <2>2. WireSceneOK(wscene)' /\ WireFunctions' /\ LoopOK
    BY <2>1 DEF WireInv, WireFunctions
  <2>3. LoopOK'
    BY <2>1, <2>2, LoopStays
  <2>4. \A x \in Dialled : Talk(x, cl(x), net'[x], dialer'[x], handler'[x])
    BY <2>1, WireFacts DEF TalkAt
  <2> QED BY <2>1, <2>2, <2>3, <2>4, TalksOn
<1> QED BY <1>1, <1>2, <1>3, <1>4, <1>5, <1>6 DEF WireNext, acceptStep

LEMMA WireInvInit ==
  ASSUME NEW s, WireSceneOK(s)
  PROVE  WireInit(s) => WireInv
<1> SUFFICES ASSUME WireInit(s) PROVE WireInv
  OBVIOUS
<1>1. PICK n, d, h : /\ n = [c2s |-> <<>>, s2c |-> <<>>, cshut |-> FALSE, sshut |-> FALSE]
                     /\ d = [at |-> "new", ctx |-> NoCtx]
                     /\ h = [at |-> "none", proto |-> "", ctx |-> NoCtx, first |-> ""]
  OBVIOUS
<1>2. net = [k \in Wire |-> n] /\ dialer = [k \in Wire |-> d] /\ handler = [k \in Wire |-> h]
      /\ backlog = <<>> /\ loop = <<>> /\ wscene = s
  BY <1>1 DEF WireInit
<1>3. /\ n.c2s = <<>> /\ n.s2c = <<>> /\ d.at = "new" /\ d.ctx = NoCtx /\ h.at = "none" /\ h.ctx = NoCtx
  BY <1>1
<1>4. IsNet(n) /\ IsDialer(d) /\ IsHandler(h)
  BY <1>1 DEF IsNet, IsDialer, IsHandler
<1>5. ASSUME NEW k, NEW c PROVE Talk(k, c, n, d, h)
  <2>1. Unread(k, c, n.c2s, h) /\ Unsaid(c, n.c2s, d, h) /\ Known(k, c, h) /\ Agrees(k, c, d)
    BY <1>3 DEF Unread, Unsaid, Known, Agrees
  <2>2. n.s2c \in Seq(Replies(k, c))
    BY <1>3, EmptySeq
  <2> QED BY <1>3, <1>4, <2>1, <2>2 DEF Talk
<1>6. LoopOK
  <2>1. \A k \in Wire : ~Supports(backlog, k) /\ loop # <<k>> /\ handler[k].at = "none"
    BY <1>2, <1>3 DEF Supports
  <2>2. backlog \in Seq(Dialled) /\ IsInjective(backlog)
    BY <1>2, EmptySeq DEF IsInjective
  <2> QED BY <1>2, <2>1, <2>2 DEF LoopOK
<1>7. ASSUME NEW k \in Wire
      PROVE  IF k \in Dialled THEN Talk(k, cl(k), net[k], dialer[k], handler[k])
             ELSE dialer[k].at = "new" /\ handler[k].at = "none"
  <2>1. net[k] = n /\ dialer[k] = d /\ handler[k] = h
    BY <1>2
  <2> QED BY <2>1, <1>3, <1>5
<1> QED BY <1>2, <1>6, <1>7 DEF WireInv

\* A set of numbers has a least one.
LEMMA MinIs ==
  ASSUME NEW K \in SUBSET Nat, K # {}
  PROVE  Min(K) \in K /\ \A m \in K : Min(K) <= m
<1>1. PICK n \in K : TRUE
  OBVIOUS
<1>2. n \in Nat
  OBVIOUS
<1>3. PICK S : S = {n - m : m \in {x \in K : x <= n}}
  OBVIOUS
<1>4. S \subseteq 0..n /\ S # {}
  <2>1. ASSUME NEW s \in S PROVE s \in 0..n
    <3>1. PICK m \in K : m <= n /\ s = n - m
      BY <1>3
    <3>2. m \in Nat
      OBVIOUS
    <3> QED BY <3>1, <3>2, <1>2
  <2>2. n - n \in S
    BY <1>1, <1>2, <1>3
  <2> QED BY <2>1, <2>2
<1>5. PICK g : g = Max(S)
  OBVIOUS
<1>6. g \in S /\ \A y \in S : y <= g
  BY <1>2, <1>4, <1>5, MaxIs
<1>7. PICK i \in K : i <= n /\ g = n - i
  BY <1>3, <1>6
<1>8. ASSUME NEW m \in K PROVE i <= m
  <2>1. i \in Nat /\ m \in Nat /\ n \in Nat
    BY <1>2
  <2>2. CASE m <= n
    <3>1. n - m \in S
      BY <2>2, <1>3
    <3>2. n - m <= n - i
      BY <3>1, <1>6, <1>7
    <3> QED BY <3>2, <2>1
  <2>3. CASE ~(m <= n)
    BY <2>1, <2>3, <1>7
  <2> QED BY <2>2, <2>3
<1>9. \E k \in K : \A m \in K : k <= m
  BY <1>8
<1> QED BY <1>9 DEF Min

\* The selection is the first algorithm of the list that this build has.
LEMMA SelectsFirst ==
  ASSUME NEW S, NEW algs \in Seq(S)
  PROVE  SelectAEADAlgorithm(algs) # "" =>
           \E i \in DOMAIN algs :
             /\ algs[i] = SelectAEADAlgorithm(algs) /\ algs[i] \in Supported
             /\ \A j \in 1..i - 1 : algs[j] \notin Supported
<1>1. PICK K : K = {i \in DOMAIN algs : algs[i] \in Supported}
  OBVIOUS
<1>2. DOMAIN algs = 1..Len(algs) /\ Len(algs) \in Nat
  OBVIOUS
<1>3. K \in SUBSET Nat
  BY <1>1, <1>2
<1>4. PICK i : i = Min(K)
  OBVIOUS
<1>5. ASSUME K # {}
      PROVE  i \in DOMAIN algs /\ algs[i] \in Supported /\ \A j \in 1..i - 1 : algs[j] \notin Supported
  <2>1. i \in K /\ \A m \in K : i <= m
    BY <1>3, <1>4, <1>5, MinIs
  <2>2. i \in 1..Len(algs) /\ algs[i] \in Supported
    BY <1>1, <1>2, <2>1
  <2>3. ASSUME NEW j \in 1..i - 1 PROVE algs[j] \notin Supported
    <3>1. j \in 1..Len(algs) /\ ~(i <= j)
      BY <1>2, <2>2
    <3> QED BY <3>1, <1>1, <1>2, <2>1
  <2> QED BY <1>2, <2>2, <2>3
<1>6. SelectAEADAlgorithm(algs) = IF K = {} THEN "" ELSE algs[i]
  BY <1>1, <1>4 DEF SelectAEADAlgorithm
<1> QED BY <1>5, <1>6

LEMMA WireInvSound == WireInv => WireSound
<1> SUFFICES ASSUME WireInv PROVE WireSound
  OBVIOUS
<1>1. WireTypeOK
  <2>1. LoopOK
    BY DEF WireInv
  <2>2. ASSUME NEW k \in Wire
        PROVE  /\ dialer[k].at \in {"new", "open", "hello", "resp", "up", "failed"}
               /\ handler[k].at \in {"none", "queued", "check", "mux", "magic", "first",
                                     "handle", "on", "work", "closed"}
    <3>1. CASE k \in Dialled
      <4>1. TalkAt(k)
        BY <3>1, WireFacts
      <4> QED BY <4>1 DEF TalkAt, Talk
    <3>2. CASE k \notin Dialled
      BY <3>2 DEF WireInv
    <3> QED BY <3>1, <3>2
  <2>3. Len(loop) <= 1
    <3>1. CASE loop = <<>>
      BY <3>1
    <3>2. CASE \E k \in Dialled : loop = <<k>>
      BY <3>2
    <3> QED BY <3>1, <3>2, <2>1 DEF LoopOK
  <2> QED BY <2>1, <2>2, <2>3 DEF WireTypeOK, LoopOK
<1>2. SameSession
  <2> SUFFICES ASSUME NEW k \in Dialled, handler[k].at = "on"
               PROVE  /\ handler[k].proto = cl(k).wire
                      /\ dialer[k].at = "up" => dialer[k].ctx = handler[k].ctx
                      /\ cl(k).wire = "v2" =>
                           \E i \in DOMAIN cl(k).algs :
                             /\ cl(k).algs[i] = handler[k].ctx.alg /\ cl(k).algs[i] \in Supported
                             /\ \A j \in 1..i - 1 : cl(k).algs[j] \notin Supported
    BY DEF SameSession
  <2>1. TalkAt(k) /\ cl(k).algs \in Seq(STRING)
    BY WireFacts DEF WireInv, WireSceneOK, Dialled, cl
  <2>2. PICK d, h, c : d = dialer[k] /\ h = handler[k] /\ c = cl(k)
    OBVIOUS
  <2>3. Known(k, c, h) /\ Agrees(k, c, d) /\ h.at = "on"
    BY <2>1, <2>2 DEF TalkAt, Talk
  <2>4. h.proto = c.wire /\ c.ask = "Login"
    BY <2>3 DEF Known
  <2>5. IF Greets(c) THEN h.ctx = Context(k, c) /\ Answer(k, c).alg # "" ELSE h.ctx = NoCtx
    BY <2>3, <2>4 DEF Known, Greets
  <2>6. d.at = "up" => d.ctx = h.ctx
    BY <2>3, <2>5 DEF Agrees
  <2>7. ASSUME c.wire = "v2"
        PROVE  \E i \in DOMAIN c.algs :
                 /\ c.algs[i] = h.ctx.alg /\ c.algs[i] \in Supported
                 /\ \A j \in 1..i - 1 : c.algs[j] \notin Supported
    <3>1. Greets(c)
      BY <2>4, <2>7 DEF Greets
    <3>2. PICK g, a : g = Hello(k, c) /\ a = SelectAEADAlgorithm(c.algs)
      OBVIOUS
    <3>3. g.algs = c.algs
      BY <3>2 DEF Hello
    <3>4. Answer(k, c).alg = a
      BY <3>2, <3>3 DEF Answer, NewServerHello
    <3>5. Context(k, c).alg = a
      BY <3>4 DEF Context, NewCryptoContext
    <3>6. a # "" /\ h.ctx.alg = a
      BY <2>5, <3>1, <3>4, <3>5
    <3>7. PICK l : l = c.algs
      OBVIOUS
    <3>8. l \in Seq(STRING) /\ SelectAEADAlgorithm(l) = a
      BY <2>1, <2>2, <3>2, <3>7
    <3>9. SelectAEADAlgorithm(l) # "" =>
            \E i \in DOMAIN l :
              /\ l[i] = SelectAEADAlgorithm(l) /\ l[i] \in Supported
              /\ \A j \in 1..i - 1 : l[j] \notin Supported
      BY <3>8, SelectsFirst
    <3> QED BY <3>6, <3>7, <3>8, <3>9
  <2> QED BY <2>2, <2>4, <2>6, <2>7
<1> QED BY <1>1, <1>2 DEF WireSound

\* The same for every scene of connections.
THEOREM SessionsAgree ==
  ASSUME NEW s, WireSceneOK(s)
  PROVE  WireInit(s) /\ [][WireNext]_wireVars => []WireSound
<1>1. WireInit(s) => WireInv
  BY WireInvInit
<1> QED BY <1>1, WireInvStep, WireInvSound, PTL

\* Whatever is sent, cut, refused or late on the connections of frpc and frps, the
\* accept loop looks at one connection at a time and forgets none, and two ends that
\* believe in a session speak the same protocol with the same key material: the
\* client's first algorithm that the server has (HandleListener, handleClientHello).
THEOREM WireSoundHolds == SceneSpec => []WireSound
<1>1. SceneInit => WireInv
  <2>1. SceneInit => \E s \in MCWires \cup {NoWire} : WireInit(s)
    BY DEF SceneInit, Scenes
  <2>2. \A s \in MCWires \cup {NoWire} : WireSceneOK(s)
    BY WiresAssumption DEF WiresAssumption
  <2> QED BY <2>1, <2>2, WireInvInit
<1>2. WireInv /\ [SceneNext]_allVars => WireInv'
  <2>1. [SceneNext]_allVars => [WireNext]_wireVars
    BY DEF SceneNext, allVars, wireVars
  <2> QED BY <2>1, WireInvStep
<1> QED BY <1>1, <1>2, WireInvSound, PTL DEF SceneSpec
=============================================================================

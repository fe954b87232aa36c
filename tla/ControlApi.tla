----------------------------- MODULE ControlApi -----------------------------
(***************************************************************************)
(* The HTTP API of the control, cmd/tunnel-control/main.go: sessions, the  *)
(* middleware that finds the user of a request, the handlers that check    *)
(* what that user may do and then call the store, the file with the users  *)
(* of frps that the handlers write, and the pushes to a node with what     *)
(* they make the console show of it.                                       *)
(*                                                                         *)
(* Every request is a goroutine, and so is every push.  A call of the      *)
(* store or of the session store is one step, for it holds their mutex; a  *)
(* handler is several.  What the store checks and saves is module Store's  *)
(* subject and what a push carries is module NodeSync's; here a record has *)
(* what the handlers look at.                                              *)
(***************************************************************************)
EXTENDS Naturals, FiniteSets

CONSTANTS
  Req,     \* requests
  Name,    \* names of users
  Tid,     \* ids of tunnels
  Push,    \* the pushes that may be under way at a time
  Admin,   \* a user that is an administrator from the start
  None,
  Setups   \* the scenes considered

Role == {"admin", "user"}
Ops == {"login", "logout", "password", "upsert", "delete", "sync", "expire",
        "view", "create", "update", "remove", "node", "drop"}
\* A request: the login whose cookie it carries, and its input.
Request == [op: Ops, tok: Req \cup {None}, name: Name \cup {None}, role: Role,
            on: BOOLEAN, pw: Nat, old: Nat, id: Tid \cup {None}]
\* A record: inc tells a user from one of the same name before it.
User == [role: Role, on: BOOLEAN, pw: Nat, inc: Nat]
\* A scene: the requests, which of them wait for which, the tunnels there are,
\* and how often the node becomes unreachable.
Setup == [req: [Req -> Request \cup {None}], after: [Req -> SUBSET Req],
          users: [Name -> User \cup {None}], tuns: [Tid -> Name \cup {None}],
          node: BOOLEAN, outages: Nat]

\* Tunnels have their users at first, and a call about a tunnel names it.
Sane(s) ==
  /\ s.users[Admin] # None /\ s.users[Admin].role = "admin"
  /\ \A t \in Tid : s.tuns[t] = None \/ s.users[s.tuns[t]] # None
  /\ \A q \in Req : s.req[q] # None /\ s.req[q].op \in {"create", "update", "remove"}
                     => s.req[q].id # None

ASSUME ApiAssumption ==
  /\ None \notin Req \cup Name \cup Tid \cup User \cup Request /\ Admin \in Name
  /\ IsFiniteSet(Req) /\ Setups \subseteq Setup /\ \A s \in Setups : Sane(s)

VARIABLES
  use,     \* the scene
  users,   \* Database.Users
  tuns,    \* Database.Tunnels, the owner of each
  sess,    \* sessionStore.values, by the login that made the token
  job,     \* a request's progress
  file,    \* the users written to frpUserOut
  raced,   \* ghost: two requests were writing the file at the same time
  moved,   \* ghost: the tunnels of a request that changed hands since its check
  node,    \* the node: [there, on, up, shown, clients], outages left
  push     \* the pushes to it

api  == <<users, tuns, sess, job, file, raced, moved>>
vars == <<use, api, node, push>>

NoMe == [name |-> None, role |-> "user"]
Q(q) == use.req[q]
Active == {q \in Req : Q(q) # None}
Step(q, at) == job' = [job EXCEPT ![q].at = at]
End(q, ans) == job' = [job EXCEPT ![q].at = "end", ![q].ans = ans]
has(n) == n \in Name /\ users[n] # None
Where(q, op, at) == Q(q) # None /\ Q(q).op = op /\ job[q].at = at
isAdmin(q) == job[q].me.role = "admin"
nodeOnly == UNCHANGED <<node, push>>

Init ==
  /\ use \in Setups /\ users = use.users /\ tuns = use.tuns /\ file = use.users
  /\ sess = [q \in Req |-> None] /\ raced = FALSE /\ moved = {}
  /\ job = [q \in Req |-> [at |-> "new", me |-> NoMe, ans |-> "", snap |-> use.users]]
  /\ node = [there |-> use.node, on |-> use.node, up |-> TRUE, shown |-> FALSE, clients |-> FALSE,
             left |-> use.outages]
  /\ push = [p \in Push |-> "idle"]

-----------------------------------------------------------------------------
(* Sessions.                                                               *)

Ready(q) == \A r \in use.after[q] : job[r].at = "end"

\* login: VerifyLogin, then the session.
VerifyLogin(q) ==
  LET n == Q(q).name IN
  /\ Where(q, "login", "new") /\ Ready(q)
  /\ IF has(n) /\ users[n].on /\ users[n].pw = Q(q).pw
     THEN Step(q, "verified") ELSE End(q, "401")
  /\ UNCHANGED <<use, users, tuns, sess, file, raced, moved>> /\ nodeOnly

createSession(q) ==
  /\ Where(q, "login", "verified") /\ End(q, "ok")
  /\ sess' = [sess EXCEPT ![q] = Q(q).name]
  /\ UNCHANGED <<use, users, tuns, file, raced, moved>> /\ nodeOnly

\* authMiddleware and currentUser: the session, then the user of that name.
sessionsGet(q) ==
  LET tok == Q(q).tok IN
  /\ Q(q) # None /\ tok \in Req /\ job[q].at = "new" /\ Ready(q)
  /\ IF sess[tok] = None THEN End(q, "401")
     ELSE job' = [job EXCEPT ![q].at = "got", ![q].me.name = sess[tok]]
  /\ UNCHANGED <<use, users, tuns, sess, file, raced, moved>> /\ nodeOnly

currentUser(q) ==
  LET n == job[q].me.name IN
  /\ job[q].at = "got"
  /\ IF has(n) /\ users[n].on
     THEN job' = [job EXCEPT ![q].at = "in", ![q].me.role = users[n].role]
     ELSE End(q, "401")
  /\ UNCHANGED <<use, users, tuns, sess, file, raced, moved>> /\ nodeOnly

logout(q) ==
  /\ Where(q, "logout", "in") /\ sess' = [sess EXCEPT ![Q(q).tok] = None] /\ End(q, "ok")
  /\ UNCHANGED <<use, users, tuns, file, raced, moved>> /\ nodeOnly

-----------------------------------------------------------------------------
(* Users.                                                                  *)

\* changePassword: somebody else's only for an administrator, the own only with
\* the old one.
changePassword(q) ==
  LET t == IF Q(q).name = None THEN job[q].me.name ELSE Q(q).name
      me == job[q].me.name IN
  /\ Where(q, "password", "in")
  /\ IF isAdmin(q) THEN Step(q, "set")
     ELSE IF t # me THEN End(q, "403")
     ELSE IF has(me) /\ users[me].on /\ users[me].pw = Q(q).old THEN Step(q, "set")
     ELSE End(q, "400")
  /\ UNCHANGED <<use, users, tuns, sess, file, raced, moved>> /\ nodeOnly

SetPassword(q) ==
  LET t == IF Q(q).name = None THEN job[q].me.name ELSE Q(q).name IN
  /\ Where(q, "password", "set")
  /\ IF has(t) THEN users' = [users EXCEPT ![t].pw = Q(q).pw] /\ End(q, "ok")
     ELSE users' = users /\ End(q, "400")
  /\ UNCHANGED <<use, tuns, sess, file, raced, moved>> /\ nodeOnly

\* upsertUser to where the store has the record; then the file is written.
upsertUser(q) ==
  LET n == Q(q).name IN
  /\ Where(q, "upsert", "in")
  /\ IF isAdmin(q)
     THEN /\ Step(q, "sync")
          /\ users' = [users EXCEPT ![n] =
               [role |-> Q(q).role, on |-> Q(q).on,
                pw |-> IF Q(q).pw = 0 /\ has(n) THEN users[n].pw ELSE Q(q).pw,
                inc |-> IF has(n) THEN users[n].inc
                        ELSE 1 + Cardinality({r \in Req : job[r].at = "end"})]]
     ELSE End(q, "403") /\ users' = users
  /\ UNCHANGED <<use, tuns, sess, file, raced, moved>> /\ nodeOnly

LastAdmin(n) == /\ users[n].role = "admin"
                /\ Cardinality({m \in Name : has(m) /\ users[m].on
                                             /\ users[m].role = "admin"}) <= 1

\* deleteUser: its tunnels go with it, its sessions do not.
deleteUser(q) ==
  LET n == Q(q).name
      mine == {t \in Tid : tuns[t] = n} IN
  /\ Where(q, "delete", "in")
  /\ IF isAdmin(q) /\ ~(has(n) /\ LastAdmin(n))
     THEN /\ Step(q, "sync") /\ users' = [users EXCEPT ![n] = None]
          /\ tuns' = [t \in Tid |-> IF t \in mine THEN None ELSE tuns[t]]
          /\ moved' = moved \cup (Active \X mine)
     ELSE End(q, "403") /\ UNCHANGED <<users, tuns, moved>>
  /\ UNCHANGED <<use, sess, file, raced>> /\ nodeOnly

\* enforceUserExpiry disables a user, and writes the file if it did.
enforceUserExpiry(q) ==
  LET n == Q(q).name IN
  /\ Where(q, "expire", "new") /\ Ready(q)
  /\ IF has(n) /\ users[n].on /\ users[n].role = "user"
     THEN users' = [users EXCEPT ![n].on = FALSE] /\ Step(q, "sync")
     ELSE users' = users /\ End(q, "ok")
  /\ UNCHANGED <<use, tuns, sess, file, raced, moved>> /\ nodeOnly

syncFRPUsers(q) ==
  /\ Where(q, "sync", "in") /\ IF isAdmin(q) THEN Step(q, "sync") ELSE End(q, "403")
  /\ UNCHANGED <<use, users, tuns, sess, file, raced, moved>> /\ nodeOnly

\* Mutant: the users of the time the request was answered.
readUsersEarly(q) ==
  /\ job[q].at = "sync" /\ Step(q, "write")
  /\ raced' = (raced \/ \E r \in Req : job[r].at = "write")
  /\ UNCHANGED <<use, users, tuns, sess, file, moved>> /\ nodeOnly

\* syncEngineUsers: the users are read under the store's lock, and the file is
\* written under none.
readUsers(q) ==
  /\ job[q].at = "sync"
  /\ job' = [job EXCEPT ![q].at = "write", ![q].snap = users]
  /\ raced' = (raced \/ \E r \in Req : job[r].at = "write")
  /\ UNCHANGED <<use, users, tuns, sess, file, moved>> /\ nodeOnly

writeUsers(q) ==
  /\ job[q].at = "write" /\ file' = job[q].snap /\ End(q, "ok")
  /\ UNCHANGED <<use, users, tuns, sess, raced, moved>> /\ nodeOnly

\* clientBootstrap and userConfig: the secrets of the user, or of the one an
\* administrator names.
view(q) ==
  LET me == job[q].me.name
      n == IF Q(q).name = None THEN me ELSE Q(q).name IN
  /\ Where(q, "view", "in")
  /\ IF (isAdmin(q) \/ n = me) /\ has(n)
     THEN job' = [job EXCEPT ![q].at = "end", ![q].ans = "ok", ![q].snap =
                    [m \in Name |-> IF m = n THEN users[n] ELSE None]]
     ELSE End(q, "403")
  /\ UNCHANGED <<use, users, tuns, sess, file, raced, moved>> /\ nodeOnly

-----------------------------------------------------------------------------
(* The node.                                                               *)

\* upsertNode enables or disables it, deleteNode deletes it.  remoteClients keeps
\* what the last push brought.
upsertNode(q) ==
  /\ Where(q, "node", "in") /\ End(q, IF isAdmin(q) THEN "ok" ELSE "403")
  /\ node' = IF isAdmin(q) THEN [node EXCEPT !.there = TRUE, !.on = Q(q).on] ELSE node
  /\ UNCHANGED <<use, users, tuns, sess, file, raced, moved, push>>

deleteNode(q) ==
  /\ Where(q, "drop", "in") /\ End(q, IF isAdmin(q) THEN "ok" ELSE "403")
  /\ node' = IF isAdmin(q) THEN [node EXCEPT !.there = FALSE, !.on = FALSE, !.shown = FALSE]
             ELSE node
  /\ UNCHANGED <<use, users, tuns, sess, file, raced, moved, push>>

-----------------------------------------------------------------------------
(* Tunnels.                                                                *)

\* Whom the tunnel is to belong to.
owner(q) == IF isAdmin(q) THEN Q(q).name ELSE job[q].me.name

\* Mutant: the store does not look whether there is such a user.
createTunnelFor(q) ==
  LET t == Q(q).id IN
  /\ Where(q, "create", "in")
  /\ IF tuns[t] = None
     THEN tuns' = [tuns EXCEPT ![t] = owner(q)] /\ End(q, "ok")
     ELSE tuns' = tuns /\ End(q, "400")
  /\ UNCHANGED <<use, users, sess, file, raced, moved>> /\ nodeOnly

createTunnel(q) ==
  LET t == Q(q).id IN
  /\ Where(q, "create", "in")
  /\ IF tuns[t] = None /\ has(owner(q)) /\ users[owner(q)].on
     THEN tuns' = [tuns EXCEPT ![t] = owner(q)] /\ End(q, "ok")
     ELSE tuns' = tuns /\ End(q, "400")
  /\ UNCHANGED <<use, users, sess, file, raced, moved>> /\ nodeOnly

\* Mutant: whoever asks.
allowedAny(q) ==
  /\ Q(q) # None /\ Q(q).op \in {"update", "remove"} /\ job[q].at = "in"
  /\ Step(q, "act") /\ moved' = {m \in moved : m[1] # q}
  /\ UNCHANGED <<use, users, tuns, sess, file, raced>> /\ nodeOnly

\* updateTunnel and deleteTunnel: ListTunnels shows whether the tunnel is the
\* user's;
allowed(q) ==
  /\ Q(q) # None /\ Q(q).op \in {"update", "remove"} /\ job[q].at = "in"
  /\ IF isAdmin(q) \/ tuns[Q(q).id] = job[q].me.name
     THEN Step(q, "act") ELSE End(q, "403")
  /\ moved' = {m \in moved : m[1] # q}
  /\ UNCHANGED <<use, users, tuns, sess, file, raced>> /\ nodeOnly

\* then the store is called, which does not know who asks.
UpdateTunnel(q) ==
  LET t == Q(q).id IN
  /\ Where(q, "update", "act")
  /\ IF tuns[t] # None /\ has(owner(q)) /\ users[owner(q)].on
     THEN /\ tuns' = [tuns EXCEPT ![t] = owner(q)] /\ End(q, "ok")
          /\ moved' = IF tuns[t] = owner(q) THEN moved ELSE moved \cup (Active \X {t})
     ELSE End(q, "400") /\ UNCHANGED <<tuns, moved>>
  /\ UNCHANGED <<use, users, sess, file, raced>> /\ nodeOnly

DeleteTunnel(q) ==
  /\ Where(q, "remove", "act") /\ End(q, "ok")
  /\ tuns' = [tuns EXCEPT ![Q(q).id] = None]
  /\ moved' = moved \cup (Active \X {Q(q).id})
  /\ UNCHANGED <<use, users, sess, file, raced>> /\ nodeOnly

Handler(q) ==
  \/ VerifyLogin(q) \/ createSession(q) \/ sessionsGet(q) \/ currentUser(q)
  \/ logout(q) \/ changePassword(q) \/ SetPassword(q) \/ upsertUser(q)
  \/ deleteUser(q) \/ enforceUserExpiry(q) \/ syncFRPUsers(q) \/ readUsers(q)
  \/ writeUsers(q) \/ view(q) \/ createTunnel(q) \/ allowed(q) \/ UpdateTunnel(q)
  \/ DeleteTunnel(q) \/ upsertNode(q) \/ deleteNode(q)

-----------------------------------------------------------------------------
(* Pushes.                                                                 *)

apiOnly == UNCHANGED <<use, api>>

\* pushRemoteNodes, by its ticker or after a change: the node is in the list.
pushRemoteNodes(p) ==
  /\ push[p] = "idle" /\ node.on /\ push' = [push EXCEPT ![p] = "sent"]
  /\ node' = node /\ apiOnly

\* The node answers or, in eight seconds, does not: setRemoteClientStatuses.
pushRemoteNode(p) ==
  /\ push[p] = "sent"
  /\ \E good \in {node.up, FALSE} :
       /\ good \/ ~node.up \/ node.left > 0
       /\ push' = [push EXCEPT ![p] = IF good THEN "good" ELSE "bad"]
       /\ node' = [node EXCEPT !.clients = good, !.left =
                                  IF good \/ ~node.up THEN @ ELSE @ - 1]
  /\ apiOnly

UpdateNodeStatus(p) ==
  /\ push[p] \in {"good", "bad"} /\ push' = [push EXCEPT ![p] = "idle"]
  /\ node' = [node EXCEPT !.shown = node.there /\ push[p] = "good"]
  /\ apiOnly

\* The node becomes unreachable and, unless it is for good, reachable again.
Outage ==
  /\ node.left > 0 /\ node.up
  /\ node' = [node EXCEPT !.up = FALSE, !.left = @ - 1] /\ push' = push /\ apiOnly
Recover ==
  /\ ~node.up /\ node.left > 0
  /\ node' = [node EXCEPT !.up = TRUE, !.left = @ - 1] /\ push' = push /\ apiOnly

PushStep(p) == pushRemoteNode(p) \/ UpdateNodeStatus(p)

Next == \/ \E q \in Req : Handler(q)
        \/ \E p \in Push : pushRemoteNodes(p) \/ PushStep(p)
        \/ Outage \/ Recover

Spec == Init /\ [][Next]_vars
\* Handlers return, the ticker of the pushes goes on, and a push ends in eight
\* seconds.
ApiFair == /\ WF_vars(\E q \in Req : Handler(q))
           /\ \A p \in Push : WF_vars(pushRemoteNodes(p)) /\ WF_vars(PushStep(p))
FairSpec == Spec /\ ApiFair

-----------------------------------------------------------------------------
(* Properties.                                                             *)

\* Type invariant of the requests and what they write.
ApiTypeOK ==
  /\ users \in [Name -> User \cup {None}] /\ file \in [Name -> User \cup {None}]
  /\ tuns \in [Tid -> Name \cup {None}] /\ sess \in [Req -> Name \cup {None}]
  /\ raced \in BOOLEAN /\ moved \subseteq Req \X Tid
  /\ \A q \in Req : job[q].at \in {"new", "verified", "got", "in", "set", "sync",
                                  "write", "act", "end"}
  /\ push \in [Push -> {"idle", "sent", "good", "bad"}]

\* createTunnel, updateTunnel and deleteUser run side by side, the user having been
\* looked up before: no tunnel is left without its user.
NoOrphanTunnel == \A t \in Tid : tuns[t] = None \/ has(tuns[t])

\* updateTunnel, deleteTunnel: who is not an administrator changes or deletes a
\* tunnel of somebody else only if it changed hands after it was checked.
OthersTunnelsKept ==
  [][\A q \in Req : job[q].at = "act" /\ job'[q].at = "end" /\ ~isAdmin(q)
       /\ tuns[Q(q).id] \notin {None, job[q].me.name} /\ <<q, Q(q).id>> \notin moved
       => tuns' = tuns]_vars

\* createTunnel, updateTunnel: whatever the copy of the user says that the request
\* began with, nobody gets a tunnel who is disabled or gone at that moment.
DisabledGetsNothing ==
  [][\A t \in Tid : tuns'[t] \notin {None, tuns[t]} =>
       has(tuns'[t]) /\ users[tuns'[t]].on]_vars

\* syncEngineUsers: when the requests are through, the file of frps has the users
\* as the store has them, unless two requests were writing it at the same time.
FileCatchesUp ==
  <>[](raced \/ \A n \in Name :
         IF users[n] = None THEN file[n] = None
         ELSE file[n] # None /\ file[n].role = users[n].role /\ file[n].on = users[n].on)

\* deleteNode, pushRemoteNodes: a push that is on its way when the node is deleted
\* does not bring it back, not even after it was added again and deleted again.
DeletedNodeGone == ~node.there => ~node.shown /\ ~node.on

\* pushRemoteNodes: pushes overlap and one that timed out may end after a later one
\* that succeeded; when the node stays reachable, or unreachable, the console shows
\* so in the end.
StatusSettles == <>[](node.on => node.shown = node.up /\ node.clients = node.up)

\* What handlers leave behind that overlap: tunnels with owners, nodes that stay gone.
ApiSound == ApiTypeOK /\ NoOrphanTunnel /\ DeletedNodeGone

\* What a handler lets through, although it acts on copies of an earlier moment.
ApiGuards == OthersTunnelsKept /\ DisabledGetsNothing

\* What the control shows and writes catches up with the store and with the node.
ApiSettles == FileCatchesUp /\ StatusSettles
=============================================================================

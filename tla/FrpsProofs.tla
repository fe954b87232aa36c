----------------------------- MODULE FrpsProofs -----------------------------
(***************************************************************************)
(* Proofs about frps: that ServerSound holds of every number of clients,   *)
(* runs, proxies, ports and users (module FrpServer), whatever else frps   *)
(* does beside it (module MCFrpServer), RoutesSound of every number of     *)
(* proxies told apart by host, of groups and of requests (module Vhost),   *)
(* and WaysSound of any pairs of NATs (modules HolePunch and Analyzer).    *)
(***************************************************************************)
EXTENDS MCFrpServer, FiniteSetTheorems, SequenceTheorems, WellFoundedInduction, TLAPS

-----------------------------------------------------------------------------
(* The inductive invariant.                                                *)

Alive(c)  == pc[c] \in {"wait", "resp", "run", "drain"}
Through(c) == pc[c] \in {"resp", "run", "drain", "done", "gone", "dead"}
Same(c, d) == RunOf(c) = RunOf(d)

\* The controls of one run came in an order, and one that has passed
\* RegisterControl has none before it that is alive: it waited for the one it
\* replaced, which had waited for those before.
Order(B) ==
  /\ \A c, d \in Ctl : <<c, d>> \in B => pc[c] # "new" /\ pc[d] # "new"
  /\ \A c, d \in Ctl : (pc[c] # "new" /\ pc[d] # "new" /\ c # d /\ Same(c, d))
                         => <<c, d>> \in B \/ <<d, c>> \in B
  /\ \A c, d \in Ctl : (<<c, d>> \in B /\ Same(c, d) /\ Through(d)) => ~Alive(c)
  /\ \A c, d \in Ctl : (<<c, d>> \in B /\ Same(c, d) /\ pc[d] = "wait" /\ Alive(c))
                         => old[d] # None /\ (c = old[d] \/ <<c, old[d]>> \in B)
  /\ \A c \in Ctl : Alive(c) => LET h == byRun[RunOf(c)] IN
                                h # None /\ (c = h \/ <<c, h>> \in B)
Ordered == \E B \in SUBSET (Ctl \X Ctl) : Order(B)

LoginInv ==
  /\ \A r \in Run : byRun[r] # None => RunOf(byRun[r]) = r /\ pc[byRun[r]] # "new"
  /\ \A c \in Ctl : old[c] # None => Same(old[c], c)
  /\ \A c \in Ctl : Alive(c) /\ byRun[RunOf(c)] # c => c \in replaced
  /\ \A c \in replaced : pc[c] # "new" /\ c \notin open /\ byRun[RunOf(c)] # c
  /\ \A c \in open : pc[c] # "new"

\* What a handler is at, and what it holds there.
JobInv == \A c \in Ctl : LET j == job[c] IN
  /\ j.at = "idle" => j = NoJob
  /\ j.at # "idle" => /\ pc[c] \in {"run", "drain"} /\ j.name \in Name
                      /\ proxies[c][j.name] = None
  /\ j.own => pxys[j.name] = c
  /\ j.own => j.cnt = 0
  /\ j.at \in {"acquire", "listen", "group", "join", "open", "add"} => ~j.own
  /\ j.at \in {"listen", "open", "add", "close", "release"} => j.port \in Port
  /\ j.at \in {"acquire", "listen", "release"} => j.name \notin Grouped
  /\ j.at \in {"group", "join", "open"} => j.name \in Grouped
  /\ j.at \in {"join", "open"} => j.gen \in 1..MaxGen
  /\ (j.at \in {"add", "close"} /\ j.name \notin Grouped) => lis[j.port] = <<c, j.name>>

ProxyInv == \A c \in Ctl, n \in Name : proxies[c][n] # None =>
  /\ pc[c] \in {"run", "drain"} /\ pxys[n] = c
  /\ n \notin Grouped => lis[proxies[c][n]] = <<c, n>>

FreeInv == \A p \in Port : p \in free <=> used[p] = None
HoldsPort(c, p) == \/ job[c].port = p /\ job[c].at \in {"listen", "open", "add", "close", "release"}
               \/ \E n \in Name : proxies[c][n] = p
HeldInv == \A p \in Port \ free : \E c \in Ctl : HoldsPort(c, p)

\* The members of the group: those whose proxy is served, and those that are being
\* added or closed.
InGroupAt(c, n, p) ==
  \/ proxies[c][n] = p
  \/ job[c].at \in {"add", "close"} /\ job[c].name = n /\ job[c].port = p
GroupInv ==
  /\ \A c \in Ctl, n \in Grouped, p \in Port : InGroupAt(c, n, p) =>
       /\ cur # 0 /\ lis[p] = GroupLn(cur) /\ <<c, n>> \in grp[cur].lns /\ grp[cur].port = p
  /\ \A g \in 1..MaxGen : grp[g].lns # {} => g = cur /\ grp[g].port \in Port
  /\ \A g \in 1..MaxGen : \A c \in Ctl, n \in Name : <<c, n>> \in grp[g].lns =>
       n \in Grouped /\ InGroupAt(c, n, grp[g].port)

\* Who opens the port of a group is alone with the group, which has no members yet.
Opening(c) == job[c].at = "open"
OpenInv == \A c \in Ctl : Opening(c) =>
  /\ cur = job[c].gen /\ grp[cur].lns = {} /\ \A d \in Ctl : Opening(d) => d = c

\* Where every proxy was counted, the count is at least that of the proxies there
\* are or are being registered, and at most the limit of the last one.
LimType == max \in use.limits /\ cap \in [Ctl -> Nat] /\ loose \subseteq Ctl
CountInv ==
  /\ LimType
  /\ \A c \in Ctl : IsFiniteSet(Wanted(c))
  /\ \A c \in Ctl \ loose :
       Cardinality(Wanted(c)) + job[c].cnt <= num[c] /\ num[c] <= cap[c]

UserInv == \A u \in User : uc[u].at = "wait" => uc[u].ctl \in Ctl

-----------------------------------------------------------------------------
(* Shapes.                                                                 *)

Ats == {"idle", "acquire", "listen", "group", "join", "open", "add", "close", "release", "del"}
Jobs == [at: Ats, name: Name \cup {None}, port: Port \cup {None}, gen: 0..MaxGen,
         own: BOOLEAN, cnt: 0..1]
Resvs == [port: Port \cup {None}, closed: BOOLEAN]
Groups == [lns: SUBSET (Ctl \X Name), port: Port \cup {None},
           want: Port \cup {AnyPort, None}]
Listeners == {None} \cup (Ctl \X Name) \cup ({"group"} \X (1..MaxGen))

LogType ==
  /\ pc \in [Ctl -> {"new", "wait", "resp", "run", "drain", "done", "gone", "dead"}]
  /\ open \subseteq Ctl /\ replaced \subseteq Ctl /\ old \in [Ctl -> Ctl \cup {None}]
  /\ byRun \in [Run -> Ctl \cup {None}] /\ reg \in [Key -> Run \cup {None}]
PxyType ==
  /\ job \in [Ctl -> Jobs] /\ proxies \in [Ctl -> [Name -> Port \cup {None}]]
  /\ num \in [Ctl -> Int] /\ pxys \in [Name -> Ctl \cup {None}]
PortType ==
  /\ free \subseteq Port /\ used \in [Port -> Name \cup {None}] /\ resv \in [Name -> Resvs]
  /\ lis \in [Port -> Listeners] /\ grp \in [1..MaxGen -> Groups]
  /\ cur \in 0..MaxGen /\ gens \in 0..MaxGen
UserType == uc \in [User -> [at: {"none", "wait", "joined", "failed"}, ctl: Ctl \cup {None}]]
WorkType == pool \in [Ctl -> 0..PoolCap] /\ reqs \in [Ctl -> Nat] /\ UserType

\* The parts of ServerTypeOK.
LEMMA TypeParts == ServerTypeOK <=> LogType /\ PxyType /\ PortType /\ LimType /\ WorkType
BY DEF ServerTypeOK, LogType, PxyType, PortType, LimType, WorkType, UserType, Ats, Jobs, Resvs, Groups,
       Listeners

\* What a scene consists of.
LEMMA SceneShape ==
  ASSUME use \in Setups
  PROVE  /\ use.who \subseteq Ctl /\ use.names \subseteq Name /\ use.users \subseteq User
         /\ use.pool \in Nat /\ use.limits \subseteq Nat
         /\ \A c \in Ctl : RunOf(c) \in Run /\ KeyOf(c) \in Key
         /\ \A c, d \in Ctl : Same(c, d) => KeyOf(c) = KeyOf(d)
<1>1. use \in Setup /\ \A c, d \in Ctl : use.run[c] = use.run[d] => use.key[c] = use.key[d]
  BY ServerAssumption
<1> QED BY <1>1 DEF Setup, RunOf, KeyOf, Same

\* None is no control, run, client, proxy or port.
LEMMA NoneApart ==
  None \notin Ctl /\ None \notin Run /\ None \notin Key /\ None \notin Name /\ None \notin Port
BY ServerAssumption

-----------------------------------------------------------------------------
(* Logging in and out.                                                     *)

LogInv == use \in Setups /\ LogType /\ Ordered /\ LoginInv /\ OnlineIsReal

\* A control that comes is the last of its run.
LEMMA RegisterControlLog ==
  ASSUME LogInv, NEW c \in Ctl, RegisterControl(c)
  PROVE  LogInv'
<1> DEFINE o == byRun[RunOf(c)]
<1>1. /\ use' = use /\ reg' = reg /\ pc[c] = "new" /\ pc' = [pc EXCEPT ![c] = "wait"]
      /\ byRun' = [byRun EXCEPT ![RunOf(c)] = c] /\ old' = [old EXCEPT ![c] = o]
      /\ replaced' = (IF o = None THEN replaced ELSE replaced \cup {o})
      /\ open' = (open \cup {c}) \ {o}
  BY DEF RegisterControl, Add
<1>2. LogType /\ use \in Setups /\ Ordered /\ LoginInv /\ OnlineIsReal
  BY DEF LogInv
<1>3. \A x \in Ctl : RunOf(x) \in Run /\ RunOf(x)' = RunOf(x) /\ KeyOf(x)' = KeyOf(x)
  BY <1>1, <1>2, SceneShape DEF RunOf, KeyOf
<1>4. \A x, y \in Ctl : Same(x, y)' = Same(x, y)
  BY <1>3 DEF Same
<1>5. o \in Ctl \cup {None} /\ (o # None => RunOf(o) = RunOf(c) /\ pc[o] # "new" /\ o # c)
  BY <1>1, <1>2, <1>3 DEF LogType, LoginInv
<1>6. LogType'
  BY <1>1, <1>2, <1>3, <1>5 DEF LogType
<1>7. /\ pc'[c] = "wait" /\ \A x \in Ctl : x # c => pc'[x] = pc[x]
      /\ old'[c] = o /\ \A x \in Ctl : x # c => old'[x] = old[x]
      /\ byRun'[RunOf(c)] = c /\ \A r \in Run : r # RunOf(c) => byRun'[r] = byRun[r]
  BY <1>1, <1>2, <1>3 DEF LogType
<1>8. PICK B \in SUBSET (Ctl \X Ctl) : Order(B)
  BY <1>2 DEF Ordered
<1>9. PICK N \in SUBSET (Ctl \X Ctl) : N = B \cup ({x \in Ctl : pc[x] # "new"} \X {c})
  OBVIOUS
<1>10. \A x, y \in Ctl : <<x, y>> \in N <=> (<<x, y>> \in B \/ (y = c /\ pc[x] # "new"))
  BY <1>9, <1>1
<1>11. \A x, y \in Ctl : <<x, y>> \in B => x # c /\ y # c
  BY <1>1, <1>8 DEF Order
<1>12. Order(N)'
  <2>1. \A x, y \in Ctl : <<x, y>> \in N => pc'[x] # "new" /\ pc'[y] # "new"
    BY <1>1, <1>7, <1>8, <1>10 DEF Order
  <2>2. \A x, y \in Ctl : (pc'[x] # "new" /\ pc'[y] # "new" /\ x # y /\ Same(x, y))
                            => <<x, y>> \in N \/ <<y, x>> \in N
    BY <1>7, <1>8, <1>10 DEF Order
  <2>3. \A x, y \in Ctl : (<<x, y>> \in N /\ Same(x, y) /\ Through(y)') => ~Alive(x)'
    BY <1>1, <1>7, <1>8, <1>10, <1>11 DEF Order, Through, Alive
  <2>4. \A x, y \in Ctl : (<<x, y>> \in N /\ Same(x, y) /\ pc'[y] = "wait" /\ Alive(x)')
          => old'[y] # None /\ (x = old'[y] \/ <<x, old'[y]>> \in N)
    <3> SUFFICES ASSUME NEW x \in Ctl, NEW y \in Ctl, <<x, y>> \in N, Same(x, y),
                        pc'[y] = "wait", Alive(x)'
                 PROVE  old'[y] # None /\ (x = old'[y] \/ <<x, old'[y]>> \in N)
      OBVIOUS
    <3>1. CASE y = c
      <4>1. x # c /\ Alive(x)
        BY <1>1, <1>7, <1>10, <1>11, <3>1 DEF Alive
      <4>2. RunOf(x) = RunOf(c)
        BY <3>1 DEF Same
      <4> QED BY <1>5, <1>7, <1>8, <1>10, <3>1, <4>1, <4>2 DEF Order
    <3>2. CASE y # c
      <4>1. <<x, y>> \in B /\ x # c /\ Alive(x) /\ pc[y] = "wait"
        BY <1>7, <1>10, <1>11, <3>2 DEF Alive
      <4>2. old[y] \in Ctl \cup {None}
        BY <1>2 DEF LogType
      <4> QED BY <1>7, <1>8, <1>10, <3>2, <4>1, <4>2 DEF Order
    <3> QED BY <3>1, <3>2
  <2>5. \A x \in Ctl : Alive(x)' => LET h == byRun'[RunOf(x)] IN
                                    h # None /\ (x = h \/ <<x, h>> \in N)
    <3> SUFFICES ASSUME NEW x \in Ctl, Alive(x)', x # c
                 PROVE  LET h == byRun'[RunOf(x)] IN h # None /\ (x = h \/ <<x, h>> \in N)
      BY <1>7, NoneApart
    <3>1. Alive(x) /\ pc[x] # "new"
      BY <1>7 DEF Alive
    <3>2. CASE RunOf(x) = RunOf(c)
      BY <1>7, <1>10, <3>1, <3>2, NoneApart
    <3>3. CASE RunOf(x) # RunOf(c)
      <4>1. byRun'[RunOf(x)] = byRun[RunOf(x)] /\ byRun[RunOf(x)] \in Ctl \cup {None}
        BY <1>2, <1>3, <1>7, <3>3 DEF LogType
      <4> QED BY <1>8, <1>10, <3>1, <4>1 DEF Order
    <3> QED BY <3>2, <3>3
  <2> QED BY <1>3, <1>4, <2>1, <2>2, <2>3, <2>4, <2>5 DEF Order
<1>13. Ordered'
  BY <1>12 DEF Ordered
<1>14. LoginInv'
  <2>1. \A r \in Run : byRun'[r] # None => RunOf(byRun'[r]) = r /\ pc'[byRun'[r]] # "new"
    BY <1>2, <1>7 DEF LoginInv, LogType
  <2>2. \A x \in Ctl : old'[x] # None => Same(old'[x], x)
    BY <1>2, <1>5, <1>7 DEF LoginInv, Same
  <2>3. \A x \in Ctl : Alive(x)' /\ byRun'[RunOf(x)] # x => x \in replaced'
    <3> SUFFICES ASSUME NEW x \in Ctl, Alive(x)', x # c, x \notin replaced
                 PROVE  byRun'[RunOf(x)] # x => x \in replaced'
      BY <1>1, <1>7
    <3>1. byRun[RunOf(x)] = x
      BY <1>2, <1>7 DEF LoginInv, Alive
    <3> QED BY <1>1, <1>3, <1>7, <3>1, NoneApart
  <2>4. \A x \in replaced' : pc'[x] # "new" /\ x \notin open' /\ byRun'[RunOf(x)] # x
    <3> SUFFICES ASSUME NEW x \in replaced'
                 PROVE  pc'[x] # "new" /\ x \notin open' /\ byRun'[RunOf(x)] # x
      OBVIOUS
    <3>1. CASE x \in replaced
      BY <1>1, <1>2, <1>3, <1>7, <3>1 DEF LoginInv, LogType
    <3>2. CASE x \notin replaced
      BY <1>1, <1>5, <1>7, <3>2
    <3> QED BY <3>1, <3>2
  <2>5. \A x \in open' : pc'[x] # "new"
    BY <1>1, <1>2, <1>7 DEF LoginInv, LogType
  <2>6. \A r \in Run : byRun'[r] # None => byRun'[r] \in Ctl
    BY <1>6 DEF LogType
  <2>7. \A x \in Ctl : old'[x] # None => old'[x] \in Ctl
    BY <1>6 DEF LogType
  <2>8. replaced' \subseteq Ctl
    BY <1>6 DEF LogType
  <2> QED BY <1>3, <1>4, <2>1, <2>2, <2>3, <2>4, <2>5, <2>6, <2>7, <2>8 DEF LoginInv
<1>15. OnlineIsReal'
  BY <1>1, <1>2, <1>3, <1>7 DEF OnlineIsReal
<1> QED BY <1>1, <1>2, <1>6, <1>13, <1>14, <1>15 DEF LogInv

\* A control moves on, having passed RegisterControl.  If it leaves the manager with
\* that, it is no longer alive.
Moves(c, q) ==
  /\ pc[c] # "new" /\ pc' = [pc EXCEPT ![c] = q] /\ q \in {"resp", "run", "drain", "done",
                                                         "gone", "dead"}
  /\ Through(c) \/ WaitClosed(c)
  /\ q \in {"resp", "run", "drain"} => Alive(c)
  /\ use' = use /\ old' = old /\ replaced' = replaced /\ open' \subseteq open
  /\ \/ byRun' = byRun
     \/ q \in {"done", "gone", "dead"} /\ Del(c)

\* A control that moves on keeps the order of its run: those before it are not alive.
LEMMA MovesKeepsOrder ==
  ASSUME LogInv, NEW c \in Ctl, NEW q, Moves(c, q)
  PROVE  Ordered' /\ LoginInv'
<1>1. LogType /\ use \in Setups /\ Ordered /\ LoginInv
  BY DEF LogInv
<1>2. \A x \in Ctl : RunOf(x) \in Run /\ RunOf(x)' = RunOf(x)
  BY <1>1, SceneShape DEF RunOf, Moves
<1>3. \A x, y \in Ctl : Same(x, y)' = Same(x, y)
  BY <1>2 DEF Same
<1>4. /\ pc'[c] = q /\ \A x \in Ctl : x # c => pc'[x] = pc[x]
      /\ old' = old /\ replaced' = replaced /\ open' \subseteq open
  BY <1>1 DEF Moves, LogType
<1>5. \A x \in Ctl : Alive(x)' => Alive(x)
  BY <1>4 DEF Moves, Alive
<1>6. \/ byRun' = byRun
      \/ /\ ~Alive(c)' /\ byRun[RunOf(c)] = c /\ byRun'[RunOf(c)] = None
         /\ \A r \in Run : r # RunOf(c) => byRun'[r] = byRun[r]
  BY <1>1, <1>2, <1>4 DEF Moves, Del, Alive, LogType
<1>7. PICK B \in SUBSET (Ctl \X Ctl) : Order(B)
  BY <1>1 DEF Ordered
<1>8. \A x \in Ctl : <<x, c>> \in B /\ Same(x, c) => ~Alive(x)
  <2>1. CASE Through(c)
    BY <1>7, <2>1 DEF Order
  <2>2. CASE ~Through(c)
    <3>1. pc[c] = "wait" /\ WaitClosed(c)
      BY <1>1, <2>2 DEF Moves, Through, LogType
    <3> SUFFICES ASSUME NEW x \in Ctl, <<x, c>> \in B, Same(x, c), Alive(x) PROVE FALSE
      OBVIOUS
    <3>2. old[c] # None /\ (x = old[c] \/ <<x, old[c]>> \in B)
      BY <1>7, <3>1 DEF Order
    <3>3. old[c] \in Ctl /\ pc[old[c]] \in {"done", "gone"} /\ Same(old[c], c)
      BY <1>1, <3>1, <3>2 DEF WaitClosed, LoginInv
    <3>4. Same(x, old[c])
      BY <3>3 DEF Same
    <3> QED BY <1>7, <3>2, <3>3, <3>4 DEF Order, Through, Alive
  <2> QED BY <2>1, <2>2
<1>9. Order(B)'
  <2>1. \A x, y \in Ctl : <<x, y>> \in B => pc'[x] # "new" /\ pc'[y] # "new"
    BY <1>4, <1>7 DEF Order, Moves
  <2>2. \A x, y \in Ctl : (pc'[x] # "new" /\ pc'[y] # "new" /\ x # y /\ Same(x, y))
                            => <<x, y>> \in B \/ <<y, x>> \in B
    BY <1>4, <1>7 DEF Order, Moves
  <2>3. \A x, y \in Ctl : (<<x, y>> \in B /\ Same(x, y) /\ Through(y)') => ~Alive(x)'
    BY <1>4, <1>5, <1>7, <1>8 DEF Order, Through
  <2>4. \A x, y \in Ctl : (<<x, y>> \in B /\ Same(x, y) /\ pc'[y] = "wait" /\ Alive(x)')
          => old[y] # None /\ (x = old[y] \/ <<x, old[y]>> \in B)
    BY <1>4, <1>5, <1>7 DEF Order, Moves
  <2>5. \A x \in Ctl : Alive(x)' => LET h == byRun'[RunOf(x)] IN
                                    h # None /\ (x = h \/ <<x, h>> \in B)
    <3> SUFFICES ASSUME NEW x \in Ctl, Alive(x)'
                 PROVE  LET h == byRun'[RunOf(x)] IN h # None /\ (x = h \/ <<x, h>> \in B)
      OBVIOUS
    <3>1. /\ byRun[RunOf(x)] # None
          /\ x = byRun[RunOf(x)] \/ <<x, byRun[RunOf(x)]>> \in B
      BY <1>5, <1>7 DEF Order
    <3>2. byRun'[RunOf(x)] = byRun[RunOf(x)]
      <4> SUFFICES ASSUME byRun' # byRun, RunOf(x) = RunOf(c) PROVE FALSE
        BY <1>2, <1>6
      <4>1. x # c /\ <<x, c>> \in B /\ Same(x, c)
        BY <1>6, <3>1 DEF Same
      <4> QED BY <1>5, <1>8, <4>1
    <3> QED BY <3>1, <3>2
  <2> QED BY <1>2, <1>3, <1>4, <2>1, <2>2, <2>3, <2>4, <2>5 DEF Order
<1>10. LoginInv'
  <2>1. \A r \in Run : byRun'[r] # None => byRun'[r] = byRun[r] /\ byRun[r] \in Ctl
    BY <1>1, <1>2, <1>6 DEF LogType
  <2>2. \A r \in Run : byRun'[r] # None => RunOf(byRun'[r]) = r /\ pc'[byRun'[r]] # "new"
    BY <1>1, <1>4, <2>1 DEF LoginInv, Moves
  <2>3. \A x \in Ctl : old'[x] # None => Same(old'[x], x) /\ old'[x] \in Ctl
    BY <1>1, <1>4 DEF LoginInv, LogType
  <2>4. \A x \in Ctl : Alive(x)' /\ byRun'[RunOf(x)] # x => x \in replaced'
    <3> SUFFICES ASSUME NEW x \in Ctl, Alive(x)', byRun'[RunOf(x)] # x
                 PROVE  x \in replaced
      BY <1>4
    <3>1. byRun[RunOf(x)] # x
      BY <1>2, <1>6, <2>1
    <3> QED BY <1>1, <1>5, <3>1 DEF LoginInv
  <2>5. \A x \in replaced' : x \in Ctl /\ pc'[x] # "new" /\ x \notin open' /\ byRun'[RunOf(x)] # x
    BY <1>1, <1>2, <1>4, <2>1, NoneApart DEF LoginInv, LogType, Moves
  <2>6. \A x \in open' : pc'[x] # "new"
    BY <1>1, <1>4 DEF LoginInv, LogType, Moves
  <2> QED BY <1>2, <1>3, <2>1, <2>2, <2>3, <2>4, <2>5, <2>6 DEF LoginInv
<1> QED BY <1>9, <1>10 DEF Ordered

\* The client of a control stays online as long as the control, or another one of
\* the same run, is alive.
LEMMA MovesKeepsOnline ==
  ASSUME LogInv, NEW c \in Ctl, NEW q, Moves(c, q),
         \/ reg' = reg /\ (Alive(c)' \/ ~Alive(c) \/ reg[KeyOf(c)] # RunOf(c))
         \/ MarkOffline(c)
         \/ reg' = [reg EXCEPT ![KeyOf(c)] = RunOf(c)] /\ Alive(c)'
         \/ reg' = reg /\ c \in replaced /\ Alive(c)
  PROVE  OnlineIsReal' /\ reg' \in [Key -> Run \cup {None}]
<1>1. LogType /\ use \in Setups /\ Ordered /\ LoginInv /\ OnlineIsReal
  BY DEF LogInv
<1>2. \A x \in Ctl : /\ RunOf(x) \in Run /\ RunOf(x)' = RunOf(x)
                     /\ KeyOf(x) \in Key /\ KeyOf(x)' = KeyOf(x)
  BY <1>1, SceneShape DEF RunOf, KeyOf, Moves
<1>3. pc'[c] = q /\ \A x \in Ctl : x # c => pc'[x] = pc[x]
  BY <1>1 DEF Moves, LogType
<1>4. reg' \in [Key -> Run \cup {None}]
  BY <1>1, <1>2 DEF LogType, MarkOffline
<1>5. \A k \in Key : reg[k] # None =>
        \E x \in Ctl : KeyOf(x) = k /\ RunOf(x) = reg[k] /\ Alive(x)
  BY <1>1 DEF OnlineIsReal, Alive
<1>6. \A k \in Key : reg'[k] # None =>
        \E x \in Ctl : KeyOf(x) = k /\ RunOf(x) = reg'[k] /\ Alive(x)'
  <2> SUFFICES ASSUME NEW k \in Key, reg'[k] # None
               PROVE  \E x \in Ctl : KeyOf(x) = k /\ RunOf(x) = reg'[k] /\ Alive(x)'
    OBVIOUS
  <2>1. CASE reg' = reg /\ (Alive(c)' \/ ~Alive(c) \/ reg[KeyOf(c)] # RunOf(c))
    BY <1>3, <1>5, <2>1 DEF Alive
  <2>2. CASE MarkOffline(c)
    <3>1. reg'[k] = reg[k] /\ ~(KeyOf(c) = k /\ RunOf(c) = reg[k])
      BY <1>1, <1>2, <2>2 DEF MarkOffline, LogType
    <3> QED BY <1>3, <1>5, <3>1 DEF Alive
  <2>3. CASE reg' = [reg EXCEPT ![KeyOf(c)] = RunOf(c)] /\ Alive(c)'
    <3>1. CASE k = KeyOf(c)
      BY <1>1, <1>2, <2>3, <3>1 DEF LogType
    <3>2. CASE k # KeyOf(c)
      <4>1. reg'[k] = reg[k]
        BY <1>1, <1>2, <2>3, <3>2 DEF LogType
      <4> QED BY <1>3, <1>5, <2>3, <4>1 DEF Alive
    <3> QED BY <3>1, <3>2
  <2>4. CASE reg' = reg /\ c \in replaced /\ Alive(c)
    <3>1. PICK x \in Ctl : KeyOf(x) = k /\ RunOf(x) = reg[k] /\ Alive(x)
      BY <1>5, <2>4
    <3>2. CASE x # c
      BY <1>3, <2>4, <3>1, <3>2 DEF Alive
    <3>3. CASE x = c
      <4> DEFINE h == byRun[RunOf(c)]
      <4>1. PICK B \in SUBSET (Ctl \X Ctl) : Order(B)
        BY <1>1 DEF Ordered
      <4>2. h # c /\ h # None /\ <<c, h>> \in B
        BY <1>1, <2>4, <4>1 DEF Order, LoginInv
      <4>3. h \in Ctl /\ Same(c, h) /\ Same(h, c) /\ pc[h] # "new"
        BY <1>1, <1>2, <4>2 DEF LogType, LoginInv, Same
      <4>4. ~Through(h)
        BY <2>4, <4>1, <4>2, <4>3 DEF Order
      <4>5. pc[h] = "wait"
        BY <1>1, <4>3, <4>4 DEF LogType, Through
      <4>6. KeyOf(h) = KeyOf(c)
        BY <1>1, <4>3, SceneShape
      <4> QED BY <1>3, <2>4, <3>1, <3>3, <4>2, <4>3, <4>5, <4>6 DEF Alive, Same
    <3> QED BY <3>2, <3>3
  <2> QED BY <2>1, <2>2, <2>3, <2>4
<1> QED BY <1>2, <1>4, <1>6 DEF OnlineIsReal, Alive

\* Nothing of it changes but that connections end.
LEMMA LogFrame ==
  ASSUME LogInv, UNCHANGED <<use, pc, old, replaced, byRun, reg>>, open' \subseteq open
  PROVE  LogInv'
<1>1. LogType'
  BY DEF LogInv, LogType
<1>2. \A x \in Ctl : RunOf(x)' = RunOf(x) /\ KeyOf(x)' = KeyOf(x)
  BY DEF RunOf, KeyOf
<1>3. \A x, y : Same(x, y)' = Same(x, y)
  BY DEF Same, RunOf
<1>4. \A x : Alive(x)' = Alive(x) /\ Through(x)' = Through(x)
  BY DEF Alive, Through
<1>5. Ordered'
  <2>1. PICK B \in SUBSET (Ctl \X Ctl) : Order(B)
    BY DEF LogInv, Ordered
  <2>2. Order(B)'
    BY <1>2, <1>3, <1>4, <2>1 DEF Order
  <2> QED BY <2>2 DEF Ordered
<1>6. LoginInv'
  BY <1>2, <1>3, <1>4 DEF LogInv, LoginInv, LogType, RunOf
<1>7. OnlineIsReal'
  BY <1>2 DEF LogInv, OnlineIsReal
<1> QED BY <1>1, <1>5, <1>6, <1>7 DEF LogInv

\* A control that passes RegisterControl, starts, fails or is torn down.
LEMMA MovesKeepsLog ==
  ASSUME LogInv, NEW c \in Ctl, NEW q, Moves(c, q),
         \/ reg' = reg /\ (Alive(c)' \/ ~Alive(c) \/ reg[KeyOf(c)] # RunOf(c))
         \/ MarkOffline(c)
         \/ reg' = [reg EXCEPT ![KeyOf(c)] = RunOf(c)] /\ Alive(c)'
         \/ reg' = reg /\ c \in replaced /\ Alive(c)
  PROVE  LogInv'
<1>1. Ordered' /\ LoginInv'
  BY MovesKeepsOrder
<1>2. OnlineIsReal' /\ reg' \in [Key -> Run \cup {None}]
  BY MovesKeepsOnline
<1>3. LogType /\ use \in Setups
  BY DEF LogInv
<1>4. LogType'
  BY <1>2, <1>3, SceneShape DEF LogType, Moves, Del
<1> QED BY <1>1, <1>2, <1>3, <1>4 DEF LogInv, Moves

\* What Login, the end of the worker and a lost connection make of the tables.
LEMMA LogKept ==
  ASSUME LogInv, NEW c \in Ctl,
         \/ RegisterControl(c) \/ Register(c) \/ Start(c) \/ StartFails(c)
         \/ Drop(c) \/ worker(c) \/ workerDone(c) \/ Forget(c)
  PROVE  LogInv'
<1>1. LogType
  BY DEF LogInv
<1>2. CASE RegisterControl(c)
  BY <1>2, RegisterControlLog
<1>3. CASE Register(c)
  <2>1. CASE Conflict(c)
    <3>1. Moves(c, "dead")
      BY <1>3, <2>1 DEF Register, Moves
    <3> QED BY <1>3, <2>1, <3>1, MovesKeepsLog DEF Register, Conflict
  <2>2. CASE ~Conflict(c)
    <3>1. Moves(c, "resp") /\ reg' = [reg EXCEPT ![KeyOf(c)] = RunOf(c)] /\ Alive(c)'
      BY <1>1, <1>3, <2>2 DEF Register, Moves, Alive, LogType
    <3> QED BY <3>1, MovesKeepsLog
  <2> QED BY <2>1, <2>2
<1>4. CASE Start(c)
  <2>1. Moves(c, "run") /\ reg' = reg /\ Alive(c)'
    BY <1>1, <1>4 DEF Start, Moves, Alive, Through, LogType
  <2> QED BY <2>1, MovesKeepsLog
<1>5. CASE StartFails(c)
  <2>1. Moves(c, "dead") /\ MarkOffline(c)
    BY <1>5 DEF StartFails, Moves, Through
  <2> QED BY <2>1, MovesKeepsLog
<1>6. CASE Drop(c)
  BY <1>6, LogFrame DEF Drop
<1>7. CASE worker(c)
  <2>1. Moves(c, "drain") /\ reg' = reg /\ Alive(c)'
    BY <1>1, <1>7 DEF worker, Moves, Alive, Through, LogType
  <2> QED BY <2>1, MovesKeepsLog
<1>8. CASE workerDone(c)
  <2>1. Moves(c, "done") /\ (MarkOffline(c) \/ (reg' = reg /\ c \in replaced /\ Alive(c)))
    BY <1>8 DEF workerDone, Moves, Through, Alive
  <2> QED BY <2>1, MovesKeepsLog
<1>9. CASE Forget(c)
  <2>1. Moves(c, "gone") /\ reg' = reg /\ ~Alive(c)
    BY <1>9 DEF Forget, Moves, Through, Alive
  <2> QED BY <2>1, MovesKeepsLog
<1> QED BY <1>2, <1>3, <1>4, <1>5, <1>6, <1>7, <1>8, <1>9

\* A run is never served by two controls.
LEMMA OrderIsOneActive == LogInv => OneActive
<1> SUFFICES ASSUME LogInv, NEW c \in Ctl, NEW d \in Ctl, c # d, Same(c, d),
                    {pc[c], pc[d]} \subseteq {"run", "drain"}
             PROVE  FALSE
  BY DEF OneActive, Same
<1>1. PICK B \in SUBSET (Ctl \X Ctl) : Order(B)
  BY DEF LogInv, Ordered
<1>2. /\ pc[c] # "new" /\ pc[d] # "new" /\ Alive(c) /\ Alive(d) /\ Through(c) /\ Through(d)
      /\ Same(d, c)
  BY DEF Alive, Through, Same
<1> QED BY <1>1, <1>2 DEF Order

-----------------------------------------------------------------------------
(* Proxies and ports.                                                      *)

PxyInv == /\ use \in Setups /\ PxyType /\ PortType /\ JobInv /\ ProxyInv /\ FreeInv
          /\ HeldInv /\ NamesHeld /\ GroupInv /\ OpenInv /\ CountInv

\* Controls log in and out: those with proxies or a handler stay at work.
LEMMA PxyFrame ==
  ASSUME PxyInv, UNCHANGED <<use, cap, loose, pxyVars, portVars>>, max' \in use.limits,
         \A c \in Ctl : (pc[c] \in {"run", "drain"}
                         /\ (job[c].at # "idle" \/ \E n \in Name : proxies[c][n] # None))
                           => pc'[c] \in {"run", "drain"}
  PROVE  PxyInv'
<1> USE DEF pxyVars, portVars
<1>1. PxyType' /\ PortType' /\ FreeInv'
  BY DEF PxyInv, PxyType, PortType, FreeInv
<1>2. JobInv'
  BY DEF PxyInv, JobInv
<1>3. ProxyInv'
  BY DEF PxyInv, ProxyInv
<1>4. HeldInv' /\ GroupInv' /\ OpenInv'
  BY DEF PxyInv, HeldInv, HoldsPort, GroupInv, InGroupAt, GroupLn, OpenInv, Opening
<1>5. NamesHeld'
  <2> SUFFICES ASSUME NEW n \in Name, pxys[n] # None
               PROVE  LET c == pxys[n] IN \/ proxies[c][n] # None /\ pc'[c] \in {"run", "drain"}
                                          \/ job[c].name = n /\ job[c].own
    BY DEF NamesHeld
  <2>1. pxys[n] \in Ctl
    BY DEF PxyInv, PxyType
  <2> QED BY <2>1 DEF PxyInv, NamesHeld
<1>6. CountInv'
  BY DEF PxyInv, CountInv, LimType, Wanted
<1> QED BY <1>1, <1>2, <1>3, <1>4, <1>5, <1>6 DEF PxyInv

\* Nobody comes to open a port, and the groups stay as they are.
LEMMA OpenFrame ==
  ASSUME OpenInv, UNCHANGED <<cur, grp>>,
         \A x \in Ctl : job'[x].at = "open" => job'[x] = job[x]
  PROVE  OpenInv'
BY DEF OpenInv, Opening

\* A proxy is asked for.
LEMMA RegisterProxyPxy ==
  ASSUME PxyInv, NEW c \in Ctl, NEW n \in Name, RegisterProxy(c, n)
  PROVE  PxyInv'
<1> DEFINE at == IF n \in Grouped THEN "group" ELSE "acquire"
           w == [NoJob EXCEPT !.name = n, !.cnt = Counted, !.at = at]
<1>1. /\ use' = use /\ pc' = pc /\ proxies' = proxies /\ pxys' = pxys
      /\ UNCHANGED portVars /\ pc[c] = "run" /\ job[c] = NoJob /\ pxys[n] = None
      /\ job' = [job EXCEPT ![c] = w] /\ num' = [num EXCEPT ![c] = @ + Counted]
      /\ max = 0 \/ num[c] + 1 <= max
      /\ UNCHANGED <<max, loose>>
      /\ cap' = IF max = 0 THEN cap ELSE [cap EXCEPT ![c] = max]
  BY DEF RegisterProxy, Reading, logVars
<1>2. PxyType /\ PortType /\ JobInv /\ ProxyInv /\ FreeInv /\ HeldInv /\ NamesHeld
      /\ GroupInv /\ OpenInv /\ CountInv /\ use \in Setups /\ max \in Nat
  BY SceneShape DEF PxyInv, CountInv, LimType
<1>3. at \in {"group", "acquire"} /\ (at = "group" <=> n \in Grouped)
  OBVIOUS
<1> HIDE DEF at
<1>13. w \in Jobs /\ w.at = at /\ w.name = n /\ ~w.own /\ w.cnt = Counted
  <2>1. NoJob \in Jobs /\ ~NoJob.own /\ Counted \in 0..1
    BY ServerAssumption DEF Jobs, Ats, NoJob, Counted
  <2> QED BY <1>3, <2>1 DEF Jobs, Ats
<1> HIDE DEF w
<1>4. /\ job'[c] = w /\ \A x \in Ctl : x # c => job'[x] = job[x]
      /\ num'[c] = num[c] + Counted /\ \A x \in Ctl : x # c => num'[x] = num[x]
      /\ job' \in [Ctl -> Jobs] /\ num' \in [Ctl -> Int] /\ Counted \in {0, 1}
  BY <1>1, <1>2, <1>13 DEF PxyType, Counted
<1>5. /\ job[c].at = "idle" /\ ~job[c].own /\ proxies[c][n] = None
      /\ \A x \in Ctl : pxys[n] # x
  BY <1>1, <1>2, NoneApart DEF NoJob, ProxyInv
<1>6. PxyType' /\ PortType' /\ FreeInv'
  BY <1>1, <1>2, <1>4 DEF PxyType, PortType, FreeInv, portVars
<1>7. JobInv'
  BY <1>1, <1>2, <1>3, <1>13, <1>4, <1>5 DEF JobInv, portVars
<1>8. ProxyInv'
  BY <1>1, <1>2 DEF ProxyInv, portVars
<1>9. HeldInv'
  <2>1. \A x \in Ctl, p \in Port : HoldsPort(x, p) => HoldsPort(x, p)'
    BY <1>1, <1>4, <1>5 DEF HoldsPort
  <2> QED BY <1>1, <1>2, <2>1 DEF HeldInv, portVars
<1>10. NamesHeld'
  BY <1>1, <1>2, <1>4, <1>5 DEF NamesHeld, PxyType
<1>11. GroupInv'
  <2>1. \A p : \A x \in Ctl, m \in Name : InGroupAt(x, m, p)' = InGroupAt(x, m, p)
    BY <1>1, <1>3, <1>13, <1>4, <1>5 DEF InGroupAt
  <2> QED BY <1>1, <1>2, <2>1, ServerAssumption DEF GroupInv, GroupLn, portVars
<1>14. OpenInv'
  <2>1. \A x \in Ctl : job'[x].at = "open" => job'[x] = job[x]
    BY <1>3, <1>13, <1>4
  <2> QED BY <1>1, <1>2, <2>1, OpenFrame DEF portVars
<1>12. CountInv'
  <2>1. \A x \in Ctl : Wanted(x)' = Wanted(x)
    BY <1>1 DEF Wanted
  <2>2. job'[c].cnt = Counted /\ job[c].cnt = 0 /\ \A x \in Ctl : x # c => job'[x].cnt = job[x].cnt
    BY <1>1, <1>13, <1>4 DEF NoJob
  <2>3. \A x \in Ctl : IsFiniteSet(Wanted(x)) /\ Cardinality(Wanted(x)) \in Nat /\ num[x] \in Int
    BY <1>2, FS_CardinalityType DEF CountInv, PxyType
  <2>4. LimType' /\ \A x \in Ctl : x # c => cap'[x] = cap[x]
    BY <1>1, <1>2 DEF CountInv, LimType
  <2>5. max > 0 => Counted = 1 /\ cap'[c] = max /\ num[c] + 1 <= max
    BY <1>1, <1>2 DEF Counted, CountInv, LimType
  <2>6. max = 0 => Counted = 0 /\ cap' = cap
    BY <1>1 DEF Counted
  <2> SUFFICES ASSUME NEW x \in Ctl \ loose
               PROVE  /\ Cardinality(Wanted(x)) + job'[x].cnt <= num'[x]
                      /\ num'[x] <= cap'[x]
    BY <1>1, <2>1, <2>3, <2>4 DEF CountInv
  <2>7. /\ Cardinality(Wanted(x)) + job[x].cnt <= num[x] /\ num[x] <= cap[x]
        /\ Cardinality(Wanted(x)) \in Nat /\ num[x] \in Int
    BY <1>2, <2>3 DEF CountInv
  <2>8. CASE x = c /\ max > 0
    BY <1>4, <2>2, <2>5, <2>7, <2>8
  <2>9. CASE x = c /\ max = 0
    BY <1>4, <2>2, <2>6, <2>7, <2>9
  <2>10. CASE x # c
    BY <1>4, <2>2, <2>4, <2>7, <2>10
  <2> QED BY <1>2, <2>8, <2>9, <2>10
<1> QED BY <1>1, <1>2, <1>6, <1>7, <1>8, <1>9, <1>10, <1>11, <1>12, <1>14 DEF PxyInv

\* A port that is released is free.
LEMMA ReleaseFrees ==
  ASSUME PortType, FreeInv, NEW p \in Port, Release(p)
  PROVE  /\ FreeInv' /\ free' = free \cup {p}
         /\ used' \in [Port -> Name \cup {None}] /\ resv' \in [Name -> Resvs]
<1>1. CASE used[p] = None
  BY <1>1 DEF Release, FreeInv, PortType
<1>2. CASE used[p] # None
  <2>1. used[p] \in Name /\ resv[used[p]] \in Resvs
    BY <1>2 DEF PortType
  <2>2. /\ free' = free \cup {p} /\ used' = [used EXCEPT ![p] = None]
        /\ resv' = [resv EXCEPT ![used[p]].closed = @ \/ resv[used[p]].port = p]
    BY <1>2 DEF Release
  <2> DEFINE closed == resv[used[p]].closed \/ resv[used[p]].port = p
             w == [resv[used[p]] EXCEPT !.closed = closed]
  <2>3. closed \in BOOLEAN
    BY <2>1 DEF Resvs
  <2>4. resv' = [resv EXCEPT ![used[p]] = w]
    BY <2>2
  <2> HIDE DEF closed
  <2>5. w \in Resvs
    BY <2>1, <2>3 DEF Resvs
  <2> HIDE DEF w
  <2> QED BY <2>1, <2>2, <2>4, <2>5 DEF FreeInv, PortType
<1> QED BY <1>1, <1>2

\* A port that is marked is not free.
LEMMA MarkTakes ==
  ASSUME PortType, FreeInv, NEW p \in Port, NEW n \in Name, Mark(n, p)
  PROVE  /\ FreeInv' /\ free' = free \ {p}
         /\ used' \in [Port -> Name \cup {None}] /\ resv' \in [Name -> Resvs]
<1>1. [port |-> p, closed |-> FALSE] \in Resvs
  BY DEF Resvs
<1> QED BY <1>1, NoneApart DEF Mark, PortType, FreeInv

\* A count goes down only with the registration that it was for.
LEMMA CountFrame ==
  ASSUME PxyInv, UNCHANGED <<use, max, cap, loose, proxies>>, NEW c \in Ctl,
         \A x \in Ctl : x # c => job'[x] = job[x] /\ num'[x] = num[x],
         \/ num'[c] = num[c] /\ job'[c].cnt = job[c].cnt
         \/ num'[c] = num[c] - job[c].cnt /\ job'[c].cnt = 0
  PROVE  CountInv'
<1>1. \A x \in Ctl : Wanted(x)' = Wanted(x)
  BY DEF Wanted
<1>2. \A x \in Ctl : /\ IsFiniteSet(Wanted(x)) /\ Cardinality(Wanted(x)) \in Nat
                     /\ num[x] \in Int /\ job[x].cnt \in 0..1 /\ cap[x] \in Nat
  BY FS_CardinalityType DEF PxyInv, CountInv, LimType, PxyType, Jobs
<1>3. LimType'
  BY DEF PxyInv, CountInv, LimType
<1> SUFFICES ASSUME NEW x \in Ctl \ loose
             PROVE  Cardinality(Wanted(x)) + job'[x].cnt <= num'[x] /\ num'[x] <= cap[x]
  BY <1>1, <1>2, <1>3 DEF CountInv
<1>4. Cardinality(Wanted(x)) + job[x].cnt <= num[x] /\ num[x] <= cap[x]
  BY DEF PxyInv, CountInv
<1>5. CASE x = c
  BY <1>2, <1>4, <1>5
<1>6. CASE x # c
  BY <1>4, <1>6
<1> QED BY <1>5, <1>6

\* A registration that holds nothing, or whose port has just been released, fails.
LEMMA FailPxy ==
  ASSUME PxyInv, NEW c \in Ctl, job[c].at \in {"acquire", "listen", "join", "open", "del"},
         ~job[c].own, UNCHANGED <<use, limVars, pc, proxies, pxys, lis, cur, grp, gens>>, Fail(c),
         \/ UNCHANGED <<free, used, resv>> /\ job[c].at \notin {"listen", "open"}
         \/ job[c].at \in {"listen", "open"} /\ Release(job[c].port)
  PROVE  PxyInv'
<1>1. PxyType /\ PortType /\ JobInv /\ ProxyInv /\ FreeInv /\ HeldInv /\ NamesHeld
      /\ GroupInv /\ OpenInv /\ CountInv /\ use \in Setups
  BY DEF PxyInv
<1>2. /\ NoJob \in Jobs /\ NoJob.at = "idle" /\ NoJob.own = FALSE /\ NoJob.port = None
      /\ NoJob.name = None /\ NoJob.cnt = 0
  BY ServerAssumption DEF NoJob, Jobs, Ats
<1>3. /\ job' = [job EXCEPT ![c] = NoJob] /\ num' = [num EXCEPT ![c] = @ - job[c].cnt]
      /\ job[c].cnt \in 0..1
  BY <1>1 DEF Fail, PxyType, Jobs
<1>4. /\ job'[c] = NoJob /\ \A x \in Ctl : x # c => job'[x] = job[x]
      /\ num'[c] = num[c] - job[c].cnt /\ \A x \in Ctl : x # c => num'[x] = num[x]
      /\ job' \in [Ctl -> Jobs] /\ num' \in [Ctl -> Int]
  BY <1>1, <1>2, <1>3 DEF PxyType
<1>5. /\ FreeInv' /\ free \subseteq free' /\ (job[c].at \in {"listen", "open"} => job[c].port \in free')
      /\ used' \in [Port -> Name \cup {None}] /\ resv' \in [Name -> Resvs] /\ free' \subseteq Port
  <2>1. CASE UNCHANGED <<free, used, resv>> /\ job[c].at \notin {"listen", "open"}
    BY <1>1, <2>1 DEF PortType, FreeInv
  <2>2. CASE job[c].at \in {"listen", "open"} /\ Release(job[c].port)
    <3>1. job[c].port \in Port
      BY <1>1, <2>2 DEF JobInv
    <3> QED BY <1>1, <2>2, <3>1, ReleaseFrees DEF PortType
  <2> QED BY <2>1, <2>2
<1>6. PxyType' /\ PortType'
  BY <1>1, <1>4, <1>5 DEF PxyType, PortType
<1>7. JobInv'
  <2> SUFFICES ASSUME NEW x \in Ctl
               PROVE  JobInv!(x)'
    BY DEF JobInv
  <2>1. CASE x = c
    BY <1>2, <1>4, <2>1
  <2>2. CASE x # c
    BY <1>1, <1>4, <2>2, ZenonT(60) DEF JobInv
  <2> QED BY <2>1, <2>2
<1>8. ProxyInv'
  BY <1>1 DEF ProxyInv
<1>9. HeldInv'
  <2>1. \A x \in Ctl, p \in Port \ free' : HoldsPort(x, p) => HoldsPort(x, p)'
    BY <1>4, <1>5 DEF HoldsPort
  <2> QED BY <1>1, <1>5, <2>1 DEF HeldInv
<1>10. NamesHeld'
  BY <1>1, <1>4 DEF NamesHeld, PxyType
<1>11. GroupInv'
  <2>1. \A p : \A x \in Ctl, m \in Name : InGroupAt(x, m, p)' = InGroupAt(x, m, p)
    BY <1>2, <1>4 DEF InGroupAt
  <2> QED BY <1>1, <2>1, ServerAssumption DEF GroupInv, GroupLn
<1>12. CountInv'
  BY <1>2, <1>4, CountFrame DEF limVars
<1>13. OpenInv'
  <2>1. \A x \in Ctl : job'[x].at = "open" => job'[x] = job[x]
    BY <1>2, <1>4
  <2> QED BY <1>1, <2>1, OpenFrame
<1> QED BY <1>1, <1>5, <1>6, <1>7, <1>8, <1>9, <1>10, <1>11, <1>12, <1>13 DEF PxyInv

\* The port of a proxy is acquired.
LEMMA AcquirePxy ==
  ASSUME PxyInv, NEW c \in Ctl, Acquire(c)
  PROVE  PxyInv'
<1> DEFINE n == job[c].name
<1>1. /\ use' = use /\ pc' = pc /\ proxies' = proxies /\ pxys' = pxys /\ job[c].at = "acquire"
      /\ UNCHANGED <<limVars, lis, cur, grp, gens>>
  BY DEF Acquire, logVars
<1>2. PxyType /\ PortType /\ JobInv /\ ProxyInv /\ FreeInv /\ HeldInv /\ NamesHeld
      /\ GroupInv /\ OpenInv /\ CountInv /\ use \in Setups
  BY DEF PxyInv
<1>3. job[c] \in Jobs /\ n \in Name /\ n \notin Grouped /\ ~job[c].own /\ pc[c] \in {"run", "drain"}
      /\ proxies[c][n] = None
  BY <1>1, <1>2 DEF PxyType, JobInv
<1>4. ProxyInv'
  BY <1>1, <1>2 DEF ProxyInv
<1>5. CASE \E p \in Port : /\ CanAcquire(n, p) /\ Mark(n, p) /\ num' = num
                           /\ job' = [job EXCEPT ![c].at = "listen", ![c].port = p]
  <2> PICK p \in Port : /\ Mark(n, p) /\ num' = num
                        /\ job' = [job EXCEPT ![c].at = "listen", ![c].port = p]
    BY <1>5
  <2> DEFINE w == [job[c] EXCEPT !.at = "listen", !.port = p]
  <2>1. job' = [job EXCEPT ![c] = w]
    BY <1>2 DEF PxyType
  <2>2. w \in Jobs /\ w.at = "listen" /\ w.port = p /\ w.name = n /\ ~w.own /\ w.cnt = job[c].cnt
    BY <1>3 DEF Jobs, Ats
  <2> HIDE DEF w
  <2>3. job'[c] = w /\ (\A x \in Ctl : x # c => job'[x] = job[x]) /\ job' \in [Ctl -> Jobs]
    BY <1>2, <2>1, <2>2 DEF PxyType
  <2>4. /\ FreeInv' /\ free' = free \ {p}
        /\ used' \in [Port -> Name \cup {None}] /\ resv' \in [Name -> Resvs]
    BY <1>2, <1>3, MarkTakes
  <2>5. PxyType' /\ PortType'
    BY <1>1, <1>2, <2>3, <2>4 DEF PxyType, PortType
  <2>6. JobInv'
    BY <1>1, <1>2, <1>3, <2>2, <2>3, ZenonT(60) DEF JobInv
  <2>7. HeldInv'
    <3>1. \A x \in Ctl, q \in Port : HoldsPort(x, q) => HoldsPort(x, q)'
      BY <1>1, <2>3 DEF HoldsPort
    <3>2. HoldsPort(c, p)'
      BY <2>2, <2>3 DEF HoldsPort
    <3> QED BY <1>2, <2>4, <3>1, <3>2 DEF HeldInv
  <2>8. NamesHeld'
    BY <1>1, <1>2, <1>3, <2>2, <2>3 DEF NamesHeld, PxyType
  <2>9. GroupInv'
    <3>1. \A q : \A x \in Ctl, m \in Name : InGroupAt(x, m, q)' = InGroupAt(x, m, q)
      BY <1>1, <2>2, <2>3 DEF InGroupAt
    <3> QED BY <1>1, <1>2, <3>1, ServerAssumption DEF GroupInv, GroupLn
  <2>10. CountInv'
    BY <1>1, <2>2, <2>3, CountFrame DEF limVars
  <2>11. OpenInv'
    <3>1. \A x \in Ctl : job'[x].at = "open" => job'[x] = job[x]
      BY <2>2, <2>3
    <3> QED BY <1>1, <1>2, <3>1, OpenFrame
  <2> QED BY <1>1, <1>2, <1>4, <2>4, <2>5, <2>6, <2>7, <2>8, <2>9, <2>10, <2>11 DEF PxyInv
<1>6. CASE Fail(c) /\ UNCHANGED <<free, used, resv>>
  BY <1>1, <1>3, <1>6, FailPxy DEF portVars
<1> QED BY <1>5, <1>6 DEF Acquire

\* Listeners of proxies, of groups and of nobody differ.
LEMMA ListenersApart ==
  \A c \in Ctl, n \in Name : /\ <<c, n>> # None
                             /\ \A g \in 1..MaxGen : GroupLn(g) # None /\ GroupLn(g) # <<c, n>>
<1> SUFFICES ASSUME NEW c \in Ctl, NEW n \in Name
             PROVE  /\ <<c, n>> # None
                    /\ \A g \in 1..MaxGen : GroupLn(g) # None /\ GroupLn(g) # <<c, n>>
  OBVIOUS
<1>1. <<c, n>> \in Ctl \X Name
  OBVIOUS
<1>2. \A g \in 1..MaxGen : GroupLn(g) \in {"group"} \X (1..MaxGen)
  BY DEF GroupLn
<1>3. \A g \in 1..MaxGen : GroupLn(g) # <<c, n>>
  BY ServerAssumption DEF GroupLn
<1> QED BY <1>1, <1>2, <1>3, ServerAssumption

\* The job of one control changes.
LEMMA JobChange ==
  ASSUME PxyType, NEW c \in Ctl, NEW at \in Ats, Goto(c, at)
  PROVE  /\ job' \in [Ctl -> Jobs] /\ \A x \in Ctl : x # c => job'[x] = job[x]
         /\ job'[c].at = at /\ job'[c].name = job[c].name /\ job'[c].port = job[c].port
         /\ job'[c].gen = job[c].gen /\ job'[c].own = job[c].own
         /\ job'[c].cnt = job[c].cnt
<1> DEFINE w == [job[c] EXCEPT !.at = at]
<1>1. job' = [job EXCEPT ![c] = w] /\ job[c] \in Jobs
  BY DEF Goto, PxyType
<1>2. w \in Jobs /\ w.at = at /\ w.name = job[c].name /\ w.port = job[c].port
      /\ w.gen = job[c].gen /\ w.own = job[c].own /\ w.cnt = job[c].cnt
  BY <1>1 DEF Jobs
<1> HIDE DEF w
<1> QED BY <1>1, <1>2 DEF PxyType

\* A port is listened on.
LEMMA ListenPxy ==
  ASSUME PxyInv, NEW c \in Ctl, Listen(c)
  PROVE  PxyInv'
<1> DEFINE n == job[c].name
           p == job[c].port
<1>1. /\ use' = use /\ pc' = pc /\ proxies' = proxies /\ pxys' = pxys /\ job[c].at = "listen"
      /\ UNCHANGED <<limVars, cur, grp, gens>>
  BY DEF Listen, logVars
<1>2. PxyType /\ PortType /\ JobInv /\ ProxyInv /\ FreeInv /\ HeldInv /\ NamesHeld
      /\ GroupInv /\ OpenInv /\ CountInv /\ use \in Setups
  BY DEF PxyInv
<1>3. job[c] \in Jobs /\ n \in Name /\ n \notin Grouped /\ ~job[c].own /\ pc[c] \in {"run", "drain"}
      /\ proxies[c][n] = None /\ p \in Port
  BY <1>1, <1>2 DEF PxyType, JobInv
<1>4. CASE lis[p] # None
  BY <1>1, <1>3, <1>4, FailPxy DEF Listen
<1>5. CASE lis[p] = None
  <2>1. /\ lis' = [lis EXCEPT ![p] = <<c, n>>] /\ Goto(c, "add")
        /\ UNCHANGED <<free, used, resv, num>>
    BY <1>5 DEF Listen
  <2>2. /\ job' \in [Ctl -> Jobs] /\ \A x \in Ctl : x # c => job'[x] = job[x]
        /\ job'[c].at = "add" /\ job'[c].name = n /\ job'[c].port = p /\ ~job'[c].own
        /\ job'[c].cnt = job[c].cnt
    BY <1>2, <1>3, <2>1, JobChange DEF Ats
  <2>3. /\ lis' \in [Port -> Listeners] /\ lis'[p] = <<c, n>>
        /\ \A q \in Port : lis[q] # None => lis'[q] = lis[q]
    BY <1>2, <1>3, <1>5, <2>1 DEF PortType, Listeners
  <2>4. PxyType' /\ PortType' /\ FreeInv'
    BY <1>1, <1>2, <2>1, <2>2, <2>3 DEF PxyType, PortType, FreeInv
  <2>5. JobInv'
    <3> SUFFICES ASSUME NEW x \in Ctl PROVE JobInv!(x)'
      BY DEF JobInv
    <3>1. CASE x = c
      BY <1>1, <1>3, <2>2, <2>3, <3>1
    <3>2. CASE x # c
      <4>1. JobInv!(x) /\ job'[x] = job[x]
        BY <1>2, <2>2, <3>2 DEF JobInv
      <4>2. job[x].name \in Name => <<x, job[x].name>> # None
        BY ListenersApart
      <4> QED BY <1>1, <2>3, <4>1, <4>2
    <3> QED BY <3>1, <3>2
  <2>6. ProxyInv'
    <3> SUFFICES ASSUME NEW x \in Ctl, NEW m \in Name, proxies[x][m] # None
                 PROVE  ProxyInv!(x, m)!2'
      BY <1>1 DEF ProxyInv
    <3>1. /\ pc[x] \in {"run", "drain"} /\ pxys[m] = x /\ proxies[x][m] \in Port
          /\ m \notin Grouped => lis[proxies[x][m]] = <<x, m>>
      BY <1>2 DEF PxyType, ProxyInv
    <3>2. <<x, m>> # None
      BY ListenersApart
    <3> QED BY <1>1, <2>3, <3>1, <3>2
  <2>7. HeldInv'
    <3>1. \A x \in Ctl, q \in Port : HoldsPort(x, q) => HoldsPort(x, q)'
      BY <1>1, <2>2 DEF HoldsPort
    <3> QED BY <1>2, <2>1, <3>1 DEF HeldInv
  <2>8. NamesHeld'
    BY <1>1, <1>2, <1>3, <2>2 DEF NamesHeld, PxyType
  <2>9. GroupInv'
    <3>1. \A q : \A x \in Ctl, m \in Grouped : InGroupAt(x, m, q)' = InGroupAt(x, m, q)
      BY <1>1, <1>3, <2>2 DEF InGroupAt
    <3>2. \A q \in Port : cur # 0 /\ lis[q] = GroupLn(cur) => lis'[q] = lis[q]
      BY <1>2, <1>3, <2>3, ListenersApart DEF PortType
    <3> QED BY <1>1, <1>2, <3>1, <3>2, ServerAssumption DEF GroupInv, GroupLn
  <2>10. CountInv'
    BY <1>1, <2>1, <2>2, CountFrame DEF limVars
  <2>11. OpenInv'
    <3>1. \A x \in Ctl : job'[x].at = "open" => job'[x] = job[x]
      BY <2>2
    <3> QED BY <1>1, <1>2, <3>1, OpenFrame
  <2> QED BY <1>1, <1>2, <2>4, <2>5, <2>6, <2>7, <2>8, <2>9, <2>10, <2>11 DEF PxyInv
<1> QED BY <1>4, <1>5

\* The group is found, or there is a new one without members.
LEMMA GetOrCreatePxy ==
  ASSUME PxyInv, NEW c \in Ctl, getOrCreate(c)
  PROVE  PxyInv'
<1> DEFINE n == job[c].name
           g == IF cur = 0 THEN gens + 1 ELSE cur
           w == [job[c] EXCEPT !.at = "join", !.gen = g]
<1>1. /\ use' = use /\ pc' = pc /\ proxies' = proxies /\ pxys' = pxys /\ num' = num
      /\ job[c].at = "group" /\ g <= MaxGen /\ cur' = g
      /\ gens' = (IF cur = 0 THEN g ELSE gens)
      /\ job' = [job EXCEPT ![c].at = "join", ![c].gen = g]
      /\ UNCHANGED <<limVars, free, used, resv, lis, grp>>
  BY DEF getOrCreate, logVars
<1>2. PxyType /\ PortType /\ JobInv /\ ProxyInv /\ FreeInv /\ HeldInv /\ NamesHeld
      /\ GroupInv /\ OpenInv /\ CountInv /\ use \in Setups
  BY DEF PxyInv
<1>3. job[c] \in Jobs /\ n \in Name /\ n \in Grouped /\ ~job[c].own /\ pc[c] \in {"run", "drain"}
      /\ proxies[c][n] = None
  BY <1>1, <1>2 DEF PxyType, JobInv
<1>4. g \in 1..MaxGen /\ g \in 0..MaxGen /\ (cur # 0 => g = cur)
  BY <1>1, <1>2, ServerAssumption DEF PortType
<1>5. cur' \in 0..MaxGen /\ gens' \in 0..MaxGen
  BY <1>1, <1>2, <1>4 DEF PortType
<1> HIDE DEF g
<1>6. job' = [job EXCEPT ![c] = w]
  BY <1>1, <1>2 DEF PxyType
<1>7. w \in Jobs /\ w.at = "join" /\ w.name = n /\ w.port = job[c].port /\ ~w.own /\ w.gen = g
      /\ w.cnt = job[c].cnt
  <2>1. "join" \in Ats
    BY DEF Ats
  <2> QED BY <1>3, <1>4, <2>1 DEF Jobs
<1> HIDE DEF w
<1>8. job'[c] = w /\ (\A x \in Ctl : x # c => job'[x] = job[x]) /\ job' \in [Ctl -> Jobs]
  BY <1>2, <1>6, <1>7 DEF PxyType
<1>9. PxyType' /\ PortType' /\ FreeInv'
  BY <1>1, <1>2, <1>5, <1>8 DEF PxyType, PortType, FreeInv
<1>10. JobInv'
  <2> SUFFICES ASSUME NEW x \in Ctl PROVE JobInv!(x)'
    BY DEF JobInv
  <2>1. CASE x = c
    BY <1>1, <1>3, <1>4, <1>7, <1>8, <2>1
  <2>2. CASE x # c
    BY <1>1, <1>2, <1>8, <2>2 DEF JobInv
  <2> QED BY <2>1, <2>2
<1>11. ProxyInv'
  BY <1>1, <1>2 DEF ProxyInv
<1>12. HeldInv'
  <2>1. \A x \in Ctl, q \in Port : HoldsPort(x, q) => HoldsPort(x, q)'
    BY <1>1, <1>8 DEF HoldsPort
  <2> QED BY <1>1, <1>2, <2>1 DEF HeldInv
<1>13. NamesHeld'
  BY <1>1, <1>2, <1>3, <1>7, <1>8 DEF NamesHeld, PxyType
<1>14. GroupInv'
  <2>1. \A q : \A x \in Ctl, m \in Name : InGroupAt(x, m, q)' = InGroupAt(x, m, q)
    BY <1>1, <1>7, <1>8 DEF InGroupAt
  <2>2. \A x \in Ctl, m \in Grouped, q \in Port : InGroupAt(x, m, q)' =>
          /\ cur' # 0 /\ lis'[q] = GroupLn(cur') /\ <<x, m>> \in grp'[cur'].lns
          /\ grp'[cur'].port = q
    BY <1>1, <1>2, <1>4, <2>1, ServerAssumption DEF GroupInv
  <2>3. \A h \in 1..MaxGen : grp'[h].lns # {} => h = cur' /\ grp'[h].port \in Port
    BY <1>1, <1>2, <1>4 DEF GroupInv
  <2>4. \A h \in 1..MaxGen : \A x \in Ctl, m \in Name : <<x, m>> \in grp'[h].lns =>
          m \in Grouped /\ InGroupAt(x, m, grp[h].port)'
    BY <1>1, <1>2, <2>1 DEF GroupInv
  <2> QED BY <2>2, <2>3, <2>4 DEF GroupInv, GroupLn
<1>15. CountInv'
  BY <1>1, <1>7, <1>8, CountFrame DEF limVars
<1>16. OpenInv'
  <2>1. \A x \in Ctl : job'[x].at = "open" => job'[x] = job[x]
    BY <1>7, <1>8
  <2>2. \A x \in Ctl : Opening(x) => job[x].gen \in 1..MaxGen
    BY <1>2 DEF JobInv, Opening
  <2>3. \A x \in Ctl : Opening(x) => cur' = cur
    BY <1>1, <1>2, <1>4, <2>2 DEF OpenInv
  <2> QED BY <1>1, <1>2, <2>1, <2>3 DEF OpenInv, Opening
<1> QED BY <1>1, <1>2, <1>9, <1>10, <1>11, <1>12, <1>13, <1>14, <1>15, <1>16 DEF PxyInv

\* A proxy becomes a member of the group there is, whose port is open then.
Joins(c, p, G) ==
  /\ job[c].at \in {"join", "open"} /\ cur = job[c].gen
  /\ UNCHANGED <<use, limVars, pc, proxies, pxys, cur, gens, num, free, used, resv>>
  /\ p \in Port /\ job' = [job EXCEPT ![c].at = "add", ![c].port = p]
  /\ G \in Groups /\ grp' = [grp EXCEPT ![job[c].gen] = G]
  /\ G.lns = grp[job[c].gen].lns \cup {<<c, job[c].name>>} /\ G.port = p
  /\ grp[job[c].gen].lns # {} => grp[job[c].gen].port = p
  /\ lis' \in [Port -> Listeners] /\ lis'[p] = GroupLn(job[c].gen)
  /\ \A q \in Port : lis[q] # None => lis'[q] = lis[q]
  /\ job[c].at = "join" => \A x \in Ctl : ~Opening(x)
  /\ job[c].at = "open" => job[c].port = p

LEMMA JoinsPxy ==
  ASSUME PxyInv, NEW c \in Ctl, NEW p \in Port, NEW G, Joins(c, p, G)
  PROVE  PxyInv'
<1> DEFINE n == job[c].name
           g == job[c].gen
<1>a. /\ use' = use /\ pc' = pc /\ proxies' = proxies /\ pxys' = pxys /\ num' = num
      /\ UNCHANGED <<limVars, cur, gens>> /\ job[c].at \in {"join", "open"}
      /\ job[c].at = "join" => \A x \in Ctl : ~Opening(x)
      /\ job[c].at = "open" => job[c].port = p
  BY DEF Joins
<1>b. PxyType /\ PortType /\ JobInv /\ ProxyInv /\ FreeInv /\ HeldInv /\ NamesHeld
      /\ GroupInv /\ OpenInv /\ CountInv /\ use \in Setups
  BY DEF PxyInv
<1>c. job[c] \in Jobs /\ n \in Name /\ n \in Grouped /\ ~job[c].own /\ pc[c] \in {"run", "drain"}
      /\ proxies[c][n] = None /\ g \in 1..MaxGen
  BY <1>a, <1>b DEF PxyType, JobInv
<1>g. /\ cur = g /\ job' = [job EXCEPT ![c].at = "add", ![c].port = p]
      /\ G \in Groups /\ grp' = [grp EXCEPT ![g] = G]
      /\ G.lns = grp[g].lns \cup {<<c, n>>} /\ G.port = p
      /\ grp[g].lns # {} => grp[g].port = p
      /\ lis' \in [Port -> Listeners] /\ lis'[p] = GroupLn(g)
      /\ \A q \in Port : lis[q] # None => lis'[q] = lis[q]
      /\ free' = free /\ used' = used /\ resv' = resv
  BY DEF Joins
<1>f. FreeInv' /\ used' \in [Port -> Name \cup {None}] /\ resv' \in [Name -> Resvs]
  BY <1>b, <1>g DEF FreeInv, PortType
<1> DEFINE w == [job[c] EXCEPT !.at = "add", !.port = p]
<1>1. job' = [job EXCEPT ![c] = w]
  BY <1>b, <1>g DEF PxyType
<1>2. w \in Jobs /\ w.at = "add" /\ w.port = p /\ w.name = n /\ ~w.own /\ w.cnt = job[c].cnt
  BY <1>c DEF Jobs, Ats
<1> HIDE DEF w
<1>3. job'[c] = w /\ (\A x \in Ctl : x # c => job'[x] = job[x]) /\ job' \in [Ctl -> Jobs]
  BY <1>b, <1>1, <1>2 DEF PxyType
<1>4. g = cur /\ cur # 0 /\ grp'[g] = G /\ \A h \in 1..MaxGen : h # g => grp'[h] = grp[h]
  BY <1>b, <1>c, <1>g DEF PortType
<1>5. PxyType' /\ PortType'
  BY <1>a, <1>b, <1>g, <1>f, <1>3 DEF PxyType, PortType
<1>6. JobInv'
  <2> SUFFICES ASSUME NEW x \in Ctl PROVE JobInv!(x)'
    BY DEF JobInv
  <2>1. CASE x = c
    BY <1>a, <1>c, <1>2, <1>3, <2>1
  <2>2. CASE x # c
    <3>1. JobInv!(x) /\ job'[x] = job[x]
      BY <1>b, <1>3, <2>2 DEF JobInv
    <3>2. job[x].name \in Name => <<x, job[x].name>> # None
      BY ListenersApart
    <3> QED BY <1>a, <1>g, <3>1, <3>2
  <2> QED BY <2>1, <2>2
<1>7. ProxyInv'
  <2> SUFFICES ASSUME NEW x \in Ctl, NEW m \in Name, proxies[x][m] # None
               PROVE  /\ pc[x] \in {"run", "drain"} /\ pxys[m] = x
                      /\ m \notin Grouped => lis'[proxies[x][m]] = <<x, m>>
    BY <1>a, Zenon DEF ProxyInv
  <2>1. /\ proxies[x][m] \in Port /\ pc[x] \in {"run", "drain"} /\ pxys[m] = x
        /\ m \notin Grouped => lis[proxies[x][m]] = <<x, m>>
    <3>1. proxies[x][m] \in Port
      BY <1>b DEF PxyType
    <3>2. /\ pc[x] \in {"run", "drain"} /\ pxys[m] = x
          /\ m \notin Grouped => lis[proxies[x][m]] = <<x, m>>
      BY <1>b, Zenon DEF ProxyInv
    <3> QED BY <3>1, <3>2
  <2>2. <<x, m>> # None
    BY ListenersApart
  <2> QED BY <1>g, <2>1, <2>2
<1>8. HeldInv'
  <2>1. \A x \in Ctl, q \in Port : HoldsPort(x, q) => HoldsPort(x, q)'
    <3> SUFFICES ASSUME NEW x \in Ctl, NEW q \in Port, HoldsPort(x, q)
                 PROVE  HoldsPort(x, q)'
      OBVIOUS
    <3>1. CASE \E m \in Name : proxies[x][m] = q
      BY <1>a, <3>1 DEF HoldsPort
    <3>2. CASE x = c /\ job[c].port = q
                     /\ job[c].at \in {"listen", "open", "add", "close", "release"}
      BY <1>a, <1>2, <1>3, <3>2 DEF HoldsPort
    <3>3. CASE x # c /\ job[x].port = q
                     /\ job[x].at \in {"listen", "open", "add", "close", "release"}
      BY <1>3, <3>3 DEF HoldsPort
    <3> QED BY <3>1, <3>2, <3>3 DEF HoldsPort
  <2>2. HoldsPort(c, p)'
    BY <1>2, <1>3 DEF HoldsPort
  <2> QED BY <1>b, <1>g, <2>1, <2>2 DEF HeldInv
<1>9. NamesHeld'
  BY <1>a, <1>b, <1>c, <1>2, <1>3 DEF NamesHeld, PxyType
<1>10. GroupInv'
  <2>1. \A q : \A x \in Ctl, m \in Name : InGroupAt(x, m, q)'
          <=> InGroupAt(x, m, q) \/ (x = c /\ m = n /\ q = p)
    BY <1>a, <1>c, <1>2, <1>3 DEF InGroupAt
  <2>2. GroupLn(g) # None
    BY <1>c, ListenersApart
  <2>3. \A x \in Ctl, m \in Grouped, q \in Port : InGroupAt(x, m, q)' =>
          /\ cur # 0 /\ lis'[q] = GroupLn(cur) /\ <<x, m>> \in grp'[cur].lns
          /\ grp'[cur].port = q
    <3> SUFFICES ASSUME NEW x \in Ctl, NEW m \in Grouped, NEW q \in Port, InGroupAt(x, m, q)'
                 PROVE  lis'[q] = GroupLn(g) /\ <<x, m>> \in G.lns /\ p = q
      BY <1>g, <1>4
    <3>1. CASE x = c /\ m = n /\ q = p
      BY <1>g, <3>1
    <3>2. CASE InGroupAt(x, m, q)
      <4>1. lis[q] = GroupLn(g) /\ <<x, m>> \in grp[g].lns /\ grp[g].port = q
        BY <1>b, <1>4, <3>2 DEF GroupInv
      <4> QED BY <1>g, <2>2, <4>1
    <3>3. m \in Name
      BY ServerAssumption
    <3> QED BY <2>1, <3>1, <3>2, <3>3
  <2>4. \A h \in 1..MaxGen : grp'[h].lns # {} => h = cur /\ grp'[h].port \in Port
    BY <1>b, <1>g, <1>4 DEF GroupInv
  <2>5. \A h \in 1..MaxGen : \A x \in Ctl, m \in Name : <<x, m>> \in grp'[h].lns =>
          m \in Grouped /\ InGroupAt(x, m, grp[h].port)'
    <3> SUFFICES ASSUME NEW h \in 1..MaxGen, NEW x \in Ctl, NEW m \in Name,
                        <<x, m>> \in grp'[h].lns
                 PROVE  m \in Grouped /\ InGroupAt(x, m, grp[h].port)'
      OBVIOUS
    <3>1. h = g
      BY <1>b, <1>4 DEF GroupInv
    <3>2. (x = c /\ m = n) \/ <<x, m>> \in grp[g].lns
      BY <1>g, <1>4, <3>1
    <3>3. grp'[h].port = p
      BY <1>g, <1>4, <3>1
    <3>4. CASE x = c /\ m = n
      BY <1>c, <2>1, <3>3, <3>4
    <3>5. CASE <<x, m>> \in grp[g].lns
      <4>1. m \in Grouped /\ InGroupAt(x, m, p)
        BY <1>b, <1>c, <1>g, <3>5 DEF GroupInv
      <4> QED BY <2>1, <3>3, <4>1
    <3> QED BY <3>2, <3>4, <3>5
  <2> QED BY <1>a, <2>3, <2>4, <2>5 DEF GroupInv, GroupLn
<1>11. CountInv'
  BY <1>a, <1>2, <1>3, CountFrame DEF limVars
<1>12. OpenInv'
  <2>1. \A x \in Ctl : ~(job'[x].at = "open")
    BY <1>a, <1>b, <1>2, <1>3 DEF OpenInv, Opening
  <2> QED BY <2>1 DEF OpenInv, Opening
<1> QED BY <1>a, <1>b, <1>f, <1>12, <1>5, <1>6, <1>7, <1>8, <1>9, <1>10, <1>11 DEF PxyInv

\* A proxy joins the group: it starts over, goes to open the port, fails or shares it.
LEMMA GroupListenPxy ==
  ASSUME PxyInv, NEW c \in Ctl, groupListen(c)
  PROVE  PxyInv'
<1> DEFINE n == job[c].name
           g == job[c].gen
<1>1. /\ use' = use /\ pc' = pc /\ proxies' = proxies /\ pxys' = pxys /\ job[c].at = "join"
      /\ UNCHANGED <<limVars, lis, cur, gens>>
      /\ \A x \in Ctl : Opening(x) => job[x].gen # g
  BY DEF Opening, groupListen, logVars
<1>2. PxyType /\ PortType /\ JobInv /\ ProxyInv /\ FreeInv /\ HeldInv /\ NamesHeld
      /\ GroupInv /\ OpenInv /\ CountInv /\ use \in Setups
  BY DEF PxyInv
<1>3. job[c] \in Jobs /\ n \in Name /\ n \in Grouped /\ ~job[c].own /\ pc[c] \in {"run", "drain"}
      /\ proxies[c][n] = None /\ g \in 1..MaxGen
  BY <1>1, <1>2 DEF PxyType, JobInv
<1>4. ProxyInv' /\ (isCurrent(g) => \A x \in Ctl : ~Opening(x))
  BY <1>1, <1>2 DEF ProxyInv, OpenInv, isCurrent
<1>5. CASE ~isCurrent(g) /\ Goto(c, "group") /\ UNCHANGED <<num, free, used, resv, grp>>
  <2>1. /\ job' \in [Ctl -> Jobs] /\ \A x \in Ctl : x # c => job'[x] = job[x]
        /\ job'[c].at = "group" /\ job'[c].name = n /\ ~job'[c].own
        /\ job'[c].cnt = job[c].cnt
    BY <1>2, <1>3, <1>5, JobChange DEF Ats
  <2>2. PxyType' /\ PortType' /\ FreeInv' /\ ProxyInv'
    BY <1>1, <1>2, <1>5, <2>1 DEF PxyType, PortType, FreeInv, ProxyInv
  <2>3. JobInv'
    <3> SUFFICES ASSUME NEW x \in Ctl PROVE JobInv!(x)'
      BY DEF JobInv
    <3>1. CASE x = c
      BY <1>1, <1>3, <2>1, <3>1
    <3>2. CASE x # c
      <4>1. JobInv!(x) /\ job'[x] = job[x]
        BY <1>2, <2>1, <3>2 DEF JobInv
      <4> QED BY <1>1, <4>1
    <3> QED BY <3>1, <3>2
  <2>4. HeldInv'
    <3>1. \A x \in Ctl, q \in Port : HoldsPort(x, q) => HoldsPort(x, q)'
      BY <1>1, <2>1 DEF HoldsPort
    <3> QED BY <1>2, <1>5, <3>1 DEF HeldInv
  <2>5. NamesHeld'
    BY <1>1, <1>2, <1>3, <2>1 DEF NamesHeld, PxyType
  <2>6. GroupInv'
    <3>1. \A q : \A x \in Ctl, m \in Name : InGroupAt(x, m, q)' = InGroupAt(x, m, q)
      BY <1>1, <2>1 DEF InGroupAt
    <3> QED BY <1>1, <1>2, <1>5, <3>1, ServerAssumption DEF GroupInv, GroupLn
  <2>7. CountInv'
    BY <1>1, <1>5, <2>1, CountFrame DEF limVars
  <2>8. OpenInv'
    <3>1. \A x \in Ctl : job'[x].at = "open" => job'[x] = job[x]
      BY <2>1
    <3> QED BY <1>1, <1>2, <1>5, <3>1, OpenFrame
  <2> QED BY <1>1, <1>2, <2>2, <2>3, <2>4, <2>5, <2>6, <2>7, <2>8 DEF PxyInv
<1>6. CASE Fail(c) /\ UNCHANGED <<free, used, resv, grp>>
  BY <1>1, <1>3, <1>6, FailPxy
<1>7. ASSUME isCurrent(g), grp[g].lns = {}, NEW p \in Port, Mark(n, p),
             job' = [job EXCEPT ![c].at = "open", ![c].port = p], UNCHANGED <<num, grp>>
      PROVE  PxyInv'
  <2> DEFINE w == [job[c] EXCEPT !.at = "open", !.port = p]
  <2>1. job' = [job EXCEPT ![c] = w]
    BY <1>2, <1>7 DEF PxyType
  <2>2. w \in Jobs /\ w.at = "open" /\ w.port = p /\ w.name = n /\ ~w.own /\ w.cnt = job[c].cnt
        /\ w.gen = g
    BY <1>3 DEF Jobs, Ats
  <2> HIDE DEF w
  <2>3. job'[c] = w /\ (\A x \in Ctl : x # c => job'[x] = job[x]) /\ job' \in [Ctl -> Jobs]
    BY <1>2, <2>1, <2>2 DEF PxyType
  <2>4. /\ FreeInv' /\ free' = free \ {p}
        /\ used' \in [Port -> Name \cup {None}] /\ resv' \in [Name -> Resvs]
    BY <1>2, <1>3, <1>7, MarkTakes
  <2>5. PxyType' /\ PortType'
    BY <1>1, <1>2, <1>7, <2>3, <2>4 DEF PxyType, PortType
  <2>6. JobInv'
    <3> SUFFICES ASSUME NEW x \in Ctl PROVE JobInv!(x)'
      BY DEF JobInv
    <3>1. CASE x = c
      BY <1>1, <1>3, <2>2, <2>3, <3>1
    <3>2. CASE x # c
      BY <1>1, <1>2, <2>3, <3>2 DEF JobInv
    <3> QED BY <3>1, <3>2
  <2>7. HeldInv'
    <3>1. \A x \in Ctl, q \in Port : HoldsPort(x, q) => HoldsPort(x, q)'
      BY <1>1, <2>3 DEF HoldsPort
    <3>2. HoldsPort(c, p)'
      BY <2>2, <2>3 DEF HoldsPort
    <3> QED BY <1>2, <2>4, <3>1, <3>2 DEF HeldInv
  <2>8. NamesHeld'
    BY <1>1, <1>2, <1>3, <2>2, <2>3 DEF NamesHeld, PxyType
  <2>9. GroupInv'
    <3>1. \A q : \A x \in Ctl, m \in Name : InGroupAt(x, m, q)' = InGroupAt(x, m, q)
      BY <1>1, <2>2, <2>3 DEF InGroupAt
    <3> QED BY <1>1, <1>2, <1>7, <3>1, ServerAssumption DEF GroupInv, GroupLn
  <2>10. CountInv'
    BY <1>1, <1>7, <2>2, <2>3, CountFrame DEF limVars
  <2>11. OpenInv'
    <3>1. \A x \in Ctl : job'[x].at = "open" => x = c
      BY <1>4, <1>7, <2>3 DEF Opening
    <3>2. cur' = w.gen /\ grp'[cur'].lns = {}
      BY <1>1, <1>7, <2>2 DEF isCurrent
    <3> QED BY <2>3, <3>1, <3>2 DEF OpenInv, Opening
  <2> QED BY <1>1, <1>2, <1>4, <2>4, <2>5, <2>6, <2>7, <2>8, <2>9, <2>10, <2>11 DEF PxyInv
<1>9. ASSUME isCurrent(g), grp[g].lns # {}, grp' = [grp EXCEPT ![g].lns = @ \cup {<<c, n>>}],
             job' = [job EXCEPT ![c].at = "add", ![c].port = grp[g].port],
             UNCHANGED <<num, free, used, resv>>
      PROVE  PxyInv'
  <2> DEFINE p == grp[g].port
             G == [grp[g] EXCEPT !.lns = @ \cup {<<c, n>>}]
  <2>1. grp[g] \in Groups /\ g = cur
    BY <1>2, <1>3, <1>9 DEF PortType, isCurrent
  <2>2. p \in Port
    BY <1>2, <1>3, <1>9 DEF GroupInv
  <2>3. lis[p] = GroupLn(g)
    <3>1. PICK x \in Ctl, m \in Name : <<x, m>> \in grp[g].lns
      BY <1>9, <2>1 DEF Groups
    <3>2. m \in Grouped /\ InGroupAt(x, m, p)
      BY <1>2, <1>3, <3>1 DEF GroupInv
    <3> QED BY <1>2, <2>1, <2>2, <3>2, ZenonT(60) DEF GroupInv
  <2>4. G \in Groups /\ G.lns = grp[g].lns \cup {<<c, n>>} /\ G.port = p
    BY <1>3, <2>1 DEF Groups
  <2>5. grp' = [grp EXCEPT ![g] = G]
    BY <1>2, <1>9 DEF PortType
  <2>6. lis' \in [Port -> Listeners] /\ lis' = lis
    BY <1>1, <1>2 DEF PortType
  <2>7. \A x \in Ctl : ~Opening(x)
    BY <1>4, <1>9
  <2> HIDE DEF G
  <2>8. /\ UNCHANGED <<use, limVars, pc, proxies, pxys, cur, gens, num, free, used, resv>>
        /\ job[c].at = "join" /\ cur = job[c].gen
    BY <1>1, <1>9, <2>1
  <2>9. lis'[p] = GroupLn(g) /\ \A q \in Port : lis'[q] = lis[q]
    BY <2>3, <2>6
  <2>10. Joins(c, p, G)
    BY <1>9, <2>2, <2>4, <2>5, <2>6, <2>7, <2>8, <2>9, Zenon DEF Joins
  <2> QED BY <2>2, <2>10, JoinsPxy
<1>10. \/ ~isCurrent(g) /\ Goto(c, "group") /\ UNCHANGED <<num, free, used, resv, grp>>
       \/ Fail(c) /\ UNCHANGED <<free, used, resv, grp>>
       \/ /\ isCurrent(g) /\ grp[g].lns = {}
          /\ \E p \in Port :
               /\ CanAcquire(n, p) /\ Mark(n, p)
               /\ job' = [job EXCEPT ![c].at = "open", ![c].port = p]
          /\ UNCHANGED <<num, grp>>
       \/ /\ isCurrent(g) /\ grp[g].lns # {} /\ grp' = [grp EXCEPT ![g].lns = @ \cup {<<c, n>>}]
          /\ job' = [job EXCEPT ![c].at = "add", ![c].port = grp[g].port]
          /\ UNCHANGED <<num, free, used, resv>>
  BY DEF groupListen
<1> QED BY <1>5, <1>6, <1>7, <1>9, <1>10

\* The first member opens the port of the group, or gives it back.
LEMMA GroupOpenPxy ==
  ASSUME PxyInv, NEW c \in Ctl, groupOpen(c)
  PROVE  PxyInv'
<1> DEFINE n == job[c].name
           g == job[c].gen
           p == job[c].port
           G == [lns |-> {<<c, n>>}, port |-> p, want |-> WantOf[n]]
<1>1. /\ UNCHANGED <<use, limVars, pc, proxies, pxys, cur, gens>> /\ job[c].at = "open"
  BY DEF groupOpen, logVars
<1>2. PxyType /\ PortType /\ JobInv /\ OpenInv
  BY DEF PxyInv
<1>3. job[c] \in Jobs /\ n \in Name /\ ~job[c].own /\ g \in 1..MaxGen /\ p \in Port
      /\ cur = g /\ grp[g].lns = {}
  BY <1>1, <1>2 DEF PxyType, JobInv, OpenInv, Opening
<1>4. CASE lis[p] # None
  BY <1>1, <1>3, <1>4, FailPxy DEF groupOpen
<1>5. CASE lis[p] = None
  <2>1. /\ lis' = [lis EXCEPT ![p] = GroupLn(g)] /\ Goto(c, "add")
        /\ grp' = [grp EXCEPT ![g] = G] /\ UNCHANGED <<free, used, resv, num>>
    BY <1>5 DEF groupOpen
  <2>2. GroupLn(g) \in Listeners
    BY <1>3 DEF GroupLn, Listeners
  <2>3. /\ lis' \in [Port -> Listeners] /\ lis'[p] = GroupLn(g)
        /\ \A q \in Port : lis[q] # None => lis'[q] = lis[q]
    BY <1>2, <1>3, <1>5, <2>1, <2>2 DEF PortType
  <2>4. G \in Groups /\ G.lns = grp[g].lns \cup {<<c, n>>} /\ G.port = p
    <3>1. WantOf[n] \in Port \cup {AnyPort}
      BY <1>3, ServerAssumption
    <3> QED BY <1>3, <3>1 DEF Groups
  <2>5. job' = [job EXCEPT ![c].at = "add", ![c].port = p]
    <3>1. [job[c] EXCEPT !.at = "add", !.port = p] = [job[c] EXCEPT !.at = "add"]
      BY <1>3 DEF Jobs
    <3> QED BY <1>2, <2>1, <3>1 DEF Goto, PxyType
  <2> HIDE DEF G
  <2>6. UNCHANGED <<use, limVars, pc, proxies, pxys, cur, gens, num, free, used, resv>>
    BY <1>1, <2>1
  <2>7. Joins(c, p, G)
    BY <1>1, <1>3, <2>1, <2>3, <2>4, <2>5, <2>6 DEF Joins
  <2> QED BY <1>3, <2>7, JoinsPxy
<1> QED BY <1>4, <1>5

\* A proxy that has its port gets its name, unless the name is taken.
LEMMA AddProxyPxy ==
  ASSUME PxyInv, NEW c \in Ctl, AddProxy(c)
  PROVE  PxyInv'
<1> DEFINE n == job[c].name
           p == job[c].port
<1>1. /\ use' = use /\ pc' = pc /\ num' = num /\ UNCHANGED portVars /\ job[c].at = "add"
      /\ UNCHANGED <<max, cap>>
  BY DEF AddProxy, logVars
<1>2. PxyType /\ PortType /\ JobInv /\ ProxyInv /\ FreeInv /\ HeldInv /\ NamesHeld
      /\ GroupInv /\ OpenInv /\ CountInv /\ use \in Setups
  BY DEF PxyInv
<1>3. /\ job[c] \in Jobs /\ n \in Name /\ ~job[c].own /\ pc[c] \in {"run", "drain"}
      /\ proxies[c][n] = None /\ p \in Port /\ p # None
      /\ n \notin Grouped => lis[p] = <<c, n>>
  BY <1>1, <1>2, NoneApart DEF PxyType, JobInv
<1>4. PortType' /\ FreeInv' /\ UNCHANGED <<lis, grp, cur, free>>
  BY <1>1, <1>2 DEF PortType, FreeInv, portVars
<1>5. CASE pxys[n] # None
  <2>1. Goto(c, "close") /\ UNCHANGED <<pxys, proxies, loose>>
    BY <1>5 DEF AddProxy
  <2>2. /\ job' \in [Ctl -> Jobs] /\ \A x \in Ctl : x # c => job'[x] = job[x]
        /\ job'[c].at = "close" /\ job'[c].name = n /\ job'[c].port = p /\ ~job'[c].own
        /\ job'[c].cnt = job[c].cnt
    BY <1>2, <1>3, <2>1, JobChange DEF Ats
  <2>3. PxyType' /\ ProxyInv'
    BY <1>1, <1>2, <1>4, <2>1, <2>2 DEF PxyType, ProxyInv
  <2>4. JobInv'
    <3> SUFFICES ASSUME NEW x \in Ctl PROVE JobInv!(x)'
      BY DEF JobInv
    <3>1. CASE x = c
      BY <1>1, <1>3, <1>4, <2>1, <2>2, <3>1
    <3>2. CASE x # c
      BY <1>1, <1>2, <1>4, <2>1, <2>2, <3>2, ZenonT(60) DEF JobInv
    <3> QED BY <3>1, <3>2
  <2>5. HeldInv'
    <3>1. \A x \in Ctl, q \in Port : HoldsPort(x, q) => HoldsPort(x, q)'
      BY <2>1, <2>2 DEF HoldsPort
    <3> QED BY <1>2, <1>4, <3>1 DEF HeldInv
  <2>6. NamesHeld'
    BY <1>1, <1>2, <1>3, <2>1, <2>2 DEF NamesHeld, PxyType
  <2>7. GroupInv'
    <3>1. \A q : \A x \in Ctl, m \in Name : InGroupAt(x, m, q)' = InGroupAt(x, m, q)
      BY <1>1, <2>1, <2>2 DEF InGroupAt
    <3> QED BY <1>2, <1>4, <3>1, ServerAssumption DEF GroupInv, GroupLn
  <2>8. CountInv'
    BY <1>1, <2>1, <2>2, CountFrame
  <2>9. OpenInv'
    <3>1. \A x \in Ctl : job'[x].at = "open" => job'[x] = job[x]
      BY <2>2
    <3> QED BY <1>2, <1>4, <3>1, OpenFrame
  <2> QED BY <1>1, <1>2, <1>4, <2>3, <2>4, <2>5, <2>6, <2>7, <2>8, <2>9 DEF PxyInv
<1>6. CASE pxys[n] = None
  <2>1. /\ pxys' = [pxys EXCEPT ![n] = c] /\ proxies' = [proxies EXCEPT ![c][n] = p]
        /\ job' = [job EXCEPT ![c] = NoJob]
        /\ loose' = IF job[c].cnt = 0 THEN loose \cup {c} ELSE loose
    BY <1>6 DEF AddProxy
  <2>2. NoJob \in Jobs /\ NoJob.at = "idle" /\ ~NoJob.own /\ NoJob.cnt = 0
    BY ServerAssumption DEF NoJob, Jobs, Ats
  <2>3. /\ job'[c] = NoJob /\ \A x \in Ctl : x # c => job'[x] = job[x]
        /\ pxys'[n] = c /\ \A m \in Name : m # n => pxys'[m] = pxys[m]
        /\ proxies'[c][n] = p
        /\ \A x \in Ctl, m \in Name : <<x, m>> # <<c, n>> => proxies'[x][m] = proxies[x][m]
    BY <1>2, <1>3, <2>1 DEF PxyType
  <2>4. PxyType'
    BY <1>1, <1>2, <1>3, <2>1, <2>2 DEF PxyType
  <2>5. JobInv'
    <3> SUFFICES ASSUME NEW x \in Ctl PROVE JobInv!(x)'
      BY DEF JobInv
    <3>1. CASE x = c
      BY <2>2, <2>3, <3>1
    <3>2. CASE x # c
      <4>1. job'[x] = job[x] /\ JobInv!(x)
        BY <1>2, <2>3, <3>2 DEF JobInv
      <4>2. job[x].own => pxys'[job[x].name] = x
        BY <1>2, <1>6, <2>1, <4>1, NoneApart DEF PxyType
      <4>3. job[x].name \in Name => proxies'[x][job[x].name] = proxies[x][job[x].name]
        BY <2>3, <3>2
      <4> QED BY <1>1, <1>4, <4>1, <4>2, <4>3
    <3> QED BY <3>1, <3>2
  <2>6. ProxyInv'
    <3> SUFFICES ASSUME NEW x \in Ctl, NEW m \in Name, proxies'[x][m] # None
                 PROVE  /\ pc[x] \in {"run", "drain"} /\ pxys'[m] = x
                        /\ m \notin Grouped => lis[proxies'[x][m]] = <<x, m>>
      BY <1>1, <1>4 DEF ProxyInv
    <3>1. CASE x = c /\ m = n
      BY <1>3, <2>3, <3>1
    <3>2. CASE ~(x = c /\ m = n)
      <4>1. proxies'[x][m] = proxies[x][m]
        BY <2>3, <3>2
      <4>2. m # n
        BY <1>2, <1>6, <4>1, NoneApart DEF ProxyInv
      <4> QED BY <1>2, <2>3, <4>1, <4>2 DEF ProxyInv
    <3> QED BY <3>1, <3>2
  <2>7. HeldInv'
    <3> SUFFICES ASSUME NEW q \in Port \ free PROVE \E x \in Ctl : HoldsPort(x, q)'
      BY <1>4 DEF HeldInv
    <3>1. PICK x \in Ctl : HoldsPort(x, q)
      BY <1>2 DEF HeldInv
    <3>2. CASE x = c /\ job[c].port = q /\ job[c].at \in {"listen", "open", "add", "close", "release"}
      BY <1>3, <2>3, <3>2 DEF HoldsPort
    <3>3. CASE x # c /\ job[x].port = q /\ job[x].at \in {"listen", "open", "add", "close", "release"}
      BY <2>3, <3>3 DEF HoldsPort
    <3>4. CASE \E m \in Name : proxies[x][m] = q
      <4> PICK m \in Name : proxies[x][m] = q
        BY <3>4
      <4>1. <<x, m>> # <<c, n>>
        BY <1>3, NoneApart
      <4> QED BY <2>3, <4>1 DEF HoldsPort
    <3> QED BY <3>1, <3>2, <3>3, <3>4 DEF HoldsPort
  <2>8. NamesHeld'
    <3> SUFFICES ASSUME NEW m \in Name, pxys'[m] # None
                 PROVE  LET x == pxys'[m] IN
                        \/ proxies'[x][m] # None /\ pc[x] \in {"run", "drain"}
                        \/ job'[x].name = m /\ job'[x].own
      BY <1>1 DEF NamesHeld
    <3>1. CASE m = n
      BY <1>3, <2>3, <3>1
    <3>2. CASE m # n
      <4>1. pxys'[m] = pxys[m] /\ pxys[m] \in Ctl
        BY <1>2, <2>3, <3>2 DEF PxyType
      <4>2. proxies'[pxys[m]][m] = proxies[pxys[m]][m]
        BY <2>3, <3>2, <4>1
      <4>3. job[pxys[m]].own => job'[pxys[m]] = job[pxys[m]]
        BY <1>3, <2>3, <4>1
      <4> QED BY <1>2, <4>1, <4>2, <4>3 DEF NamesHeld
    <3> QED BY <3>1, <3>2
  <2>9. GroupInv'
    <3>1. \A x \in Ctl, m \in Name, q \in Port : InGroupAt(x, m, q)' = InGroupAt(x, m, q)
      <4> SUFFICES ASSUME NEW x \in Ctl, NEW m \in Name, NEW q \in Port
                   PROVE  InGroupAt(x, m, q)' = InGroupAt(x, m, q)
        OBVIOUS
      <4>1. CASE x = c /\ m = n
        BY <1>1, <1>3, <2>2, <2>3, <4>1, NoneApart DEF InGroupAt
      <4>2. CASE ~(x = c /\ m = n)
        BY <2>2, <2>3, <4>2 DEF InGroupAt
      <4> QED BY <4>1, <4>2
    <3> QED BY <1>2, <1>4, <3>1, ServerAssumption DEF GroupInv, GroupLn
  <2>10. CountInv'
    <3>1. \A x \in Ctl : x # c => Wanted(x)' = Wanted(x) /\ job'[x].cnt = job[x].cnt
      BY <2>3 DEF Wanted
    <3>2. Wanted(c)' = Wanted(c) \cup {n} /\ n \notin Wanted(c)
      BY <1>3, <2>3 DEF Wanted
    <3>3. job'[c].cnt = 0 /\ job[c].cnt \in 0..1
      BY <1>3, <2>2, <2>3 DEF Jobs
    <3>4. /\ IsFiniteSet(Wanted(c)) /\ IsFiniteSet(Wanted(c) \cup {n})
          /\ Cardinality(Wanted(c) \cup {n}) = Cardinality(Wanted(c)) + 1
          /\ Cardinality(Wanted(c)) \in Nat
      BY <1>2, <3>2, FS_AddElement, FS_CardinalityType DEF CountInv
    <3>7. LimType' /\ loose \subseteq loose' /\ (c \notin loose' => job[c].cnt = 1)
      BY <1>1, <1>2, <2>1, <3>3 DEF CountInv, LimType
    <3>8. \A x \in Ctl : IsFiniteSet(Wanted(x)')
      BY <1>2, <3>1, <3>2, <3>4 DEF CountInv
    <3> SUFFICES ASSUME NEW x \in Ctl \ loose'
                 PROVE  Cardinality(Wanted(x)') + job'[x].cnt <= num[x] /\ num[x] <= cap[x]
      BY <1>1, <3>7, <3>8 DEF CountInv
    <3>5. CASE x = c
      <4> DEFINE k == Cardinality(Wanted(c))
      <4>1. /\ k \in Nat /\ num[c] \in Int /\ job'[c].cnt = 0
            /\ Cardinality(Wanted(c)') = k + 1
            /\ k + 1 <= num[c] /\ num[c] <= cap[c]
        BY <1>2, <3>2, <3>3, <3>4, <3>5, <3>7 DEF CountInv, PxyType
      <4> HIDE DEF k
      <4> QED BY <3>5, <4>1
    <3>6. CASE x # c
      BY <1>2, <3>1, <3>6, <3>7 DEF CountInv
    <3> QED BY <3>5, <3>6
  <2>11. OpenInv'
    <3>1. \A x \in Ctl : job'[x].at = "open" => job'[x] = job[x]
      BY <2>2, <2>3
    <3> QED BY <1>2, <1>4, <3>1, OpenFrame
  <2> QED BY <1>1, <1>2, <1>4, <2>4, <2>5, <2>6, <2>7, <2>8, <2>9, <2>10, <2>11 DEF PxyInv
<1> QED BY <1>5, <1>6

\* A proxy leaves its control, by CloseProxy or by the worker.
Takes(c, n) ==
  /\ pc[c] \in {"run", "drain"} /\ job[c] = NoJob /\ proxies[c][n] # None
  /\ proxies' = [proxies EXCEPT ![c][n] = None]
  /\ job' = [job EXCEPT ![c] = [NoJob EXCEPT !.at = "close", !.name = n,
                                 !.port = proxies[c][n], !.own = TRUE]]
  /\ UNCHANGED <<use, limVars, pc, pxys, portVars>>
  /\ num' \in {num, [num EXCEPT ![c] = @ - 1]}

\* The proxy is in the hands of the handler, or of the worker, that closes it.
LEMMA TakesPxy ==
  ASSUME PxyInv, NEW c \in Ctl, NEW n \in Name, Takes(c, n)
  PROVE  PxyInv'
<1> DEFINE p == proxies[c][n]
           w == [NoJob EXCEPT !.at = "close", !.name = n, !.port = p, !.own = TRUE]
<1>1. /\ use' = use /\ pc' = pc /\ pxys' = pxys /\ UNCHANGED <<limVars, portVars>>
      /\ pc[c] \in {"run", "drain"} /\ job[c] = NoJob /\ job' = [job EXCEPT ![c] = w]
      /\ proxies' = [proxies EXCEPT ![c][n] = None]
  BY DEF Takes
<1>2. PxyType /\ PortType /\ JobInv /\ ProxyInv /\ FreeInv /\ HeldInv /\ NamesHeld
      /\ GroupInv /\ OpenInv /\ CountInv /\ use \in Setups
  BY DEF PxyInv
<1>3. /\ p \in Port /\ p # None /\ pxys[n] = c /\ (n \notin Grouped => lis[p] = <<c, n>>)
      /\ job[c].at = "idle" /\ ~job[c].own /\ job[c].cnt = 0
  <2>1. p # None /\ p \in Port
    BY <1>2 DEF Takes, PxyType
  <2>2. job[c].at = "idle" /\ ~job[c].own /\ job[c].cnt = 0
    BY <1>1 DEF NoJob
  <2> QED BY <1>2, <2>1, <2>2 DEF ProxyInv
<1>4. PortType' /\ FreeInv' /\ UNCHANGED <<lis, grp, cur, free>>
  BY <1>1, <1>2 DEF PortType, FreeInv, portVars
<1> HIDE DEF p
<1>5. w \in Jobs /\ w.at = "close" /\ w.name = n /\ w.port = p /\ w.own /\ w.cnt = 0
  <2>1. NoJob \in Jobs /\ NoJob.cnt = 0
    BY ServerAssumption DEF NoJob, Jobs, Ats
  <2> QED BY <1>3, <2>1 DEF Jobs, Ats
<1> HIDE DEF w
<1>6. /\ job'[c] = w /\ \A x \in Ctl : x # c => job'[x] = job[x]
      /\ proxies'[c][n] = None
      /\ \A x \in Ctl, m \in Name : <<x, m>> # <<c, n>> => proxies'[x][m] = proxies[x][m]
  BY <1>1, <1>2 DEF PxyType
<1>7. num' \in [Ctl -> Int] /\ num'[c] \in {num[c], num[c] - 1}
      /\ \A x \in Ctl : x # c => num'[x] = num[x]
  BY <1>2 DEF Takes, PxyType
<1>8. PxyType'
  BY <1>1, <1>2, <1>5, <1>7 DEF PxyType
<1>9. JobInv'
  <2> SUFFICES ASSUME NEW x \in Ctl PROVE JobInv!(x)'
    BY DEF JobInv
  <2>1. CASE x = c
    BY <1>1, <1>3, <1>4, <1>5, <1>6, <2>1
  <2>2. CASE x # c
    <3>1. job'[x] = job[x] /\ JobInv!(x)
      BY <1>2, <1>6, <2>2 DEF JobInv
    <3>2. job[x].name \in Name => proxies'[x][job[x].name] = proxies[x][job[x].name]
      BY <1>6, <2>2
    <3> QED BY <1>1, <1>4, <3>1, <3>2
  <2> QED BY <2>1, <2>2
<1>10. ProxyInv'
  <2> SUFFICES ASSUME NEW x \in Ctl, NEW m \in Name, proxies'[x][m] # None
               PROVE  /\ pc[x] \in {"run", "drain"} /\ pxys[m] = x
                      /\ m \notin Grouped => lis[proxies'[x][m]] = <<x, m>>
    BY <1>1, <1>4 DEF ProxyInv
  <2>1. proxies'[x][m] = proxies[x][m]
    BY <1>6
  <2> QED BY <1>2, <2>1 DEF ProxyInv
<1>11. HeldInv'
  <2> SUFFICES ASSUME NEW q \in Port \ free PROVE \E x \in Ctl : HoldsPort(x, q)'
    BY <1>4 DEF HeldInv
  <2>1. PICK x \in Ctl : HoldsPort(x, q)
    BY <1>2 DEF HeldInv
  <2>2. CASE job[x].port = q /\ job[x].at \in {"listen", "open", "add", "close", "release"}
    BY <1>3, <1>6, <2>2 DEF HoldsPort
  <2>3. CASE \E m \in Name : proxies[x][m] = q
    <3> PICK m \in Name : proxies[x][m] = q
      BY <2>3
    <3>1. CASE x = c /\ m = n
      BY <1>5, <1>6, <3>1 DEF HoldsPort, p
    <3>2. CASE ~(x = c /\ m = n)
      BY <1>6, <3>2 DEF HoldsPort
    <3> QED BY <3>1, <3>2
  <2> QED BY <2>1, <2>2, <2>3 DEF HoldsPort
<1>12. NamesHeld'
  <2> SUFFICES ASSUME NEW m \in Name, pxys[m] # None
               PROVE  LET x == pxys[m] IN
                      \/ proxies'[x][m] # None /\ pc[x] \in {"run", "drain"}
                      \/ job'[x].name = m /\ job'[x].own
    BY <1>1 DEF NamesHeld
  <2>1. CASE m = n
    BY <1>3, <1>5, <1>6, <2>1
  <2>2. CASE m # n
    <3>1. pxys[m] \in Ctl /\ proxies'[pxys[m]][m] = proxies[pxys[m]][m]
      BY <1>2, <1>6, <2>2 DEF PxyType
    <3>2. job[pxys[m]].own => job'[pxys[m]] = job[pxys[m]]
      BY <1>3, <1>6, <3>1
    <3> QED BY <1>2, <3>1, <3>2 DEF NamesHeld
  <2> QED BY <2>1, <2>2
<1>13. GroupInv'
  <2>1. \A x \in Ctl, m \in Name, q \in Port : InGroupAt(x, m, q)' = InGroupAt(x, m, q)
    <3> SUFFICES ASSUME NEW x \in Ctl, NEW m \in Name, NEW q \in Port
                 PROVE  InGroupAt(x, m, q)' = InGroupAt(x, m, q)
      OBVIOUS
    <3>1. CASE x = c /\ m = n
      BY <1>3, <1>5, <1>6, <3>1, NoneApart DEF InGroupAt, p
    <3>2. CASE ~(x = c /\ m = n)
      BY <1>3, <1>5, <1>6, <3>2 DEF InGroupAt
    <3> QED BY <3>1, <3>2
  <2> QED BY <1>2, <1>4, <2>1, ServerAssumption DEF GroupInv, GroupLn
<1>14. CountInv'
  <2>1. \A x \in Ctl : x # c => Wanted(x)' = Wanted(x) /\ job'[x].cnt = job[x].cnt
    BY <1>6 DEF Wanted
  <2>2. Wanted(c)' = Wanted(c) \ {n} /\ n \in Wanted(c)
    BY <1>3, <1>6 DEF Wanted, p
  <2>3. job[c].cnt = 0 /\ job'[c].cnt = 0
    BY <1>3, <1>5, <1>6
  <2>4. /\ IsFiniteSet(Wanted(c)) /\ IsFiniteSet(Wanted(c) \ {n})
        /\ Cardinality(Wanted(c) \ {n}) = Cardinality(Wanted(c)) - 1
        /\ Cardinality(Wanted(c)) \in Nat
    BY <1>2, <2>2, FS_RemoveElement, FS_CardinalityType DEF CountInv
  <2>7. LimType' /\ cap' = cap /\ loose' = loose /\ \A x \in Ctl : IsFiniteSet(Wanted(x)')
    BY <1>1, <1>2, <2>1, <2>2, <2>4 DEF CountInv, LimType, limVars
  <2> SUFFICES ASSUME NEW x \in Ctl \ loose
               PROVE  Cardinality(Wanted(x)') + job'[x].cnt <= num'[x] /\ num'[x] <= cap[x]
    BY <2>7 DEF CountInv
  <2>5. CASE x = c
    <3> DEFINE k == Cardinality(Wanted(c))
    <3>1. /\ k \in Nat /\ num[c] \in Int /\ job'[c].cnt = 0 /\ cap[c] \in Nat
          /\ Cardinality(Wanted(c)') = k - 1
          /\ k + 0 <= num[c] /\ num[c] <= cap[c]
      BY <1>2, <2>2, <2>3, <2>4, <2>5 DEF CountInv, LimType, PxyType
    <3> HIDE DEF k
    <3> QED BY <1>7, <2>5, <3>1
  <2>6. CASE x # c
    BY <1>2, <1>7, <2>1, <2>6 DEF CountInv
  <2> QED BY <2>5, <2>6
<1>15. OpenInv'
  <2>1. \A x \in Ctl : job'[x].at = "open" => job'[x] = job[x]
    BY <1>5, <1>6
  <2> QED BY <1>2, <1>4, <2>1, OpenFrame
<1> QED BY <1>1, <1>2, <1>15, <1>4, <1>8, <1>9, <1>10, <1>11, <1>12, <1>13, <1>14 DEF PxyInv

\* The listener of a proxy is closed; the last member of the group gives its port back.
LEMMA CloseListenerPxy ==
  ASSUME PxyInv, NEW c \in Ctl, CloseListener(c)
  PROVE  PxyInv'
<1> DEFINE n == job[c].name
           p == job[c].port
<1>1. /\ use' = use /\ pc' = pc /\ proxies' = proxies /\ pxys' = pxys /\ num' = num
      /\ gens' = gens /\ limVars' = limVars /\ job[c].at = "close"
  BY DEF CloseListener, logVars
<1>2. PxyType /\ PortType /\ JobInv /\ ProxyInv /\ FreeInv /\ HeldInv /\ NamesHeld
      /\ GroupInv /\ OpenInv /\ CountInv /\ use \in Setups
  BY DEF PxyInv
<1>3. /\ job[c] \in Jobs /\ n \in Name /\ pc[c] \in {"run", "drain"} /\ proxies[c][n] = None
      /\ p \in Port /\ p # None /\ (job[c].own => pxys[n] = c /\ job[c].cnt = 0)
      /\ n \notin Grouped => lis[p] = <<c, n>>
  BY <1>1, <1>2, NoneApart DEF PxyType, JobInv
<1>7. PICK r \in Port : r = p
  BY <1>3
\* What follows for the handler, which goes on to at, and for the names.
<1>4. ASSUME NEW at \in {"release", "del"}, Goto(c, at)
      PROVE  /\ PxyType' /\ NamesHeld' /\ CountInv'
             /\ \A x \in Ctl : x # c => job'[x] = job[x]
             /\ job'[c].at = at /\ job'[c].name = n /\ job'[c].port = p /\ job'[c].own = job[c].own
             /\ job'[c].cnt = job[c].cnt
             /\ \A x \in Ctl, m \in Name, q \in Port :
                  InGroupAt(x, m, q)' <=> InGroupAt(x, m, q) /\ ~(x = c /\ m = n)
  <2>1. /\ job' \in [Ctl -> Jobs] /\ \A x \in Ctl : x # c => job'[x] = job[x]
        /\ job'[c].at = at /\ job'[c].name = n /\ job'[c].port = p /\ job'[c].own = job[c].own
        /\ job'[c].cnt = job[c].cnt
    BY <1>2, <1>4, JobChange DEF Ats
  <2>2. PxyType'
    BY <1>1, <1>2, <2>1 DEF PxyType
  <2>3. NamesHeld'
    BY <1>1, <1>2, <2>1 DEF NamesHeld, PxyType
  <2>5. CountInv'
    BY <1>1, <2>1, CountFrame DEF limVars
  <2>6. \A x \in Ctl, m \in Name, q \in Port :
          InGroupAt(x, m, q)' <=> InGroupAt(x, m, q) /\ ~(x = c /\ m = n)
    <3> SUFFICES ASSUME NEW x \in Ctl, NEW m \in Name, NEW q \in Port
                 PROVE  InGroupAt(x, m, q)' <=> InGroupAt(x, m, q) /\ ~(x = c /\ m = n)
      OBVIOUS
    <3>1. CASE x = c
      BY <1>1, <1>3, <2>1, <3>1, NoneApart DEF InGroupAt
    <3>2. CASE x # c
      BY <1>1, <2>1, <3>2 DEF InGroupAt
    <3> QED BY <3>1, <3>2
  <2> QED BY <2>1, <2>2, <2>3, <2>5, <2>6
<1>5. CASE n \notin Grouped
  <2>1. /\ Goto(c, "release") /\ lis' = [lis EXCEPT ![p] = None]
        /\ UNCHANGED <<free, used, resv, cur, grp>>
    BY <1>5 DEF CloseListener
  <2>2. /\ PxyType' /\ NamesHeld' /\ CountInv'
        /\ \A x \in Ctl : x # c => job'[x] = job[x]
        /\ job'[c].at = "release" /\ job'[c].name = n /\ job'[c].port = p
        /\ job'[c].own = job[c].own /\ job'[c].cnt = job[c].cnt
        /\ \A x \in Ctl, m \in Name, q \in Port :
             InGroupAt(x, m, q)' <=> InGroupAt(x, m, q) /\ ~(x = c /\ m = n)
    BY <1>4, <2>1
  <2>3. lis[p] = <<c, n>> /\ \A q \in Port : q # p => lis'[q] = lis[q]
    BY <1>2, <1>3, <1>5, <2>1 DEF PortType
  <2>4. PortType' /\ FreeInv'
    BY <1>1, <1>2, <2>1 DEF PortType, FreeInv, Listeners
  <2>5. JobInv'
    <3> SUFFICES ASSUME NEW x \in Ctl PROVE JobInv!(x)'
      BY DEF JobInv
    <3>1. CASE x = c
      BY <1>1, <1>3, <1>5, <2>2, <3>1
    <3>2. CASE x # c
      <4>1. JobInv!(x) /\ job'[x] = job[x]
        BY <1>2, <2>2, <3>2 DEF JobInv
      <4>2. <<x, job[x].name>> # lis[p]
        BY <2>3, <3>2
      <4> QED BY <1>1, <2>3, <4>1, <4>2
    <3> QED BY <3>1, <3>2
  <2>6. ProxyInv'
    <3> SUFFICES ASSUME NEW x \in Ctl, NEW m \in Name, proxies[x][m] # None
                 PROVE  /\ pc[x] \in {"run", "drain"} /\ pxys[m] = x
                        /\ m \notin Grouped => lis'[proxies[x][m]] = <<x, m>>
      BY <1>1 DEF ProxyInv
    <3>1. <<x, m>> # lis[p]
      BY <1>3, <2>3
    <3>2. proxies[x][m] \in Port
      BY <1>2 DEF PxyType
    <3> QED BY <1>2, <2>3, <3>1, <3>2 DEF ProxyInv
  <2>7. HeldInv'
    <3>1. \A x \in Ctl, q \in Port : HoldsPort(x, q) => HoldsPort(x, q)'
      BY <1>1, <2>2 DEF HoldsPort
    <3> QED BY <1>2, <2>1, <3>1 DEF HeldInv
  <2>8. GroupInv'
    <3>1. \A x \in Ctl, m \in Name, q \in Port :
            m \in Grouped => (InGroupAt(x, m, q)' <=> InGroupAt(x, m, q))
      BY <1>5, <2>2
    <3>2. \A q \in Port : cur # 0 /\ lis[q] = GroupLn(cur) => lis'[q] = lis[q]
      <4>1. cur # 0 => cur \in 1..MaxGen
        BY <1>2 DEF PortType
      <4>2. cur # 0 => GroupLn(cur) # lis[p]
        BY <1>3, <2>3, <4>1, ListenersApart
      <4> QED BY <2>3, <4>2
    <3> QED BY <1>2, <2>1, <3>1, <3>2, ServerAssumption DEF GroupInv, GroupLn
  <2>9. OpenInv'
    <3>1. \A x \in Ctl : job'[x].at = "open" => job'[x] = job[x]
      BY <2>2
    <3> QED BY <1>2, <2>1, <3>1, OpenFrame
  <2> QED BY <1>1, <1>2, <2>2, <2>4, <2>5, <2>6, <2>7, <2>8, <2>9 DEF PxyInv
<1>6. CASE n \in Grouped
  <2>1. InGroupAt(c, n, p)
    BY <1>1 DEF InGroupAt
  <2>2. /\ cur \in 1..MaxGen /\ lis[p] = GroupLn(cur) /\ <<c, n>> \in grp[cur].lns
        /\ grp[cur].port = p
    BY <1>2, <1>3, <1>6, <2>1 DEF GroupInv, PortType
  <2>3. lis[p][2] = cur
    BY <2>2 DEF GroupLn
  <2>4. /\ Goto(c, "del") /\ grp' = [grp EXCEPT ![cur].lns = @ \ {<<c, n>>}]
        /\ IF grp[cur].lns = {<<c, n>>}
           THEN lis' = [lis EXCEPT ![p] = None] /\ Release(p) /\ cur' = 0
           ELSE UNCHANGED <<lis, free, used, resv, cur>>
    BY <1>6, <2>3 DEF CloseListener
  <2>5. /\ PxyType' /\ NamesHeld' /\ CountInv'
        /\ \A x \in Ctl : x # c => job'[x] = job[x]
        /\ job'[c].at = "del" /\ job'[c].name = n /\ job'[c].port = p
        /\ job'[c].own = job[c].own /\ job'[c].cnt = job[c].cnt
        /\ \A x \in Ctl, m \in Name, q \in Port :
             InGroupAt(x, m, q)' <=> InGroupAt(x, m, q) /\ ~(x = c /\ m = n)
    BY <1>4, <2>4
  <2> DEFINE G == [grp[cur] EXCEPT !.lns = @ \ {<<c, n>>}]
  <2>6. grp' = [grp EXCEPT ![cur] = G] /\ grp[cur] \in Groups
    BY <1>2, <2>2, <2>4 DEF PortType
  <2>7. G \in Groups /\ G.lns = grp[cur].lns \ {<<c, n>>} /\ G.port = p
    BY <2>2, <2>6 DEF Groups
  <2> HIDE DEF G
  <2>8. grp' \in [1..MaxGen -> Groups] /\ grp'[cur] = G
        /\ \A h \in 1..MaxGen : h # cur => grp'[h] = grp[h]
    BY <1>2, <2>2, <2>6, <2>7 DEF PortType
  <2>9. \A h \in 1..MaxGen : h # cur => grp'[h].lns = {}
    BY <1>2, <2>8 DEF GroupInv
  <2>10. ASSUME \A q \in Port : lis[q] # GroupLn(cur) => lis'[q] = lis[q],
                lis' \in [Port -> Listeners], cur' \in 0..MaxGen, FreeInv',
                free \subseteq free', free' \subseteq Port,
                used' \in [Port -> Name \cup {None}], resv' \in [Name -> Resvs],
                r \in free' \/ \E x \in Ctl : HoldsPort(x, r)', GroupInv'
         PROVE  PxyInv'
    <3>1. PortType'
      BY <1>1, <1>2, <2>8, <2>10 DEF PortType
    <3>2. JobInv'
      <4> SUFFICES ASSUME NEW x \in Ctl PROVE JobInv!(x)'
        BY DEF JobInv
      <4>1. CASE x = c
        BY <1>1, <1>3, <2>5, <4>1
      <4>2. CASE x # c
        <5>1. JobInv!(x) /\ job'[x] = job[x]
          BY <1>2, <2>5, <4>2 DEF JobInv
        <5>2. job[x].name \in Name => <<x, job[x].name>> # GroupLn(cur)
          BY <2>2, ListenersApart
        <5> QED BY <1>1, <2>10, <5>1, <5>2
      <4> QED BY <4>1, <4>2
    <3>3. ProxyInv'
      <4> SUFFICES ASSUME NEW x \in Ctl, NEW m \in Name, proxies[x][m] # None
                   PROVE  /\ pc[x] \in {"run", "drain"} /\ pxys[m] = x
                          /\ m \notin Grouped => lis'[proxies[x][m]] = <<x, m>>
        BY <1>1 DEF ProxyInv
      <4>1. <<x, m>> # GroupLn(cur)
        BY <2>2, ListenersApart
      <4>2. proxies[x][m] \in Port
        BY <1>2 DEF PxyType
      <4>3. /\ pc[x] \in {"run", "drain"} /\ pxys[m] = x
            /\ m \notin Grouped => lis[proxies[x][m]] = <<x, m>>
        BY <1>2 DEF ProxyInv
      <4> QED BY <2>10, <4>1, <4>2, <4>3
    <3>4. HeldInv'
      <4> SUFFICES ASSUME NEW q \in Port \ free' PROVE \E x \in Ctl : HoldsPort(x, q)'
        BY DEF HeldInv
      <4>1. CASE q = r
        BY <2>10, <4>1
      <4>2. CASE q # r
        <5>1. PICK x \in Ctl : HoldsPort(x, q)
          BY <1>2, <2>10 DEF HeldInv
        <5>2. HoldsPort(x, q)'
          BY <1>1, <1>7, <2>5, <4>2, <5>1 DEF HoldsPort
        <5> QED BY <5>2
      <4> QED BY <4>1, <4>2
    <3>5. OpenInv'
      <4>1. \A x \in Ctl : ~Opening(x)
        BY <1>2, <2>2 DEF OpenInv
      <4> QED BY <2>5, <4>1 DEF OpenInv, Opening
    <3> QED BY <1>1, <1>2, <2>5, <2>10, <3>1, <3>2, <3>3, <3>4, <3>5 DEF PxyInv
  <2>11. CASE grp[cur].lns = {<<c, n>>}
    <3>1. lis' = [lis EXCEPT ![p] = None] /\ Release(p) /\ cur' = 0
      BY <2>4, <2>11
    <3>2. /\ FreeInv' /\ free' = free \cup {p}
          /\ used' \in [Port -> Name \cup {None}] /\ resv' \in [Name -> Resvs]
      BY <1>2, <1>3, <3>1, ReleaseFrees
    <3>3. /\ lis' \in [Port -> Listeners]
          /\ \A q \in Port : lis[q] # GroupLn(cur) => lis'[q] = lis[q]
      BY <1>2, <1>3, <2>2, <3>1 DEF PortType, Listeners
    <3>4. GroupInv'
      <4>1. \A x \in Ctl, m \in Grouped, q \in Port : ~InGroupAt(x, m, q)'
        BY <1>2, <2>5, <2>11, ServerAssumption DEF GroupInv
      <4>2. \A h \in 1..MaxGen : grp'[h].lns = {}
        BY <2>7, <2>8, <2>9, <2>11
      <4> QED BY <4>1, <4>2 DEF GroupInv
    <3>5. cur' \in 0..MaxGen /\ free' \subseteq Port /\ free \subseteq free' /\ r \in free'
      BY <1>2, <1>3, <1>7, <3>1, <3>2, ServerAssumption DEF PortType
    <3> QED BY <2>10, <3>2, <3>3, <3>4, <3>5
  <2>12. CASE grp[cur].lns # {<<c, n>>}
    <3>1. UNCHANGED <<lis, free, used, resv, cur>>
      BY <2>4, <2>12
    <3>2. GroupInv'
      <4>1. \A x \in Ctl, m \in Grouped, q \in Port : InGroupAt(x, m, q)' =>
              /\ cur # 0 /\ lis[q] = GroupLn(cur) /\ <<x, m>> \in G.lns /\ G.port = q
        <5> SUFFICES ASSUME NEW x \in Ctl, NEW m \in Grouped, NEW q \in Port,
                            InGroupAt(x, m, q)'
                     PROVE  /\ cur # 0 /\ lis[q] = GroupLn(cur) /\ <<x, m>> \in G.lns
                            /\ G.port = q
          OBVIOUS
        <5>1. InGroupAt(x, m, q) /\ ~(x = c /\ m = n)
          BY <2>5, ServerAssumption
        <5>2. /\ cur # 0 /\ lis[q] = GroupLn(cur) /\ <<x, m>> \in grp[cur].lns
              /\ grp[cur].port = q
          BY <1>2, <5>1 DEF GroupInv
        <5> QED BY <2>2, <2>7, <5>1, <5>2
      <4>2. \A h \in 1..MaxGen : grp'[h].lns # {} => h = cur /\ grp'[h].port \in Port
        BY <1>3, <2>7, <2>8, <2>9
      <4>3. \A h \in 1..MaxGen : \A x \in Ctl, m \in Name : <<x, m>> \in grp'[h].lns =>
              m \in Grouped /\ InGroupAt(x, m, grp[h].port)'
        <5> SUFFICES ASSUME NEW h \in 1..MaxGen, NEW x \in Ctl, NEW m \in Name,
                            <<x, m>> \in grp'[h].lns
                     PROVE  m \in Grouped /\ InGroupAt(x, m, grp[h].port)'
          OBVIOUS
        <5>1. h = cur /\ <<x, m>> \in grp[cur].lns /\ ~(x = c /\ m = n) /\ grp'[h].port = p
          BY <2>7, <2>8, <2>9
        <5>2. m \in Grouped /\ InGroupAt(x, m, p)
          BY <1>2, <2>2, <5>1 DEF GroupInv
        <5> QED BY <1>3, <2>5, <5>1, <5>2
      <4> QED BY <2>8, <3>1, <4>1, <4>2, <4>3 DEF GroupInv, GroupLn
    <3>3. \E x \in Ctl : HoldsPort(x, r)'
      <4>1. PICK x \in Ctl, m \in Name : <<x, m>> \in grp[cur].lns /\ ~(x = c /\ m = n)
        BY <2>2, <2>6, <2>12 DEF Groups
      <4>2. InGroupAt(x, m, p)
        BY <1>2, <2>2, <4>1 DEF GroupInv
      <4>3. InGroupAt(x, m, r)'
        BY <1>7, <2>5, <4>1, <4>2
      <4> QED BY <4>3 DEF InGroupAt, HoldsPort
    <3>4. /\ lis' \in [Port -> Listeners] /\ cur' \in 0..MaxGen /\ FreeInv'
          /\ free \subseteq free' /\ free' \subseteq Port
          /\ used' \in [Port -> Name \cup {None}] /\ resv' \in [Name -> Resvs]
      BY <1>2, <3>1 DEF PortType, FreeInv
    <3> QED BY <2>10, <3>1, <3>2, <3>3, <3>4
  <2> QED BY <2>11, <2>12
<1> QED BY <1>5, <1>6

\* The port of a proxy without a group is given back.
LEMMA ReleasePortPxy ==
  ASSUME PxyInv, NEW c \in Ctl, ReleasePort(c)
  PROVE  PxyInv'
<1> DEFINE p == job[c].port
<1>1. /\ use' = use /\ pc' = pc /\ proxies' = proxies /\ pxys' = pxys /\ num' = num
      /\ UNCHANGED <<limVars, lis, cur, grp, gens>> /\ job[c].at = "release" /\ Release(p) /\ Goto(c, "del")
  BY DEF ReleasePort, logVars
<1>2. PxyType /\ PortType /\ JobInv /\ ProxyInv /\ FreeInv /\ HeldInv /\ NamesHeld
      /\ GroupInv /\ OpenInv /\ CountInv /\ use \in Setups
  BY DEF PxyInv
<1>3. p \in Port /\ JobInv!(c)
  BY <1>1, <1>2 DEF JobInv
<1>4. /\ job' \in [Ctl -> Jobs] /\ \A x \in Ctl : x # c => job'[x] = job[x]
      /\ job'[c].at = "del" /\ job'[c].name = job[c].name /\ job'[c].own = job[c].own
      /\ job'[c].cnt = job[c].cnt
  BY <1>1, <1>2, JobChange DEF Ats
<1>5. /\ FreeInv' /\ free' = free \cup {p}
      /\ used' \in [Port -> Name \cup {None}] /\ resv' \in [Name -> Resvs]
  BY <1>1, <1>2, <1>3, ReleaseFrees
<1>6. PxyType' /\ PortType'
  BY <1>1, <1>2, <1>3, <1>4, <1>5 DEF PxyType, PortType
<1>7. JobInv'
  <2> SUFFICES ASSUME NEW x \in Ctl PROVE JobInv!(x)'
    BY DEF JobInv
  <2>1. CASE x = c
    BY <1>1, <1>3, <1>4, <2>1
  <2>2. CASE x # c
    BY <1>1, <1>2, <1>4, <2>2, SMTT(30) DEF JobInv
  <2> QED BY <2>1, <2>2
<1>8. ProxyInv'
  BY <1>1, <1>2 DEF ProxyInv
<1>9. HeldInv'
  <2> SUFFICES ASSUME NEW q \in Port \ free' PROVE \E x \in Ctl : HoldsPort(x, q)'
    BY DEF HeldInv
  <2>1. q \in Port \ free /\ q # p
    BY <1>5
  <2>2. PICK x \in Ctl : HoldsPort(x, q)
    BY <1>2, <2>1 DEF HeldInv
  <2>3. HoldsPort(x, q)'
    BY <1>1, <1>4, <2>1, <2>2 DEF HoldsPort
  <2> QED BY <2>3
<1>10. NamesHeld'
  BY <1>1, <1>2, <1>4 DEF NamesHeld, PxyType
<1>11. GroupInv'
  <2>1. \A q : \A x \in Ctl, m \in Name : InGroupAt(x, m, q)' = InGroupAt(x, m, q)
    BY <1>1, <1>4 DEF InGroupAt
  <2> QED BY <1>1, <1>2, <2>1, ServerAssumption DEF GroupInv, GroupLn
<1>12. CountInv'
  BY <1>1, <1>4, CountFrame DEF limVars
<1>13. OpenInv'
  <2>1. \A x \in Ctl : job'[x].at = "open" => job'[x] = job[x]
    BY <1>4
  <2> QED BY <1>1, <1>2, <2>1, OpenFrame
<1> QED BY <1>1, <1>2, <1>5, <1>6, <1>7, <1>8, <1>9, <1>10, <1>11, <1>12, <1>13 DEF PxyInv

\* The name of a proxy is given back, if the proxy had it.
LEMMA DelProxyPxy ==
  ASSUME PxyInv, NEW c \in Ctl, DelProxy(c)
  PROVE  PxyInv'
<1> DEFINE n == job[c].name
<1>1. /\ use' = use /\ pc' = pc /\ proxies' = proxies
      /\ UNCHANGED <<limVars, free, used, resv, lis, cur, grp, gens>> /\ job[c].at = "del"
  BY DEF DelProxy, logVars, portVars
<1>2. PxyType /\ PortType /\ JobInv /\ ProxyInv /\ FreeInv /\ HeldInv /\ NamesHeld
      /\ GroupInv /\ OpenInv /\ CountInv /\ use \in Setups
  BY DEF PxyInv
<1>3. CASE ~job[c].own
  <2>1. Fail(c) /\ pxys' = pxys
    BY <1>3 DEF DelProxy
  <2> QED BY <1>1, <1>3, <2>1, FailPxy
<1>4. CASE job[c].own
  <2>1. pxys' = [pxys EXCEPT ![n] = None] /\ job' = [job EXCEPT ![c] = NoJob] /\ num' = num
    BY <1>4 DEF DelProxy
  <2>2. job[c].cnt = 0 /\ n \in Name /\ pxys[n] = c /\ proxies[c][n] = None /\ pc[c] \in {"run", "drain"}
    BY <1>1, <1>2, <1>4 DEF JobInv
  <2>3. NoJob \in Jobs /\ NoJob.at = "idle" /\ ~NoJob.own /\ NoJob.cnt = 0
    BY ServerAssumption DEF NoJob, Jobs, Ats
  <2>4. /\ job'[c] = NoJob /\ job' \in [Ctl -> Jobs] /\ \A x \in Ctl : x # c => job'[x] = job[x]
        /\ pxys'[n] = None /\ \A m \in Name : m # n => pxys'[m] = pxys[m]
    BY <1>2, <2>1, <2>2, <2>3 DEF PxyType
  <2>5. PxyType' /\ PortType' /\ FreeInv'
    BY <1>1, <1>2, <2>1, <2>4 DEF PxyType, PortType, FreeInv
  <2>6. JobInv'
    <3> SUFFICES ASSUME NEW x \in Ctl PROVE JobInv!(x)'
      BY DEF JobInv
    <3>1. CASE x = c
      BY <2>3, <2>4, <3>1
    <3>2. CASE x # c
      <4>1. job'[x] = job[x] /\ JobInv!(x)
        BY <1>2, <2>4, <3>2 DEF JobInv
      <4>2. job[x].own => job[x].at # "idle"
        BY <2>3, <4>1
      <4>3. job[x].own => pxys'[job[x].name] = x
        BY <2>2, <2>4, <3>2, <4>1, <4>2
      <4> QED BY <1>1, <4>1, <4>3
    <3> QED BY <3>1, <3>2
  <2>7. ProxyInv'
    <3> SUFFICES ASSUME NEW x \in Ctl, NEW m \in Name, proxies[x][m] # None
                 PROVE  /\ pc[x] \in {"run", "drain"} /\ pxys'[m] = x
                        /\ m \notin Grouped => lis[proxies[x][m]] = <<x, m>>
      BY <1>1, Zenon DEF ProxyInv
    <3>1. /\ pc[x] \in {"run", "drain"} /\ pxys[m] = x
          /\ m \notin Grouped => lis[proxies[x][m]] = <<x, m>>
      BY <1>2, Zenon DEF ProxyInv
    <3> QED BY <2>2, <2>4, <3>1
  <2>8. HeldInv'
    <3>1. \A x \in Ctl, q \in Port : HoldsPort(x, q) => HoldsPort(x, q)'
      BY <1>1, <2>4 DEF HoldsPort
    <3> QED BY <1>1, <1>2, <3>1 DEF HeldInv
  <2>9. NamesHeld'
    <3> SUFFICES ASSUME NEW m \in Name, pxys'[m] # None
                 PROVE  LET x == pxys'[m] IN
                        \/ proxies[x][m] # None /\ pc[x] \in {"run", "drain"}
                        \/ job'[x].name = m /\ job'[x].own
      BY <1>1 DEF NamesHeld
    <3>1. m # n /\ pxys'[m] = pxys[m] /\ pxys[m] \in Ctl
      BY <1>2, <2>4 DEF PxyType
    <3> QED BY <1>2, <2>4, <3>1 DEF NamesHeld
  <2>10. GroupInv'
    <3>1. \A q : \A x \in Ctl, m \in Name : InGroupAt(x, m, q)' = InGroupAt(x, m, q)
      BY <1>1, <2>3, <2>4 DEF InGroupAt
    <3> QED BY <1>1, <1>2, <3>1, ServerAssumption DEF GroupInv, GroupLn
  <2>11. CountInv'
    BY <1>1, <2>1, <2>2, <2>3, <2>4, CountFrame DEF limVars
  <2>12. OpenInv'
    <3>1. \A x \in Ctl : job'[x].at = "open" => job'[x] = job[x]
      BY <2>3, <2>4
    <3> QED BY <1>1, <1>2, <3>1, OpenFrame
  <2> QED BY <1>1, <1>2, <2>5, <2>6, <2>7, <2>8, <2>9, <2>10, <2>11, <2>12 DEF PxyInv
<1> QED BY <1>3, <1>4

\* A reservation is forgotten.
LEMMA CleanReservedPxy ==
  ASSUME PxyInv, NEW n \in Name, CleanReserved(n)
  PROVE  PxyInv'
<1>1. /\ UNCHANGED <<use, limVars, pc, job, proxies, num, pxys, free, used, lis, cur, grp, gens>>
      /\ resv' = [resv EXCEPT ![n] = NoResv]
  BY DEF CleanReserved, logVars, pxyVars, wcVars
<1>2. PxyType /\ PortType /\ JobInv /\ ProxyInv /\ FreeInv /\ HeldInv /\ NamesHeld
      /\ GroupInv /\ OpenInv /\ CountInv /\ use \in Setups
  BY DEF PxyInv
<1>3. NoResv \in Resvs
  BY DEF NoResv, Resvs
<1>4. PxyType' /\ PortType' /\ FreeInv'
  BY <1>1, <1>2, <1>3 DEF PxyType, PortType, FreeInv
<1>5. JobInv' /\ ProxyInv'
  BY <1>1, <1>2 DEF JobInv, ProxyInv
<1>6. HeldInv' /\ NamesHeld'
  BY <1>1, <1>2 DEF HeldInv, HoldsPort, NamesHeld
<1>7. GroupInv' /\ OpenInv'
  BY <1>1, <1>2 DEF GroupInv, InGroupAt, GroupLn, OpenInv, Opening
<1>8. CountInv'
  BY <1>1, <1>2 DEF CountInv, LimType, Wanted, limVars
<1> QED BY <1>1, <1>2, <1>4, <1>5, <1>6, <1>7, <1>8 DEF PxyInv

-----------------------------------------------------------------------------
(* Work connections.                                                       *)

WorkInv == use.pool \in Nat /\ WorkType /\ UserInv /\ PoolKept

\* A control that runs with its connection open did so before.
LEMMA WorkFrame ==
  ASSUME WorkInv, UNCHANGED <<use, wcVars>>,
         \A x \in Ctl : (pc'[x] = "run" /\ x \in open') => (pc[x] = "run" /\ x \in open)
  PROVE  WorkInv'
<1>1. WorkType' /\ UserInv'
  BY DEF WorkInv, WorkType, UserType, UserInv, PoolCap, wcVars
<1>2. PoolKept'
  BY DEF WorkInv, PoolKept, wcVars
<1> QED BY <1>1, <1>2 DEF WorkInv

\* A control starts with a request for each connection of its pool, and ends without any.
LEMMA StartWork ==
  ASSUME WorkInv, LogType, NEW c \in Ctl, Start(c) \/ worker(c)
  PROVE  WorkInv'
<1>1. /\ use' = use /\ uc' = uc /\ open' = open
      /\ \A x \in Ctl : x # c => pc'[x] = pc[x]
  BY DEF Start, worker, LogType
<1>2. /\ pool' \in [Ctl -> 0..PoolCap] /\ reqs' \in [Ctl -> Nat]
      /\ \A x \in Ctl : x # c => pool'[x] = pool[x] /\ reqs'[x] = reqs[x]
  BY DEF Start, worker, WorkInv, WorkType, PoolCap
<1>3. WorkType' /\ UserInv'
  BY <1>1, <1>2 DEF WorkInv, WorkType, UserType, UserInv, PoolCap
<1>4. (pc'[c] = "run" /\ c \in open) => pool'[c] + reqs'[c] >= use.pool
  <2>1. CASE Start(c)
    BY <1>2, <2>1 DEF Start, WorkInv, WorkType, PoolCap
  <2>2. CASE worker(c)
    BY <2>2 DEF worker
  <2> QED BY <2>1, <2>2
<1>5. PoolKept'
  BY <1>1, <1>2, <1>4 DEF WorkInv, PoolKept
<1> QED BY <1>1, <1>3, <1>5 DEF WorkInv

\* The answer to a request: it goes to the very control that asked, as long as the
\* connection of that control is open.
LEMMA AnswerWork ==
  ASSUME WorkInv, LogInv, NEW c \in Ctl, RegisterWorkConn(c)
  PROVE  WorkInv'
<1> DEFINE d == byRun[RunOf(c)]
<1>1. /\ UNCHANGED <<use, pc, open, uc>> /\ reqs[c] > 0 /\ reqs' = [reqs EXCEPT ![c] = @ - 1]
      /\ pool' = IF d # None /\ pc[d] \in {"wait", "resp", "run"} /\ pool[d] < PoolCap
                 THEN [pool EXCEPT ![d] = @ + 1] ELSE pool
  BY DEF RegisterWorkConn, logVars
<1>2. /\ use.pool \in Nat /\ pool \in [Ctl -> 0..PoolCap] /\ reqs \in [Ctl -> Nat]
      /\ PoolCap = use.pool + 1
  BY DEF WorkInv, WorkType, PoolCap
<1>3. d \in Ctl \cup {None}
  BY SceneShape DEF LogInv, LogType
<1>4. (pc[c] = "run" /\ c \in open) => d = c /\ d # None
  BY NoneApart DEF LogInv, LoginInv, Alive
<1> HIDE DEF d
<1>5. /\ reqs' \in [Ctl -> Nat] /\ reqs'[c] = reqs[c] - 1
      /\ \A x \in Ctl : x # c => reqs'[x] = reqs[x]
  BY <1>1, <1>2
<1>6. pool' \in [Ctl -> 0..PoolCap] /\ \A x \in Ctl : pool'[x] >= pool[x]
  BY <1>1, <1>2, <1>3
<1>7. WorkType' /\ UserInv'
  BY <1>1, <1>5, <1>6 DEF WorkInv, WorkType, UserType, UserInv, PoolCap
<1>8. (pc[c] = "run" /\ c \in open) => pool'[c] = pool[c] + 1 \/ pool[c] >= use.pool
  BY <1>1, <1>2, <1>4
<1>9. PoolKept'
  <2> SUFFICES ASSUME NEW x \in Ctl, pc[x] = "run", x \in open
               PROVE  pool'[x] + reqs'[x] >= use.pool
    BY <1>1 DEF PoolKept
  <2>1. pool[x] + reqs[x] >= use.pool
    BY DEF WorkInv, PoolKept
  <2>2. /\ pool[x] \in Nat /\ pool'[x] \in Nat /\ reqs[x] \in Nat /\ reqs'[x] \in Nat
        /\ pool'[x] >= pool[x]
    BY <1>2, <1>5, <1>6
  <2> QED BY <1>2, <1>5, <1>8, <2>1, <2>2
<1> QED BY <1>1, <1>7, <1>9 DEF WorkInv

\* A connection that is taken from the pool is asked for again.
LEMMA TakeWork ==
  ASSUME WorkInv, NEW u \in User, NEW c \in Ctl, UNCHANGED <<use, pc, open>>,
         pool[c] > 0 /\ Take(u, c)
  PROVE  WorkInv'
<1>1. /\ use.pool \in Nat /\ pool \in [Ctl -> 0..PoolCap] /\ reqs \in [Ctl -> Nat]
      /\ PoolCap \in Nat
  BY DEF WorkInv, WorkType, PoolCap
<1>2. /\ pool' \in [Ctl -> 0..PoolCap] /\ reqs' \in [Ctl -> Nat]
      /\ \A x \in Ctl : x # c => pool'[x] = pool[x] /\ reqs'[x] = reqs[x]
      /\ pool'[c] = pool[c] - 1 /\ (c \in open => reqs'[c] = reqs[c] + 1)
  BY <1>1 DEF Take
<1>3. WorkType' /\ UserInv'
  <2>1. uc' = [uc EXCEPT ![u] = [at |-> "joined", ctl |-> c]]
    BY DEF Take
  <2> QED BY <1>2, <2>1 DEF WorkInv, WorkType, UserType, UserInv, PoolCap
<1>4. PoolKept'
  <2> SUFFICES ASSUME NEW x \in Ctl, pc[x] = "run", x \in open
               PROVE  pool'[x] + reqs'[x] >= use.pool
    BY DEF PoolKept
  <2>1. pool[x] + reqs[x] >= use.pool
    BY DEF WorkInv, PoolKept
  <2> QED BY <1>1, <1>2, <2>1
<1> QED BY <1>3, <1>4 DEF WorkInv

\* What users come to.
LEMMA UsersWork ==
  ASSUME WorkInv, NEW u \in User,
         \/ GetWorkConn(u) \/ GetWorkConnFails(u)
         \/ \E c \in Ctl : handleUserConnection(u, c)
  PROVE  WorkInv'
<1>1. CASE GetWorkConn(u)
  <2>1. uc[u].ctl \in Ctl /\ UNCHANGED <<use, pc, open>>
    BY <1>1 DEF GetWorkConn, WorkInv, UserInv, logVars
  <2> QED BY <1>1, <2>1, TakeWork DEF GetWorkConn
<1>2. CASE GetWorkConnFails(u)
  <2>1. UNCHANGED <<use, pc, open, pool, reqs>> /\ uc' = [uc EXCEPT ![u].at = "failed"]
    BY <1>2 DEF GetWorkConnFails, logVars
  <2>2. WorkType'
    BY <2>1 DEF WorkInv, WorkType, UserType, PoolCap
  <2>3. UserInv' /\ PoolKept'
    BY <2>1 DEF WorkInv, WorkType, UserType, UserInv, PoolKept
  <2> QED BY <2>1, <2>2, <2>3 DEF WorkInv
<1>3. ASSUME NEW c \in Ctl, handleUserConnection(u, c) PROVE WorkInv'
  <2>1. UNCHANGED <<use, pc, open>>
    BY <1>3 DEF handleUserConnection, logVars
  <2>2. CASE pool[c] > 0 /\ Take(u, c)
    BY <2>1, <2>2, TakeWork
  <2> DEFINE w == [at |-> IF pc[c] = "run" THEN "wait" ELSE "failed", ctl |-> c]
  <2>3. CASE /\ pool' = pool /\ reqs' = [reqs EXCEPT ![c] = IF c \in open THEN @ + 1 ELSE @]
             /\ uc' = [uc EXCEPT ![u] = w]
    <3>1. reqs' \in [Ctl -> Nat] /\ \A x \in Ctl : reqs'[x] >= reqs[x]
      BY <2>3 DEF WorkInv, WorkType
    <3>2. w \in [at: {"none", "wait", "joined", "failed"}, ctl: Ctl \cup {None}] /\ w.ctl \in Ctl
      OBVIOUS
    <3> HIDE DEF w
    <3>3. WorkType' /\ UserInv'
      BY <2>1, <2>3, <3>1, <3>2 DEF WorkInv, WorkType, UserType, UserInv, PoolCap
    <3>4. PoolKept'
      <4> SUFFICES ASSUME NEW x \in Ctl, pc[x] = "run", x \in open
                   PROVE  pool'[x] + reqs'[x] >= use.pool
        BY <2>1 DEF PoolKept
      <4>1. /\ pool[x] + reqs[x] >= use.pool /\ pool[x] \in Nat /\ reqs[x] \in Nat
            /\ reqs'[x] \in Nat /\ reqs'[x] >= reqs[x] /\ use.pool \in Nat
        BY <3>1 DEF WorkInv, PoolKept, WorkType, PoolCap
      <4> QED BY <2>3, <4>1
    <3> QED BY <2>1, <3>3, <3>4 DEF WorkInv
  <2> QED BY <1>3, <2>2, <2>3 DEF handleUserConnection
<1> QED BY <1>1, <1>2, <1>3

-----------------------------------------------------------------------------
(* The steps of the server.                                                *)

\* The three parts of the invariant: who is logged in, what proxies and handlers
\* hold, and the work connections.
ServerInv == LogInv /\ PxyInv /\ WorkInv

\* A step of a handler, or of the worker with one.
LEMMA HandlerStep ==
  ASSUME ServerInv, PxyInv', UNCHANGED <<use, logVars, wcVars>>
  PROVE  ServerInv'
<1>1. LogInv'
  BY LogFrame DEF ServerInv, logVars
<1>2. WorkInv'
  BY WorkFrame DEF ServerInv, logVars
<1> QED BY <1>1, <1>2 DEF ServerInv

\* Handlers, the closing of proxies and the cleaning of reservations.
LEMMA HandlersKeep ==
  ASSUME ServerInv,
         \/ \E c \in Ctl : Handle(c)
         \/ \E c \in Ctl, n \in Name : \/ RegisterProxy(c, n) \/ CloseProxy(c, n)
                                       \/ workerClose(c, n)
         \/ \E n \in Name : CleanReserved(n)
         \/ \E m \in use.limits : EditUser(m)
  PROVE  ServerInv'
<1>1. ASSUME NEW c \in Ctl, Handle(c) PROVE ServerInv'
  <2>1. UNCHANGED <<use, logVars, wcVars>>
    BY <1>1 DEF Handle, Acquire, Listen, getOrCreate, groupListen, groupOpen, AddProxy,
                CloseListener, ReleasePort, DelProxy
  <2>2. PxyInv'
    BY <1>1, AcquirePxy, ListenPxy, GetOrCreatePxy, GroupListenPxy, GroupOpenPxy, AddProxyPxy,
       CloseListenerPxy, ReleasePortPxy, DelProxyPxy DEF Handle, ServerInv
  <2> QED BY <2>1, <2>2, HandlerStep, SMTT(30)
<1>2. ASSUME NEW c \in Ctl, NEW n \in Name, RegisterProxy(c, n) PROVE ServerInv'
  <2>1. UNCHANGED <<use, logVars, wcVars>>
    BY <1>2, Zenon DEF RegisterProxy
  <2> QED BY <1>2, <2>1, HandlerStep, RegisterProxyPxy DEF ServerInv
<1>3. ASSUME NEW c \in Ctl, NEW n \in Name, CloseProxy(c, n) \/ workerClose(c, n)
      PROVE  ServerInv'
  <2>1. UNCHANGED <<use, logVars, wcVars>>
    BY <1>3, Zenon DEF CloseProxy, workerClose
  <2>2. Takes(c, n)
    <3>1. UNCHANGED <<use, limVars, pc, pxys, portVars>>
      BY <1>3, Zenon DEF CloseProxy, workerClose, logVars
    <3>2. num' = num \/ num' = [num EXCEPT ![c] = @ - 1]
      BY <1>3, Zenon DEF CloseProxy, workerClose
    <3>3. (pc[c] = "run" \/ pc[c] = "drain") /\ job[c] = NoJob /\ proxies[c][n] # None
      BY <1>3, Zenon DEF CloseProxy, workerClose, Reading
    <3> QED BY <1>3, <3>1, <3>2, <3>3, Zenon DEF CloseProxy, workerClose, Takes
  <2> QED BY <2>1, <2>2, HandlerStep, TakesPxy DEF ServerInv
<1>4. ASSUME NEW n \in Name, CleanReserved(n) PROVE ServerInv'
  <2>1. UNCHANGED <<use, logVars, wcVars>>
    BY <1>4 DEF CleanReserved
  <2> QED BY <1>4, <2>1, HandlerStep, CleanReservedPxy DEF ServerInv
<1>5. ASSUME NEW m \in use.limits, EditUser(m) PROVE ServerInv'
  <2>1. UNCHANGED <<use, cap, loose, logVars, wcVars, pxyVars, portVars>> /\ max' \in use.limits
    BY <1>5 DEF EditUser
  <2>2. PxyInv'
    BY <2>1, PxyFrame DEF ServerInv, logVars
  <2> QED BY <2>1, <2>2, HandlerStep
<1> QED BY <1>1, <1>2, <1>3, <1>4, <1>5

\* Logins, replacements, failures, and the end of a control.
LEMMA LoginsKeep ==
  ASSUME ServerInv, NEW c \in Ctl,
         Login(c) \/ worker(c) \/ workerDone(c) \/ Forget(c) \/ Drop(c)
  PROVE  ServerInv'
<1>1. LogInv /\ PxyInv /\ WorkInv /\ LogType
  BY DEF ServerInv, LogInv
<1>2. LogInv' /\ UNCHANGED <<use, limVars, pxyVars, portVars>>
  BY <1>1, LogKept DEF Login, RegisterControl, Register, Start, StartFails, worker, workerDone,
                       Forget, Drop
<1>3. \A x \in Ctl : x # c => pc'[x] = pc[x]
  BY <1>1 DEF Login, RegisterControl, Register, Start, StartFails, worker, workerDone, Forget,
              Drop, LogType
<1>4. pc[c] \in {"run", "drain"} => \/ pc'[c] \in {"run", "drain"}
                                    \/ job[c] = NoJob /\ \A n \in Name : proxies[c][n] = None
  BY <1>1 DEF Login, RegisterControl, Register, Start, StartFails, worker, workerDone, Forget,
              Drop, LogType
<1>5. PxyInv'
  <2>1. max \in use.limits
    BY <1>1 DEF PxyInv, CountInv, LimType
  <2> QED BY <1>1, <1>2, <1>3, <1>4, <2>1, PxyFrame DEF NoJob, limVars
<1>6. WorkInv'
  <2>1. CASE Start(c) \/ worker(c)
    BY <1>1, <2>1, StartWork
  <2>2. CASE ~(Start(c) \/ worker(c))
    <3>1. UNCHANGED wcVars /\ open' \subseteq open \cup {c}
      BY <2>2 DEF Login, RegisterControl, Add, Register, StartFails, workerDone, Forget, Drop
    <3>2. (pc'[c] = "run" /\ c \in open') => (pc[c] = "run" /\ c \in open)
      BY <1>1, <2>2 DEF Login, RegisterControl, Register, StartFails, workerDone, Forget, Drop,
                        LogType
    <3> QED BY <1>1, <1>2, <1>3, <3>1, <3>2, WorkFrame
  <2> QED BY <2>1, <2>2
<1> QED BY <1>2, <1>5, <1>6 DEF ServerInv

\* Work connections and users.
LEMMA UsersKeep ==
  ASSUME ServerInv,
         \/ \E c \in Ctl : RegisterWorkConn(c)
         \/ \E u \in User : GetWorkConn(u) \/ GetWorkConnFails(u)
         \/ \E u \in User, c \in Ctl : handleUserConnection(u, c)
  PROVE  ServerInv'
<1>1. UNCHANGED <<use, limVars, logVars, pxyVars, portVars>>
  BY DEF RegisterWorkConn, GetWorkConn, GetWorkConnFails, handleUserConnection
<1>2. LogInv'
  BY <1>1, LogFrame DEF ServerInv, logVars
<1>3. PxyInv'
  <2>1. max \in use.limits
    BY DEF ServerInv, PxyInv, CountInv, LimType
  <2> QED BY <1>1, <2>1, PxyFrame DEF ServerInv, logVars, limVars
<1>4. WorkInv'
  BY AnswerWork, UsersWork DEF ServerInv
<1> QED BY <1>2, <1>3, <1>4 DEF ServerInv

\* Every step of the server keeps the invariant.
LEMMA ServerStep ==
  ASSUME ServerInv, Next
  PROVE  ServerInv'
BY HandlersKeep, LoginsKeep, UsersKeep DEF Next, Work

\* Before anybody logs in nothing is held.
LEMMA ServerStarts ==
  ASSUME Init
  PROVE  ServerInv
<1>1. LogInv
  <2>1. use \in Setups /\ LogType
    BY DEF Init, LogType
  <2>2. \A c \in Ctl : RunOf(c) \in Run
    BY <2>1, SceneShape
  <2>3. Order({})
    BY <2>2 DEF Init, Order, Alive
  <2>4. Ordered
    BY <2>3 DEF Ordered
  <2>5. LoginInv /\ OnlineIsReal
    BY DEF Init, LoginInv, OnlineIsReal, Alive
  <2> QED BY <2>1, <2>4, <2>5 DEF LogInv
<1>2. PxyInv
  <2>1. use \in Setups /\ NoJob \in Jobs /\ NoResv \in Resvs /\ NoGroup \in Groups
    BY ServerAssumption DEF Init, NoJob, Jobs, Ats, NoResv, Resvs, NoGroup, Groups
  <2>2. PxyType
    BY <2>1 DEF Init, PxyType
  <2>3. PortType
    BY <2>1, ServerAssumption DEF Init, PortType, Listeners
  <2>4. JobInv
    BY DEF Init, JobInv, NoJob
  <2>5. ProxyInv /\ FreeInv /\ HeldInv /\ NamesHeld /\ OpenInv
    BY DEF Init, ProxyInv, FreeInv, HeldInv, NamesHeld, OpenInv, Opening, NoJob
  <2>6. GroupInv
    BY NoneApart, ServerAssumption DEF Init, GroupInv, InGroupAt, NoJob, NoGroup
  <2>7. CountInv
    <3>5. LimType
      BY DEF Init, LimType
    <3> SUFFICES ASSUME NEW c \in Ctl
                 PROVE  IsFiniteSet(Wanted(c)) /\ Cardinality(Wanted(c)) + job[c].cnt <= num[c]
                        /\ num[c] <= cap[c]
      BY <3>5 DEF CountInv
    <3>1. Wanted(c) = {}
      BY DEF Init, Wanted
    <3>2. IsFiniteSet(Wanted(c)) /\ Cardinality(Wanted(c)) = 0
      BY <3>1, FS_EmptySet
    <3>3. job[c].cnt = 0 /\ num[c] = 0 /\ cap[c] = 0
      BY DEF Init, NoJob
    <3> QED BY <3>2, <3>3
  <2> QED BY <2>1, <2>2, <2>3, <2>4, <2>5, <2>6, <2>7 DEF PxyInv
<1>3. WorkInv
  <2>1. use.pool \in Nat
    BY SceneShape DEF Init
  <2> QED BY <2>1 DEF Init, WorkInv, WorkType, UserType, UserInv, PoolKept, PoolCap
<1> QED BY <1>1, <1>2, <1>3 DEF ServerInv

\* What the invariant says of the tables.
LEMMA InvIsSound ==
  ASSUME ServerInv
  PROVE  ServerSound
<1>1. LogInv /\ PxyInv /\ WorkInv
  BY DEF ServerInv
<1>2. ServerTypeOK
  BY <1>1, TypeParts DEF LogInv, PxyInv, CountInv, WorkInv
<1>3. OneActive /\ OnlineIsReal
  BY <1>1, OrderIsOneActive DEF LogInv
<1>4. PortsHeld /\ NamesHeld
  BY <1>1 DEF PxyInv, HeldInv, PortsHeld, HoldsPort
<1>5. LimitKept
  <2> SUFFICES ASSUME NEW c \in Ctl \ loose
               PROVE  Cardinality(Wanted(c)) <= cap[c]
    BY DEF LimitKept
  <2>1. /\ Cardinality(Wanted(c)) + job[c].cnt <= num[c] /\ num[c] <= cap[c]
        /\ IsFiniteSet(Wanted(c)) /\ num[c] \in Int /\ cap[c] \in Nat /\ job[c].cnt \in 0..1
    BY <1>1 DEF PxyInv, CountInv, LimType, PxyType, Jobs
  <2>2. Cardinality(Wanted(c)) \in Nat
    BY <2>1, FS_CardinalityType
  <2> QED BY <2>1, <2>2
<1>6. GroupServed
  <2> SUFFICES ASSUME NEW c \in Ctl, NEW n \in Grouped, proxies[c][n] # None
               PROVE  /\ cur # 0 /\ lis[proxies[c][n]] = GroupLn(cur)
                      /\ <<c, n>> \in grp[cur].lns
    BY DEF GroupServed
  <2>1. proxies[c][n] \in Port /\ InGroupAt(c, n, proxies[c][n])
    BY <1>1, ServerAssumption DEF PxyInv, PxyType, InGroupAt
  <2> QED BY <1>1, <2>1 DEF PxyInv, GroupInv
<1>7. PoolKept
  BY <1>1 DEF WorkInv
<1> QED BY <1>2, <1>3, <1>4, <1>5, <1>6, <1>7 DEF ServerSound

\* Whatever the number of clients, reconnections, proxies and users, and however their
\* steps interleave: a run is never served by two controls, no client stays online
\* without one, no port or name leaks, a control whose proxies were all counted keeps to
\* the limit they were let in under, edited as it may be, the size of the pool is kept,
\* and a member of the group is served by the group there is.
THEOREM ServerSoundHolds == SceneSpec => []ServerSound
<1>1. SceneInit => ServerInv
  BY ServerStarts DEF SceneInit
<1>2. ServerInv /\ [SceneNext]_allVars => ServerInv'
  <2> SUFFICES ASSUME ServerInv, [SceneNext]_allVars
               PROVE  ServerInv'
    OBVIOUS
  <2>1. CASE Next
    BY <2>1, ServerStep
  <2>2. CASE UNCHANGED vars
    <3>1. UNCHANGED <<use, max, cap, loose, logVars, pxyVars, portVars, wcVars>>
      BY <2>2 DEF vars, limVars
    <3>3. max \in use.limits
      BY DEF ServerInv, PxyInv, CountInv, LimType
    <3>2. PxyInv'
      BY <3>1, <3>3, PxyFrame DEF ServerInv, logVars
    <3> QED BY <3>1, <3>2, HandlerStep
  <2> QED BY <2>1, <2>2 DEF SceneNext, allVars
<1>3. ServerInv => ServerSound
  BY InvIsSound
<1> QED BY <1>1, <1>2, <1>3, PTL DEF SceneSpec

-----------------------------------------------------------------------------
(* The routes of frps: the invariant.                                      *)

\* Any well-formed scene.
VhostSpec == (\E s : VhostSceneOK(s) /\ VhostInit(s)) /\ [][VhostNext]_vhostVars

Word == STRING \cup {"", "new", "a", "b", "*"}
Dom == Seq(Word) \ {<<>>}
Ask == Dom \X Seq(Nat)
Payload == Pxy \cup {Group(i) : i \in 1..MaxInst}
Route == [dom: Dom, loc: Seq(Nat), user: Word, payload: Payload]
PxyState == [at: {"off", "run", "on", "close", "done"}, todo: Seq(Ask), held: Seq(Ask),
             h: 0..MaxInst]
GroupState == [route: SUBSET Route, key: Word, members: Seq(Pxy)]
ReqState == [at: ReqAt, rc: SUBSET Route, ep: Pxy \cup {""}, by: Pxy \cup {""}]

PxyTypes ==
  /\ pst \in [Pxy -> PxyState] /\ routes \in [Mux -> SUBSET Route]
  /\ gcur \in 0..MaxInst /\ ginst \in [1..MaxInst -> GroupState]
ReqTypes ==
  /\ rq \in [Req -> ReqState] /\ \A c \in idle : c.by \in Pxy
  /\ \A r \in Req : /\ rq[r].at = "served" => rq[r].by \in Pxy
                    /\ \A o \in rq[r].rc : o.payload \in Pxy => o.payload \in Known

\* The route that a proxy has for what it asks, alone or with its group.
At(o, p, k) == o.dom = ToLower(k[1]) /\ o.loc = k[2] /\ o.user = cfg(p).user
RouteFor(p, k, payload) ==
  [dom |-> ToLower(k[1]), loc |-> k[2], user |-> cfg(p).user, payload |-> payload]
Single(p) == cfg(p).group = ""

\* A router has each route once.
Apart(R) ==
  \A o, b \in R : o.dom = b.dom /\ o.loc = b.loc /\ o.user = b.user => o = b

\* Only http has locations.
NoLocs(p, held) == cfg(p).kind # "http" => \A i \in DOMAIN held : held[i][2] = <<>>

\* What a proxy has asked for and holds.
AskedOK ==
  /\ \A p \in Pxy : p \notin Known => pst[p] = Off
  /\ \A p \in Known : /\ pst[p].at \in {"off", "done"} => pst[p].held = <<>>
                      /\ pst[p].at = "run" => pst[p].held \o pst[p].todo = asked(p)
                      /\ pst[p].at = "on" => pst[p].held = asked(p)
                      /\ pst[p].at \in {"run", "on"} /\ cfg(p).kind # "tcpmux" => Allowed(p)
                      /\ Single(p) => pst[p].h = 0
                      /\ NoLocs(p, pst[p].held)

\* What a proxy holds is routed to it, or to the group of which it is a member.
HeldOK ==
  /\ \A p \in Known : Single(p) =>
       /\ \A i \in DOMAIN pst[p].held : RouteFor(p, pst[p].held[i], p) \in routes[cfg(p).kind]
       /\ \A i, j \in DOMAIN pst[p].held :
            RouteFor(p, pst[p].held[i], p) = RouteFor(p, pst[p].held[j], p) => i = j
  /\ \A p \in Known : ~Single(p) /\ pst[p].held # <<>> =>
       /\ Len(pst[p].held) = 1 /\ gcur # 0 /\ p \in ToSet(ginst[gcur].members)
       /\ ginst[gcur].route = {RouteFor(p, pst[p].held[1], Group(gcur))}
       /\ RouteFor(p, pst[p].held[1], Group(gcur)) \in routes[cfg(p).kind]

\* The members of the group hold its route, and the other groups are empty.
MembersOK ==
  /\ \A i \in 1..MaxInst : i # gcur => ginst[i].members = <<>>
  /\ gcur # 0 => LET m == ginst[gcur].members IN
       /\ \A p \in ToSet(m) : p \in Known /\ ~Single(p) /\ pst[p].held # <<>>
       /\ \A i, j \in DOMAIN m : m[i] = m[j] => i = j

\* A route belongs to a proxy that holds it, or to the group.
OwnerOK ==
  \A m \in Mux : \A o \in routes[m] :
    \/ /\ o.payload \in Known /\ Single(o.payload) /\ m = cfg(o.payload).kind
       /\ \E i \in DOMAIN pst[o.payload].held :
            o = RouteFor(o.payload, pst[o.payload].held[i], o.payload)
    \/ /\ gcur # 0 /\ o.payload = Group(gcur) /\ o \in ginst[gcur].route
       /\ \E p \in ToSet(ginst[gcur].members) : m = cfg(p).kind

RoutersOK == \A m \in Mux : Apart(routes[m])

\* Whose turn may still count.
Turns(r) == rq[r].at \in {"new", IF r \in DOMAIN vscene.req /\ req(r).connect THEN "dial" ELSE "rewrite"}
TurnsOK ==
  /\ gidx \in Nat /\ gidx <= Cardinality({r \in Req : ~Turns(r)})
  /\ \A r \in Req : /\ r \notin DOMAIN vscene.req => rq[r].at = "new"
                    /\ rq[r].at = "rewrite" => ~req(r).connect

\* A request that goes on has shown the credentials of the route that it found first.
ShownOK ==
  \A r \in DOMAIN vscene.req : req(r).kind = "http" /\ rq[r].at \notin {"new", "401"} =>
    \A o \in rq[r].rc : o.payload \in Known => checkRouteAuth(req(r), cfg(o.payload).cred)

VhostInv ==
  /\ VhostSceneOK(vscene) /\ PxyTypes /\ ReqTypes /\ AskedOK /\ HeldOK /\ MembersOK /\ OwnerOK
  /\ RoutersOK /\ TurnsOK /\ ShownOK

-----------------------------------------------------------------------------
(* Which route is found.                                                   *)

LEMMA MaxIs ==
  ASSUME NEW n \in Nat, NEW S, S \subseteq 0..n, S # {}
  PROVE  Max(S) \in S /\ \A y \in S : y <= Max(S)
<1> DEFINE D(x) == {y \in S : y > x}
           F == {D(x) : x \in S}
           R == StrictSubsetOrdering(S)
<1>1. F \subseteq FiniteSubsetsOf(S) /\ F # {}
  <2>1. IsFiniteSet(S)
    <3>1. IsFiniteSet(0..n)
      BY FS_Interval
    <3> QED BY <3>1, FS_Subset
  <2>2. \A x \in S : D(x) \subseteq S /\ IsFiniteSet(D(x))
    BY <2>1, FS_Subset
  <2> QED BY <2>2 DEF FiniteSubsetsOf
<1>2. IsWellFoundedOn(R, FiniteSubsetsOf(S))
  BY FS_StrictSubsetOrderingWellFounded
<1> HIDE DEF R
<1>3. \E d \in F : \A e \in F : ~(<<e, d>> \in R)
  <2> HIDE DEF F
  <2> QED BY <1>1, <1>2, WFMin
<1>4. PICK x \in S : \A y \in S : ~(<<D(y), D(x)>> \in R)
  BY <1>3
<1>5. ASSUME NEW y \in S, y > x PROVE FALSE
  <2>1. x \in Int /\ y \in Int /\ \A z \in S : z \in Int
    OBVIOUS
  <2>2. D(y) \subseteq D(x) /\ y \in D(x) /\ y \notin D(y)
    <3>1. \A z \in S : z > y => z > x
      BY <1>5, <2>1
    <3>2. ~(y > y)
      BY <2>1
    <3> QED BY <1>5, <3>1, <3>2
  <2>3. D(y) \in SUBSET S /\ D(x) \in SUBSET S /\ D(y) # D(x)
    BY <2>2
  <2>4. <<D(y), D(x)>> \in R
    BY <2>2, <2>3 DEF R, StrictSubsetOrdering
  <2> QED BY <1>4, <2>4
<1>6. \A y \in S : x >= y
  <2>1. \A y \in S : y \in Int
    OBVIOUS
  <2> QED BY <1>5, <2>1
<1>7. PICK m : m = Max(S)
  OBVIOUS
<1>8. m \in S /\ \A y \in S : m >= y
  BY <1>6, <1>7 DEF Max
<1> QED BY <1>7, <1>8


LEMMA MinIs ==
  ASSUME NEW K \in SUBSET Nat, K # {}
  PROVE  Min(K) \in K /\ \A m \in K : Min(K) <= m
<1>1. PICK n \in K : TRUE
  OBVIOUS
<1>2. n \in Nat
  OBVIOUS
<1>3. PICK S : S = {n - m : m \in {x \in K : x <= n}}
  OBVIOUS
<1>4. S \subseteq 0..n /\ S # {}
  <2>1. ASSUME NEW s \in S PROVE s \in 0..n
    <3>1. PICK m \in K : m <= n /\ s = n - m
      BY <1>3
    <3>2. m \in Nat
      OBVIOUS
    <3> QED BY <3>1, <3>2, <1>2
  <2>2. n - n \in S
    BY <1>1, <1>2, <1>3
  <2> QED BY <2>1, <2>2
<1>5. PICK g : g = Max(S)
  OBVIOUS
<1>6. g \in S /\ \A y \in S : y <= g
  BY <1>2, <1>4, <1>5, MaxIs
<1>7. PICK i \in K : i <= n /\ g = n - i
  BY <1>3, <1>6
<1>8. ASSUME NEW m \in K PROVE i <= m
  <2>1. i \in Nat /\ m \in Nat /\ n \in Nat
    BY <1>2
  <2>2. CASE m <= n
    <3>1. n - m \in S
      BY <2>2, <1>3
    <3>2. n - m <= n - i
      BY <3>1, <1>6, <1>7
    <3> QED BY <3>2, <2>1
  <2>3. CASE ~(m <= n)
    BY <2>1, <2>3, <1>7
  <2> QED BY <2>2, <2>3
<1>9. \E k \in K : \A m \in K : k <= m
  BY <1>8
<1> QED BY <1>9 DEF Min

\* Prefixes and suffixes, place by place.
LEMMA PrefixIs ==
  ASSUME NEW S, NEW s \in Seq(S), NEW t \in Seq(S)
  PROVE  /\ IsPrefix(s, t) => Len(s) <= Len(t) /\ \A i \in 1..Len(s) : s[i] = t[i]
         /\ Len(s) <= Len(t) /\ (\A i \in 1..Len(s) : s[i] = t[i]) => IsPrefix(s, t)
<1>1. Len(s) \in Nat /\ Len(t) \in Nat
  OBVIOUS
<1>2. /\ SubSeq(s, 1, Len(s)) \in Seq(S) /\ Len(SubSeq(s, 1, Len(s))) = Len(s)
      /\ \A i \in 1..Len(s) : SubSeq(s, 1, Len(s))[i] = s[i]
  BY <1>1, SubSeqProperties, SubSeqFull
<1>3. ASSUME Len(s) <= Len(t)
      PROVE  /\ SubSeq(t, 1, Len(s)) \in Seq(S) /\ Len(SubSeq(t, 1, Len(s))) = Len(s)
             /\ \A i \in 1..Len(s) : SubSeq(t, 1, Len(s))[i] = t[i]
  BY <1>1, <1>3
<1>4. ASSUME Len(s) <= Len(t), \A i \in 1..Len(s) : s[i] = t[i]
      PROVE  SubSeq(s, 1, Len(s)) = SubSeq(t, 1, Len(s))
  <2>1. PICK a, b : a = SubSeq(s, 1, Len(s)) /\ b = SubSeq(t, 1, Len(s))
    OBVIOUS
  <2>2. /\ a \in Seq(S) /\ b \in Seq(S) /\ Len(a) = Len(s) /\ Len(b) = Len(s)
        /\ \A i \in 1..Len(a) : a[i] = b[i]
    BY <1>2, <1>3, <1>4, <2>1
  <2>3. a = b
    BY <2>2, SeqEqual
  <2> QED BY <2>1, <2>3
<1>5. ASSUME Len(s) <= Len(t), SubSeq(s, 1, Len(s)) = SubSeq(t, 1, Len(s))
      PROVE  \A i \in 1..Len(s) : s[i] = t[i]
  <2>1. ASSUME NEW i \in 1..Len(s) PROVE s[i] = t[i]
    <3>1. SubSeq(s, 1, Len(s))[i] = s[i]
      BY <1>2
    <3>2. SubSeq(t, 1, Len(s))[i] = t[i]
      BY <1>3, <1>5
    <3> QED BY <1>5, <3>1, <3>2
  <2> QED BY <2>1
<1> QED BY <1>4, <1>5 DEF IsPrefix

LEMMA ReverseIs ==
  ASSUME NEW S, NEW s \in Seq(S)
  PROVE  /\ Reverse(s) \in Seq(S) /\ Len(Reverse(s)) = Len(s)
         /\ \A i \in 1..Len(s) : Reverse(s)[i] = s[(Len(s) - i) + 1]
<1>1. PICK n \in Nat : n = Len(s)
  OBVIOUS
<1>2. \A i \in 1..n : s[(n - i) + 1] \in S
  BY <1>1
<1>3. Reverse(s) = [i \in 1..n |-> s[(n - i) + 1]]
  BY <1>1 DEF Reverse
<1> QED BY <1>1, <1>2, <1>3

LEMMA SuffixIs ==
  ASSUME NEW S, NEW s \in Seq(S), NEW t \in Seq(S)
  PROVE  IsSuffix(s, t) <=> /\ Len(s) <= Len(t)
                            /\ \A i \in 1..Len(s) : s[i] = t[(Len(t) - Len(s)) + i]
<1>1. PICK a, b : a = Reverse(s) /\ b = Reverse(t)
  OBVIOUS
<1>2. PICK m, n \in Nat : m = Len(s) /\ n = Len(t)
  OBVIOUS
<1>3. /\ a \in Seq(S) /\ Len(a) = m /\ \A i \in 1..m : a[i] = s[(m - i) + 1]
      /\ b \in Seq(S) /\ Len(b) = n /\ \A i \in 1..n : b[i] = t[(n - i) + 1]
  BY <1>1, <1>2, ReverseIs
<1>4. IsSuffix(s, t) <=> m <= n /\ \A i \in 1..m : a[i] = b[i]
  <2>1. IsPrefix(a, b) <=> Len(a) <= Len(b) /\ \A i \in 1..Len(a) : a[i] = b[i]
    <3>1. a \in Seq(S) /\ b \in Seq(S)
      BY <1>3
    <3> QED BY <3>1, PrefixIs
  <2>2. IsSuffix(s, t) <=> IsPrefix(a, b)
    BY <1>1, Zenon DEF IsSuffix
  <2> QED BY <1>3, <2>1, <2>2
<1>5. ASSUME m <= n, \A i \in 1..m : a[i] = b[i], NEW i \in 1..m PROVE s[i] = t[(n - m) + i]
  <2>0. m \in Nat /\ i \in 1..m
    BY <1>2
  <2>1. PICK j \in 1..m : j = (m - i) + 1
    BY <2>0
  <2>2. a[j] = s[i] /\ b[j] = t[(n - m) + i] /\ a[j] = b[j]
    <3>1. (m - j) + 1 = i /\ (n - j) + 1 = (n - m) + i /\ j \in 1..n
      <4>1. m <= n /\ n \in Nat
        BY <1>2, <1>5
      <4> QED BY <2>0, <2>1, <4>1
    <3> QED BY <1>3, <1>5, <3>1
  <2> QED BY <2>2
<1>6. ASSUME m <= n, \A i \in 1..m : s[i] = t[(n - m) + i], NEW i \in 1..m PROVE a[i] = b[i]
  <2>0. m \in Nat /\ i \in 1..m
    BY <1>2
  <2>1. PICK j \in 1..m : j = (m - i) + 1
    BY <2>0
  <2>2. (n - i) + 1 = (n - m) + j /\ i \in 1..n
    BY <1>2, <1>6, <2>1
  <2>3. a[i] = s[j] /\ b[i] = t[(n - m) + j]
    BY <1>3, <2>1, <2>2
  <2> QED BY <1>6, <2>3
<1> QED BY <1>2, <1>4, <1>5, <1>6

LEMMA LowerIs ==
  ASSUME NEW d \in Dom
  PROVE  /\ ToLower(d) \in Dom /\ Len(ToLower(d)) = Len(d) /\ Len(d) \in Nat \ {0}
         /\ \A i \in 1..Len(d) : ToLower(d)[i] = "*" <=> d[i] = "*"
<1>1. PICK n \in Nat \ {0} : n = Len(d)
  BY DEF Dom
<1>2. /\ DOMAIN d = 1..n /\ \A i \in 1..n : d[i] \in Word
  BY <1>1 DEF Dom
<1>3. PICK l : l = ToLower(d)
  OBVIOUS
<1>4. DOMAIN LowerOf = {"A", "B"} /\ LowerOf["A"] = "a" /\ LowerOf["B"] = "b"
  BY DEF LowerOf
<1>5. l = [i \in 1..n |-> IF d[i] \in DOMAIN LowerOf THEN LowerOf[d[i]] ELSE d[i]]
  BY <1>2, <1>3 DEF ToLower
<1>6. ASSUME NEW i \in 1..n PROVE l[i] \in Word /\ (l[i] = "*" <=> d[i] = "*")
  <2>1. d[i] \in Word /\ l[i] = IF d[i] \in DOMAIN LowerOf THEN LowerOf[d[i]] ELSE d[i]
    BY <1>2, <1>5
  <2>2. CASE d[i] = "A"
    <3>1. l[i] = "a"
      BY <1>4, <2>1, <2>2
    <3> QED BY <2>2, <3>1 DEF Word
  <2>3. CASE d[i] = "B"
    <3>1. l[i] = "b"
      BY <1>4, <2>1, <2>3
    <3> QED BY <2>3, <3>1 DEF Word
  <2>4. CASE d[i] # "A" /\ d[i] # "B"
    <3>1. l[i] = d[i]
      BY <1>4, <2>1, <2>4
    <3> QED BY <2>1, <3>1
  <2> QED BY <2>2, <2>3, <2>4
<1>7. l \in Seq(Word) /\ Len(l) = n
  BY <1>5, <1>6
<1>8. l # <<>>
  BY <1>1, <1>7
<1> QED BY <1>1, <1>3, <1>6, <1>7, <1>8 DEF Dom

\* Of two beginnings of one path the longer one is greater.
LEMMA GreaterIs ==
  ASSUME NEW p \in Seq(Nat), NEW a \in Seq(Nat), NEW b \in Seq(Nat), IsPrefix(a, p), IsPrefix(b, p)
  PROVE  /\ Greater(a, b) <=> Len(a) > Len(b)
         /\ Len(a) = Len(b) => a = b
         /\ Len(a) \in 0..Len(p)
<1>1. PICK l, m, n \in Nat : l = Len(p) /\ m = Len(a) /\ n = Len(b)
  OBVIOUS
<1>2. m <= l /\ n <= l /\ (\A i \in 1..m : a[i] = p[i]) /\ (\A i \in 1..n : b[i] = p[i])
  <2>1. IsPrefix(a, p) <=> Len(a) <= Len(p) /\ \A i \in 1..Len(a) : a[i] = p[i]
    BY PrefixIs
  <2>2. IsPrefix(b, p) <=> Len(b) <= Len(p) /\ \A i \in 1..Len(b) : b[i] = p[i]
    BY PrefixIs
  <2> QED BY <1>1, <2>1, <2>2
<1>3. \A i \in 1..m : i \in 1..n => a[i] = b[i] /\ a[i] \in Nat
  BY <1>1, <1>2
<1>4. IsPrefix(b, a) <=> n <= m
  <2>1. IsPrefix(b, a) <=> n <= m /\ \A i \in 1..n : b[i] = a[i]
    <3>1. IsPrefix(b, a) <=> Len(b) <= Len(a) /\ \A i \in 1..Len(b) : b[i] = a[i]
      BY PrefixIs
    <3> QED BY <1>1, <3>1
  <2>2. n <= m => \A i \in 1..n : b[i] = a[i]
    BY <1>1, <1>2
  <2> QED BY <2>1, <2>2
<1>5. m = n => a = b
  <2>1. m = n => \A i \in 1..m : a[i] = b[i]
    BY <1>2
  <2> QED BY <1>1, <2>1, SeqEqual
<1>6. ~ \E i \in DOMAIN a \cap DOMAIN b : a[i] > b[i] /\ \A j \in 1..(i - 1) : a[j] = b[j]
  BY <1>1, <1>3
<1>7. Greater(a, b) <=> IsStrictPrefix(b, a)
  BY <1>6 DEF Greater
<1>8. IsStrictPrefix(b, a) <=> m > n
  <2>1. IsStrictPrefix(b, a) <=> n <= m /\ b # a
    BY <1>4 DEF IsStrictPrefix
  <2>2. b = a => m = n
    BY <1>1
  <2> QED BY <1>1, <1>5, <2>1, <2>2
<1> QED BY <1>1, <1>2, <1>5, <1>7, <1>8

\* The routes of a domain and a user that fit a path, and the longest of them.
Fits(R, h, p, u) == {r \in R : r.dom = h /\ r.user = u /\ IsPrefix(r.loc, p)}
LongestOf(F, got) ==
  IF F = {} THEN got = {}
  ELSE \E b \in F : got = {b} /\ \A o \in F \ {b} : Len(o.loc) < Len(b.loc)

LEMMA GetLockedIs ==
  ASSUME NEW R \in SUBSET Route, Apart(R), NEW h, NEW p \in Seq(Nat), NEW u
  PROVE  LongestOf(Fits(R, h, p, u), getLocked(R, h, p, u))
<1>1. PICK F, got : F = Fits(R, h, p, u) /\ got = getLocked(R, h, p, u)
  OBVIOUS
<1>2. got = {r \in F : \A s \in F : s = r \/ before(r, s)}
  BY <1>1 DEF getLocked, Fits
<1>3. ASSUME NEW a \in F, NEW b \in F
      PROVE  /\ before(a, b) <=> Len(a.loc) > Len(b.loc)
             /\ Len(a.loc) = Len(b.loc) => a = b
             /\ Len(a.loc) \in 0..Len(p)
  <2>1. /\ a \in R /\ b \in R /\ a.loc \in Seq(Nat) /\ b.loc \in Seq(Nat)
        /\ IsPrefix(a.loc, p) /\ IsPrefix(b.loc, p) /\ a.dom = b.dom /\ a.user = b.user
    BY <1>1 DEF Fits, Route
  <2>2. PICK x, y : x = a.loc /\ y = b.loc
    OBVIOUS
  <2>3. (Greater(x, y) <=> Len(x) > Len(y)) /\ (Len(x) = Len(y) => x = y) /\ Len(x) \in 0..Len(p)
    BY <2>1, <2>2, GreaterIs
  <2>4. a.loc = b.loc => a = b
    BY <2>1 DEF Apart
  <2> QED BY <2>2, <2>3, <2>4 DEF before
<1>4. CASE F = {}
  BY <1>1, <1>2, <1>4 DEF LongestOf
<1>5. CASE F # {}
  <2>1. PICK S : S = {Len(r.loc) : r \in F}
    OBVIOUS
  <2>2. S \subseteq 0..Len(p) /\ S # {} /\ Len(p) \in Nat
    BY <1>3, <1>5, <2>1
  <2>3. Max(S) \in S /\ \A y \in S : y <= Max(S)
    BY <2>2, MaxIs
  <2>4. PICK b \in F : \A a \in F : Len(a.loc) <= Len(b.loc)
    BY <2>1, <2>3
  <2>5. \A o \in F \ {b} : Len(o.loc) < Len(b.loc)
    BY <1>3, <2>4
  <2>6. \A a \in F : a # b => before(b, a) /\ ~before(a, b)
    <3>1. ASSUME NEW a \in F, a # b PROVE before(b, a) /\ ~before(a, b)
      <4>1. Len(a.loc) < Len(b.loc) /\ Len(a.loc) \in Nat /\ Len(b.loc) \in Nat
        BY <1>3, <2>5, <3>1
      <4> QED BY <1>3, <4>1
    <3> QED BY <3>1
  <2>7. got = {b}
    BY <1>2, <2>4, <2>6
  <2> QED BY <1>1, <1>5, <2>5, <2>7 DEF LongestOf
<1> QED BY <1>4, <1>5

\* The routes that a user may take, and the best: the user's own, and the longest of these.
Taken(R, h, p, u) == {r \in R : r.dom = h /\ r.user \in {u, ""} /\ IsPrefix(r.loc, p)}
OwnOf(F, u, got) ==
  IF F = {} THEN got = {}
  ELSE \E b \in F : got = {b} /\ \A o \in F \ {b} :
         (o.user # b.user => b.user = u) /\ (o.user = b.user => Len(o.loc) < Len(b.loc))

LEMMA GetExactIs ==
  ASSUME NEW R \in SUBSET Route, Apart(R), NEW h, NEW p \in Seq(Nat), NEW u
  PROVE  OwnOf(Taken(R, h, p, u), u, getExactOrAllUsers(R, h, p, u))
<1>1. PICK F, A, B : F = Taken(R, h, p, u) /\ A = Fits(R, h, p, u) /\ B = Fits(R, h, p, "")
  OBVIOUS
<1>2. PICK a, b, got : /\ a = getLocked(R, h, p, u) /\ b = getLocked(R, h, p, "")
                       /\ got = getExactOrAllUsers(R, h, p, u)
  OBVIOUS
<1>3. LongestOf(A, a)
  BY <1>1, <1>2, GetLockedIs
<1>4. PICK e : e = ""
  OBVIOUS
<1>5. LongestOf(B, b)
  <2>1. LongestOf(Fits(R, h, p, e), getLocked(R, h, p, e))
    BY GetLockedIs
  <2> QED BY <1>1, <1>2, <1>4, <2>1
<1>6. got = IF a # {} THEN a ELSE b
  BY <1>2 DEF getExactOrAllUsers
<1>7. F = A \cup B /\ (\A r \in A : r.user = u) /\ (\A r \in B : r.user = e)
  BY <1>1, <1>4 DEF Taken, Fits
<1>8. CASE A # {}
  <2>1. PICK x \in A : a = {x} /\ \A o \in A \ {x} : Len(o.loc) < Len(x.loc)
    BY <1>3, <1>8 DEF LongestOf
  <2>2. \A o \in F \ {x} : (o.user # x.user => x.user = u) /\ (o.user = x.user => Len(o.loc) < Len(x.loc))
    <3>1. x.user = u
      BY <1>7
    <3>2. \A o \in F : o.user = u => o \in A
      BY <1>1 DEF Taken, Fits
    <3> QED BY <2>1, <3>1, <3>2
  <2>3. got = {x} /\ x \in F /\ F # {}
    BY <1>6, <1>7, <2>1
  <2> QED BY <1>1, <1>2, <2>2, <2>3 DEF OwnOf
<1>9. CASE A = {}
  <2>1. a = {} /\ F = B /\ got = b
    BY <1>3, <1>6, <1>7, <1>9 DEF LongestOf
  <2>2. CASE B = {}
    BY <1>1, <1>2, <1>5, <2>1, <2>2 DEF LongestOf, OwnOf
  <2>3. CASE B # {}
    <3>1. PICK x \in B : b = {x} /\ \A o \in B \ {x} : Len(o.loc) < Len(x.loc)
      BY <1>5, <2>3 DEF LongestOf
    <3>2. \A o \in F \ {x} : o.user = x.user /\ Len(o.loc) < Len(x.loc)
      BY <1>7, <2>1, <3>1
    <3> QED BY <1>1, <1>2, <2>1, <3>1, <3>2 DEF OwnOf
  <2> QED BY <2>2, <2>3
<1> QED BY <1>8, <1>9

\* The wildcards that are tried for a host.
Wilds(h) == IF Len(h) < 3 THEN 0 ELSE Len(h) - 2
WildHost(h, k) == <<"*">> \o SubSeq(h, k + 1, Len(h))
All == <<"*">>

LEMMA WildIs ==
  ASSUME NEW h \in Dom, NEW k \in 1..Wilds(h)
  PROVE  /\ WildHost(h, k) \in Dom /\ Len(WildHost(h, k)) = (Len(h) - k) + 1 /\ WildHost(h, k)[1] = "*"
         /\ \A i \in 2..Len(WildHost(h, k)) : WildHost(h, k)[i] = h[(k + i) - 1]
         /\ Len(h) >= 3 /\ k <= Len(h) - 2
<1>1. PICK n \in Nat \ {0} : n = Len(h)
  BY DEF Dom
<1>2. n >= 3 /\ k \in 1..(n - 2)
  BY <1>1 DEF Wilds
<1>3. PICK t : t = SubSeq(h, k + 1, n)
  OBVIOUS
<1>4. t \in Seq(Word) /\ Len(t) = n - k /\ \A i \in 1..(n - k) : t[i] = h[k + i]
  <2>1. h \in Seq(Word) /\ k + 1 \in Int /\ k + 1 <= n /\ k + 1 >= 1
    BY <1>1, <1>2 DEF Dom
  <2>2. \A i \in (k + 1)..n : h[i] \in Word
    BY <1>1, <1>2, <2>1
  <2>3. /\ t \in Seq(Word) /\ Len(t) = (n - (k + 1)) + 1
        /\ \A i \in 1..((n - (k + 1)) + 1) : t[i] = h[((k + 1) + i) - 1]
    BY <1>1, <1>3, <2>1, <2>2, SubSeqProperties
  <2>4. (n - (k + 1)) + 1 = n - k /\ \A i \in 1..(n - k) : ((k + 1) + i) - 1 = k + i
    BY <1>1, <1>2
  <2> QED BY <2>3, <2>4
<1>5. <<"*">> \in Seq(Word)
  BY DEF Word
<1>6. PICK w : w = <<"*">> \o t
  OBVIOUS
<1>7. w \in Seq(Word) /\ Len(w) = (n - k) + 1 /\ w[1] = "*" /\ \A i \in 2..((n - k) + 1) : w[i] = t[i - 1]
  BY <1>2, <1>4, <1>5, <1>6
<1>8. \A i \in 2..((n - k) + 1) : w[i] = h[(k + i) - 1]
  <2>1. ASSUME NEW i \in 2..((n - k) + 1) PROVE w[i] = h[(k + i) - 1]
    <3>1. i - 1 \in 1..(n - k) /\ k + (i - 1) = (k + i) - 1
      BY <1>2
    <3>2. t[i - 1] = h[k + (i - 1)]
      BY <1>4, <3>1
    <3> QED BY <1>7, <3>1, <3>2
  <2> QED BY <2>1
<1>9. w \in Dom
  BY <1>2, <1>7 DEF Dom
<1> QED BY <1>1, <1>2, <1>3, <1>6, <1>7, <1>8, <1>9 DEF WildHost

LEMMA HostsAre ==
  ASSUME NEW h \in Dom
  PROVE  /\ Wilds(h) \in Nat /\ DOMAIN hosts(h) = 1..(Wilds(h) + 2)
         /\ hosts(h)[1] = h /\ hosts(h)[Wilds(h) + 2] = All
         /\ \A k \in 1..Wilds(h) : hosts(h)[k + 1] = WildHost(h, k)
<1>1. PICK n \in Nat \ {0} : n = Len(h)
  BY DEF Dom
<1>2. PICK m \in Nat : m = Wilds(h)
  <2>1. Wilds(h) = IF n < 3 THEN 0 ELSE n - 2
    BY <1>1 DEF Wilds
  <2>2. Wilds(h) \in Nat
    BY <2>1
  <2> QED BY <2>2
<1>3. PICK f : f = [k \in 1..m |-> WildHost(h, k)]
  OBVIOUS
<1>4. f \in Seq(Dom) /\ Len(f) = m /\ \A k \in 1..m : f[k] = WildHost(h, k)
  <2>1. \A k \in 1..m : WildHost(h, k) \in Dom
    BY <1>2, WildIs
  <2> QED BY <1>2, <1>3, <2>1
<1>5. PICK a : a = All
  OBVIOUS
<1>6. a \in Dom
  <2>1. a = <<"*">> /\ "*" \in Word
    BY <1>5 DEF All, Word
  <2> QED BY <2>1 DEF Dom
<1>7. hosts(h) = <<h>> \o f \o <<a>>
  BY <1>2, <1>3, <1>5 DEF hosts, Wilds, WildHost, All
<1>8. PICK s, t : s = <<h>> /\ t = <<a>>
  OBVIOUS
<1>9. s \in Seq(Dom) /\ t \in Seq(Dom) /\ Len(s) = 1 /\ Len(t) = 1 /\ s[1] = h /\ t[1] = a
  BY <1>6, <1>8
<1>10. PICK g : g = s \o f
  OBVIOUS
<1>11. g \in Seq(Dom) /\ Len(g) = m + 1 /\ g[1] = h /\ \A k \in 1..m : g[k + 1] = f[k]
  <2>1. /\ g \in Seq(Dom) /\ Len(g) = 1 + m
        /\ \A i \in 1..(1 + m) : g[i] = IF i <= 1 THEN s[i] ELSE f[i - 1]
    <3>1. /\ s \o f \in Seq(Dom) /\ Len(s \o f) = Len(s) + Len(f)
          /\ \A i \in 1..(Len(s) + Len(f)) : (s \o f)[i] = IF i <= Len(s) THEN s[i] ELSE f[i - Len(s)]
      BY <1>4, <1>9, ConcatProperties
    <3> QED BY <1>4, <1>9, <1>10, <3>1
  <2>2. \A k \in 1..m : g[k + 1] = f[k]
    <3>1. ASSUME NEW k \in 1..m PROVE g[k + 1] = f[k]
      <4>1. k + 1 \in 1..(1 + m) /\ ~(k + 1 <= 1) /\ (k + 1) - 1 = k
        BY <1>2
      <4> QED BY <2>1, <4>1
    <3> QED BY <3>1
  <2> QED BY <1>2, <1>9, <2>1, <2>2
<1>12. PICK r : r = g \o t
  OBVIOUS
<1>13. /\ r \in Seq(Dom) /\ Len(r) = m + 2
       /\ \A i \in 1..(m + 2) : r[i] = IF i <= m + 1 THEN g[i] ELSE t[i - (m + 1)]
  <2>1. /\ r \in Seq(Dom) /\ Len(r) = (m + 1) + 1
        /\ \A i \in 1..((m + 1) + 1) : r[i] = IF i <= m + 1 THEN g[i] ELSE t[i - (m + 1)]
    <3>1. /\ g \o t \in Seq(Dom) /\ Len(g \o t) = Len(g) + Len(t)
          /\ \A i \in 1..(Len(g) + Len(t)) : (g \o t)[i] = IF i <= Len(g) THEN g[i] ELSE t[i - Len(g)]
      BY <1>9, <1>11, ConcatProperties
    <3> QED BY <1>9, <1>11, <1>12, <3>1
  <2> QED BY <1>2, <2>1
<1>14. r[1] = h /\ r[m + 2] = a /\ \A k \in 1..m : r[k + 1] = f[k]
  <2>1. r[1] = h
    BY <1>2, <1>11, <1>13
  <2>2. r[m + 2] = a
    <3>1. m + 2 \in 1..(m + 2) /\ ~(m + 2 <= m + 1) /\ (m + 2) - (m + 1) = 1
      BY <1>2
    <3> QED BY <1>9, <1>13, <3>1
  <2>3. \A k \in 1..m : r[k + 1] = f[k]
    <3>1. ASSUME NEW k \in 1..m PROVE r[k + 1] = f[k]
      <4>1. k + 1 \in 1..(m + 2) /\ k + 1 <= m + 1
        BY <1>2
      <4> QED BY <1>11, <1>13, <4>1
    <3> QED BY <3>1
  <2> QED BY <2>1, <2>2, <2>3
<1>15. hosts(h) = r
  BY <1>7, <1>8, <1>10, <1>12
<1> QED BY <1>2, <1>4, <1>5, <1>13, <1>14, <1>15

\* What a wildcard has in common with the host.
LEMMA WildTail ==
  ASSUME NEW h \in Dom, NEW d \in Dom, Len(d) > 2, Len(d) <= Len(h)
  PROVE  /\ IsSuffix(Tail(d), h) =>
              \A i \in 2..Len(d) : d[i] = h[((Len(h) - Len(d)) + i)]
         /\ (\A i \in 2..Len(d) : d[i] = h[((Len(h) - Len(d)) + i)]) => IsSuffix(Tail(d), h)
<1>1. PICK m, n \in Nat : m = Len(d) /\ n = Len(h)
  BY DEF Dom
<1>2. d \in Seq(Word) /\ h \in Seq(Word) /\ d # <<>> /\ m > 2 /\ m <= n
  BY <1>1 DEF Dom
<1>3. PICK t : t = Tail(d)
  OBVIOUS
<1>4. t \in Seq(Word) /\ Len(t) = m - 1 /\ \A i \in 1..(m - 1) : t[i] = d[i + 1]
  BY <1>1, <1>2, <1>3, HeadTailProperties
<1>5. IsSuffix(t, h) <=> /\ Len(t) <= Len(h)
                         /\ \A i \in 1..Len(t) : t[i] = h[(Len(h) - Len(t)) + i]
  BY <1>2, <1>4, SuffixIs
<1>6. IsSuffix(t, h) <=> \A i \in 1..(m - 1) : t[i] = h[(n - (m - 1)) + i]
  BY <1>1, <1>2, <1>4, <1>5
<1>7. ASSUME IsSuffix(t, h), NEW i \in 2..m PROVE d[i] = h[(n - m) + i]
  <2>1. i - 1 \in 1..(m - 1) /\ (i - 1) + 1 = i /\ (n - (m - 1)) + (i - 1) = (n - m) + i
    BY <1>1
  <2>2. t[i - 1] = h[(n - (m - 1)) + (i - 1)] /\ t[i - 1] = d[(i - 1) + 1]
    BY <1>4, <1>6, <1>7, <2>1
  <2> QED BY <2>1, <2>2
<1>8. ASSUME \A i \in 2..m : d[i] = h[(n - m) + i] PROVE IsSuffix(t, h)
  <2>1. ASSUME NEW i \in 1..(m - 1) PROVE t[i] = h[(n - (m - 1)) + i]
    <3>1. i + 1 \in 2..m /\ (n - m) + (i + 1) = (n - (m - 1)) + i
      BY <1>1
    <3>2. d[i + 1] = h[(n - m) + (i + 1)]
      BY <1>8, <3>1
    <3> QED BY <1>4, <3>1, <3>2
  <2> QED BY <1>6, <2>1
<1> QED BY <1>1, <1>3, <1>7, <1>8

LEMMA CloseWild ==
  ASSUME NEW h \in Dom, NEW k \in 1..Wilds(h)
  PROVE  /\ WildHost(h, k) = h => closeness(WildHost(h, k), h) = Len(h) + 1
         /\ WildHost(h, k) # h => closeness(WildHost(h, k), h) = (Len(h) - k) + 1
<1>1. PICK d : d = WildHost(h, k)
  OBVIOUS
<1>2. /\ d \in Dom /\ Len(d) = (Len(h) - k) + 1 /\ d[1] = "*"
      /\ \A i \in 2..Len(d) : d[i] = h[(k + i) - 1]
      /\ Len(h) >= 3 /\ k <= Len(h) - 2
  BY <1>1, WildIs
<1>3. PICK m, n \in Nat : m = Len(d) /\ n = Len(h)
  <2>1. d \in Seq(Word) /\ h \in Seq(Word)
    BY <1>2 DEF Dom
  <2> QED BY <2>1
<1>4. m > 2 /\ m <= n /\ m = (n - k) + 1 /\ k \in Nat
  BY <1>2, <1>3
<1>5. \A i \in 2..m : (k + i) - 1 = (n - m) + i
  BY <1>3, <1>4
<1>6. \A i \in 2..m : d[i] = h[(n - m) + i]
  BY <1>2, <1>3, <1>5
<1>7. IsSuffix(Tail(d), h)
  BY <1>2, <1>3, <1>4, <1>6, WildTail
<1>8. d # <<"*">>
  <2>1. PICK a : a = <<"*">>
    OBVIOUS
  <2>2. Len(a) = 1
    BY <2>1
  <2>3. Len(d) # 1
    BY <1>3, <1>4
  <2> QED BY <2>1, <2>2, <2>3
<1>9. closeness(d, h) = IF d = h THEN n + 1 ELSE m
  BY <1>2, <1>3, <1>4, <1>7, <1>8 DEF closeness
<1> QED BY <1>1, <1>3, <1>4, <1>9

\* A domain that fits a host is one of those that are tried.
LEMMA FitIsTried ==
  ASSUME NEW h \in Dom, NEW d \in Dom, closeness(d, h) > 0
  PROVE  d = h \/ d = All \/ \E k \in 1..Wilds(h) : d = WildHost(h, k)
<1> SUFFICES ASSUME d # h, d # All PROVE \E k \in 1..Wilds(h) : d = WildHost(h, k)
  OBVIOUS
<1>1. PICK m, n \in Nat : m = Len(d) /\ n = Len(h)
  BY DEF Dom
<1>2. d[1] = "*" /\ m > 2 /\ m <= n /\ IsSuffix(Tail(d), h)
  <2>1. \/ d[1] = "*" /\ m > 2 /\ m <= n /\ IsSuffix(Tail(d), h)
        \/ closeness(d, h) = 0
    BY <1>1 DEF closeness, All
  <2> QED BY <2>1
<1>3. \A i \in 2..m : d[i] = h[(n - m) + i]
  BY <1>1, <1>2, WildTail
<1>4. PICK k : k = (n - m) + 1
  OBVIOUS
<1>5. k \in 1..Wilds(h) /\ (n - k) + 1 = m /\ \A i \in 2..m : (k + i) - 1 = (n - m) + i
  <2>1. Wilds(h) = n - 2
    BY <1>1, <1>2 DEF Wilds
  <2> QED BY <1>1, <1>2, <1>4, <2>1
<1>6. PICK w : w = WildHost(h, k)
  OBVIOUS
<1>7. w \in Dom /\ Len(w) = m /\ w[1] = "*" /\ \A i \in 2..m : w[i] = h[(k + i) - 1]
  BY <1>1, <1>5, <1>6, WildIs
<1>8. \A i \in 1..m : w[i] = d[i]
  <2>1. \A i \in 2..m : w[i] = d[i]
    BY <1>3, <1>5, <1>7
  <2>2. \A i \in 1..m : i = 1 \/ i \in 2..m
    BY <1>1
  <2> QED BY <1>2, <1>7, <2>1, <2>2
<1>9. w = d
  BY <1>1, <1>7, <1>8, SeqEqual DEF Dom
<1> QED BY <1>5, <1>6, <1>9

\* The domains are tried in the order of their closeness.
LEMMA HostsClose ==
  ASSUME NEW h \in Dom
  PROVE  /\ \A d \in Dom : closeness(d, h) > 0 <=> \E i \in DOMAIN hosts(h) : d = hosts(h)[i]
         /\ \A i, j \in DOMAIN hosts(h) : i <= j =>
              hosts(h)[i] = hosts(h)[j] \/ closeness(hosts(h)[j], h) < closeness(hosts(h)[i], h)
<1>1. PICK n \in Nat \ {0} : n = Len(h)
  BY DEF Dom
<1>2. PICK m, s : m = Wilds(h) /\ s = hosts(h)
  OBVIOUS
<1>3. /\ m \in Nat /\ DOMAIN s = 1..(m + 2) /\ s[1] = h /\ s[m + 2] = All
      /\ \A k \in 1..m : s[k + 1] = WildHost(h, k)
  BY <1>2, HostsAre
<1>4. m = (IF n < 3 THEN 0 ELSE n - 2)
  BY <1>1, <1>2 DEF Wilds
<1>5. closeness(h, h) = n + 1
  BY <1>1 DEF closeness
<1>6. All # h => closeness(All, h) = 1
  BY DEF closeness, All
<1>7. ASSUME NEW k \in 1..m
      PROVE  /\ s[k + 1] = h => closeness(s[k + 1], h) = n + 1
             /\ s[k + 1] # h => closeness(s[k + 1], h) = (n - k) + 1
             /\ s[k + 1] = h => k = 1
             /\ s[k + 1] # All /\ k <= n - 2 /\ n >= 3
  <2>1. PICK w : w = WildHost(h, k)
    OBVIOUS
  <2>2. s[k + 1] = w /\ k \in 1..Wilds(h)
    BY <1>2, <1>3, <2>1
  <2>3. Len(w) = (n - k) + 1 /\ k <= n - 2 /\ n >= 3
    BY <1>1, <2>1, <2>2, WildIs
  <2>4. w = h => k = 1
    BY <1>1, <1>3, <2>3
  <2>5. w # All
    <3>1. Len(All) = 1
      BY DEF All
    <3>2. Len(w) # 1
      BY <1>1, <1>3, <2>3
    <3> QED BY <3>1, <3>2
  <2>6. (w = h => closeness(w, h) = n + 1) /\ (w # h => closeness(w, h) = (n - k) + 1)
    BY <1>1, <2>1, <2>2, CloseWild
  <2> QED BY <2>2, <2>3, <2>4, <2>5, <2>6
<1>8. \A i \in 1..(m + 2) : i = 1 \/ i = m + 2 \/ \E k \in 1..m : i = k + 1
  <2>1. ASSUME NEW i \in 1..(m + 2), i # 1, i # m + 2 PROVE \E k \in 1..m : i = k + 1
    <3>1. i - 1 \in 1..m /\ i = (i - 1) + 1
      BY <1>3, <2>1
    <3> QED BY <3>1
  <2> QED BY <2>1
<1>9. ASSUME NEW d \in Dom PROVE closeness(d, h) > 0 <=> \E i \in 1..(m + 2) : d = s[i]
  <2>1. ASSUME closeness(d, h) > 0 PROVE \E i \in 1..(m + 2) : d = s[i]
    <3>1. d = h \/ d = All \/ \E k \in 1..m : d = WildHost(h, k)
      BY <1>2, <2>1, FitIsTried
    <3>2. 1 \in 1..(m + 2) /\ m + 2 \in 1..(m + 2) /\ \A k \in 1..m : k + 1 \in 1..(m + 2)
      BY <1>3
    <3> QED BY <1>3, <3>1, <3>2
  <2>2. ASSUME NEW i \in 1..(m + 2) PROVE closeness(s[i], h) > 0
    <3>1. CASE i = 1
      BY <1>1, <1>3, <1>5, <3>1
    <3>2. CASE i = m + 2
      BY <1>1, <1>3, <1>5, <1>6, <3>2
    <3>3. ASSUME NEW k \in 1..m, i = k + 1 PROVE closeness(s[i], h) > 0
      <4>1. closeness(s[k + 1], h) \in {n + 1, (n - k) + 1} /\ k <= n - 2
        BY <1>7
      <4> QED BY <1>1, <3>3, <4>1
    <3> QED BY <1>8, <3>1, <3>2, <3>3
  <2> QED BY <2>1, <2>2
<1>10. ASSUME NEW i \in 1..(m + 2), NEW j \in 1..(m + 2), i <= j
       PROVE  s[i] = s[j] \/ closeness(s[j], h) < closeness(s[i], h)
  <2>1. CASE s[j] = h
    <3>1. CASE i = 1
      BY <1>3, <2>1, <3>1
    <3>2. CASE i # 1
      <4>1. i = m + 2 => j = m + 2
        BY <1>3, <1>10
      <4>2. ASSUME NEW k \in 1..m, i = k + 1 PROVE s[i] = s[j]
        <5>1. j # m + 2
          <6>1. j = m + 2 => All = h
            BY <1>3, <2>1
          <6>2. Len(All) = 1
            BY DEF All
          <6>3. n >= 3
            BY <1>7
          <6> QED BY <1>1, <6>1, <6>2, <6>3
        <5>2. PICK l \in 1..m : j = l + 1
          BY <1>3, <1>8, <1>10, <3>2, <4>2, <5>1
        <5>3. l = 1
          BY <1>7, <2>1, <5>2
        <5> QED BY <1>10, <4>2, <5>2, <5>3
      <4> QED BY <1>8, <3>2, <4>1, <4>2
    <3> QED BY <3>1, <3>2
  <2>2. CASE s[j] # h /\ j = m + 2
    <3>1. closeness(s[j], h) = 1
      BY <1>3, <1>6, <2>2
    <3>2. CASE i = 1
      BY <1>1, <1>3, <1>5, <3>1, <3>2
    <3>3. CASE i = m + 2
      BY <2>2, <3>3
    <3>4. ASSUME NEW k \in 1..m, i = k + 1 PROVE closeness(s[j], h) < closeness(s[i], h)
      <4>1. closeness(s[k + 1], h) \in {n + 1, (n - k) + 1} /\ k <= n - 2
        BY <1>7
      <4> QED BY <1>1, <3>1, <3>4, <4>1
    <3> QED BY <1>8, <3>2, <3>3, <3>4
  <2>3. CASE s[j] # h /\ j # m + 2
    <3>1. PICK l \in 1..m : j = l + 1
      BY <1>3, <1>8, <2>3
    <3>2. closeness(s[j], h) = (n - l) + 1 /\ l <= n - 2
      BY <1>7, <2>3, <3>1
    <3>3. CASE i = 1
      BY <1>1, <1>3, <1>5, <3>2, <3>3
    <3>4. ASSUME NEW k \in 1..m, i = k + 1
          PROVE  s[i] = s[j] \/ closeness(s[j], h) < closeness(s[i], h)
      <4>1. closeness(s[k + 1], h) \in {n + 1, (n - k) + 1} /\ k <= l
        <5>1. k <= l
          BY <1>10, <3>1, <3>4
        <5> QED BY <1>7, <5>1
      <4>2. CASE k = l
        BY <3>1, <3>4, <4>2
      <4>3. CASE k # l
        BY <1>1, <3>2, <3>4, <4>1, <4>3
      <4> QED BY <4>2, <4>3
    <3>5. i # m + 2
      BY <1>3, <1>10, <2>3
    <3> QED BY <1>8, <3>3, <3>4, <3>5
  <2> QED BY <2>1, <2>2, <2>3
<1> QED BY <1>2, <1>3, <1>9, <1>10

\* The routes that fit, and the best of them.
Fitting(R, h, p, u) == {o \in R : /\ closeness(o.dom, h) > 0
                                  /\ o.user \in {u, ""} /\ IsPrefix(o.loc, p)}
Worse(o, b, h, u) ==
  \/ closeness(o.dom, h) < closeness(b.dom, h)
  \/ /\ o.dom = b.dom
     /\ o.user # b.user => b.user = u
     /\ o.user = b.user => Len(o.loc) < Len(b.loc)
BestOf(F, got, h, u) ==
  IF F = {} THEN got = {} ELSE \E b \in F : got = {b} /\ \A o \in F \ {b} : Worse(o, b, h, u)

\* Whatever routes there are, the route that is found is the best of those that fit
\* (router.go getByRoute).
LEMMA RouteIsBest ==
  ASSUME NEW R \in SUBSET Route, Apart(R), NEW host \in Dom, NEW p \in Seq(Nat), NEW u
  PROVE  BestOf(Fitting(R, ToLower(host), p, u), getByRoute(R, host, p, u), ToLower(host), u)
<1>1. PICK h \in Dom : h = ToLower(host)
  BY LowerIs
<1>2. PICK s : s = hosts(h)
  OBVIOUS
<1> DEFINE hit(i) == getExactOrAllUsers(R, s[i], p, u)
           took(i) == Taken(R, s[i], p, u)
<1>3. PICK hits : hits = {i \in DOMAIN s : hit(i) # {}}
  OBVIOUS
<1>4. PICK F, got : F = Fitting(R, h, p, u) /\ got = getByRoute(R, host, p, u)
  OBVIOUS
<1>5. got = IF hits = {} THEN {} ELSE hit(Min(hits))
  BY <1>1, <1>2, <1>3, <1>4 DEF getByRoute
<1>6. \A i \in DOMAIN s : OwnOf(took(i), u, hit(i))
  <2>1. ASSUME NEW i \in DOMAIN s PROVE OwnOf(took(i), u, hit(i))
    <3>1. PICK d : d = s[i]
      OBVIOUS
    <3>2. OwnOf(Taken(R, d, p, u), u, getExactOrAllUsers(R, d, p, u))
      BY GetExactIs
    <3> QED BY <3>1, <3>2
  <2> QED BY <2>1
<1>7. /\ \A d \in Dom : closeness(d, h) > 0 <=> \E i \in DOMAIN s : d = s[i]
      /\ \A i, j \in DOMAIN s : i <= j => s[i] = s[j] \/ closeness(s[j], h) < closeness(s[i], h)
      /\ DOMAIN s \subseteq Nat
  BY <1>1, <1>2, HostsClose, HostsAre
<1>8. \A o \in R : o.dom \in Dom
  BY DEF Route
<1>9. \A o : o \in F <=> \E i \in DOMAIN s : o \in took(i)
  BY <1>4, <1>7, <1>8 DEF Fitting, Taken
<1> HIDE DEF hit, took
<1>10. \A i \in DOMAIN s : hit(i) = {} <=> took(i) = {}
  BY <1>6 DEF OwnOf
<1>11. CASE hits = {}
  <2>1. F = {} /\ got = {}
    BY <1>3, <1>5, <1>9, <1>10, <1>11
  <2> QED BY <1>1, <1>4, <2>1 DEF BestOf
<1>12. CASE hits # {}
  <2>1. PICK i \in hits : i = Min(hits) /\ \A j \in hits : i <= j
    BY <1>3, <1>7, <1>12, MinIs
  <2>2. PICK b \in took(i) : got = {b} /\ \A o \in took(i) \ {b} :
             (o.user # b.user => b.user = u) /\ (o.user = b.user => Len(o.loc) < Len(b.loc))
    BY <1>3, <1>5, <1>6, <1>12, <2>1 DEF OwnOf
  <2>3. \A j \in DOMAIN s : \A o \in took(j) : o.dom = s[j]
    BY DEF took, Taken
  <2>4. \A j, k \in DOMAIN s : s[j] = s[k] => took(j) = took(k)
    BY DEF took
  <2>5. ASSUME NEW o \in F \ {b} PROVE Worse(o, b, h, u)
    <3>1. PICK j \in DOMAIN s : o \in took(j)
      BY <1>9
    <3>2. j \in hits /\ i \in DOMAIN s
      BY <1>3, <1>10, <3>1
    <3>3. s[i] = s[j] \/ closeness(s[j], h) < closeness(s[i], h)
      BY <1>7, <2>1, <3>2
    <3>4. o.dom = s[j] /\ b.dom = s[i]
      BY <2>2, <2>3, <3>1, <3>2
    <3>5. CASE s[i] = s[j]
      BY <2>2, <2>4, <2>5, <3>1, <3>2, <3>4, <3>5 DEF Worse
    <3>6. CASE s[i] # s[j]
      BY <3>3, <3>4, <3>6 DEF Worse
    <3> QED BY <3>5, <3>6
  <2>6. b \in F
    BY <1>3, <1>9, <2>1, <2>2
  <2> QED BY <1>1, <1>4, <2>2, <2>5, <2>6 DEF BestOf
<1> QED BY <1>11, <1>12

-----------------------------------------------------------------------------
(* The routes of frps: what a proxy asks for.                              *)

LEMMA WordIs ==
  /\ "" \in Word /\ "new" \in Word /\ \A x \in STRING : x \in Word
  /\ Domain \subseteq Dom /\ Seq(Domain) \subseteq Seq(Dom)
<1>1. "" \in Word /\ "new" \in Word
  BY DEF Word
<1>2. STRING \subseteq Word
  BY Zenon DEF Word
<1>3. Seq(STRING) \subseteq Seq(Word)
  BY <1>2, SeqMonotonic
<1>4. Domain \subseteq Dom
  BY <1>3 DEF Domain, Dom
<1>5. Seq(Domain) \subseteq Seq(Dom)
  BY <1>4, SeqMonotonic
<1> QED BY <1>1, <1>2, <1>4, <1>5

\* What the scene says of a proxy.
LEMMA ConfigIs ==
  ASSUME VhostSceneOK(vscene), NEW p \in Known
  PROVE  /\ p \in Pxy /\ cfg(p).kind \in Mux /\ cfg(p).user \in Word /\ cfg(p).key \in Word
         /\ cfg(p).doms \in Seq(Dom) /\ cfg(p).locs \in Seq(Seq(Nat)) /\ cfg(p).pools \subseteq Dom
         /\ cfg(p).kind = "https" => cfg(p).user = ""
         /\ ~Single(p) /\ cfg(p).kind # "http" =>
              \A i, j \in DOMAIN cfg(p).doms :
                 ToLower(cfg(p).doms[i]) = ToLower(cfg(p).doms[j]) => i = j
         /\ \A q \in Known : ~Single(p) /\ ~Single(q) => cfg(p).kind = cfg(q).kind
BY WordIs DEF VhostSceneOK, cfg, Known, Single

LEMMA DivIs ==
  ASSUME NEW l \in Nat, NEW n \in Nat \ {0}, NEW i \in 1..(l * n)
  PROVE  (i - 1) \div n \in 0..(l - 1) /\ (i - 1) % n \in 0..(n - 1)
<1>1. PICK q, r : q = (i - 1) \div n /\ r = (i - 1) % n
  OBVIOUS
<1>2. i - 1 \in Nat /\ i - 1 < l * n
  <2>1. l * n \in Nat
    OBVIOUS
  <2> QED BY <2>1
<1>3. q \in Int /\ r \in 0..(n - 1) /\ i - 1 = n * q + r
  BY <1>1, <1>2
<1>4. q >= 0
  BY <1>2, <1>3
<1>5. q < l
  BY <1>2, <1>3
<1> QED BY <1>1, <1>3, <1>4, <1>5

LEMMA AskedIs ==
  ASSUME VhostSceneOK(vscene), NEW p \in Known
  PROVE  /\ asked(p) \in Seq(Ask)
         /\ cfg(p).kind # "http" =>
              /\ Len(asked(p)) = Len(cfg(p).doms)
              /\ \A i \in 1..Len(asked(p)) : asked(p)[i] = <<cfg(p).doms[i], <<>> >>
<1>1. PICK d, m : d = cfg(p).doms /\ m = cfg(p).locs
  OBVIOUS
<1>2. d \in Seq(Dom) /\ m \in Seq(Seq(Nat))
  BY <1>1, ConfigIs
<1>3. PICK e : e = <<>>
  OBVIOUS
<1>4. e \in Seq(Nat)
  BY <1>3
<1>5. CASE cfg(p).kind # "http"
  <2>1. asked(p) = [i \in DOMAIN d |-> <<d[i], e>>]
    BY <1>1, <1>3, <1>5 DEF asked, askedDomains
  <2>2. PICK n \in Nat : DOMAIN d = 1..n /\ Len(d) = n
    BY <1>2
  <2>3. \A i \in 1..n : <<d[i], e>> \in Ask
    BY <1>2, <1>4, <2>2 DEF Ask
  <2>4. asked(p) \in Seq(Ask) /\ Len(asked(p)) = n /\ \A i \in 1..n : asked(p)[i] = <<d[i], e>>
    BY <2>1, <2>2, <2>3
  <2> QED BY <1>1, <1>3, <2>2, <2>4
<1>6. CASE cfg(p).kind = "http"
  <2>1. PICK locs : locs = IF m = <<>> THEN <<e>> ELSE m
    OBVIOUS
  <2>2. locs \in Seq(Seq(Nat)) /\ Len(locs) \in Nat \ {0}
    <3>1. CASE m = <<>>
      BY <1>4, <2>1, <3>1
    <3>2. CASE m # <<>>
      BY <1>2, <2>1, <3>2
    <3> QED BY <3>1, <3>2
  <2>3. PICK n \in Nat \ {0}, l \in Nat : n = Len(locs) /\ l = Len(d)
    BY <1>2, <2>2
  <2>4. asked(p) = [i \in 1..(l * n) |-> <<d[((i - 1) \div n) + 1], locs[((i - 1) % n) + 1]>>]
    BY <1>1, <1>3, <1>6, <2>1, <2>3 DEF asked, askedHTTP
  <2>5. ASSUME NEW i \in 1..(l * n)
        PROVE  <<d[((i - 1) \div n) + 1], locs[((i - 1) % n) + 1]>> \in Ask
    <3>1. PICK a, b : a = (i - 1) \div n /\ b = (i - 1) % n
      OBVIOUS
    <3>2. a \in 0..(l - 1) /\ b \in 0..(n - 1)
      BY <3>1, DivIs
    <3>3. a + 1 \in 1..l /\ b + 1 \in 1..n
      BY <3>2
    <3>4. d[a + 1] \in Dom /\ locs[b + 1] \in Seq(Nat)
      BY <1>2, <2>2, <2>3, <3>3
    <3> QED BY <3>1, <3>4 DEF Ask
  <2>6. l * n \in Nat
    OBVIOUS
  <2>7. PICK k \in Nat : k = l * n
    BY <2>6
  <2>8. asked(p) \in [1..k -> Ask]
    BY <2>4, <2>5, <2>7
  <2>9. asked(p) \in Seq(Ask)
    BY <2>8
  <2> QED BY <1>6, <2>9
<1> QED BY <1>5, <1>6

\* What a pool allows fits it.
LEMMA AllowedFits ==
  ASSUME NEW d \in Dom, NEW pools \in SUBSET Dom, domainAllowed(d, pools)
  PROVE  \E q \in pools :
           \/ q = <<"*">> \/ ToLower(q) = ToLower(d)
           \/ q[1] = "*" /\ Len(d) >= Len(q) /\ IsSuffix(Tail(ToLower(q)), ToLower(d))
<1>1. PICK l \in Dom : l = ToLower(d) /\ Len(l) = Len(d)
  BY LowerIs
<1>2. PICK q \in pools : LET w == ToLower(q) IN
        \/ w = <<"*">> \/ w = l
        \/ Len(w) > 1 /\ w[1] = "*" /\ l # Tail(w) /\ IsSuffix(Tail(w), l)
  BY <1>1 DEF domainAllowed
<1>3. PICK k : k = ToLower(q)
  OBVIOUS
<1>4. /\ k \in Dom /\ Len(k) = Len(q) /\ Len(q) \in Nat \ {0} /\ q \in Dom
      /\ \A i \in 1..Len(q) : k[i] = "*" <=> q[i] = "*"
  BY <1>3, LowerIs
<1>5. CASE k = <<"*">>
  <2>1. Len(q) = 1 /\ k[1] = "*"
    BY <1>4, <1>5
  <2>2. q[1] = "*"
    BY <1>4, <2>1
  <2>3. PICK a : a = <<"*">>
    OBVIOUS
  <2>4. q \in Seq(Word) /\ a \in Seq(Word) /\ Len(a) = 1 /\ a[1] = "*"
    <3>1. "*" \in Word
      BY DEF Word
    <3> QED BY <1>4, <2>3, <3>1 DEF Dom
  <2>5. q = a
    BY <2>1, <2>2, <2>4, SeqEqual
  <2> QED BY <2>3, <2>5
<1>6. CASE k = l
  BY <1>1, <1>3, <1>6
<1>7. CASE Len(k) > 1 /\ k[1] = "*" /\ l # Tail(k) /\ IsSuffix(Tail(k), l)
  <2>1. q[1] = "*" /\ k # <<>> /\ k \in Seq(Word) /\ l \in Seq(Word) /\ Len(l) \in Nat
    BY <1>1, <1>4, <1>7 DEF Dom
  <2>2. PICK t : t = Tail(k)
    OBVIOUS
  <2>3. t \in Seq(Word) /\ Len(t) = Len(k) - 1
    BY <2>1, <2>2, HeadTailProperties
  <2>4. Len(t) <= Len(l) /\ \A i \in 1..Len(t) : t[i] = l[(Len(l) - Len(t)) + i]
    BY <1>7, <2>1, <2>2, <2>3, SuffixIs
  <2>5. Len(t) # Len(l)
    <3> SUFFICES ASSUME Len(t) = Len(l) PROVE FALSE
      OBVIOUS
    <3>1. \A i \in 1..Len(t) : (Len(l) - Len(t)) + i = i
      BY <2>1
    <3>2. \A i \in 1..Len(t) : t[i] = l[i]
      BY <2>4, <3>1
    <3>3. t = l
      BY <2>1, <2>3, <3>2, SeqEqual
    <3> QED BY <1>7, <2>2, <3>3
  <2>6. Len(d) >= Len(q)
    BY <1>1, <1>4, <2>1, <2>3, <2>4, <2>5
  <2> QED BY <1>1, <1>3, <1>7, <2>1, <2>6
<1> QED BY <1>2, <1>3, <1>5, <1>6, <1>7

-----------------------------------------------------------------------------
(* The routes of frps: the invariant, and what follows from it.            *)

LEMMA VhostInvInit ==
  ASSUME NEW s, VhostSceneOK(s), VhostInit(s) PROVE VhostInv
<1>1. /\ vscene = s /\ pst = [p \in Pxy |-> Off] /\ rq = [r \in Req |-> NewReq]
      /\ routes = [m \in Mux |-> {}] /\ idle = {}
      /\ gcur = 0 /\ ginst = [i \in 1..MaxInst |-> NoInst] /\ gidx = 0
  BY DEF VhostInit
<1>2. VhostSceneOK(vscene)
  BY <1>1
<1>3. Off \in PxyState /\ Off.held = <<>> /\ Off.at = "off" /\ Off.h = 0
  <2>1. 0 \in 0..MaxInst
    <3>1. MaxInst \in Nat
      BY VhostAssumption DEF VhostAssumption
    <3> QED BY <3>1
  <2>2. <<>> \in Seq(Ask)
    OBVIOUS
  <2> QED BY <2>1, <2>2 DEF Off, PxyState
<1>4. NoInst \in GroupState /\ NoInst.members = <<>>
  <2>1. "" \in Word
    BY WordIs
  <2>2. <<>> \in Seq(Pxy)
    OBVIOUS
  <2> QED BY <2>1, <2>2 DEF NoInst, GroupState
<1>5. NewReq \in ReqState /\ NewReq.at = "new" /\ NewReq.rc = {}
  BY DEF NewReq, ReqState, ReqAt
<1>6. PxyTypes
  <2>1. gcur \in 0..MaxInst
    <3>1. MaxInst \in Nat
      BY VhostAssumption DEF VhostAssumption
    <3> QED BY <1>1, <3>1
  <2>2. pst \in [Pxy -> PxyState] /\ ginst \in [1..MaxInst -> GroupState]
    BY <1>1, <1>3, <1>4
  <2>3. routes \in [Mux -> SUBSET Route]
    BY <1>1
  <2> QED BY <2>1, <2>2, <2>3 DEF PxyTypes
<1>7. ReqTypes
  BY <1>1, <1>5 DEF ReqTypes
<1>8. AskedOK /\ HeldOK
  <2>1. \A p \in Pxy : pst[p] = Off
    BY <1>1
  <2>2. \A p \in Known : p \in Pxy
    BY <1>2, ConfigIs
  <2>3. \A p \in Known : pst[p].held = <<>> /\ pst[p].at = "off" /\ pst[p].h = 0
    BY <1>3, <2>1, <2>2
  <2>4. \A p \in Known : DOMAIN pst[p].held = {}
    BY <2>3
  <2>5. AskedOK
    BY <2>1, <2>3, <2>4 DEF AskedOK, NoLocs
  <2>6. HeldOK
    BY <2>3, <2>4 DEF HeldOK
  <2> QED BY <2>5, <2>6
<1>9. MembersOK /\ OwnerOK
  BY <1>1, <1>4 DEF MembersOK, OwnerOK
<1>10. RoutersOK
  BY <1>1 DEF RoutersOK, Apart
<1>11. TurnsOK
  <2>1. \A r \in Req : Turns(r)
    BY <1>1, <1>5 DEF Turns
  <2>2. {r \in Req : ~Turns(r)} = {}
    BY <2>1
  <2>3. Cardinality({r \in Req : ~Turns(r)}) = 0
    BY <2>2, FS_EmptySet
  <2> QED BY <1>1, <1>5, <2>3 DEF TurnsOK
<1>12. ShownOK
  BY <1>1, <1>2, <1>5 DEF ShownOK, VhostSceneOK
<1> QED BY <1>2, <1>6, <1>7, <1>8, <1>9, <1>10, <1>11, <1>12 DEF VhostInv

LEMMA MineIs ==
  ASSUME NEW p, NEW k, NEW payload, RouteFor(p, k, payload) \in routes[cfg(p).kind]
  PROVE  RouteFor(p, k, payload) \in Mine(p, k)
BY DEF RouteFor, Mine

LEMMA VhostInvSound == VhostInv => RoutesSound
<1> SUFFICES ASSUME VhostInv PROVE RoutesSound
  OBVIOUS
<1>1. /\ VhostSceneOK(vscene) /\ PxyTypes /\ ReqTypes /\ AskedOK /\ HeldOK /\ MembersOK /\ OwnerOK
      /\ RoutersOK /\ TurnsOK /\ ShownOK
  BY DEF VhostInv
<1>2. \A p \in Known : p \in Pxy /\ pst[p] \in PxyState /\ asked(p) \in Seq(Ask)
  BY <1>1, ConfigIs, AskedIs DEF PxyTypes
<1>3. VhostTypeOK
  <2>1. ASSUME NEW p \in Known
        PROVE  /\ pst[p].at \in {"off", "run", "on", "close", "done"} /\ pst[p].h \in 0..MaxInst
               /\ pst[p].at = "run" => pst[p].held \o pst[p].todo = asked(p)
    BY <1>1, <1>2 DEF PxyState, AskedOK
  <2>2. gidx \in 0..Cardinality(Req)
    <3>1. PICK S : S = {r \in Req : ~Turns(r)}
      OBVIOUS
    <3>2. IsFiniteSet(Req) /\ S \subseteq Req
      BY <3>1, VhostAssumption DEF VhostAssumption
    <3>3. Cardinality(S) <= Cardinality(Req) /\ Cardinality(S) \in Nat /\ Cardinality(Req) \in Nat
      BY <3>2, FS_Subset, FS_CardinalityType
    <3>4. gidx \in Nat /\ gidx <= Cardinality(S)
      BY <1>1, <3>1 DEF TurnsOK
    <3> QED BY <3>3, <3>4
  <2>3. \A r \in Req : rq[r].at \in ReqAt /\ rq[r].by \in Pxy \cup {""}
    BY <1>1 DEF ReqTypes, ReqState
  <2>4. gcur \in 0..MaxInst
    BY <1>1 DEF PxyTypes
  <2> QED BY <2>1, <2>2, <2>3, <2>4 DEF VhostTypeOK
<1>4. RoutesHeld
  <2>1. ASSUME NEW p \in Known, pst[p].at = "on", NEW i \in DOMAIN asked(p)
        PROVE  \E o \in Mine(p, asked(p)[i]) : Serving(p, o)
    <3>1. PICK q \in Seq(Ask) : q = asked(p) /\ pst[p].held = q /\ i \in DOMAIN q
      BY <1>1, <1>2, <2>1 DEF AskedOK
    <3>2. CASE Single(p)
      <4>1. RouteFor(p, q[i], p) \in Mine(p, q[i])
        BY <1>1, <3>1, <3>2, MineIs DEF HeldOK
      <4>2. Serving(p, RouteFor(p, q[i], p))
        BY DEF Serving, RouteFor
      <4> QED BY <3>1, <4>1, <4>2
    <3>3. CASE ~Single(p)
      <4>1. q # <<>>
        BY <3>1
      <4>2. /\ Len(q) = 1 /\ gcur # 0 /\ p \in ToSet(ginst[gcur].members)
            /\ RouteFor(p, q[1], Group(gcur)) \in routes[cfg(p).kind]
        BY <1>1, <3>1, <3>3, <4>1 DEF HeldOK
      <4>3. i = 1
        BY <3>1, <4>2
      <4>4. RouteFor(p, q[1], Group(gcur)) \in Mine(p, q[1])
        BY <4>2, MineIs
      <4>5. Serving(p, RouteFor(p, q[1], Group(gcur)))
        BY <4>2 DEF Serving, RouteFor
      <4> QED BY <3>1, <4>3, <4>4, <4>5
    <3> QED BY <3>2, <3>3
  <2> QED BY <2>1 DEF RoutesHeld
<1>5. NoStrayRoute
  <2>1. ASSUME NEW p \in Known, NEW i \in DOMAIN pst[p].held PROVE pst[p].at \in {"run", "on", "close"}
    <3>1. pst[p].held # <<>>
      BY <2>1
    <3> QED BY <1>1, <1>2, <3>1 DEF AskedOK, PxyState
  <2>2. ASSUME NEW m \in Mux, NEW o \in routes[m]
        PROVE  \E p \in Known : /\ Serving(p, o) /\ pst[p].at \in {"run", "on", "close"}
                                /\ \E i \in DOMAIN pst[p].held : o \in Mine(p, pst[p].held[i])
    <3>1. CASE /\ o.payload \in Known /\ Single(o.payload) /\ m = cfg(o.payload).kind
               /\ \E i \in DOMAIN pst[o.payload].held :
                    o = RouteFor(o.payload, pst[o.payload].held[i], o.payload)
      <4>1. PICK p \in Known : p = o.payload
        BY <3>1
      <4>2. PICK i \in DOMAIN pst[p].held : o = RouteFor(p, pst[p].held[i], p)
        BY <3>1, <4>1
      <4>3. o \in Mine(p, pst[p].held[i])
        BY <2>2, <3>1, <4>1, <4>2, MineIs
      <4> QED BY <2>1, <4>1, <4>2, <4>3 DEF Serving
    <3>2. CASE /\ gcur # 0 /\ o.payload = Group(gcur) /\ o \in ginst[gcur].route
               /\ \E p \in ToSet(ginst[gcur].members) : m = cfg(p).kind
      <4>1. PICK p \in ToSet(ginst[gcur].members) : m = cfg(p).kind
        BY <3>2
      <4>2. p \in Known /\ ~Single(p) /\ pst[p].held # <<>>
        BY <1>1, <3>2, <4>1 DEF MembersOK
      <4>3. Len(pst[p].held) = 1 /\ ginst[gcur].route = {RouteFor(p, pst[p].held[1], Group(gcur))}
        BY <1>1, <4>2 DEF HeldOK
      <4>4. o = RouteFor(p, pst[p].held[1], Group(gcur))
        BY <3>2, <4>3
      <4>5. o \in Mine(p, pst[p].held[1])
        BY <2>2, <4>1, <4>4, MineIs
      <4>6. 1 \in DOMAIN pst[p].held
        <5>1. pst[p].held \in Seq(Ask)
          BY <1>2, <4>2 DEF PxyState
        <5> QED BY <4>3, <5>1
      <4> QED BY <2>1, <3>2, <4>1, <4>2, <4>5, <4>6 DEF Serving
    <3> QED BY <1>1, <2>2, <3>1, <3>2 DEF OwnerOK
  <2> QED BY <2>2 DEF NoStrayRoute
<1>6. RoutedBest
  <2>1. ASSUME NEW ask \in vscene.probes
        PROVE  BestOf(Fitting(routes["http"], ToLower(ask.host), ask.path, ask.user),
                      getByRoute(routes["http"], ask.host, ask.path, ask.user),
                      ToLower(ask.host), ask.user)
    <3>1. PICK R : R = routes["http"]
      OBVIOUS
    <3>2. R \in SUBSET Route /\ Apart(R)
      BY <1>1, <3>1 DEF PxyTypes, RoutersOK, Mux
    <3>3. PICK h, p, u : h = ask.host /\ p = ask.path /\ u = ask.user
      OBVIOUS
    <3>4. h \in Dom /\ p \in Seq(Nat)
      BY <1>1, <3>3, WordIs DEF VhostSceneOK
    <3>5. BestOf(Fitting(R, ToLower(h), p, u), getByRoute(R, h, p, u), ToLower(h), u)
      BY <3>2, <3>4, RouteIsBest
    <3> QED BY <3>1, <3>3, <3>5
  <2> QED BY <2>1, Zenon DEF RoutedBest, BestOf, Fitting, Worse
<1>7. PoolsKept
  <2>1. ASSUME NEW p \in Known, cfg(p).kind # "tcpmux", pst[p].at \in {"run", "on"},
               NEW d \in ToSet(cfg(p).doms)
        PROVE  \E q \in cfg(p).pools :
                 \/ q = <<"*">> \/ ToLower(q) = ToLower(d)
                 \/ q[1] = "*" /\ Len(d) >= Len(q) /\ IsSuffix(Tail(ToLower(q)), ToLower(d))
    <3>1. PICK i \in DOMAIN cfg(p).doms : d = cfg(p).doms[i]
      BY DEF ToSet
    <3>2. d \in Dom /\ cfg(p).pools \in SUBSET Dom
      <4>1. cfg(p).doms \in Seq(Dom) /\ cfg(p).pools \in SUBSET Dom
        BY <1>1, ConfigIs
      <4>2. PICK s : s = cfg(p).doms
        OBVIOUS
      <4>3. s \in Seq(Dom) /\ i \in DOMAIN s /\ d = s[i]
        BY <3>1, <4>1, <4>2
      <4> QED BY <4>1, <4>3
    <3>3. domainAllowed(d, cfg(p).pools)
      BY <1>1, <2>1, <3>1 DEF AskedOK, Allowed, validateUserDomains
    <3> QED BY <3>2, <3>3, AllowedFits
  <2> QED BY <2>1 DEF PoolsKept
<1>8. CredentialsAsked
  <2>1. ASSUME NEW r \in Req, rq[r].at = "served", req(r).kind = "http", NEW o \in rq[r].rc,
               o.payload = rq[r].by, cfg(rq[r].by).cred # NoCred
        PROVE  cfg(rq[r].by).cred = IF req(r).proxied THEN req(r).proxyAuth ELSE req(r).auth
    <3>1. r \in DOMAIN vscene.req
      BY <1>1, <2>1 DEF TurnsOK
    <3>2. o.payload \in Known
      BY <1>1, <2>1 DEF ReqTypes
    <3>3. checkRouteAuth(req(r), cfg(o.payload).cred)
      BY <1>1, <2>1, <3>1, <3>2 DEF ShownOK
    <3> QED BY <2>1, <3>3 DEF checkRouteAuth
  <2> QED BY <2>1 DEF CredentialsAsked
<1> QED BY <1>3, <1>4, <1>5, <1>6, <1>7, <1>8 DEF RoutesSound

-----------------------------------------------------------------------------
(* The routes of frps: requests.                                           *)

PxyParts ==
  VhostSceneOK(vscene) /\ PxyTypes /\ AskedOK /\ HeldOK /\ MembersOK /\ OwnerOK /\ RoutersOK

LEMMA SceneSame ==
  vscene' = vscene =>
    /\ Known' = Known /\ (VhostSceneOK(vscene) => VhostSceneOK(vscene)')
    /\ \A p : cfg(p)' = cfg(p) /\ asked(p)' = asked(p) /\ (Allowed(p) => Allowed(p)')
              /\ (Single(p)' <=> Single(p))
<1> SUFFICES ASSUME vscene' = vscene
             PROVE  /\ Known' = Known /\ (VhostSceneOK(vscene) => VhostSceneOK(vscene)')
                    /\ \A p : cfg(p)' = cfg(p) /\ asked(p)' = asked(p) /\ (Allowed(p) => Allowed(p)')
                              /\ (Single(p)' <=> Single(p))
  OBVIOUS
<1>1. Known' = Known /\ \A p : cfg(p)' = cfg(p)
  BY DEF Known, cfg
<1>2. VhostSceneOK(vscene) => VhostSceneOK(vscene)'
  BY DEF VhostSceneOK
<1>3. \A p : asked(p)' = asked(p)
  BY <1>1 DEF asked, askedHTTP, askedDomains
<1>4. \A p : Allowed(p) => Allowed(p)'
  BY <1>1 DEF Allowed
<1>5. \A p : Single(p)' <=> Single(p)
  BY <1>1 DEF Single
<1> QED BY <1>1, <1>2, <1>3, <1>4, <1>5

\* Requests leave the proxies and their routes alone.
LEMMA PxyPartsSame == PxyParts /\ UNCHANGED <<vscene, vpxyVars>> => PxyParts'
<1> SUFFICES ASSUME PxyParts, UNCHANGED <<vscene, vpxyVars>> PROVE PxyParts'
  OBVIOUS
<1>1. UNCHANGED <<vscene, pst, routes, shut, gcur, ginst>>
  BY DEF vpxyVars
<1>2. /\ Known' = Known /\ VhostSceneOK(vscene)'
      /\ \A p : cfg(p)' = cfg(p) /\ asked(p)' = asked(p) /\ (Allowed(p) => Allowed(p)')
                /\ (Single(p)' <=> Single(p))
  BY SceneSame DEF PxyParts
<1>3. PxyTypes' /\ RoutersOK'
  BY <1>1 DEF PxyParts, PxyTypes, RoutersOK
<1>4. AskedOK'
  BY <1>1, <1>2 DEF PxyParts, AskedOK, NoLocs
<1>5. HeldOK'
  BY <1>1, <1>2 DEF PxyParts, HeldOK, RouteFor
<1>6. MembersOK'
  BY <1>1, <1>2 DEF PxyParts, MembersOK
<1>7. OwnerOK'
  BY <1>1, <1>2 DEF PxyParts, OwnerOK, RouteFor
<1> QED BY <1>2, <1>3, <1>4, <1>5, <1>6, <1>7 DEF PxyParts

LEMMA InvParts == VhostInv <=> PxyParts /\ ReqTypes /\ TurnsOK /\ ShownOK
BY DEF VhostInv, PxyParts

\* The requests whose turn has been.
Spent == {r \in Req : ~Turns(r)}
TurnAt(r) == IF r \in DOMAIN vscene.req /\ req(r).connect THEN "dial" ELSE "rewrite"

LEMMA TurnsIs == \A r : Turns(r) <=> rq[r].at \in {"new", TurnAt(r)}
BY DEF Turns, TurnAt

\* A step of a request.
LEMMA ReqKeeps ==
  ASSUME NEW r \in Req, NEW x \in ReqState
  PROVE  VhostInv /\ UNCHANGED <<vscene, vpxyVars>> /\ rq' = [rq EXCEPT ![r] = x]
         /\ (\A c \in idle' : c.by \in Pxy) /\ r \in DOMAIN vscene.req
         /\ (x.at = "served" => x.by \in Pxy)
         /\ (\A o \in x.rc : o.payload \in Pxy => o.payload \in Known)
         /\ (x.at = "rewrite" => ~req(r).connect) /\ gidx' \in {gidx, gidx + 1}
         /\ (gidx' # gidx => Turns(r))
         /\ (gidx' # gidx \/ ~Turns(r) => x.at \notin {"new", TurnAt(r)})
         /\ (req(r).kind = "http" /\ x.at \notin {"new", "401"} =>
               \A o \in x.rc : o.payload \in Known => checkRouteAuth(req(r), cfg(o.payload).cred))
         => VhostInv'
<1> SUFFICES ASSUME VhostInv, UNCHANGED <<vscene, vpxyVars>>, rq' = [rq EXCEPT ![r] = x],
                    \A c \in idle' : c.by \in Pxy, r \in DOMAIN vscene.req,
                    x.at = "served" => x.by \in Pxy,
                    \A o \in x.rc : o.payload \in Pxy => o.payload \in Known,
                    x.at = "rewrite" => ~req(r).connect, gidx' \in {gidx, gidx + 1},
                    gidx' # gidx => Turns(r),
                    gidx' # gidx \/ ~Turns(r) => x.at \notin {"new", TurnAt(r)},
                    req(r).kind = "http" /\ x.at \notin {"new", "401"} =>
                      \A o \in x.rc : o.payload \in Known => checkRouteAuth(req(r), cfg(o.payload).cred)
             PROVE  VhostInv'
  OBVIOUS
<1>1. PxyParts /\ ReqTypes /\ TurnsOK /\ ShownOK
  BY InvParts
<1>2. PxyParts'
  BY <1>1, PxyPartsSame
<1>3. Known' = Known /\ (\A q : req(q)' = req(q) /\ cfg(q)' = cfg(q) /\ TurnAt(q)' = TurnAt(q))
      /\ DOMAIN (vscene.req)' = DOMAIN vscene.req
  BY DEF Known, req, cfg, TurnAt
<1>4. rq' \in [Req -> ReqState] /\ rq'[r] = x /\ \A q \in Req : q # r => rq'[q] = rq[q]
  BY <1>1 DEF ReqTypes
<1>5. ReqTypes'
  BY <1>1, <1>3, <1>4 DEF ReqTypes
<1>6. \A q \in Req : q # r => (Turns(q)' <=> Turns(q))
  BY <1>3, <1>4 DEF Turns
<1>7. Turns(r)' <=> x.at \in {"new", TurnAt(r)}
  BY <1>3, <1>4 DEF Turns, TurnAt
<1>8. TurnsOK'
  <2>1. IsFiniteSet(Spent) /\ Cardinality(Spent) \in Nat
    <3>1. IsFiniteSet(Req) /\ Spent \subseteq Req
      BY VhostAssumption DEF VhostAssumption, Spent
    <3> QED BY <3>1, FS_Subset, FS_CardinalityType
  <2>2. gidx \in Nat /\ gidx <= Cardinality(Spent)
    BY <1>1 DEF TurnsOK, Spent
  <2>3. gidx' \in Nat /\ gidx' <= Cardinality(Spent')
    <3>1. CASE Turns(r) /\ ~Turns(r)'
      <4>1. Spent' = Spent \cup {r} /\ r \notin Spent
        BY <1>6, <3>1 DEF Spent
      <4>2. Cardinality(Spent') = Cardinality(Spent) + 1
        BY <2>1, <4>1, FS_AddElement
      <4> QED BY <2>1, <2>2, <4>2
    <3>2. CASE ~(Turns(r) /\ ~Turns(r)')
      <4>1. gidx' = gidx /\ (Turns(r)' <=> Turns(r))
        BY <1>7, <3>2
      <4>2. Spent' = Spent
        BY <1>6, <4>1 DEF Spent
      <4> QED BY <2>2, <4>1, <4>2
    <3> QED BY <3>1, <3>2
  <2>4. \A q \in Req : /\ q \notin DOMAIN vscene.req => rq'[q].at = "new"
                       /\ rq'[q].at = "rewrite" => ~req(q).connect
    BY <1>1, <1>4 DEF TurnsOK
  <2> QED BY <1>3, <2>3, <2>4 DEF TurnsOK, Spent
<1>9. ShownOK'
  <2>1. ASSUME NEW q \in DOMAIN vscene.req, req(q).kind = "http", rq'[q].at \notin {"new", "401"},
               NEW o \in rq'[q].rc, o.payload \in Known
        PROVE  checkRouteAuth(req(q), cfg(o.payload).cred)
    <3>1. q \in Req
      BY <1>1 DEF PxyParts, VhostSceneOK
    <3>2. CASE q = r
      BY <1>4, <2>1, <3>2
    <3>3. CASE q # r
      BY <1>1, <1>4, <2>1, <3>1, <3>3 DEF ShownOK
    <3> QED BY <3>2, <3>3
  <2> QED BY <1>3, <2>1 DEF ShownOK, checkRouteAuth
<1> QED BY <1>2, <1>5, <1>8, <1>9 DEF VhostInv, PxyParts

\* What is found is routed, and belongs to a proxy of the scene or to the group.
LEMMA FoundIs ==
  ASSUME VhostInv, NEW r \in DOMAIN vscene.req
  PROVE  /\ r \in Req /\ found(r) \in SUBSET Route
         /\ \A o \in found(r) : o.payload \in Pxy => o.payload \in Known
<1>1. r \in Req /\ req(r).kind \in Mux
  BY DEF VhostInv, VhostSceneOK, req
<1>2. PICK R : R = routes[req(r).kind]
  OBVIOUS
<1>3. PICK h, p, u : h = req(r).host /\ p = req(r).path /\ u = getRequestRouteUser(req(r))
  OBVIOUS
<1>4. \A d, v : getLocked(R, d, p, v) \subseteq R
  BY DEF getLocked
<1>5. \A d : getExactOrAllUsers(R, d, p, u) \subseteq R
  BY <1>4 DEF getExactOrAllUsers
<1>6. getByRoute(R, h, p, u) \subseteq R
  BY <1>5 DEF getByRoute
<1>7. found(r) \subseteq R
  BY <1>2, <1>3, <1>6 DEF found
<1>8. R \in SUBSET Route
  BY <1>1, <1>2 DEF VhostInv, PxyTypes
<1>9. ASSUME NEW o \in R, o.payload \in Pxy PROVE o.payload \in Known
  <2>1. gcur # 0 => gcur \in 1..MaxInst
    <3>1. MaxInst \in Nat
      BY VhostAssumption DEF VhostAssumption
    <3>2. gcur \in 0..MaxInst
      BY DEF VhostInv, PxyTypes
    <3> QED BY <3>1, <3>2
  <2>2. gcur # 0 => o.payload # Group(gcur)
    BY <1>9, <2>1, VhostAssumption DEF VhostAssumption
  <2> QED BY <1>1, <1>2, <2>2 DEF VhostInv, OwnerOK
<1> QED BY <1>1, <1>7, <1>8, <1>9

\* Whose turn it is in a group.
LEMMA TurnIs ==
  ASSUME VhostInv, NEW i \in 1..MaxInst
  PROVE  turn(i) \in Pxy \cup {""}
<1>1. PICK m \in Seq(Pxy) : m = ginst[i].members
  BY DEF VhostInv, PxyTypes, GroupState
<1>2. CASE m = <<>>
  BY <1>1, <1>2 DEF turn
<1>3. CASE m # <<>>
  <2>1. PICK n \in Nat \ {0} : n = Len(m)
    BY <1>3
  <2>2. gidx \in Nat
    BY DEF VhostInv, TurnsOK
  <2>3. PICK j : j = (gidx + 1) % n
    OBVIOUS
  <2>4. j \in 0..(n - 1)
    BY <2>1, <2>2, <2>3
  <2>5. j + 1 \in 1..Len(m)
    BY <2>1, <2>4
  <2>6. m[j + 1] \in Pxy
    BY <2>5
  <2>7. turn(i) = m[j + 1]
    BY <1>1, <1>3, <2>1, <2>3 DEF turn
  <2> QED BY <2>6, <2>7
<1> QED BY <1>2, <1>3

\* The groups among routes, and the proxy of a route when there is none.
GroupsOf(o) == UNION {groupOf(x) : x \in o}
LEMMA GroupsAre ==
  ASSUME NEW o \in SUBSET Route
  PROVE  /\ GroupsOf(o) # {} => Max(GroupsOf(o)) \in 1..MaxInst
         /\ GroupsOf(o) = {} /\ o # {} => (CHOOSE x \in o : TRUE).payload \in Pxy
<1>1. PICK gs : gs = GroupsOf(o)
  OBVIOUS
<1>2. gs \subseteq 1..MaxInst
  BY <1>1 DEF GroupsOf, groupOf
<1>3. MaxInst \in Nat
  BY VhostAssumption DEF VhostAssumption
<1>4. gs # {} => Max(gs) \in 1..MaxInst
  <2>1. gs \subseteq 0..MaxInst
    BY <1>2, <1>3
  <2>2. gs # {} => Max(gs) \in gs
    BY <1>3, <2>1, MaxIs
  <2> QED BY <1>2, <2>2
<1>5. gs = {} /\ o # {} => (CHOOSE x \in o : TRUE).payload \in Pxy
  <2> SUFFICES ASSUME gs = {}, o # {} PROVE (CHOOSE x \in o : TRUE).payload \in Pxy
    OBVIOUS
  <2>1. PICK x : x = CHOOSE y \in o : TRUE
    OBVIOUS
  <2>2. x \in o /\ x \in Route
    BY <2>1
  <2>3. \A i \in 1..MaxInst : x.payload # Group(i)
    BY <1>1, <2>2 DEF GroupsOf, groupOf
  <2>4. x.payload \in Payload
    BY <2>2 DEF Route
  <2>5. x.payload \in Pxy
    BY <2>3, <2>4 DEF Payload
  <2> QED BY <2>1, <2>5
<1> QED BY <1>1, <1>4, <1>5

\* A request that has found its route goes on.
LEMMA ReqGoesOn ==
  ASSUME NEW r \in Req, NEW at \in ReqAt, NEW ep \in Pxy \cup {""}, NEW by \in Pxy \cup {""}
  PROVE  VhostInv /\ UNCHANGED <<vscene, vpxyVars>>
         /\ rq' = [rq EXCEPT ![r] = [at |-> at, rc |-> rq[r].rc, ep |-> ep, by |-> by]]
         /\ rq[r].at \notin {"new", "401"} /\ at \notin {"new", "401", "rewrite", TurnAt(r)}
         /\ (\A c \in idle' : c.by \in Pxy) /\ (at = "served" => by \in Pxy)
         /\ gidx' \in {gidx, gidx + 1} /\ (gidx' # gidx => Turns(r))
         => VhostInv'
<1> SUFFICES ASSUME VhostInv, UNCHANGED <<vscene, vpxyVars>>,
                    rq' = [rq EXCEPT ![r] = [at |-> at, rc |-> rq[r].rc, ep |-> ep, by |-> by]],
                    rq[r].at \notin {"new", "401"}, at \notin {"new", "401", "rewrite", TurnAt(r)},
                    \A c \in idle' : c.by \in Pxy, at = "served" => by \in Pxy,
                    gidx' \in {gidx, gidx + 1}, gidx' # gidx => Turns(r)
             PROVE  VhostInv'
  OBVIOUS
<1>1. ReqTypes /\ TurnsOK /\ ShownOK
  BY DEF VhostInv
<1>2. rq[r] \in ReqState
  BY <1>1 DEF ReqTypes
<1>3. PICK x \in ReqState : x = [at |-> at, rc |-> rq[r].rc, ep |-> ep, by |-> by]
  BY <1>2 DEF ReqState
<1>4. x.at = at /\ x.rc = rq[r].rc /\ x.by = by
  BY <1>3
<1>5. r \in DOMAIN vscene.req
  BY <1>1 DEF TurnsOK
<1>6. \A o \in x.rc : o.payload \in Pxy => o.payload \in Known
  BY <1>1, <1>4 DEF ReqTypes
<1>7. req(r).kind = "http" =>
        \A o \in x.rc : o.payload \in Known => checkRouteAuth(req(r), cfg(o.payload).cred)
  BY <1>1, <1>4, <1>5 DEF ShownOK
<1>8. rq' = [rq EXCEPT ![r] = x]
  BY <1>3
<1> QED BY <1>4, <1>5, <1>6, <1>7, <1>8, ReqKeeps

\* A request's record with some of its fields set.
LEMMA SetAt ==
  ASSUME NEW x \in ReqState, NEW a
  PROVE  [x EXCEPT !.at = a] = [at |-> a, rc |-> x.rc, ep |-> x.ep, by |-> x.by]
<1>1. PICK y : y = [x EXCEPT !.at = a]
  OBVIOUS
<1>2. y = [at |-> a, rc |-> x.rc, ep |-> x.ep, by |-> x.by]
  BY <1>1 DEF ReqState
<1> QED BY <1>1, <1>2

LEMMA SetAtBy ==
  ASSUME NEW x \in ReqState, NEW a, NEW b
  PROVE  [x EXCEPT !.at = a, !.by = b] = [at |-> a, rc |-> x.rc, ep |-> x.ep, by |-> b]
<1>1. PICK y : y = [x EXCEPT !.at = a]
  OBVIOUS
<1>2. y = [at |-> a, rc |-> x.rc, ep |-> x.ep, by |-> x.by]
  BY <1>1 DEF ReqState
<1>3. [y EXCEPT !.by = b] = [at |-> a, rc |-> x.rc, ep |-> x.ep, by |-> b]
  BY <1>2
<1>4. [x EXCEPT !.at = a, !.by = b] = [[x EXCEPT !.at = a] EXCEPT !.by = b]
  OBVIOUS
<1> QED BY <1>1, <1>3, <1>4

LEMMA SetAtEp ==
  ASSUME NEW x \in ReqState, NEW a, NEW b
  PROVE  [x EXCEPT !.at = a, !.ep = b] = [at |-> a, rc |-> x.rc, ep |-> b, by |-> x.by]
<1>1. PICK y : y = [x EXCEPT !.at = a]
  OBVIOUS
<1>2. y = [at |-> a, rc |-> x.rc, ep |-> x.ep, by |-> x.by]
  BY <1>1 DEF ReqState
<1>3. [y EXCEPT !.ep = b] = [at |-> a, rc |-> x.rc, ep |-> b, by |-> x.by]
  BY <1>2
<1>4. [x EXCEPT !.at = a, !.ep = b] = [[x EXCEPT !.at = a] EXCEPT !.ep = b]
  OBVIOUS
<1> QED BY <1>1, <1>3, <1>4

LEMMA SetRcAt ==
  ASSUME NEW x \in ReqState, NEW a, NEW b
  PROVE  [x EXCEPT !.rc = a, !.at = b] = [at |-> b, rc |-> a, ep |-> x.ep, by |-> x.by]
<1>1. PICK y : y = [x EXCEPT !.rc = a]
  OBVIOUS
<1>2. y = [at |-> x.at, rc |-> a, ep |-> x.ep, by |-> x.by]
  BY <1>1 DEF ReqState
<1>3. [y EXCEPT !.at = b] = [at |-> b, rc |-> a, ep |-> x.ep, by |-> x.by]
  BY <1>2
<1>4. [x EXCEPT !.rc = a, !.at = b] = [[x EXCEPT !.rc = a] EXCEPT !.at = b]
  OBVIOUS
<1> QED BY <1>1, <1>3, <1>4

\* Who serves a request: the proxy of its route, or the one of the group.
Picked(o, gs, e) ==
  IF o = {} THEN "" ELSE IF gs = {} THEN (CHOOSE x \in o : TRUE).payload ELSE e

\* Only the requests' part changes.
LEMMA RequestStep ==
  ASSUME VhostInv, NEW r \in Req,
         \/ ServeHTTP(r) \/ handle(r) \/ Rewrite(r) \/ Reuse(r) \/ CreateConnection(r)
         \/ connectHandler(r) \/ NoWorkConn(r) \/ Answered(r) \/ Accepted(r) \/ SendFails(r)
         \/ MemberTakes(r)
  PROVE  VhostInv'
<1>1. PxyTypes /\ ReqTypes /\ TurnsOK /\ ShownOK /\ VhostSceneOK(vscene)
  BY DEF VhostInv
<1>2. /\ rq \in [Req -> ReqState] /\ rq[r] \in ReqState /\ rq[r].ep \in Pxy \cup {""}
      /\ rq[r].by \in Pxy \cup {""} /\ \A c \in idle : c.by \in Pxy
  BY <1>1 DEF ReqTypes, ReqState
<1>3. r \in DOMAIN vscene.req \/ rq[r].at = "new"
  BY <1>1 DEF TurnsOK
<1>4. TurnAt(r) \in {"dial", "rewrite"}
  BY DEF TurnAt
<1>5. rq[r] \in ReqState
  BY <1>2
<1>6. ASSUME ServeHTTP(r) \/ handle(r) PROVE VhostInv'
  <2>1. /\ r \in DOMAIN vscene.req /\ rq[r].at = "new" /\ UNCHANGED <<vscene, vpxyVars, gidx, idle>>
    BY <1>6 DEF ServeHTTP, handle, Begins
  <2>2. PICK f : f = found(r)
    OBVIOUS
  <2>3. f \in SUBSET Route /\ \A o \in f : o.payload \in Pxy => o.payload \in Known
    BY <2>1, <2>2, FoundIs
  <2>4. PICK at \in {"401", "dial", "rewrite", "closed", "send"} :
          /\ rq' = [rq EXCEPT ![r].rc = f, ![r].at = at]
          /\ at = "rewrite" => ~req(r).connect
          /\ req(r).kind = "http" /\ at # "401" => \A o \in f : checkRouteAuth(req(r), credOf(o))
    <3>1. CASE ServeHTTP(r)
      <4>1. PICK at : at = IF \E o \in f : ~checkRouteAuth(req(r), credOf(o)) THEN "401"
                           ELSE IF req(r).connect THEN "dial" ELSE "rewrite"
        OBVIOUS
      <4>2. rq' = [rq EXCEPT ![r].rc = f, ![r].at = at]
        BY <2>2, <3>1, <4>1 DEF ServeHTTP
      <4> QED BY <4>1, <4>2
    <3>2. CASE handle(r)
      <4>1. PICK at \in {"closed", "send"} : rq' = [rq EXCEPT ![r].rc = f, ![r].at = at]
        BY <2>2, <3>2, Zenon DEF handle
      <4>2. req(r).kind # "http"
        BY <3>2 DEF handle
      <4> QED BY <4>1, <4>2
    <3> QED BY <1>6, <3>1, <3>2
  <2>5. PICK x \in ReqState : x = [at |-> at, rc |-> f, ep |-> rq[r].ep, by |-> rq[r].by]
    BY <1>2, <2>3, <2>4 DEF ReqState, ReqAt
  <2>6. rq' = [rq EXCEPT ![r] = x]
    <3>1. [rq[r] EXCEPT !.rc = f, !.at = at] = x
      BY <1>5, <2>5, SetRcAt
    <3> QED BY <2>4, <3>1
  <2>7. x.at = at /\ x.rc = f /\ at # "served"
    BY <2>4, <2>5
  <2>8. req(r).kind = "http" /\ at # "401" =>
          \A o \in f : o.payload \in Known => checkRouteAuth(req(r), cfg(o.payload).cred)
    BY <2>4 DEF credOf
  <2>9. Turns(r)
    BY <2>1 DEF Turns
  <2> QED BY <1>2, <2>1, <2>3, <2>4, <2>6, <2>7, <2>8, <2>9, ReqKeeps
<1>7. ASSUME Rewrite(r) PROVE VhostInv'
  <2>1. PICK gs : gs = GroupsOf(rq[r].rc)
    OBVIOUS
  <2>2. /\ rq[r].at = "rewrite" /\ UNCHANGED <<vscene, vpxyVars, idle>>
        /\ rq' = [rq EXCEPT ![r].at = "dial", ![r].ep = IF gs = {} THEN "" ELSE turn(Max(gs))]
        /\ gidx' = (IF gs = {} THEN gidx ELSE gidx + 1)
    BY <1>7, <2>1, Zenon DEF Rewrite, GroupsOf
  <2>3. PICK e : e = IF gs = {} THEN "" ELSE turn(Max(gs))
    OBVIOUS
  <2>4. e \in Pxy \cup {""}
    <3>1. CASE gs = {}
      BY <2>3, <3>1
    <3>2. CASE gs # {}
      <4>1. rq[r].rc \in SUBSET Route
        BY <1>2 DEF ReqState
      <4>2. Max(gs) \in 1..MaxInst
        BY <2>1, <3>2, <4>1, GroupsAre
      <4>3. turn(Max(gs)) \in Pxy \cup {""}
        BY <4>2, TurnIs
      <4> QED BY <2>3, <3>2, <4>3
    <3> QED BY <3>1, <3>2
  <2>5. "dial" \in ReqAt /\ r \in DOMAIN vscene.req
    BY <1>3, <2>2 DEF ReqAt
  <2>6. TurnAt(r) = "rewrite"
    BY <1>1, <2>2 DEF TurnsOK, TurnAt
  <2>7. Turns(r)
    BY <2>2, <2>6, TurnsIs
  <2>8. rq' = [rq EXCEPT ![r] = [at |-> "dial", rc |-> rq[r].rc, ep |-> e, by |-> rq[r].by]]
    <3>1. rq' = [rq EXCEPT ![r].at = "dial", ![r].ep = e]
      BY <2>2, <2>3
    <3>2. [rq[r] EXCEPT !.at = "dial", !.ep = e] =
             [at |-> "dial", rc |-> rq[r].rc, ep |-> e, by |-> rq[r].by]
      BY <1>5, SetAtEp
    <3> QED BY <3>1, <3>2
  <2>9. gidx' \in {gidx, gidx + 1}
    BY <2>2
  <2>10. rq[r].at \notin {"new", "401"} /\ "dial" \notin {"new", "401", "rewrite", TurnAt(r)}
    BY <2>2, <2>6
  <2>11. "dial" # "served" /\ UNCHANGED <<vscene, vpxyVars>> /\ \A c \in idle' : c.by \in Pxy
    BY <1>2, <2>2
  <2>12. PICK at \in ReqAt : at = "dial"
    BY <2>5
  <2> QED BY <1>2, <2>4, <2>7, <2>8, <2>9, <2>10, <2>11, <2>12, ReqGoesOn
<1>8. ASSUME NEW at \in ReqAt, NEW by \in Pxy \cup {""}, UNCHANGED <<vscene, vpxyVars>>,
             \/ rq' = [rq EXCEPT ![r].at = at, ![r].by = by]
             \/ rq' = [rq EXCEPT ![r].at = at] /\ by = rq[r].by,
             rq[r].at \notin {"new", "401"}, at \notin {"new", "401", "rewrite", "dial"},
             \A c \in idle' : c.by \in Pxy, at = "served" => by \in Pxy,
             gidx' \in {gidx, gidx + 1}, gidx' # gidx => Turns(r)
      PROVE  VhostInv'
  <2>1. rq' = [rq EXCEPT ![r] = [at |-> at, rc |-> rq[r].rc, ep |-> rq[r].ep, by |-> by]]
    <3>1. CASE rq' = [rq EXCEPT ![r].at = at, ![r].by = by]
      <4>1. [rq[r] EXCEPT !.at = at, !.by = by] =
               [at |-> at, rc |-> rq[r].rc, ep |-> rq[r].ep, by |-> by]
        BY <1>5, SetAtBy
      <4> QED BY <3>1, <4>1
    <3>2. CASE rq' = [rq EXCEPT ![r].at = at] /\ by = rq[r].by
      <4>1. [rq[r] EXCEPT !.at = at] =
               [at |-> at, rc |-> rq[r].rc, ep |-> rq[r].ep, by |-> rq[r].by]
        BY <1>5, SetAt
      <4> QED BY <3>2, <4>1
    <3> QED BY <1>8, <3>1, <3>2
  <2>2. at \notin {"new", "401", "rewrite", TurnAt(r)}
    BY <1>4, <1>8
  <2> QED BY <1>2, <1>8, <2>1, <2>2, ReqGoesOn
<1>9. ASSUME Reuse(r) PROVE VhostInv'
  <2>1. PICK c \in idle : rq' = [rq EXCEPT ![r].at = "served", ![r].by = c.by] /\ idle' = idle \ {c}
    BY <1>9 DEF Reuse, Kept
  <2>2. PICK b \in Pxy : b = c.by
    BY <1>2, <2>1
  <2>3. "served" \in ReqAt /\ rq[r].at = "dial" /\ UNCHANGED <<vscene, vpxyVars, gidx>>
    BY <1>9 DEF Reuse, ReqAt
  <2> QED BY <1>2, <1>8, <2>1, <2>2, <2>3
<1>10. ASSUME CreateConnection(r) \/ connectHandler(r) PROVE VhostInv'
  <2>1. PICK o, gs : o = found(r) /\ gs = GroupsOf(o)
    OBVIOUS
  <2>2. rq[r].at = "dial" /\ UNCHANGED <<vscene, vpxyVars, idle>> /\ r \in DOMAIN vscene.req
    BY <1>3, <1>10 DEF CreateConnection, connectHandler
  <2>3. o \in SUBSET Route
    BY <2>1, <2>2, FoundIs
  <2>4. PICK e : /\ e \in {rq[r].ep, "", IF gs = {} THEN "" ELSE turn(Max(gs))}
                 /\ rq' = [rq EXCEPT ![r].at = IF Picked(o, gs, e) = "" THEN "404" ELSE "served",
                                   ![r].by = Picked(o, gs, e)]
                 /\ (gidx' = gidx \/ (gidx' = gidx + 1 /\ req(r).connect))
    <3>1. CASE CreateConnection(r)
      <4>1. PICK e : e = IF rq[r].ep \in ToSet(ginst[Max(gs)].members) THEN rq[r].ep ELSE ""
        OBVIOUS
      <4>2. /\ rq' = [rq EXCEPT ![r].at = IF Picked(o, gs, e) = "" THEN "404" ELSE "served",
                                   ![r].by = Picked(o, gs, e)]
            /\ gidx' = gidx
        BY <2>1, <3>1, <4>1, Zenon DEF CreateConnection, GroupsOf, Picked
      <4> QED BY <4>1, <4>2, Zenon
    <3>2. CASE connectHandler(r)
      <4>1. PICK e : e = IF gs = {} THEN "" ELSE turn(Max(gs))
        OBVIOUS
      <4>2. rq' = [rq EXCEPT ![r].at = IF Picked(o, gs, e) = "" THEN "404" ELSE "served",
                                   ![r].by = Picked(o, gs, e)]
        <5>1. CASE gs = {}
          BY <2>1, <3>2, <5>1, Zenon DEF connectHandler, GroupsOf, Picked
        <5>2. CASE gs # {}
          <6>1. e = turn(Max(gs))
            BY <4>1, <5>2
          <6> QED BY <2>1, <3>2, <6>1, Zenon DEF connectHandler, GroupsOf, Picked
        <5> QED BY <5>1, <5>2
      <4>3. (gidx' = gidx \/ gidx' = gidx + 1) /\ req(r).connect
        BY <3>2, Zenon DEF connectHandler
      <4> QED BY <4>1, <4>2, <4>3, Zenon
    <3> QED BY <1>10, <3>1, <3>2
  <2>5. e \in Pxy \cup {""}
    <3>1. gs # {} => turn(Max(gs)) \in Pxy \cup {""}
      BY <2>1, <2>3, GroupsAre, TurnIs
    <3> QED BY <1>2, <2>4, <3>1
  <2>6. PICK b : b = Picked(o, gs, e)
    OBVIOUS
  <2>7. b \in Pxy \cup {""}
    BY <2>1, <2>3, <2>5, <2>6, GroupsAre DEF Picked
  <2>8. rq' = [rq EXCEPT ![r].at = IF b = "" THEN "404" ELSE "served", ![r].by = b]
    BY <2>4, <2>6
  <2>9. PICK at : at = IF b = "" THEN "404" ELSE "served"
    OBVIOUS
  <2>10. at \in ReqAt /\ at \notin {"new", "401", "rewrite", "dial"} /\ (at = "served" => b \in Pxy)
    BY <2>7, <2>9 DEF ReqAt
  <2>11. gidx' # gidx => Turns(r)
    BY <2>2, <2>4 DEF Turns
  <2>12. gidx' \in {gidx, gidx + 1}
    BY <2>4
  <2>13. rq' = [rq EXCEPT ![r].at = at, ![r].by = b]
    BY <2>8, <2>9
  <2>14. rq[r].at \notin {"new", "401"} /\ UNCHANGED <<vscene, vpxyVars>> /\ \A c \in idle' : c.by \in Pxy
    BY <1>2, <2>2
  <2> QED BY <1>8, <2>7, <2>10, <2>11, <2>12, <2>13, <2>14
<1>11. ASSUME NoWorkConn(r) \/ SendFails(r) PROVE VhostInv'
  <2>1. PICK at \in {"nowork", "lost"} : rq' = [rq EXCEPT ![r].at = at]
    BY <1>11 DEF NoWorkConn, SendFails, ReqGoto
  <2>2. rq[r].at \in {"dial", "send"} /\ UNCHANGED <<vscene, vpxyVars, gidx, idle>> /\ at \in ReqAt
    BY <1>11, <2>1 DEF NoWorkConn, SendFails, ReqAt
  <2> QED BY <1>2, <1>8, <2>1, <2>2
<1>12. ASSUME Answered(r) PROVE VhostInv'
  <2>1. /\ rq' = [rq EXCEPT ![r].at = "done"] /\ rq[r].at = "served" /\ "done" \in ReqAt
        /\ UNCHANGED <<vscene, vpxyVars, gidx>>
    BY <1>12 DEF Answered, ReqGoto, ReqAt
  <2>2. rq[r].by \in Pxy
    BY <1>1, <2>1 DEF ReqTypes
  <2>3. idle' = idle \/ idle' = idle \cup {[key |-> keyOf(r), by |-> rq[r].by]}
    BY <1>12 DEF Answered
  <2>4. \A c \in idle' : c.by \in Pxy
    <3>1. PICK b, k : b = rq[r].by /\ k = keyOf(r) /\ b \in Pxy
      BY <2>2
    <3>2. [key |-> k, by |-> b].by = b
      OBVIOUS
    <3> QED BY <1>2, <2>3, <3>1, <3>2
  <2> QED BY <1>2, <1>8, <2>1, <2>4
<1>13. ASSUME Accepted(r) PROVE VhostInv'
  <2>1. /\ "served" \in ReqAt /\ "held" \in ReqAt /\ rq[r].at = "send"
        /\ UNCHANGED <<vscene, vpxyVars, gidx, idle>>
    BY <1>13 DEF Accepted, ReqAt
  <2>2. CASE rq' = [rq EXCEPT ![r].at = "held"]
    BY <1>2, <1>8, <2>1, <2>2
  <2>3. ASSUME NEW b \in Known, rq' = [rq EXCEPT ![r].at = "served", ![r].by = b] PROVE VhostInv'
    <3>1. b \in Pxy
      BY <1>1 DEF VhostSceneOK, Known
    <3> QED BY <1>2, <1>8, <2>1, <2>3, <3>1
  <2> QED BY <1>13, <2>2, <2>3 DEF Accepted, ReqGoto
<1>14. ASSUME MemberTakes(r) PROVE VhostInv'
  <2>1. /\ "served" \in ReqAt /\ "closed" \in ReqAt /\ rq[r].at = "held"
        /\ UNCHANGED <<vscene, vpxyVars, gidx, idle>>
    BY <1>14 DEF MemberTakes, ReqAt
  <2>2. CASE rq' = [rq EXCEPT ![r].at = "closed"]
    BY <1>2, <1>8, <2>1, <2>2
  <2>3. ASSUME NEW i \in 1..MaxInst, NEW b \in ToSet(ginst[i].members),
               rq' = [rq EXCEPT ![r].at = "served", ![r].by = b] PROVE VhostInv'
    <3>1. ginst[i].members \in Seq(Pxy)
      BY <1>1 DEF PxyTypes, GroupState
    <3>2. b \in Pxy
      BY <2>3, <3>1 DEF ToSet
    <3> QED BY <1>2, <1>8, <2>1, <2>3, <3>2
  <2> QED BY <1>14, <2>2, <2>3 DEF MemberTakes, ReqGoto
<1> QED BY <1>6, <1>7, <1>9, <1>10, <1>11, <1>12, <1>13, <1>14

\* The kept connections time out.
LEMMA IdleStep == VhostInv /\ IdleEnds => VhostInv'
<1> SUFFICES ASSUME VhostInv, IdleEnds PROVE VhostInv'
  OBVIOUS
<1>1. UNCHANGED <<vscene, vpxyVars, gidx, rq>> /\ idle' \subseteq idle
  BY DEF IdleEnds
<1>2. PxyParts'
  BY <1>1, PxyPartsSame DEF PxyParts, VhostInv
<1>3. ReqTypes'
  BY <1>1 DEF VhostInv, ReqTypes, Known
<1>4. TurnsOK'
  BY <1>1 DEF VhostInv, TurnsOK, Turns, req
<1>5. ShownOK'
  BY <1>1 DEF VhostInv, ShownOK, req, Known, cfg
<1> QED BY <1>2, <1>3, <1>4, <1>5 DEF VhostInv, PxyParts

-----------------------------------------------------------------------------
(* The routes of frps: proxies.                                            *)

\* What comes next is moved from one sequence to the other.
LEMMA MovedOn ==
  ASSUME NEW S, NEW s \in Seq(S), NEW t \in Seq(S), t # <<>>
  PROVE  Append(s, Head(t)) \o Tail(t) = s \o t
<1>1. PICK a, b : a = Append(s, Head(t)) /\ b = Tail(t)
  OBVIOUS
<1>2. /\ a \in Seq(S) /\ Len(a) = Len(s) + 1 /\ \A i \in 1..Len(s) : a[i] = s[i]
      /\ a[Len(s) + 1] = Head(t) /\ Head(t) = t[1] /\ Head(t) \in S
  BY <1>1
<1>3. b \in Seq(S) /\ Len(b) = Len(t) - 1 /\ \A i \in 1..Len(b) : b[i] = t[i + 1]
  BY <1>1
<1>4. a \o b = s \o t
  <2>1. PICK m, n \in Nat : m = Len(s) /\ n = Len(t)
    OBVIOUS
  <2>2. PICK u, v : u = a \o b /\ v = s \o t
    OBVIOUS
  <2>3. u \in Seq(S) /\ v \in Seq(S) /\ Len(u) = m + n /\ Len(v) = m + n
    <3>1. u \in Seq(S) /\ Len(u) = Len(a) + Len(b)
      <4>1. a \in Seq(S) /\ b \in Seq(S)
        BY <1>2, <1>3
      <4> QED BY <2>2, <4>1
    <3>2. v \in Seq(S) /\ Len(v) = m + n
      BY <2>1, <2>2
    <3>3. Len(a) + Len(b) = m + n
      BY <1>2, <1>3, <2>1
    <3> QED BY <3>1, <3>2, <3>3
  <2>4. \A i \in 1..(m + n) : v[i] = IF i <= m THEN s[i] ELSE t[i - m]
    BY <2>1, <2>2
  <2>5. \A i \in 1..(m + n) : u[i] = IF i <= m + 1 THEN a[i] ELSE b[i - (m + 1)]
    BY <1>2, <1>3, <2>1, <2>2
  <2>6. \A i \in 1..(m + n) : u[i] = v[i]
    <3>1. SUFFICES ASSUME NEW i \in 1..(m + n) PROVE u[i] = v[i]
      OBVIOUS
    <3>2. CASE i <= m
      BY <1>2, <2>1, <2>4, <2>5, <3>2
    <3>3. CASE i = m + 1
      BY <1>2, <2>1, <2>4, <2>5, <3>3
    <3>4. CASE i > m + 1
      <4>1. i - (m + 1) \in 1..Len(b) /\ (i - (m + 1)) + 1 = i - m
        BY <1>3, <2>1, <3>4
      <4>2. b[i - (m + 1)] = t[i - m]
        BY <1>3, <4>1
      <4> QED BY <2>4, <2>5, <3>4, <4>2
    <3> QED BY <2>1, <3>2, <3>3, <3>4
  <2> QED BY <2>2, <2>3, <2>6
<1> QED BY <1>1, <1>4

\* A sequence without one of its elements, all of which differ.
Distinct(s) == \A i, j \in DOMAIN s : s[i] = s[j] => i = j
LEMMA RemoveFirstIs ==
  ASSUME NEW S, NEW s \in Seq(S), Distinct(s), NEW e \in ToSet(s)
  PROVE  /\ RemoveFirst(s, e) \in Seq(S) /\ ToSet(RemoveFirst(s, e)) = ToSet(s) \ {e}
         /\ Distinct(RemoveFirst(s, e))
<1>1. PICK n \in Nat : n = Len(s)
  OBVIOUS
<1>2. PICK I : I = {i \in 1..Len(s) : s[i] = e}
  OBVIOUS
<1>3. PICK k \in 1..n : s[k] = e
  BY <1>1 DEF ToSet
<1>4. I = {k}
  BY <1>1, <1>2, <1>3 DEF Distinct
<1>5. PICK l : l = Min(I)
  OBVIOUS
<1>6. l = k
  <2>1. I \in SUBSET Nat /\ I # {}
    BY <1>1, <1>4
  <2>2. Min(I) \in I
    BY <2>1, MinIs
  <2> QED BY <1>4, <1>5, <2>2
<1>7. PICK t : t = RemoveFirst(s, e)
  OBVIOUS
<1>8. t = SubSeq(s, 1, k - 1) \o SubSeq(s, k + 1, n)
  <2>1. SelectInSeq(s, LAMBDA v : v = e) = l
    BY <1>2, <1>4, <1>5 DEF SelectInSeq
  <2>2. RemoveFirst(s, e) = RemoveAt(s, SelectInSeq(s, LAMBDA v : v = e))
    BY <1>1, <1>3 DEF RemoveFirst
  <2> QED BY <1>1, <1>6, <1>7, <2>1, <2>2 DEF RemoveAt
<1>9. /\ t \in Seq(S) /\ Len(t) = n - 1
      /\ \A i \in 1..(n - 1) : t[i] = IF i < k THEN s[i] ELSE s[i + 1]
  <2>1. PICK a, b : a = SubSeq(s, 1, k - 1) /\ b = SubSeq(s, k + 1, n)
    OBVIOUS
  <2>2. a \in Seq(S) /\ Len(a) = k - 1 /\ \A i \in 1..(k - 1) : a[i] = s[i]
    BY <1>1, <1>3, <2>1
  <2>3. b \in Seq(S) /\ Len(b) = n - k /\ \A i \in 1..(n - k) : b[i] = s[i + k]
    BY <1>1, <1>3, <2>1
  <2>4. t \in Seq(S) /\ Len(t) = n - 1
    BY <1>3, <1>8, <2>1, <2>2, <2>3
  <2>5. \A i \in 1..(n - 1) : t[i] = IF i <= k - 1 THEN a[i] ELSE b[i - (k - 1)]
    BY <1>3, <1>8, <2>1, <2>2, <2>3
  <2>6. ASSUME NEW i \in 1..(n - 1) PROVE t[i] = IF i < k THEN s[i] ELSE s[i + 1]
    <3>1. CASE i < k
      BY <2>2, <2>5, <3>1
    <3>2. CASE ~(i < k)
      <4>1. i - (k - 1) \in 1..(n - k) /\ (i - (k - 1)) + k = i + 1
        BY <3>2
      <4>2. b[i - (k - 1)] = s[i + 1]
        BY <2>3, <4>1
      <4> QED BY <2>5, <3>2, <4>2
    <3> QED BY <3>1, <3>2
  <2> QED BY <2>4, <2>6
<1>10. ToSet(t) = ToSet(s) \ {e}
  <2>1. ASSUME NEW x \in ToSet(t) PROVE x \in ToSet(s) \ {e}
    <3>1. PICK i \in 1..(n - 1) : x = t[i]
      BY <1>9, <2>1 DEF ToSet
    <3>2. PICK j \in 1..n : x = s[j] /\ j # k
      BY <1>9, <3>1
    <3>3. x # e
      BY <1>1, <1>3, <3>2 DEF Distinct
    <3> QED BY <1>1, <3>2, <3>3 DEF ToSet
  <2>2. ASSUME NEW x \in ToSet(s) \ {e} PROVE x \in ToSet(t)
    <3>1. PICK j \in 1..n : x = s[j]
      BY <1>1, <2>2 DEF ToSet
    <3>2. j # k
      BY <1>3, <2>2, <3>1
    <3>3. PICK i : i = IF j < k THEN j ELSE j - 1
      OBVIOUS
    <3>4. i \in 1..(n - 1) /\ t[i] = s[j]
      BY <1>9, <3>2, <3>3
    <3> QED BY <1>9, <3>1, <3>4 DEF ToSet
  <2> QED BY <2>1, <2>2
<1>11. Distinct(t)
  <2>1. ASSUME NEW i \in 1..(n - 1), NEW j \in 1..(n - 1), t[i] = t[j] PROVE i = j
    <3>1. PICK a, b \in 1..n : /\ a = (IF i < k THEN i ELSE i + 1) /\ b = (IF j < k THEN j ELSE j + 1)
                               /\ t[i] = s[a] /\ t[j] = s[b]
      BY <1>9
    <3>2. a \in DOMAIN s /\ b \in DOMAIN s /\ s[a] = s[b]
      <4>1. DOMAIN s = 1..n
        BY <1>1
      <4>2. s[a] = s[b]
        BY <2>1, <3>1
      <4> QED BY <4>1, <4>2
    <3>3. a = b
      BY <3>2 DEF Distinct
    <3> QED BY <3>1, <3>3
  <2> QED BY <1>9, <2>1 DEF Distinct
<1> QED BY <1>7, <1>9, <1>10, <1>11

\* The group that is current, if there is one.
LEMMA GroupIs ==
  ASSUME PxyParts
  PROVE  /\ MaxInst \in Nat /\ gcur \in 0..MaxInst /\ (gcur # 0 => gcur \in 1..MaxInst)
         /\ \A i \in 1..MaxInst : /\ ginst[i] \in GroupState /\ ginst[i].members \in Seq(Pxy)
                                  /\ ginst[i].route \in SUBSET Route /\ ginst[i].key \in Word
         /\ \A p \in Pxy : pst[p] \in PxyState /\ pst[p].held \in Seq(Ask) /\ pst[p].todo \in Seq(Ask)
         /\ \A p \in Known : p \in Pxy
<1>1. MaxInst \in Nat
  BY VhostAssumption DEF VhostAssumption
<1>2. gcur \in 0..MaxInst
  BY DEF PxyParts, PxyTypes
<1>3. gcur # 0 => gcur \in 1..MaxInst
  BY <1>1, <1>2
<1>4. \A i \in 1..MaxInst : ginst[i] \in GroupState
  BY DEF PxyParts, PxyTypes
<1>5. \A i \in 1..MaxInst : /\ ginst[i].members \in Seq(Pxy) /\ ginst[i].route \in SUBSET Route
                            /\ ginst[i].key \in Word
  BY <1>4 DEF GroupState
<1>6. \A p \in Pxy : pst[p] \in PxyState
  BY DEF PxyParts, PxyTypes
<1>7. \A p \in Pxy : pst[p].held \in Seq(Ask) /\ pst[p].todo \in Seq(Ask)
  BY <1>6 DEF PxyState
<1>8. \A p \in Known : p \in Pxy
  BY DEF PxyParts, VhostSceneOK, Known
<1> QED BY <1>1, <1>2, <1>3, <1>4, <1>5, <1>6, <1>7, <1>8

\* What a proxy may be at, for what it holds and still has to ask for.
Becomes(p, x) ==
  /\ x.at \in {"off", "done"} => x.held = <<>>
  /\ x.at = "run" => x.held \o x.todo = asked(p)
  /\ x.at = "on" => x.held = asked(p)
  /\ x.at \in {"run", "on"} /\ cfg(p).kind # "tcpmux" => Allowed(p)
  /\ Single(p) => x.h = 0
  /\ NoLocs(p, x.held)

LEMMA AskedKept ==
  ASSUME PxyParts, NEW p \in Known, NEW x \in PxyState, pst' = [pst EXCEPT ![p] = x],
         vscene' = vscene, Becomes(p, x)
  PROVE  /\ AskedOK' /\ VhostSceneOK(vscene)' /\ pst' \in [Pxy -> PxyState]
         /\ pst'[p] = x /\ \A q \in Pxy : q # p => pst'[q] = pst[q]
<1>1. p \in Pxy
  BY GroupIs
<1>2. pst' \in [Pxy -> PxyState] /\ pst'[p] = x /\ \A q \in Pxy : q # p => pst'[q] = pst[q]
  BY <1>1 DEF PxyParts, PxyTypes
<1>3. /\ Known' = Known /\ VhostSceneOK(vscene)'
      /\ \A q : cfg(q)' = cfg(q) /\ asked(q)' = asked(q) /\ (Allowed(q) => Allowed(q)')
               /\ (Single(q)' <=> Single(q))
  BY SceneSame DEF PxyParts
<1>4. \A q \in Pxy : q \notin Known => pst'[q] = Off
  BY <1>2 DEF PxyParts, AskedOK
<1>5. ASSUME NEW q \in Known
      PROVE  /\ pst'[q].at \in {"off", "done"} => pst'[q].held = <<>>
             /\ pst'[q].at = "run" => pst'[q].held \o pst'[q].todo = asked(q)
             /\ pst'[q].at = "on" => pst'[q].held = asked(q)
             /\ pst'[q].at \in {"run", "on"} /\ cfg(q).kind # "tcpmux" => Allowed(q)
             /\ Single(q) => pst'[q].h = 0
             /\ NoLocs(q, pst'[q].held)
  <2>1. CASE q = p
    BY <1>2, <2>1 DEF Becomes
  <2>2. CASE q # p
    <3>1. pst'[q] = pst[q]
      BY <1>2, <2>2, GroupIs
    <3> QED BY <3>1 DEF PxyParts, AskedOK
  <2> QED BY <2>1, <2>2
<1> QED BY <1>2, <1>3, <1>4, <1>5 DEF AskedOK, NoLocs

\* A proxy moves on and holds what it held; the group may be created.
LEMMA PxyMoves ==
  ASSUME PxyParts, NEW p \in Known, NEW x \in PxyState, pst' = [pst EXCEPT ![p] = x],
         vscene' = vscene, Becomes(p, x), x.held = pst[p].held, routes' = routes,
         ginst' \in [1..MaxInst -> GroupState],
         \A i \in 1..MaxInst : ginst'[i].members = ginst[i].members /\ ginst'[i].route = ginst[i].route,
         gcur' = gcur \/ (gcur = 0 /\ gcur' \in 1..MaxInst)
  PROVE  PxyParts'
<1>1. /\ AskedOK' /\ VhostSceneOK(vscene)' /\ pst' \in [Pxy -> PxyState]
      /\ pst'[p] = x /\ \A q \in Pxy : q # p => pst'[q] = pst[q]
  BY AskedKept
<1>2. /\ Known' = Known
      /\ \A q : cfg(q)' = cfg(q) /\ (Single(q)' <=> Single(q))
  BY SceneSame
<1>3. \A q \in Pxy : pst'[q].held = pst[q].held
  BY <1>1
<1>4. PxyTypes'
  <2>1. gcur' \in 0..MaxInst
    BY GroupIs
  <2>2. routes' \in [Mux -> SUBSET Route]
    BY DEF PxyParts, PxyTypes
  <2> QED BY <1>1, <2>1, <2>2 DEF PxyTypes
<1>5. HeldOK /\ MembersOK /\ OwnerOK /\ RoutersOK
  BY DEF PxyParts
<1>6. \A q \in Known : q \in Pxy /\ pst'[q].held = pst[q].held
  BY <1>3, GroupIs
<1>7. \A q, k, o : RouteFor(q, k, o)' = RouteFor(q, k, o)
  BY <1>2 DEF RouteFor
<1>8. ASSUME gcur = 0 PROVE \A q \in Known : ~Single(q) => pst[q].held = <<>>
  BY <1>5, <1>8 DEF HeldOK
<1>9. gcur # 0 => gcur \in 1..MaxInst
  BY GroupIs
<1>10. ASSUME NEW q \in Known, Single(q)
       PROVE  /\ \A i \in DOMAIN pst[q].held : RouteFor(q, pst[q].held[i], q) \in routes[cfg(q).kind]
              /\ \A i, j \in DOMAIN pst[q].held :
                   RouteFor(q, pst[q].held[i], q) = RouteFor(q, pst[q].held[j], q) => i = j
  BY <1>5, <1>10 DEF HeldOK
<1>11. ASSUME NEW q \in Known, ~Single(q), pst[q].held # <<>>
       PROVE  /\ Len(pst[q].held) = 1 /\ gcur' # 0 /\ q \in ToSet(ginst'[gcur'].members)
              /\ ginst'[gcur'].route = {RouteFor(q, pst[q].held[1], Group(gcur'))}
              /\ RouteFor(q, pst[q].held[1], Group(gcur')) \in routes[cfg(q).kind]
  <2>1. gcur # 0
    BY <1>8, <1>11
  <2>2. gcur' = gcur
    BY <2>1
  <2>3. ginst'[gcur'].members = ginst[gcur].members /\ ginst'[gcur'].route = ginst[gcur].route
    BY <1>9, <2>1, <2>2
  <2> QED BY <1>5, <1>11, <2>1, <2>2, <2>3 DEF HeldOK
<1>12. HeldOK'
  BY <1>2, <1>6, <1>7, <1>10, <1>11 DEF HeldOK
<1>13. MembersOK'
  <2>1. CASE gcur' = gcur
    <3>1. \A i \in 1..MaxInst : i # gcur => ginst'[i].members = <<>>
      BY <1>5 DEF MembersOK
    <3>2. gcur # 0 => /\ ginst'[gcur].members = ginst[gcur].members
                      /\ \A q \in ToSet(ginst[gcur].members) : q \in Known /\ ~Single(q) /\ pst[q].held # <<>>
      BY <1>5, <1>9 DEF MembersOK
    <3>3. gcur # 0 => \A i, j \in DOMAIN ginst[gcur].members :
                         ginst[gcur].members[i] = ginst[gcur].members[j] => i = j
      BY <1>5, Zenon DEF MembersOK
    <3> QED BY <1>2, <1>6, <2>1, <3>1, <3>2, <3>3 DEF MembersOK
  <2>2. CASE gcur = 0 /\ gcur' \in 1..MaxInst
    <3>1. \A i \in 1..MaxInst : ginst'[i].members = <<>>
      BY <1>5, <2>2 DEF MembersOK
    <3>2. ToSet(ginst'[gcur'].members) = {} /\ DOMAIN ginst'[gcur'].members = {}
      BY <2>2, <3>1 DEF ToSet
    <3> QED BY <3>1, <3>2 DEF MembersOK
  <2> QED BY <2>1, <2>2
<1>14. OwnerOK'
  <2>1. ASSUME NEW m \in Mux, NEW o \in routes[m]
        PROVE  \/ /\ o.payload \in Known /\ Single(o.payload) /\ m = cfg(o.payload).kind
                  /\ \E i \in DOMAIN pst'[o.payload].held :
                       o = RouteFor(o.payload, pst'[o.payload].held[i], o.payload)
               \/ /\ gcur' # 0 /\ o.payload = Group(gcur') /\ o \in ginst'[gcur'].route
                  /\ \E q \in ToSet(ginst'[gcur'].members) : m = cfg(q).kind
    <3>1. CASE /\ o.payload \in Known /\ Single(o.payload) /\ m = cfg(o.payload).kind
               /\ \E i \in DOMAIN pst[o.payload].held :
                    o = RouteFor(o.payload, pst[o.payload].held[i], o.payload)
      BY <1>6, <3>1
    <3>2. CASE /\ gcur # 0 /\ o.payload = Group(gcur) /\ o \in ginst[gcur].route
               /\ \E q \in ToSet(ginst[gcur].members) : m = cfg(q).kind
      <4>1. gcur' = gcur
        BY <3>2
      <4>2. ginst'[gcur].members = ginst[gcur].members /\ ginst'[gcur].route = ginst[gcur].route
        BY <1>9, <3>2
      <4> QED BY <3>2, <4>1, <4>2
    <3> QED BY <1>5, <2>1, <3>1, <3>2 DEF OwnerOK
  <2> QED BY <1>2, <1>7, <2>1 DEF OwnerOK
<1>15. RoutersOK'
  BY <1>5 DEF RoutersOK
<1> QED BY <1>1, <1>4, <1>12, <1>13, <1>14, <1>15 DEF PxyParts

\* A proxy that is under way is one of the scene's.
LEMMA UnderWay ==
  ASSUME PxyParts, NEW p \in Pxy, pst[p].at # "off"
  PROVE  p \in Known
<1>1. p \notin Known => pst[p] = Off
  BY DEF PxyParts, AskedOK
<1>2. Off.at = "off"
  BY DEF Off
<1> QED BY <1>1, <1>2

LEMMA StartKeeps ==
  ASSUME PxyParts, NEW p \in Pxy, RunHTTP(p) \/ RunHTTPS(p) \/ RunTCPMux(p)
  PROVE  PxyParts'
<1>1. PICK ok \in BOOLEAN : Starts(p, ok) /\ p \in Known /\ (ok /\ cfg(p).kind # "tcpmux" => Allowed(p))
  <2>1. p \in Known /\ (Starts(p, Allowed(p)) \/ (Starts(p, TRUE) /\ cfg(p).kind = "tcpmux"))
    BY DEF RunHTTP, RunHTTPS, RunTCPMux
  <2>2. Allowed(p) \in BOOLEAN
    BY DEF Allowed, validateUserDomains
  <2>3. CASE Starts(p, Allowed(p))
    <3>1. PICK b : b = Allowed(p)
      OBVIOUS
    <3> QED BY <2>1, <2>2, <2>3, <3>1
  <2>4. CASE Starts(p, TRUE) /\ cfg(p).kind = "tcpmux"
    <3>1. PICK b : b = TRUE
      OBVIOUS
    <3> QED BY <2>1, <2>4, <3>1
  <2> QED BY <2>1, <2>3, <2>4
<1>2. pst[p].at = "off" /\ UNCHANGED <<vscene, routes, gcur, ginst>>
  BY <1>1 DEF Starts
<1>3. PICK q \in Seq(Ask) : q = asked(p)
  BY <1>1, AskedIs DEF PxyParts
<1>4. PICK x : x = IF ok THEN [at |-> "run", todo |-> q, held |-> <<>>, h |-> 0]
                   ELSE [at |-> "done", todo |-> <<>>, held |-> <<>>, h |-> 0]
  OBVIOUS
<1>5. pst' = [pst EXCEPT ![p] = x]
  <2>1. pst' = [pst EXCEPT ![p] = IF ok THEN [Off EXCEPT !.at = "run", !.todo = q]
                                  ELSE [Off EXCEPT !.at = "done"]]
    BY <1>1, <1>3 DEF Starts
  <2>2. [Off EXCEPT !.at = "done"] = [at |-> "done", todo |-> <<>>, held |-> <<>>, h |-> 0]
    BY DEF Off
  <2>3. [Off EXCEPT !.at = "run", !.todo = q] = [at |-> "run", todo |-> q, held |-> <<>>, h |-> 0]
    <3>1. PICK y : y = [Off EXCEPT !.at = "run"]
      OBVIOUS
    <3>2. y = [at |-> "run", todo |-> <<>>, held |-> <<>>, h |-> 0]
      BY <3>1 DEF Off
    <3>3. [y EXCEPT !.todo = q] = [at |-> "run", todo |-> q, held |-> <<>>, h |-> 0]
      BY <3>2
    <3>4. [Off EXCEPT !.at = "run", !.todo = q] = [[Off EXCEPT !.at = "run"] EXCEPT !.todo = q]
      OBVIOUS
    <3> QED BY <3>1, <3>3, <3>4
  <2> QED BY <1>4, <2>1, <2>2, <2>3
<1>6. x \in PxyState /\ x.held = <<>>
  <2>1. 0 \in 0..MaxInst /\ <<>> \in Seq(Ask)
    <3>1. MaxInst \in Nat
      BY GroupIs
    <3> QED BY <3>1
  <2> QED BY <1>3, <1>4, <2>1 DEF PxyState
<1>7. pst[p].held = <<>>
  BY <1>1, <1>2 DEF PxyParts, AskedOK
<1>8. Becomes(p, x)
  <2>1. <<>> \o q = q
    BY <1>3
  <2>2. NoLocs(p, x.held)
    BY <1>6 DEF NoLocs
  <2> QED BY <1>1, <1>3, <1>4, <2>1, <2>2 DEF Becomes
<1>9. ginst' \in [1..MaxInst -> GroupState]
  BY <1>2 DEF PxyParts, PxyTypes
<1> QED BY <1>1, <1>2, <1>5, <1>6, <1>7, <1>8, <1>9, PxyMoves

LEMMA GotoKeeps ==
  ASSUME PxyParts, NEW p \in Pxy, NEW at \in {"close", "on", "done"}, pst[p].at # "off",
         PxyGoto(p, at), UNCHANGED <<vscene, routes, gcur, ginst>>,
         at = "on" => pst[p].at = "run" /\ pst[p].todo = <<>>,
         at = "done" => pst[p].held = <<>>
  PROVE  PxyParts'
<1>1. p \in Known /\ pst[p] \in PxyState /\ pst[p].held \in Seq(Ask)
  BY UnderWay, GroupIs
<1>2. PICK x : x = [pst[p] EXCEPT !.at = at]
  OBVIOUS
<1>3. x \in PxyState /\ x.held = pst[p].held /\ x.at = at /\ x.h = pst[p].h
  BY <1>1, <1>2 DEF PxyState
<1>4. pst' = [pst EXCEPT ![p] = x]
  BY <1>2 DEF PxyGoto
<1>5. Becomes(p, x)
  <2>1. at = "on" => pst[p].held = asked(p) /\ (cfg(p).kind # "tcpmux" => Allowed(p))
    <3>1. pst[p].held \o <<>> = pst[p].held
      BY <1>1
    <3> QED BY <1>1, <3>1 DEF PxyParts, AskedOK
  <2>2. (Single(p) => pst[p].h = 0) /\ NoLocs(p, pst[p].held)
    BY <1>1 DEF PxyParts, AskedOK
  <2> QED BY <1>3, <2>1, <2>2 DEF Becomes
<1>6. ginst' \in [1..MaxInst -> GroupState]
  BY DEF PxyParts, PxyTypes
<1> QED BY <1>1, <1>3, <1>4, <1>5, <1>6, PxyMoves

\* A proxy that asks for its group holds what it held.
LEMMA HKeeps ==
  ASSUME PxyParts, NEW p \in Known, NEW g \in 0..MaxInst, pst[p].at = "run", Single(p) => g = 0,
         pst' = [pst EXCEPT ![p].h = g], UNCHANGED <<vscene, routes>>,
         ginst' \in [1..MaxInst -> GroupState],
         \A i \in 1..MaxInst : ginst'[i].members = ginst[i].members /\ ginst'[i].route = ginst[i].route,
         gcur' = gcur \/ (gcur = 0 /\ gcur' \in 1..MaxInst)
  PROVE  PxyParts'
<1>1. pst[p] \in PxyState
  BY GroupIs
<1>2. PICK x : x = [pst[p] EXCEPT !.h = g]
  OBVIOUS
<1>3. x \in PxyState /\ x.held = pst[p].held /\ x.at = pst[p].at /\ x.todo = pst[p].todo
      /\ x.h = g
  BY <1>1, <1>2 DEF PxyState
<1>4. pst' = [pst EXCEPT ![p] = x]
  BY <1>2
<1>5. Becomes(p, x)
  BY <1>3 DEF PxyParts, AskedOK, Becomes
<1> QED BY <1>3, <1>4, <1>5, PxyMoves

LEMMA CreateKeeps ==
  ASSUME PxyParts, NEW p \in Pxy, getOrCreateGroup(p)
  PROVE  PxyParts'
<1>1. PICK g : g = IF gcur # 0 THEN gcur ELSE Cardinality({i \in 1..MaxInst : ginst[i] # NoInst}) + 1
  OBVIOUS
<1>2. /\ pst[p].at = "run" /\ g <= MaxInst /\ gcur' = g /\ pst' = [pst EXCEPT ![p].h = g]
      /\ ginst' = [ginst EXCEPT ![g].key = IF gcur = 0 THEN "new" ELSE @]
      /\ UNCHANGED <<vscene, routes>> /\ ~Single(p)
  BY <1>1 DEF getOrCreateGroup, Single
<1>3. p \in Known
  BY <1>2, UnderWay
<1>4. g \in 1..MaxInst
  <2>1. MaxInst \in Nat /\ (gcur # 0 => gcur \in 1..MaxInst)
    BY GroupIs
  <2>2. Cardinality({i \in 1..MaxInst : ginst[i] # NoInst}) \in Nat
    <3>1. IsFiniteSet(1..MaxInst)
      BY <2>1, FS_Interval
    <3>2. IsFiniteSet({i \in 1..MaxInst : ginst[i] # NoInst})
      BY <3>1, FS_Subset
    <3> QED BY <3>2, FS_CardinalityType
  <2>3. PICK n \in Nat : n = Cardinality({i \in 1..MaxInst : ginst[i] # NoInst})
    BY <2>2
  <2>4. g = IF gcur # 0 THEN gcur ELSE n + 1
    BY <1>1, <2>3
  <2> QED BY <1>2, <2>1, <2>4
<1>5. /\ ginst' \in [1..MaxInst -> GroupState]
      /\ \A i \in 1..MaxInst : ginst'[i].members = ginst[i].members /\ ginst'[i].route = ginst[i].route
  <2>1. ginst \in [1..MaxInst -> GroupState] /\ ginst[g] \in GroupState /\ ginst[g].key \in Word
    BY <1>4, GroupIs DEF PxyParts, PxyTypes
  <2>2. PICK w : w = IF gcur = 0 THEN "new" ELSE ginst[g].key
    OBVIOUS
  <2>3. w \in Word
    BY <2>1, <2>2, WordIs
  <2>4. PICK y : y = [ginst[g] EXCEPT !.key = w]
    OBVIOUS
  <2>5. y \in GroupState /\ y.members = ginst[g].members /\ y.route = ginst[g].route
    BY <2>1, <2>3, <2>4 DEF GroupState
  <2>6. ginst' = [ginst EXCEPT ![g] = y]
    BY <1>2, <2>1, <2>2, <2>4
  <2> QED BY <1>4, <2>1, <2>5, <2>6
<1>6. g \in 0..MaxInst
  BY <1>4
<1>7. gcur' = gcur \/ (gcur = 0 /\ gcur' \in 1..MaxInst)
  BY <1>1, <1>2, <1>4
<1> QED BY <1>2, <1>3, <1>5, <1>6, <1>7, HKeeps

\* A proxy of the group's kind asks for no location of its own.
LEMMA AskedFor ==
  ASSUME PxyParts, NEW p \in Known, pst[p].at = "run", pst[p].todo # <<>>
  PROVE  /\ Head(pst[p].todo) \in Ask /\ pst[p].held \in Seq(Ask)
         /\ cfg(p).kind # "http" =>
              /\ Head(pst[p].todo)[2] = <<>>
              /\ \A i \in DOMAIN pst[p].held : pst[p].held[i][2] = <<>>
              /\ ~Single(p) => \A i \in DOMAIN pst[p].held :
                                  ToLower(pst[p].held[i][1]) # ToLower(Head(pst[p].todo)[1])
<1>1. PICK s, t \in Seq(Ask) : s = pst[p].held /\ t = pst[p].todo
  BY GroupIs
<1>2. t # <<>> /\ Head(t) = t[1] /\ Head(t) \in Ask
  BY <1>1
<1>3. PICK a : a = asked(p)
  OBVIOUS
<1>4. s \o t = a
  BY <1>1, <1>3 DEF PxyParts, AskedOK
<1>5. PICK m, n \in Nat : m = Len(s) /\ n = Len(t) /\ n >= 1
  BY <1>2
<1>6. Len(a) = m + n /\ (\A i \in 1..m : a[i] = s[i]) /\ a[m + 1] = Head(t)
  <2>1. Len(s \o t) = Len(s) + Len(t)
    BY <1>1
  <2>2. \A i \in 1..(Len(s) + Len(t)) : (s \o t)[i] = IF i <= Len(s) THEN s[i] ELSE t[i - Len(s)]
    <3>1. s \in Seq(Ask) /\ t \in Seq(Ask)
      OBVIOUS
    <3> QED BY <3>1
  <2>3. m + 1 \in 1..(m + n) /\ ~(m + 1 <= m) /\ (m + 1) - m = 1
    BY <1>5
  <2>4. (s \o t)[m + 1] = t[(m + 1) - m]
    BY <1>5, <2>2, <2>3
  <2>5. \A i \in 1..m : i \in 1..(m + n) /\ i <= m
    BY <1>5
  <2>6. \A i \in 1..m : (s \o t)[i] = s[i]
    BY <1>5, <2>2, <2>5
  <2> QED BY <1>2, <1>4, <1>5, <2>1, <2>3, <2>4, <2>6
<1>7. ASSUME cfg(p).kind # "http"
      PROVE  /\ Head(t)[2] = <<>> /\ (\A i \in DOMAIN s : s[i][2] = <<>>)
             /\ ~Single(p) => \A i \in DOMAIN s : ToLower(s[i][1]) # ToLower(Head(t)[1])
  <2>1. PICK d \in Seq(Dom) : d = cfg(p).doms
    BY ConfigIs DEF PxyParts
  <2>2. Len(a) = Len(d) /\ \A i \in 1..Len(a) : a[i] = <<d[i], <<>> >>
    BY <1>3, <1>7, <2>1, AskedIs DEF PxyParts
  <2>3. PICK e : e = <<>>
    OBVIOUS
  <2>4. \A i \in 1..Len(a) : a[i][1] = d[i] /\ a[i][2] = e
    BY <2>2, <2>3
  <2>5. m + 1 \in 1..Len(a) /\ (\A i \in 1..m : i \in 1..Len(a) /\ i # m + 1) /\ DOMAIN s = 1..m
    <3>1. Len(a) = m + n
      BY <1>6
    <3>2. m + 1 \in 1..Len(a) /\ \A i \in 1..m : i \in 1..Len(a) /\ i # m + 1
      BY <1>5, <3>1
    <3>3. DOMAIN s = 1..m
      BY <1>5
    <3> QED BY <3>2, <3>3
  <2>6. Head(t)[1] = d[m + 1] /\ Head(t)[2] = e
    BY <1>6, <2>4, <2>5
  <2>7. \A i \in 1..m : s[i][1] = d[i] /\ s[i][2] = e
    BY <1>6, <2>4, <2>5
  <2>8. ~Single(p) => \A i, j \in DOMAIN d : ToLower(d[i]) = ToLower(d[j]) => i = j
    BY <1>7, <2>1, ConfigIs DEF PxyParts
  <2>9. DOMAIN d = 1..Len(a)
    BY <2>1, <2>2
  <2>10. ~Single(p) => \A i \in 1..m : ToLower(d[i]) # ToLower(d[m + 1])
    BY <2>5, <2>8, <2>9
  <2> QED BY <2>3, <2>5, <2>6, <2>7, <2>10
<1> QED BY <1>1, <1>2, <1>7

\* A proxy that has registered a route goes on with the next one.
LEMMA HoldsIs ==
  ASSUME PxyParts, NEW p \in Pxy, pst[p].at = "run", pst[p].todo # <<>>, Holds(p), vscene' = vscene
  PROVE  \E x \in PxyState :
           /\ p \in Known /\ pst' = [pst EXCEPT ![p] = x] /\ Becomes(p, x)
           /\ x.held = Append(pst[p].held, Head(pst[p].todo)) /\ Head(pst[p].todo) \in Ask
           /\ Len(pst[p].held) \in Nat /\ DOMAIN pst[p].held = 1..Len(pst[p].held)
           /\ DOMAIN x.held = 1..(Len(pst[p].held) + 1)
           /\ \A i \in 1..Len(pst[p].held) : x.held[i] = pst[p].held[i]
           /\ x.held[Len(pst[p].held) + 1] = Head(pst[p].todo)
<1>1. p \in Known /\ MaxInst \in Nat
  BY UnderWay, GroupIs
<1>2. PICK y \in PxyState : y = pst[p]
  BY GroupIs
<1>3. PICK s, t \in Seq(Ask) : s = y.held /\ t = y.todo
  BY <1>2 DEF PxyState
<1>4. t # <<>> /\ y.at = "run" /\ y = [at |-> "run", todo |-> t, held |-> s, h |-> y.h]
  BY <1>2, <1>3 DEF PxyState
<1>5. PICK a, b : a = Append(s, Head(t)) /\ b = Tail(t)
  OBVIOUS
<1>6. /\ a \o b = s \o t /\ a \in Seq(Ask) /\ b \in Seq(Ask) /\ Head(t) \in Ask
      /\ DOMAIN a = 1..(Len(s) + 1) /\ DOMAIN s = 1..Len(s)
      /\ (\A i \in 1..Len(s) : a[i] = s[i]) /\ a[Len(s) + 1] = Head(t)
  <2>1. a \o b = s \o t
    <3>1. Append(s, Head(t)) \o Tail(t) = s \o t
      BY <1>4, MovedOn
    <3> QED BY <1>5, <3>1
  <2>2. /\ a \in Seq(Ask) /\ Len(a) = Len(s) + 1 /\ \A i \in 1..Len(s) : a[i] = s[i]
        /\ a[Len(s) + 1] = Head(t) /\ Head(t) \in Ask /\ b \in Seq(Ask)
    BY <1>4, <1>5
  <2>3. DOMAIN a = 1..(Len(s) + 1) /\ DOMAIN s = 1..Len(s)
    BY <2>2
  <2> QED BY <2>1, <2>2, <2>3
<1>7. PICK x : x = [at |-> "run", todo |-> b, held |-> a, h |-> 0]
  OBVIOUS
<1>8. x \in PxyState
  BY <1>1, <1>6, <1>7 DEF PxyState
<1>9. pst' = [pst EXCEPT ![p] = x]
  <2>1. pst' = [pst EXCEPT ![p].held = a, ![p].todo = b, ![p].h = 0]
    BY <1>2, <1>3, <1>5 DEF Holds
  <2>2. pst' = [pst EXCEPT ![p] = [y EXCEPT !.held = a, !.todo = b, !.h = 0]]
    BY <1>2, <2>1
  <2>3. PICK u : u = [y EXCEPT !.held = a]
    OBVIOUS
  <2>4. PICK v : v = [u EXCEPT !.todo = b]
    OBVIOUS
  <2>5. u = [at |-> "run", todo |-> t, held |-> a, h |-> y.h]
    BY <1>4, <2>3
  <2>6. v = [at |-> "run", todo |-> b, held |-> a, h |-> y.h]
    BY <2>4, <2>5
  <2>7. [v EXCEPT !.h = 0] = x
    BY <1>7, <2>6
  <2>8. [y EXCEPT !.held = a, !.todo = b, !.h = 0]
          = [[[y EXCEPT !.held = a] EXCEPT !.todo = b] EXCEPT !.h = 0]
    OBVIOUS
  <2> QED BY <2>2, <2>3, <2>4, <2>7, <2>8
<1>10. s \o t = asked(p) /\ (cfg(p).kind # "tcpmux" => Allowed(p))
  BY <1>1, <1>2, <1>3, <1>4 DEF PxyParts, AskedOK
<1>11. Becomes(p, x)
  <2>1. NoLocs(p, a)
    <3>1. cfg(p).kind # "http" => Head(t)[2] = <<>> /\ \A i \in DOMAIN s : s[i][2] = <<>>
      BY <1>1, <1>2, <1>3, <1>4, AskedFor
    <3>2. \A i \in DOMAIN a : i \in DOMAIN s \/ i = Len(s) + 1
      BY <1>6
    <3>3. \A i \in DOMAIN s : a[i] = s[i]
      BY <1>6
    <3> QED BY <1>6, <3>1, <3>2, <3>3 DEF NoLocs
  <2> QED BY <1>6, <1>7, <1>10, <2>1 DEF Becomes
<1>12. Len(s) \in Nat
  BY <1>3
<1> QED BY <1>1, <1>2, <1>3, <1>5, <1>6, <1>7, <1>8, <1>9, <1>11, <1>12

\* A route that is free is added.
LEMMA AddedApart ==
  ASSUME NEW R \in SUBSET Route, Apart(R), NEW d, NEW o \in Route,
         ~exist(R, o.dom, o.loc, o.user)
  PROVE  R \cup {o} \in SUBSET Route /\ Apart(R \cup {o}) /\ o \notin R
BY DEF Apart, exist

LEMMA RouteIs ==
  ASSUME PxyParts, NEW p \in Known, NEW k \in Ask, NEW payload \in Payload
  PROVE  /\ RouteFor(p, k, payload) \in Route /\ RouteFor(p, k, payload).payload = payload
         /\ RouteFor(p, k, payload).dom = ToLower(k[1]) /\ RouteFor(p, k, payload).loc = k[2]
         /\ RouteFor(p, k, payload).user = cfg(p).user
<1>1. k[1] \in Dom /\ k[2] \in Seq(Nat)
  BY DEF Ask
<1>2. ToLower(k[1]) \in Dom
  BY <1>1, LowerIs
<1>3. cfg(p).user \in Word
  BY ConfigIs DEF PxyParts
<1> QED BY <1>1, <1>2, <1>3 DEF RouteFor, Route

LEMMA RegisterKeeps ==
  ASSUME PxyParts, NEW p \in Pxy, RegisterRoute(p)
  PROVE  PxyParts'
<1>1. /\ pst[p].at = "run" /\ pst[p].todo # <<>> /\ Single(p) /\ UNCHANGED <<vscene, gcur, ginst>>
      /\ p \in Known
  BY UnderWay DEF RegisterRoute, Single
<1>2. PICK k : k = Head(pst[p].todo)
  OBVIOUS
<1>3. CASE ~Free(p, k)
  <2>1. PxyGoto(p, "close") /\ routes' = routes
    BY <1>2, <1>3 DEF RegisterRoute
  <2> QED BY <1>1, <2>1, GotoKeeps
<1>4. CASE Free(p, k)
  <2>1. Holds(p) /\ routes' = [routes EXCEPT ![cfg(p).kind] = Added(p, k, p)]
    BY <1>2, <1>4 DEF RegisterRoute
  <2>2. PICK x \in PxyState :
           /\ pst' = [pst EXCEPT ![p] = x] /\ Becomes(p, x) /\ k \in Ask
           /\ Len(pst[p].held) \in Nat /\ DOMAIN pst[p].held = 1..Len(pst[p].held)
           /\ DOMAIN x.held = 1..(Len(pst[p].held) + 1)
           /\ \A i \in 1..Len(pst[p].held) : x.held[i] = pst[p].held[i]
           /\ x.held[Len(pst[p].held) + 1] = k
    BY <1>1, <1>2, <2>1, HoldsIs
  <2>3. PICK n \in Nat : n = Len(pst[p].held)
    BY <2>2
  <2>4. /\ AskedOK' /\ VhostSceneOK(vscene)' /\ pst' \in [Pxy -> PxyState]
        /\ pst'[p] = x /\ \A q \in Pxy : q # p => pst'[q] = pst[q]
    BY <1>1, <2>2, AskedKept
  <2>5. /\ Known' = Known
        /\ \A q : cfg(q)' = cfg(q) /\ (Single(q)' <=> Single(q))
    BY <1>1, SceneSame
  <2>6. \A q, j, o : RouteFor(q, j, o)' = RouteFor(q, j, o)
    BY <2>5 DEF RouteFor
  <2>7. HeldOK /\ MembersOK /\ OwnerOK /\ RoutersOK /\ routes \in [Mux -> SUBSET Route]
    BY DEF PxyParts, PxyTypes
  <2>8. PICK m \in Mux : m = cfg(p).kind
    BY <1>1, ConfigIs DEF PxyParts
  <2>9. PICK new \in Route : new = RouteFor(p, k, p) /\ new.payload = p /\ new.dom = ToLower(k[1])
                             /\ new.loc = k[2] /\ new.user = cfg(p).user
    <3>1. p \in Payload
      BY DEF Payload
    <3> QED BY <1>1, <2>2, <3>1, RouteIs
  <2>10. routes' = [routes EXCEPT ![m] = routes[m] \cup {new}]
    BY <2>1, <2>8, <2>9 DEF Added, AddRoute, RouteFor
  <2>11. ~exist(routes[m], new.dom, new.loc, new.user)
    BY <1>4, <2>8, <2>9 DEF Free, AddOK
  <2>12. /\ routes[m] \cup {new} \in SUBSET Route /\ Apart(routes[m] \cup {new}) /\ new \notin routes[m]
    BY <2>7, <2>11, AddedApart DEF RoutersOK
  <2>13. /\ routes' \in [Mux -> SUBSET Route] /\ routes'[m] = routes[m] \cup {new}
         /\ \A w \in Mux : w # m => routes'[w] = routes[w]
    BY <2>7, <2>10, <2>12
  <2>14. PxyTypes'
    BY <1>1, <2>4, <2>13 DEF PxyParts, PxyTypes
  <2>15. \A q \in Known : q \in Pxy /\ cfg(q).kind \in Mux /\ routes[cfg(q).kind] \subseteq routes'[cfg(q).kind]
    BY <2>13, ConfigIs DEF PxyParts
  <2>16. ASSUME NEW q \in Known, Single(q)
         PROVE  /\ \A i \in DOMAIN pst'[q].held : RouteFor(q, pst'[q].held[i], q) \in routes'[cfg(q).kind]
                /\ \A i, j \in DOMAIN pst'[q].held :
                     RouteFor(q, pst'[q].held[i], q) = RouteFor(q, pst'[q].held[j], q) => i = j
    <3>1. /\ \A i \in DOMAIN pst[q].held : RouteFor(q, pst[q].held[i], q) \in routes[cfg(q).kind]
          /\ \A i, j \in DOMAIN pst[q].held :
               RouteFor(q, pst[q].held[i], q) = RouteFor(q, pst[q].held[j], q) => i = j
      BY <2>7, <2>16 DEF HeldOK
    <3>2. CASE q # p
      <4>1. pst'[q] = pst[q]
        BY <2>4, <2>15, <3>2
      <4> QED BY <2>15, <3>1, <4>1
    <3>3. CASE q = p
      <4>1. PICK was : was = pst[p].held
        OBVIOUS
      <4>2. PICK held : held = x.held /\ pst'[p].held = held
        BY <2>4
      <4>3. /\ DOMAIN was = 1..n /\ DOMAIN held = 1..(n + 1) /\ held[n + 1] = k
            /\ \A i \in 1..n : held[i] = was[i]
        BY <2>2, <2>3, <4>1, <4>2
      <4>4. \A i \in 1..n : RouteFor(p, held[i], p) \in routes[m]
        BY <2>8, <3>1, <3>3, <4>1, <4>3
      <4>5. RouteFor(p, held[n + 1], p) = new
        BY <2>9, <4>3
      <4>6. \A i \in 1..(n + 1) : i \in 1..n \/ i = n + 1
        OBVIOUS
      <4>7. \A i \in DOMAIN held : RouteFor(p, held[i], p) \in routes'[m]
        BY <2>13, <4>3, <4>4, <4>5, <4>6
      <4>8. \A i, j \in 1..n : RouteFor(p, held[i], p) = RouteFor(p, held[j], p) => i = j
        BY <3>1, <3>3, <4>1, <4>3
      <4>9. \A i, j \in DOMAIN held : RouteFor(p, held[i], p) = RouteFor(p, held[j], p) => i = j
        BY <2>12, <4>3, <4>4, <4>5, <4>6, <4>8
      <4> QED BY <2>8, <3>3, <4>2, <4>7, <4>9
    <3> QED BY <3>2, <3>3
  <2>17. ASSUME NEW q \in Known, ~Single(q)
         PROVE  pst'[q] = pst[q]
    BY <1>1, <2>4, <2>15, <2>17
  <2>18. HeldOK'
    <3>1. ASSUME NEW q \in Known, ~Single(q), pst'[q].held # <<>>
          PROVE  /\ Len(pst'[q].held) = 1 /\ gcur # 0 /\ q \in ToSet(ginst[gcur].members)
                 /\ ginst[gcur].route = {RouteFor(q, pst'[q].held[1], Group(gcur))}
                 /\ RouteFor(q, pst'[q].held[1], Group(gcur)) \in routes'[cfg(q).kind]
      BY <2>7, <2>15, <2>17, <3>1 DEF HeldOK
    <3> QED BY <1>1, <2>5, <2>6, <2>16, <3>1 DEF HeldOK
  <2>19. MembersOK'
    BY <1>1, <2>5, <2>7, <2>17 DEF MembersOK
  <2>20. OwnerOK'
    <3>1. ASSUME NEW w \in Mux, NEW o \in routes'[w]
          PROVE  \/ /\ o.payload \in Known /\ Single(o.payload) /\ w = cfg(o.payload).kind
                    /\ \E i \in DOMAIN pst'[o.payload].held :
                         o = RouteFor(o.payload, pst'[o.payload].held[i], o.payload)
                 \/ /\ gcur # 0 /\ o.payload = Group(gcur) /\ o \in ginst[gcur].route
                    /\ \E q \in ToSet(ginst[gcur].members) : w = cfg(q).kind
      <4>1. CASE o = new /\ w = m
        <5>1. n + 1 \in DOMAIN pst'[p].held /\ pst'[p].held[n + 1] = k
          BY <2>2, <2>3, <2>4
        <5> QED BY <1>1, <2>8, <2>9, <4>1, <5>1
      <4>2. CASE ~(o = new /\ w = m)
        <5>1. o \in routes[w]
          BY <2>13, <3>1, <4>2
        <5>2. ASSUME NEW q \in Known, q = o.payload, Single(q), w = cfg(q).kind,
                     NEW i \in DOMAIN pst[q].held, o = RouteFor(q, pst[q].held[i], q)
              PROVE  i \in DOMAIN pst'[q].held /\ o = RouteFor(q, pst'[q].held[i], q)
          <6>1. CASE q = p
            <7>1. i \in 1..n /\ pst'[p].held = x.held
              BY <2>2, <2>3, <2>4, <5>2, <6>1
            <7>2. i \in DOMAIN x.held /\ x.held[i] = pst[p].held[i]
              BY <2>2, <2>3, <7>1
            <7> QED BY <5>2, <6>1, <7>1, <7>2
          <6>2. CASE q # p
            BY <2>4, <2>15, <5>2, <6>2
          <6> QED BY <6>1, <6>2
        <5>3. CASE /\ o.payload \in Known /\ Single(o.payload) /\ w = cfg(o.payload).kind
                   /\ \E i \in DOMAIN pst[o.payload].held :
                        o = RouteFor(o.payload, pst[o.payload].held[i], o.payload)
          BY <5>2, <5>3
        <5> QED BY <2>7, <5>1, <5>3 DEF OwnerOK
      <4> QED BY <4>1, <4>2
    <3> QED BY <1>1, <2>5, <2>6, <3>1 DEF OwnerOK
  <2>21. RoutersOK'
    BY <2>7, <2>12, <2>13 DEF RoutersOK
  <2> QED BY <2>4, <2>14, <2>18, <2>19, <2>20, <2>21 DEF PxyParts
<1> QED BY <1>3, <1>4

\* A member of the group holds its one route.
LEMMA MemberIs ==
  ASSUME PxyParts, gcur # 0, NEW q \in ToSet(ginst[gcur].members)
  PROVE  /\ q \in Known /\ ~Single(q) /\ Len(pst[q].held) = 1 /\ pst[q].held[1] \in Ask
         /\ ginst[gcur].route = {RouteFor(q, pst[q].held[1], Group(gcur))}
         /\ RouteFor(q, pst[q].held[1], Group(gcur)) \in routes[cfg(q).kind]
<1>1. q \in Known /\ ~Single(q) /\ pst[q].held # <<>>
  BY DEF PxyParts, MembersOK
<1>2. /\ Len(pst[q].held) = 1 /\ ginst[gcur].route = {RouteFor(q, pst[q].held[1], Group(gcur))}
      /\ RouteFor(q, pst[q].held[1], Group(gcur)) \in routes[cfg(q).kind]
  BY <1>1 DEF PxyParts, HeldOK
<1>3. pst[q].held \in Seq(Ask)
  BY <1>1, GroupIs
<1> QED BY <1>1, <1>2, <1>3

\* Whoever fits a group wants its route, and is not yet a member.
LEMMA FitsRoute ==
  ASSUME PxyParts, NEW p \in Known, ~Single(p), gcur # 0, ginst[gcur].members # <<>>,
         pst[p].at = "run", pst[p].todo # <<>>, fits(p, ginst[gcur], Head(pst[p].todo))
  PROVE  /\ p \notin ToSet(ginst[gcur].members) /\ pst[p].held = <<>>
         /\ ginst[gcur].route = {RouteFor(p, Head(pst[p].todo), Group(gcur))}
         /\ RouteFor(p, Head(pst[p].todo), Group(gcur)) \in routes[cfg(p).kind]
<1>1. PICK k : k = Head(pst[p].todo)
  OBVIOUS
<1>2. PICK g : g = ginst[gcur]
  OBVIOUS
<1>3. PICK q \in Pxy : q \in ToSet(g.members)
  <2>1. g.members \in Seq(Pxy) /\ g.members # <<>>
    BY <1>2, GroupIs
  <2>2. g.members[1] \in Pxy /\ 1 \in DOMAIN g.members
    BY <2>1
  <2> QED BY <2>2 DEF ToSet
<1>4. PICK c : c = pst[q].held[1]
  OBVIOUS
<1>5. /\ q \in Known /\ ~Single(q) /\ c \in Ask /\ g.route = {RouteFor(q, c, Group(gcur))}
      /\ RouteFor(q, c, Group(gcur)) \in routes[cfg(q).kind] /\ Len(pst[q].held) = 1
  BY <1>2, <1>3, <1>4, MemberIs
<1>6. cfg(p).kind = cfg(q).kind /\ cfg(p).kind \in Mux
  BY <1>5, ConfigIs DEF PxyParts
<1>7. fits(p, g, k)
  BY <1>1, <1>2
<1>8. ToLower(c[1]) = ToLower(k[1])
  BY <1>5, <1>7 DEF fits, fitsHTTP, fitsHTTPS, fitsTCPMux, RouteFor
<1>9. c[2] = k[2]
  <2>1. CASE cfg(p).kind = "http"
    BY <1>5, <1>7, <2>1 DEF fits, fitsHTTP, RouteFor
  <2>2. CASE cfg(p).kind # "http"
    <3>1. k[2] = <<>>
      BY <1>1, <2>2, AskedFor
    <3>2. c[2] = <<>>
      <4>1. NoLocs(q, pst[q].held) /\ pst[q].held \in Seq(Ask)
        BY <1>5, GroupIs DEF PxyParts, AskedOK
      <4>2. 1 \in DOMAIN pst[q].held
        BY <1>5, <4>1
      <4> QED BY <1>4, <1>6, <2>2, <4>1, <4>2 DEF NoLocs
    <3> QED BY <3>1, <3>2
  <2> QED BY <2>1, <2>2
<1>10. cfg(q).user = cfg(p).user
  <2>1. CASE cfg(p).kind = "https"
    BY <1>5, <1>6, <2>1, ConfigIs DEF PxyParts
  <2>2. CASE cfg(p).kind # "https"
    BY <1>5, <1>7, <2>2 DEF fits, fitsHTTP, fitsTCPMux, RouteFor
  <2> QED BY <2>1, <2>2
<1>11. RouteFor(q, c, Group(gcur)) = RouteFor(p, k, Group(gcur))
  BY <1>8, <1>9, <1>10 DEF RouteFor
<1>12. pst[p].held = <<>>
  <2>1. SUFFICES ASSUME pst[p].held # <<>> PROVE FALSE
    OBVIOUS
  <2>2. p \in ToSet(g.members) /\ Len(pst[p].held) = 1 /\ g.route = {RouteFor(p, pst[p].held[1], Group(gcur))}
    BY <1>2, <2>1 DEF PxyParts, HeldOK
  <2>3. cfg(p).kind # "http"
    BY <1>7, <2>2 DEF fits, fitsHTTP
  <2>4. 1 \in DOMAIN pst[p].held
    BY <2>2, AskedFor
  <2>5. ToLower(pst[p].held[1][1]) # ToLower(k[1])
    BY <1>1, <2>3, <2>4, AskedFor
  <2>6. RouteFor(p, pst[p].held[1], Group(gcur)) = RouteFor(p, k, Group(gcur))
    BY <1>5, <1>11, <2>2
  <2> QED BY <2>5, <2>6 DEF RouteFor
<1>13. p \notin ToSet(g.members)
  BY <1>2, <1>12 DEF PxyParts, MembersOK
<1> QED BY <1>1, <1>2, <1>5, <1>6, <1>11, <1>12, <1>13

\* One more element.
LEMMA AppendIs ==
  ASSUME NEW S, NEW s \in Seq(S), NEW e \in S
  PROVE  /\ Append(s, e) \in Seq(S) /\ ToSet(Append(s, e)) = ToSet(s) \cup {e}
         /\ Distinct(s) /\ e \notin ToSet(s) => Distinct(Append(s, e))
<1>1. PICK n \in Nat : n = Len(s)
  OBVIOUS
<1>2. PICK t : t = Append(s, e)
  OBVIOUS
<1>3. /\ t \in Seq(S) /\ DOMAIN t = 1..(n + 1) /\ DOMAIN s = 1..n /\ t[n + 1] = e
      /\ \A i \in 1..n : t[i] = s[i]
  BY <1>1, <1>2
<1>4. \A i \in 1..(n + 1) : i \in 1..n \/ i = n + 1
  OBVIOUS
<1>5. n + 1 \in 1..(n + 1) /\ \A i \in 1..n : i \in 1..(n + 1)
  OBVIOUS
<1>6. ToSet(t) = ToSet(s) \cup {e}
  BY <1>3, <1>4, <1>5 DEF ToSet
<1>7. ASSUME Distinct(s), e \notin ToSet(s) PROVE Distinct(t)
  <2>1. \A i \in 1..n : s[i] # e
    BY <1>3, <1>7 DEF ToSet
  <2>2. \A i, j \in 1..n : s[i] = s[j] => i = j
    BY <1>3, <1>7 DEF Distinct
  <2>3. ASSUME NEW i \in 1..(n + 1), NEW j \in 1..(n + 1), t[i] = t[j] PROVE i = j
    <3>1. CASE i \in 1..n /\ j \in 1..n
      BY <1>3, <2>2, <2>3, <3>1
    <3>2. CASE ~(i \in 1..n /\ j \in 1..n)
      BY <1>3, <1>4, <2>1, <2>3, <3>2
    <3> QED BY <3>1, <3>2
  <2> QED BY <1>3, <2>3 DEF Distinct
<1> QED BY <1>2, <1>3, <1>6, <1>7

\* A proxy joins the group, which may be the first time that the route is added.
LEMMA JoinKeeps ==
  ASSUME PxyParts, NEW p \in Known, ~Single(p), gcur # 0, p \notin ToSet(ginst[gcur].members),
         NEW x \in PxyState, pst' = [pst EXCEPT ![p] = x], Becomes(p, x), vscene' = vscene, gcur' = gcur,
         NEW k \in Ask, x.held = <<k>>,
         NEW y \in GroupState, ginst' = [ginst EXCEPT ![gcur] = y],
         y.route = {RouteFor(p, k, Group(gcur))}, y.members = Append(ginst[gcur].members, p),
         ginst[gcur].members # <<>> => ginst[gcur].route = {RouteFor(p, k, Group(gcur))},
         routes' = [routes EXCEPT ![cfg(p).kind] = @ \cup {RouteFor(p, k, Group(gcur))}],
         \/ RouteFor(p, k, Group(gcur)) \in routes[cfg(p).kind]
         \/ Free(p, k)
  PROVE  PxyParts'
<1>1. /\ AskedOK' /\ VhostSceneOK(vscene)' /\ pst' \in [Pxy -> PxyState]
      /\ pst'[p] = x /\ \A q \in Pxy : q # p => pst'[q] = pst[q]
  BY AskedKept
<1>2. /\ Known' = Known
      /\ \A q : cfg(q)' = cfg(q) /\ (Single(q)' <=> Single(q))
  BY SceneSame
<1>3. \A q, j, o : RouteFor(q, j, o)' = RouteFor(q, j, o)
  BY <1>2 DEF RouteFor
<1>4. /\ HeldOK /\ MembersOK /\ OwnerOK /\ RoutersOK /\ routes \in [Mux -> SUBSET Route]
      /\ ginst \in [1..MaxInst -> GroupState]
  BY DEF PxyParts, PxyTypes
<1>5. PICK m \in Mux : m = cfg(p).kind
  BY ConfigIs DEF PxyParts
<1>6. PICK c \in 1..MaxInst : c = gcur
  BY GroupIs
<1>7. PICK new \in Route : new = RouteFor(p, k, Group(c)) /\ new.payload = Group(c) /\ new.dom = ToLower(k[1])
                           /\ new.loc = k[2] /\ new.user = cfg(p).user
  <2>1. Group(c) \in Payload
    BY <1>6 DEF Payload
  <2> QED BY <2>1, RouteIs
<1>8. routes[m] \cup {new} \in SUBSET Route /\ Apart(routes[m] \cup {new})
  <2>1. CASE new \in routes[m]
    <3>1. routes[m] \cup {new} = routes[m]
      BY <2>1
    <3> QED BY <1>4, <3>1 DEF RoutersOK
  <2>2. CASE Free(p, k)
    <3>1. ~exist(routes[m], new.dom, new.loc, new.user)
      BY <1>5, <1>7, <2>2 DEF Free, AddOK
    <3> QED BY <1>4, <3>1, AddedApart DEF RoutersOK
  <2> QED BY <1>5, <1>6, <1>7, <2>1, <2>2
<1>9. /\ routes' \in [Mux -> SUBSET Route] /\ routes'[m] = routes[m] \cup {new}
      /\ \A w \in Mux : w # m => routes'[w] = routes[w]
  <2>1. routes' = [routes EXCEPT ![m] = routes[m] \cup {new}]
    BY <1>5, <1>6, <1>7
  <2> QED BY <1>4, <1>8, <2>1
<1>10. /\ ginst' \in [1..MaxInst -> GroupState] /\ ginst'[c] = y
       /\ \A i \in 1..MaxInst : i # c => ginst'[i] = ginst[i]
  BY <1>4, <1>6
<1>11. PxyTypes'
  BY <1>1, <1>9, <1>10 DEF PxyParts, PxyTypes
<1>12. PICK s \in Seq(Pxy) : s = ginst[c].members
  BY <1>6, GroupIs
<1>13. p \in Pxy /\ \A q \in Known : q \in Pxy
  BY GroupIs
<1>14. ToSet(y.members) = ToSet(s) \cup {p} /\ Distinct(y.members)
  <2>1. Distinct(s) /\ p \notin ToSet(s)
    BY <1>4, <1>6, <1>12 DEF MembersOK, Distinct
  <2>2. y.members = Append(s, p)
    BY <1>6, <1>12
  <2> QED BY <1>13, <2>1, <2>2, AppendIs
<1>15. y.route = {new} /\ (s # <<>> => ginst[c].route = {new})
  BY <1>6, <1>7, <1>12
<1>16. \A q \in Known : cfg(q).kind \in Mux /\ routes[cfg(q).kind] \subseteq routes'[cfg(q).kind]
  BY <1>9, ConfigIs DEF PxyParts
<1>17. \A q : q \in ToSet(s) => s # <<>>
  BY DEF ToSet
<1>18. Len(x.held) = 1 /\ x.held[1] = k /\ x.held # <<>>
  OBVIOUS
<1>19. HeldOK'
  <2>1. ASSUME NEW q \in Known, Single(q)
        PROVE  /\ \A i \in DOMAIN pst'[q].held : RouteFor(q, pst'[q].held[i], q) \in routes'[cfg(q).kind]
               /\ \A i, j \in DOMAIN pst'[q].held :
                    RouteFor(q, pst'[q].held[i], q) = RouteFor(q, pst'[q].held[j], q) => i = j
    <3>1. pst'[q] = pst[q]
      BY <1>1, <1>13, <2>1
    <3>2. /\ \A i \in DOMAIN pst[q].held : RouteFor(q, pst[q].held[i], q) \in routes[cfg(q).kind]
          /\ \A i, j \in DOMAIN pst[q].held :
               RouteFor(q, pst[q].held[i], q) = RouteFor(q, pst[q].held[j], q) => i = j
      BY <1>4, <2>1 DEF HeldOK
    <3> QED BY <1>16, <3>1, <3>2
  <2>2. ASSUME NEW q \in Known, ~Single(q), pst'[q].held # <<>>
        PROVE  /\ Len(pst'[q].held) = 1 /\ q \in ToSet(y.members)
               /\ y.route = {RouteFor(q, pst'[q].held[1], Group(c))}
               /\ RouteFor(q, pst'[q].held[1], Group(c)) \in routes'[cfg(q).kind]
    <3>1. CASE q = p
      BY <1>1, <1>5, <1>7, <1>9, <1>14, <1>15, <1>18, <3>1
    <3>2. CASE q # p
      <4>1. pst'[q] = pst[q]
        BY <1>1, <1>13, <3>2
      <4>2. /\ Len(pst[q].held) = 1 /\ q \in ToSet(s)
            /\ ginst[c].route = {RouteFor(q, pst[q].held[1], Group(c))}
            /\ RouteFor(q, pst[q].held[1], Group(c)) \in routes[cfg(q).kind]
        BY <1>4, <1>6, <1>12, <2>2, <4>1 DEF HeldOK
      <4>3. ginst[c].route = y.route
        BY <1>15, <1>17, <4>2
      <4> QED BY <1>14, <1>16, <4>1, <4>2, <4>3
    <3> QED BY <3>1, <3>2
  <2> QED BY <1>2, <1>3, <1>6, <1>10, <2>1, <2>2 DEF HeldOK
<1>20. MembersOK'
  <2>1. \A i \in 1..MaxInst : i # c => ginst'[i].members = <<>>
    BY <1>4, <1>6, <1>10 DEF MembersOK
  <2>2. ASSUME NEW q \in ToSet(y.members) PROVE q \in Known /\ ~Single(q) /\ pst'[q].held # <<>>
    <3>1. CASE q = p
      BY <1>1, <1>18, <3>1
    <3>2. CASE q # p
      <4>1. q \in ToSet(s)
        BY <1>14, <2>2, <3>2
      <4>2. q \in Known /\ ~Single(q) /\ pst[q].held # <<>>
        BY <1>4, <1>6, <1>12, <4>1 DEF MembersOK
      <4> QED BY <1>1, <1>13, <3>2, <4>2
    <3> QED BY <3>1, <3>2
  <2> QED BY <1>2, <1>6, <1>10, <1>14, <2>1, <2>2 DEF MembersOK, Distinct
<1>21. OwnerOK'
  <2>1. ASSUME NEW w \in Mux, NEW o \in routes'[w]
        PROVE  \/ /\ o.payload \in Known /\ Single(o.payload) /\ w = cfg(o.payload).kind
                  /\ \E i \in DOMAIN pst'[o.payload].held :
                       o = RouteFor(o.payload, pst'[o.payload].held[i], o.payload)
               \/ /\ o.payload = Group(c) /\ o \in y.route
                  /\ \E q \in ToSet(y.members) : w = cfg(q).kind
    <3>1. CASE o = new /\ w = m
      BY <1>5, <1>7, <1>14, <1>15, <3>1
    <3>2. CASE ~(o = new /\ w = m)
      <4>1. o \in routes[w]
        BY <1>9, <2>1, <3>2
      <4>2. ASSUME NEW q \in Known, q = o.payload, Single(q), w = cfg(q).kind,
                   \E i \in DOMAIN pst[q].held : o = RouteFor(q, pst[q].held[i], q)
            PROVE  \E i \in DOMAIN pst'[q].held : o = RouteFor(q, pst'[q].held[i], q)
        BY <1>1, <1>13, <4>2
      <4>3. CASE /\ o.payload \in Known /\ Single(o.payload) /\ w = cfg(o.payload).kind
                 /\ \E i \in DOMAIN pst[o.payload].held :
                      o = RouteFor(o.payload, pst[o.payload].held[i], o.payload)
        BY <4>2, <4>3
      <4>4. CASE /\ gcur # 0 /\ o.payload = Group(gcur) /\ o \in ginst[gcur].route
                 /\ \E q \in ToSet(ginst[gcur].members) : w = cfg(q).kind
        <5>1. PICK q \in ToSet(s) : w = cfg(q).kind
          BY <1>6, <1>12, <4>4
        <5>2. ginst[c].route = y.route
          BY <1>15, <1>17, <5>1
        <5> QED BY <1>6, <1>14, <4>4, <5>1, <5>2
      <4> QED BY <1>4, <4>1, <4>3, <4>4 DEF OwnerOK
    <3> QED BY <3>1, <3>2
  <2> QED BY <1>2, <1>3, <1>6, <1>10, <2>1 DEF OwnerOK
<1>22. RoutersOK'
  BY <1>4, <1>8, <1>9 DEF RoutersOK
<1> QED BY <1>1, <1>11, <1>19, <1>20, <1>21, <1>22 DEF PxyParts

LEMMA RegisterGroupKeeps ==
  ASSUME PxyParts, NEW p \in Pxy, RegisterGroup(p)
  PROVE  PxyParts'
<1>1. /\ pst[p].at = "run" /\ pst[p].todo # <<>> /\ pst[p].h # 0 /\ UNCHANGED <<vscene, gcur>>
      /\ p \in Known
  BY UnderWay DEF RegisterGroup
<1>2. ~Single(p)
  BY <1>1 DEF PxyParts, AskedOK
<1>3. PICK k : k = Head(pst[p].todo)
  OBVIOUS
<1>4. PICK route : route = RouteFor(p, k, Group(pst[p].h))
  OBVIOUS
<1>5. \/ gcur # pst[p].h /\ pst' = [pst EXCEPT ![p].h = 0] /\ UNCHANGED <<routes, ginst>>
      \/ PxyGoto(p, "close") /\ UNCHANGED <<routes, ginst>>
      \/ /\ gcur = pst[p].h /\ ginst[gcur].members = <<>> /\ Free(p, k) /\ Holds(p)
         /\ routes' = [routes EXCEPT ![cfg(p).kind] = @ \cup {route}]
         /\ ginst' = [ginst EXCEPT ![gcur] =
              [route |-> {route}, key |-> cfg(p).key, members |-> <<p>>]]
      \/ /\ gcur = pst[p].h /\ ginst[gcur].members # <<>> /\ fits(p, ginst[gcur], k) /\ Holds(p)
         /\ routes' = routes /\ ginst' = [ginst EXCEPT ![gcur].members = Append(@, p)]
  <2>1. PICK r : r = [dom |-> ToLower(k[1]), loc |-> k[2], user |-> cfg(p).user, payload |-> Group(pst[p].h)]
    OBVIOUS
  <2>2. r = route
    BY <1>4, <2>1 DEF RouteFor
  <2>3. \/ ~isCurrentGroup(pst[p].h) /\ pst' = [pst EXCEPT ![p].h = 0] /\ UNCHANGED <<routes, ginst>>
        \/ /\ isCurrentGroup(pst[p].h) /\ ginst[pst[p].h].members = <<>>
           /\ IF Free(p, k)
              THEN /\ Holds(p) /\ routes' = [routes EXCEPT ![cfg(p).kind] = @ \cup {r}]
                   /\ ginst' = [ginst EXCEPT ![pst[p].h] =
                        [route |-> {r}, key |-> cfg(p).key, members |-> <<p>>]]
              ELSE PxyGoto(p, "close") /\ UNCHANGED <<routes, ginst>>
        \/ /\ isCurrentGroup(pst[p].h) /\ ginst[pst[p].h].members # <<>>
           /\ IF fits(p, ginst[pst[p].h], k)
              THEN /\ Holds(p) /\ routes' = routes
                   /\ ginst' = [ginst EXCEPT ![pst[p].h].members = Append(@, p)]
              ELSE PxyGoto(p, "close") /\ UNCHANGED <<routes, ginst>>
    BY <1>3, <2>1, Zenon DEF RegisterGroup
  <2> QED BY <2>2, <2>3, Zenon DEF isCurrentGroup
<1>6. CASE gcur # pst[p].h /\ pst' = [pst EXCEPT ![p].h = 0] /\ UNCHANGED <<routes, ginst>>
  <2>1. ginst' \in [1..MaxInst -> GroupState]
    BY <1>6 DEF PxyParts, PxyTypes
  <2>2. PICK g \in 0..MaxInst : g = 0
    <3>1. MaxInst \in Nat
      BY GroupIs
    <3> QED BY <3>1
  <2>3. pst' = [pst EXCEPT ![p].h = g]
    BY <1>6, <2>2
  <2> QED BY <1>1, <1>2, <1>6, <2>1, <2>3, HKeeps
<1>7. CASE PxyGoto(p, "close") /\ UNCHANGED <<routes, ginst>>
  BY <1>1, <1>7, GotoKeeps
<1>8. ASSUME gcur = pst[p].h, Holds(p), p \notin ToSet(ginst[gcur].members),
             NEW y \in GroupState, ginst' = [ginst EXCEPT ![gcur] = y],
             y.route = {RouteFor(p, k, Group(gcur))}, y.members = Append(ginst[gcur].members, p),
             ginst[gcur].members # <<>> => ginst[gcur].route = {RouteFor(p, k, Group(gcur))},
             routes' = [routes EXCEPT ![cfg(p).kind] = @ \cup {RouteFor(p, k, Group(gcur))}],
             RouteFor(p, k, Group(gcur)) \in routes[cfg(p).kind] \/ Free(p, k),
             pst[p].held = <<>>
      PROVE  PxyParts'
  <2>1. PICK x \in PxyState :
          /\ pst' = [pst EXCEPT ![p] = x] /\ Becomes(p, x)
          /\ x.held = Append(pst[p].held, Head(pst[p].todo)) /\ Head(pst[p].todo) \in Ask
    BY <1>1, <1>8, HoldsIs
  <2>2. PICK e : e = <<>> /\ pst[p].held = e
    BY <1>8
  <2>3. x.held = <<k>> /\ k \in Ask
    <3>1. Append(<<>>, k) = <<k>>
      OBVIOUS
    <3> QED BY <1>3, <2>1, <2>2, <3>1
  <2>4. gcur # 0
    BY <1>1, <1>8
  <2> QED BY <1>1, <1>2, <1>8, <2>1, <2>3, <2>4, JoinKeeps
<1>9. CASE /\ gcur = pst[p].h /\ ginst[gcur].members = <<>> /\ Free(p, k) /\ Holds(p)
           /\ routes' = [routes EXCEPT ![cfg(p).kind] = @ \cup {route}]
           /\ ginst' = [ginst EXCEPT ![gcur] =
                [route |-> {route}, key |-> cfg(p).key, members |-> <<p>>]]
  <2>1. p \notin ToSet(ginst[gcur].members)
    BY <1>9 DEF ToSet
  <2>2. pst[p].held = <<>>
    BY <1>1, <1>2, <2>1 DEF PxyParts, HeldOK
  <2>3. route = RouteFor(p, k, Group(gcur)) /\ gcur \in 1..MaxInst /\ k \in Ask
    BY <1>1, <1>3, <1>4, <1>9, AskedFor, GroupIs
  <2>4. route \in Route
    <3>1. Group(gcur) \in Payload
      BY <2>3 DEF Payload
    <3> QED BY <1>1, <2>3, <3>1, RouteIs
  <2>5. PICK y : y = [route |-> {route}, key |-> cfg(p).key, members |-> <<p>>]
    OBVIOUS
  <2>6. y.route = {route} /\ y.members = <<p>> /\ ginst' = [ginst EXCEPT ![gcur] = y]
    BY <1>9, <2>5
  <2>7. y \in GroupState
    <3>1. cfg(p).key \in Word
      BY <1>1, ConfigIs DEF PxyParts
    <3>2. <<p>> \in Seq(Pxy)
      OBVIOUS
    <3> QED BY <2>4, <2>5, <3>1, <3>2 DEF GroupState
  <2>8. y.members = Append(ginst[gcur].members, p)
    <3>1. Append(<<>>, p) = <<p>>
      OBVIOUS
    <3> QED BY <1>9, <2>6, <3>1
  <2>9. routes' = [routes EXCEPT ![cfg(p).kind] = @ \cup {RouteFor(p, k, Group(gcur))}]
    BY <1>9, <2>3
  <2> QED BY <1>8, <1>9, <2>1, <2>2, <2>3, <2>6, <2>7, <2>8, <2>9
<1>10. CASE /\ gcur = pst[p].h /\ ginst[gcur].members # <<>> /\ fits(p, ginst[gcur], k) /\ Holds(p)
            /\ routes' = routes /\ ginst' = [ginst EXCEPT ![gcur].members = Append(@, p)]
  <2>1. /\ p \notin ToSet(ginst[gcur].members) /\ pst[p].held = <<>>
        /\ ginst[gcur].route = {RouteFor(p, k, Group(gcur))}
        /\ RouteFor(p, k, Group(gcur)) \in routes[cfg(p).kind]
    BY <1>1, <1>2, <1>3, <1>10, FitsRoute
  <2>2. PICK g : g = ginst[gcur]
    OBVIOUS
  <2>3. g \in GroupState /\ gcur \in 1..MaxInst /\ g.members \in Seq(Pxy)
    BY <1>1, <1>10, <2>2, GroupIs
  <2>4. PICK s : s = Append(g.members, p)
    OBVIOUS
  <2>5. s \in Seq(Pxy)
    BY <2>3, <2>4, AppendIs
  <2>6. PICK y : y = [g EXCEPT !.members = s]
    OBVIOUS
  <2>7. y \in GroupState /\ y.members = s /\ y.route = g.route
    BY <2>3, <2>5, <2>6 DEF GroupState
  <2>8. ginst' = [ginst EXCEPT ![gcur] = y]
    BY <1>10, <2>2, <2>4, <2>6
  <2>9. routes' = [routes EXCEPT ![cfg(p).kind] = @ \cup {RouteFor(p, k, Group(gcur))}]
    <3>1. PICK R : R = routes[cfg(p).kind] \cup {RouteFor(p, k, Group(gcur))}
      OBVIOUS
    <3>2. R = routes[cfg(p).kind]
      BY <2>1, <3>1
    <3>3. routes \in [Mux -> SUBSET Route]
      BY DEF PxyParts, PxyTypes
    <3>4. [routes EXCEPT ![cfg(p).kind] = R] = routes
      BY <3>2, <3>3
    <3> QED BY <1>10, <3>1, <3>4
  <2>10. y.route = {RouteFor(p, k, Group(gcur))} /\ y.members = Append(ginst[gcur].members, p)
    BY <2>1, <2>2, <2>4, <2>7
  <2> QED BY <1>8, <1>10, <2>1, <2>7, <2>8, <2>9, <2>10
<1> QED BY <1>5, <1>6, <1>7, <1>9, <1>10

\* A proxy that closes gives up what it holds, one after another.
LEMMA UnheldIs ==
  ASSUME PxyParts, NEW p \in Pxy, pst[p].at = "close", pst[p].held # <<>>, Unheld(p)
  PROVE  \E x \in PxyState, n \in Nat :
           /\ p \in Known /\ pst' = [pst EXCEPT ![p] = x] /\ Becomes(p, x)
           /\ DOMAIN pst[p].held = 1..(n + 1) /\ DOMAIN x.held = 1..n
           /\ Len(x.held) = n /\ Len(pst[p].held) = n + 1
           /\ \A i \in 1..n : x.held[i] = pst[p].held[i + 1]
           /\ Head(pst[p].held) = pst[p].held[1] /\ Head(pst[p].held) \in Ask
<1>1. p \in Known
  BY UnderWay
<1>2. PICK s \in Seq(Ask) : s = pst[p].held /\ s # <<>>
  BY GroupIs
<1>3. PICK n \in Nat : Len(s) = n + 1
  <2>1. Len(s) \in Nat /\ Len(s) # 0
    BY <1>2
  <2>2. Len(s) - 1 \in Nat /\ Len(s) = (Len(s) - 1) + 1
    BY <2>1
  <2> QED BY <2>2
<1>4. PICK t : t = Tail(s)
  OBVIOUS
<1>5. /\ t \in Seq(Ask) /\ Len(t) = n /\ DOMAIN t = 1..n /\ DOMAIN s = 1..(n + 1)
      /\ (\A i \in 1..n : t[i] = s[i + 1]) /\ Head(s) = s[1] /\ Head(s) \in Ask
  BY <1>2, <1>3, <1>4
<1>6. PICK x : x = [pst[p] EXCEPT !.held = t]
  OBVIOUS
<1>7. x \in PxyState /\ x.held = t /\ x.at = "close" /\ x.h = pst[p].h
  <2>1. pst[p] \in PxyState
    BY GroupIs
  <2> QED BY <1>5, <1>6, <2>1 DEF PxyState
<1>8. pst' = [pst EXCEPT ![p] = x]
  BY <1>2, <1>4, <1>6 DEF Unheld
<1>9. Becomes(p, x)
  <2>1. (Single(p) => pst[p].h = 0) /\ NoLocs(p, s)
    BY <1>1, <1>2 DEF PxyParts, AskedOK
  <2>2. NoLocs(p, t)
    <3>1. \A i \in 1..n : i + 1 \in 1..(n + 1)
      OBVIOUS
    <3> QED BY <1>5, <2>1, <3>1 DEF NoLocs
  <2> QED BY <1>7, <2>1, <2>2 DEF Becomes
<1> QED BY <1>1, <1>2, <1>3, <1>5, <1>7, <1>8, <1>9

LEMMA CloseRouteKeeps ==
  ASSUME PxyParts, NEW p \in Pxy, CloseRoute(p)
  PROVE  PxyParts'
<1>1. /\ pst[p].at = "close" /\ pst[p].held # <<>> /\ Single(p) /\ Unheld(p)
      /\ UNCHANGED <<vscene, gcur, ginst>>
      /\ routes' = [routes EXCEPT ![cfg(p).kind] =
           DelRoute(@, Head(pst[p].held)[1], Head(pst[p].held)[2], cfg(p).user)]
  BY Zenon DEF CloseRoute, Single
<1>2. PICK x \in PxyState, n \in Nat :
        /\ p \in Known /\ pst' = [pst EXCEPT ![p] = x] /\ Becomes(p, x)
        /\ DOMAIN pst[p].held = 1..(n + 1) /\ DOMAIN x.held = 1..n
        /\ \A i \in 1..n : x.held[i] = pst[p].held[i + 1]
        /\ Head(pst[p].held) = pst[p].held[1] /\ Head(pst[p].held) \in Ask
  BY <1>1, UnheldIs
<1>3. /\ AskedOK' /\ VhostSceneOK(vscene)' /\ pst' \in [Pxy -> PxyState]
      /\ pst'[p] = x /\ \A q \in Pxy : q # p => pst'[q] = pst[q]
  BY <1>1, <1>2, AskedKept
<1>4. /\ Known' = Known
      /\ \A q : cfg(q)' = cfg(q) /\ (Single(q)' <=> Single(q))
  BY <1>1, SceneSame
<1>5. \A q, j, o : RouteFor(q, j, o)' = RouteFor(q, j, o)
  BY <1>4 DEF RouteFor
<1>6. HeldOK /\ MembersOK /\ OwnerOK /\ RoutersOK /\ routes \in [Mux -> SUBSET Route]
  BY DEF PxyParts, PxyTypes
<1>7. PICK m \in Mux : m = cfg(p).kind
  BY <1>2, ConfigIs DEF PxyParts
<1>8. \A q \in Known : q \in Pxy /\ cfg(q).kind \in Mux
  BY ConfigIs DEF PxyParts
<1>9. PICK s : s = pst[p].held
  OBVIOUS
<1>10. PICK t : t = x.held
  OBVIOUS
<1>11. /\ DOMAIN s = 1..(n + 1) /\ DOMAIN t = 1..n /\ \A i \in 1..n : t[i] = s[i + 1]
       /\ 1 \in 1..(n + 1) /\ \A i \in 1..n : i + 1 \in 1..(n + 1) /\ i + 1 # 1
  BY <1>2, <1>9, <1>10
<1>12. PICK k \in Ask : k = s[1] /\ k = Head(pst[p].held)
  BY <1>2, <1>9
<1>13. PICK gone : gone = RouteFor(p, k, p)
  OBVIOUS
<1>14. /\ \A i \in 1..(n + 1) : RouteFor(p, s[i], p) \in routes[m]
       /\ \A i, j \in 1..(n + 1) : RouteFor(p, s[i], p) = RouteFor(p, s[j], p) => i = j
  BY <1>1, <1>2, <1>6, <1>7, <1>9, <1>11 DEF HeldOK
<1>15. gone \in routes[m] /\ gone.payload = p /\ gone.dom = ToLower(k[1]) /\ gone.loc = k[2]
       /\ gone.user = cfg(p).user
  BY <1>11, <1>12, <1>13, <1>14 DEF RouteFor
<1>16. DelRoute(routes[m], k[1], k[2], cfg(p).user) = routes[m] \ {gone}
  <2>1. \A o \in routes[m] : o.dom = ToLower(k[1]) /\ o.loc = k[2] /\ o.user = cfg(p).user => o = gone
    BY <1>6, <1>15 DEF RoutersOK, Apart
  <2> QED BY <1>15, <2>1 DEF DelRoute
<1>17. /\ routes' \in [Mux -> SUBSET Route] /\ routes'[m] = routes[m] \ {gone}
       /\ \A w \in Mux : w # m => routes'[w] = routes[w]
  <2>1. routes' = [routes EXCEPT ![m] = routes[m] \ {gone}]
    BY <1>1, <1>7, <1>12, <1>16
  <2>2. routes[m] \ {gone} \in SUBSET Route
    BY <1>6
  <2> QED BY <1>6, <2>1, <2>2
<1>18. PxyTypes'
  BY <1>1, <1>3, <1>17 DEF PxyParts, PxyTypes
<1>19. \A w \in Mux : \A o : o \in routes[w] /\ o # gone => o \in routes'[w]
  BY <1>17
<1>20. \A q, j, c : RouteFor(q, j, c).payload = c
  BY DEF RouteFor
<1>21. ASSUME gcur # 0 PROVE Group(gcur) # p
  <2>1. gcur \in 1..MaxInst
    BY <1>21, GroupIs
  <2> QED BY <2>1, VhostAssumption DEF VhostAssumption
<1>22. ASSUME NEW q \in Known, Single(q)
       PROVE  /\ \A i \in DOMAIN pst'[q].held : RouteFor(q, pst'[q].held[i], q) \in routes'[cfg(q).kind]
              /\ \A i, j \in DOMAIN pst'[q].held :
                   RouteFor(q, pst'[q].held[i], q) = RouteFor(q, pst'[q].held[j], q) => i = j
  <2>1. CASE q # p
    <3>1. pst'[q] = pst[q]
      BY <1>3, <1>8, <2>1
    <3>2. /\ \A i \in DOMAIN pst[q].held : RouteFor(q, pst[q].held[i], q) \in routes[cfg(q).kind]
          /\ \A i, j \in DOMAIN pst[q].held :
               RouteFor(q, pst[q].held[i], q) = RouteFor(q, pst[q].held[j], q) => i = j
      BY <1>6, <1>22 DEF HeldOK
    <3>3. \A j : RouteFor(q, j, q) # gone
      BY <1>15, <1>20, <2>1
    <3> QED BY <1>8, <1>19, <3>1, <3>2, <3>3
  <2>2. CASE q = p
    <3>1. \A i \in 1..n : RouteFor(p, t[i], p) \in routes[m] /\ RouteFor(p, t[i], p) # gone
      BY <1>11, <1>12, <1>13, <1>14
    <3>2. \A i, j \in 1..n : RouteFor(p, t[i], p) = RouteFor(p, t[j], p) => i = j
      <4>1. ASSUME NEW i \in 1..n, NEW j \in 1..n, RouteFor(p, t[i], p) = RouteFor(p, t[j], p) PROVE i = j
        <5>1. i + 1 = j + 1
          BY <1>11, <1>14, <4>1
        <5> QED BY <5>1
      <4> QED BY <4>1
    <3>3. pst'[q].held = t
      BY <1>3, <1>10, <2>2
    <3> QED BY <1>7, <1>11, <1>19, <2>2, <3>1, <3>2, <3>3
  <2> QED BY <2>1, <2>2
<1>23. \A q \in Known : ~Single(q) => pst'[q] = pst[q]
  BY <1>1, <1>3, <1>8
<1>24. HeldOK'
  <2>1. ASSUME NEW q \in Known, ~Single(q), pst'[q].held # <<>>
        PROVE  /\ Len(pst'[q].held) = 1 /\ gcur # 0 /\ q \in ToSet(ginst[gcur].members)
               /\ ginst[gcur].route = {RouteFor(q, pst'[q].held[1], Group(gcur))}
               /\ RouteFor(q, pst'[q].held[1], Group(gcur)) \in routes'[cfg(q).kind]
    <3>1. /\ Len(pst[q].held) = 1 /\ gcur # 0 /\ q \in ToSet(ginst[gcur].members)
          /\ ginst[gcur].route = {RouteFor(q, pst[q].held[1], Group(gcur))}
          /\ RouteFor(q, pst[q].held[1], Group(gcur)) \in routes[cfg(q).kind]
      BY <1>6, <1>23, <2>1 DEF HeldOK
    <3>2. RouteFor(q, pst[q].held[1], Group(gcur)) # gone
      BY <1>15, <1>20, <1>21, <3>1
    <3> QED BY <1>8, <1>19, <1>23, <2>1, <3>1, <3>2
  <2> QED BY <1>1, <1>4, <1>5, <1>22, <2>1 DEF HeldOK
<1>25. MembersOK'
  BY <1>1, <1>4, <1>6, <1>23 DEF MembersOK
<1>26. OwnerOK'
  <2>1. ASSUME NEW w \in Mux, NEW o \in routes'[w]
        PROVE  \/ /\ o.payload \in Known /\ Single(o.payload) /\ w = cfg(o.payload).kind
                  /\ \E i \in DOMAIN pst'[o.payload].held :
                       o = RouteFor(o.payload, pst'[o.payload].held[i], o.payload)
               \/ /\ gcur # 0 /\ o.payload = Group(gcur) /\ o \in ginst[gcur].route
                  /\ \E q \in ToSet(ginst[gcur].members) : w = cfg(q).kind
    <3>1. o \in routes[w] /\ (w = m => o # gone)
      BY <1>17, <2>1
    <3>2. ASSUME NEW q \in Known, q = o.payload, Single(q), w = cfg(q).kind,
                 NEW i \in DOMAIN pst[q].held, o = RouteFor(q, pst[q].held[i], q)
          PROVE  \E j \in DOMAIN pst'[q].held : o = RouteFor(q, pst'[q].held[j], q)
      <4>1. CASE q # p
        BY <1>3, <1>8, <3>2, <4>1
      <4>2. CASE q = p
        <5>1. i \in 1..(n + 1) /\ o = RouteFor(p, s[i], p)
          BY <1>9, <1>11, <3>2, <4>2
        <5>2. i # 1
          BY <1>7, <1>12, <1>13, <3>1, <3>2, <4>2, <5>1
        <5>3. i - 1 \in 1..n /\ (i - 1) + 1 = i
          BY <5>1, <5>2
        <5>4. o = RouteFor(p, t[i - 1], p)
          BY <1>11, <5>1, <5>3
        <5>5. pst'[p].held = t
          BY <1>3, <1>10
        <5> QED BY <1>11, <4>2, <5>3, <5>4, <5>5
      <4> QED BY <4>1, <4>2
    <3>3. CASE /\ o.payload \in Known /\ Single(o.payload) /\ w = cfg(o.payload).kind
               /\ \E i \in DOMAIN pst[o.payload].held :
                    o = RouteFor(o.payload, pst[o.payload].held[i], o.payload)
      BY <3>2, <3>3
    <3> QED BY <1>6, <3>1, <3>3 DEF OwnerOK
  <2> QED BY <1>1, <1>4, <1>5, <2>1 DEF OwnerOK
<1>27. RoutersOK'
  <2>1. ASSUME NEW w \in Mux PROVE Apart(routes'[w])
    <3>1. routes'[w] \subseteq routes[w]
      BY <1>17
    <3> QED BY <1>6, <3>1 DEF RoutersOK, Apart
  <2> QED BY <2>1 DEF RoutersOK
<1> QED BY <1>3, <1>18, <1>24, <1>25, <1>26, <1>27 DEF PxyParts

LEMMA LeaveKeeps ==
  ASSUME PxyParts, NEW p \in Pxy, LeaveGroup(p)
  PROVE  PxyParts'
<1>1. PICK left, gone : /\ left = RemoveFirst(ginst[gcur].members, p)
                        /\ gone = IF left = <<>> THEN ginst[gcur].route ELSE {}
  OBVIOUS
<1>2. /\ pst[p].at = "close" /\ pst[p].held # <<>> /\ ~Single(p) /\ gcur # 0 /\ Unheld(p)
      /\ ginst' = [ginst EXCEPT ![gcur].members = left] /\ gcur' = (IF left = <<>> THEN 0 ELSE gcur)
      /\ routes' = [routes EXCEPT ![cfg(p).kind] = @ \ gone] /\ vscene' = vscene
  BY <1>1, Zenon DEF LeaveGroup, Single
<1>3. PICK x \in PxyState, n \in Nat :
        /\ p \in Known /\ pst' = [pst EXCEPT ![p] = x] /\ Becomes(p, x)
        /\ Len(pst[p].held) = n + 1 /\ Len(x.held) = n
        /\ Head(pst[p].held) = pst[p].held[1] /\ Head(pst[p].held) \in Ask
  BY <1>2, UnheldIs
<1>4. /\ AskedOK' /\ VhostSceneOK(vscene)' /\ pst' \in [Pxy -> PxyState]
      /\ pst'[p] = x /\ \A q \in Pxy : q # p => pst'[q] = pst[q]
  BY <1>2, <1>3, AskedKept
<1>5. /\ Known' = Known
      /\ \A q : cfg(q)' = cfg(q) /\ (Single(q)' <=> Single(q))
  BY <1>2, SceneSame
<1>6. \A q, j, o : RouteFor(q, j, o)' = RouteFor(q, j, o)
  BY <1>5 DEF RouteFor
<1>7. /\ HeldOK /\ MembersOK /\ OwnerOK /\ RoutersOK /\ routes \in [Mux -> SUBSET Route]
      /\ ginst \in [1..MaxInst -> GroupState]
  BY DEF PxyParts, PxyTypes
<1>8. PICK m \in Mux : m = cfg(p).kind
  BY <1>3, ConfigIs DEF PxyParts
<1>9. \A q \in Known : q \in Pxy /\ cfg(q).kind \in Mux /\ (~Single(q) => cfg(q).kind = m)
  BY <1>2, <1>3, <1>8, ConfigIs DEF PxyParts
<1>10. PICK c \in 1..MaxInst : c = gcur
  BY <1>2, GroupIs
<1>11. PICK s \in Seq(Pxy) : s = ginst[c].members
  BY GroupIs
<1>12. PICK k : k = pst[p].held[1]
  OBVIOUS
<1>13. PICK route : route = RouteFor(p, k, Group(c))
  OBVIOUS
<1>14. /\ Len(pst[p].held) = 1 /\ p \in ToSet(s) /\ ginst[c].route = {route} /\ route \in routes[m]
       /\ route.payload = Group(c)
  <2>1. /\ Len(pst[p].held) = 1 /\ p \in ToSet(ginst[gcur].members)
        /\ ginst[gcur].route = {RouteFor(p, pst[p].held[1], Group(gcur))}
        /\ RouteFor(p, pst[p].held[1], Group(gcur)) \in routes[cfg(p).kind]
    BY <1>2, <1>3, <1>7 DEF HeldOK
  <2>2. route.payload = Group(c)
    BY <1>13 DEF RouteFor
  <2> QED BY <1>8, <1>10, <1>11, <1>12, <1>13, <2>1, <2>2
<1>15. x.held = <<>>
  <2>1. Len(x.held) = 0
    <3>1. n + 1 = 1 /\ Len(x.held) = n
      BY <1>3, <1>14, Zenon
    <3> QED BY <3>1
  <2>2. x.held \in Seq(Ask)
    BY DEF PxyState
  <2> QED BY <2>1, <2>2
<1>16. left \in Seq(Pxy) /\ ToSet(left) = ToSet(s) \ {p} /\ Distinct(left)
  <2>1. Distinct(s)
    BY <1>2, <1>7, <1>10, <1>11 DEF MembersOK, Distinct
  <2>2. left = RemoveFirst(s, p)
    BY <1>1, <1>10, <1>11
  <2> QED BY <1>14, <2>1, <2>2, RemoveFirstIs
<1>17. /\ ginst' \in [1..MaxInst -> GroupState] /\ ginst'[c].members = left /\ ginst'[c].route = {route}
       /\ \A i \in 1..MaxInst : i # c => ginst'[i] = ginst[i]
  <2>1. PICK y : y = [ginst[c] EXCEPT !.members = left]
    OBVIOUS
  <2>2. y \in GroupState /\ y.members = left /\ y.route = ginst[c].route
    BY <1>7, <1>16, <2>1 DEF GroupState
  <2>3. ginst' = [ginst EXCEPT ![c] = y]
    BY <1>2, <1>10, <2>1
  <2> QED BY <1>7, <1>14, <2>2, <2>3
<1>18. gone \in {{}, {route}} /\ (left = <<>> => gone = {route})
  BY <1>1, <1>10, <1>14
<1>19. /\ routes' \in [Mux -> SUBSET Route] /\ routes'[m] = routes[m] \ gone
       /\ \A w \in Mux : w # m => routes'[w] = routes[w]
  <2>1. routes' = [routes EXCEPT ![m] = routes[m] \ gone]
    BY <1>2, <1>8
  <2>2. routes[m] \ gone \in SUBSET Route
    BY <1>7
  <2> QED BY <1>7, <2>1, <2>2
<1>20. PxyTypes'
  <2>1. MaxInst \in Nat
    BY GroupIs
  <2>2. gcur' \in 0..MaxInst
    BY <1>2, <1>10, <2>1
  <2> QED BY <1>4, <1>17, <1>19, <2>2 DEF PxyTypes
<1>21. \A w \in Mux : \A o : o \in routes[w] /\ o # route => o \in routes'[w]
  BY <1>18, <1>19
<1>22. \A q, j, o : RouteFor(q, j, o).payload = o
  BY DEF RouteFor
<1>23. \A q \in Known : q # Group(c)
  BY <1>9, VhostAssumption DEF VhostAssumption
<1>24. ASSUME NEW q \in Known, Single(q)
       PROVE  /\ pst'[q] = pst[q]
              /\ \A i \in DOMAIN pst'[q].held : RouteFor(q, pst'[q].held[i], q) \in routes'[cfg(q).kind]
              /\ \A i, j \in DOMAIN pst'[q].held :
                   RouteFor(q, pst'[q].held[i], q) = RouteFor(q, pst'[q].held[j], q) => i = j
  <2>1. pst'[q] = pst[q]
    BY <1>2, <1>4, <1>9, <1>24
  <2>2. /\ \A i \in DOMAIN pst[q].held : RouteFor(q, pst[q].held[i], q) \in routes[cfg(q).kind]
        /\ \A i, j \in DOMAIN pst[q].held :
             RouteFor(q, pst[q].held[i], q) = RouteFor(q, pst[q].held[j], q) => i = j
    BY <1>7, <1>24 DEF HeldOK
  <2>3. \A j : RouteFor(q, j, q) # route
    BY <1>14, <1>22, <1>23
  <2> QED BY <1>9, <1>21, <2>1, <2>2, <2>3
<1>25. ASSUME NEW q \in Known, ~Single(q), pst'[q].held # <<>>
       PROVE  /\ pst'[q] = pst[q] /\ pst[q].held # <<>> /\ q \in ToSet(left)
              /\ Len(pst[q].held) = 1 /\ {route} = {RouteFor(q, pst[q].held[1], Group(c))}
              /\ left # <<>> /\ gcur' = c
  <2>1. q # p
    BY <1>4, <1>15, <1>25
  <2>2. pst'[q] = pst[q]
    BY <1>4, <1>9, <2>1
  <2>3. /\ Len(pst[q].held) = 1 /\ q \in ToSet(s) /\ ginst[c].route = {RouteFor(q, pst[q].held[1], Group(c))}
    BY <1>7, <1>10, <1>11, <1>25, <2>2 DEF HeldOK
  <2>4. q \in ToSet(left)
    BY <1>16, <2>1, <2>3
  <2>5. left # <<>>
    BY <2>4 DEF ToSet
  <2> QED BY <1>2, <1>10, <1>14, <1>25, <2>2, <2>3, <2>4, <2>5
<1>26. left # <<>> => route \in routes'[m]
  BY <1>1, <1>14, <1>19
<1>27. HeldOK'
  <2>1. ASSUME NEW q \in Known, ~Single(q), pst'[q].held # <<>>
        PROVE  /\ Len(pst'[q].held) = 1 /\ gcur' # 0 /\ q \in ToSet(ginst'[gcur'].members)
               /\ ginst'[gcur'].route = {RouteFor(q, pst'[q].held[1], Group(gcur'))}
               /\ RouteFor(q, pst'[q].held[1], Group(gcur')) \in routes'[cfg(q).kind]
    <3>1. /\ pst'[q] = pst[q] /\ q \in ToSet(left)
          /\ Len(pst[q].held) = 1 /\ {route} = {RouteFor(q, pst[q].held[1], Group(c))}
          /\ left # <<>> /\ gcur' = c
      BY <1>25, <2>1
    <3>2. gcur' # 0
      BY <1>2, <1>10, <3>1
    <3>3. route = RouteFor(q, pst[q].held[1], Group(c)) /\ cfg(q).kind = m
      BY <1>9, <2>1, <3>1
    <3> QED BY <1>17, <1>26, <3>1, <3>2, <3>3
  <2> QED BY <1>5, <1>6, <1>24, <2>1 DEF HeldOK
<1>28. MembersOK'
  <2>1. ASSUME NEW i \in 1..MaxInst, i # gcur' PROVE ginst'[i].members = <<>>
    <3>1. CASE i # c
      BY <1>7, <1>10, <1>17, <3>1 DEF MembersOK
    <3>2. CASE i = c
      BY <1>2, <1>10, <1>17, <2>1, <3>2
    <3> QED BY <3>1, <3>2
  <2>2. ASSUME gcur' # 0
        PROVE  /\ \A q \in ToSet(ginst'[gcur'].members) : q \in Known /\ ~Single(q) /\ pst'[q].held # <<>>
               /\ \A i, j \in DOMAIN ginst'[gcur'].members :
                     ginst'[gcur'].members[i] = ginst'[gcur'].members[j] => i = j
    <3>1. gcur' = c /\ ginst'[c].members = left
      BY <1>2, <1>10, <1>17, <2>2
    <3>2. ASSUME NEW q \in ToSet(left) PROVE q \in Known /\ ~Single(q) /\ pst'[q].held # <<>>
      <4>1. q \in ToSet(s) /\ q # p
        BY <1>16, <3>2
      <4>2. q \in Known /\ ~Single(q) /\ pst[q].held # <<>>
        BY <1>2, <1>7, <1>10, <1>11, <4>1 DEF MembersOK
      <4> QED BY <1>4, <1>9, <4>1, <4>2
    <3> QED BY <1>16, <3>1, <3>2 DEF Distinct
  <2> QED BY <1>5, <2>1, <2>2 DEF MembersOK
<1>29. OwnerOK'
  <2>1. ASSUME NEW w \in Mux, NEW o \in routes'[w]
        PROVE  \/ /\ o.payload \in Known /\ Single(o.payload) /\ w = cfg(o.payload).kind
                  /\ \E i \in DOMAIN pst'[o.payload].held :
                       o = RouteFor(o.payload, pst'[o.payload].held[i], o.payload)
               \/ /\ gcur' # 0 /\ o.payload = Group(gcur') /\ o \in ginst'[gcur'].route
                  /\ \E q \in ToSet(ginst'[gcur'].members) : w = cfg(q).kind
    <3>1. o \in routes[w]
      BY <1>19, <2>1
    <3>2. CASE /\ o.payload \in Known /\ Single(o.payload) /\ w = cfg(o.payload).kind
               /\ \E i \in DOMAIN pst[o.payload].held :
                    o = RouteFor(o.payload, pst[o.payload].held[i], o.payload)
      <4>1. pst'[o.payload] = pst[o.payload]
        BY <1>24, <3>2
      <4> QED BY <3>2, <4>1
    <3>3. CASE /\ gcur # 0 /\ o.payload = Group(gcur) /\ o \in ginst[gcur].route
               /\ \E q \in ToSet(ginst[gcur].members) : w = cfg(q).kind
      <4>1. PICK q \in ToSet(s) : w = cfg(q).kind
        BY <1>10, <1>11, <3>3
      <4>2. q \in Known /\ ~Single(q)
        BY <1>2, <1>7, <1>10, <1>11, <4>1 DEF MembersOK
      <4>3. w = m /\ o = route
        BY <1>9, <1>10, <1>14, <3>3, <4>1, <4>2
      <4>4. left # <<>>
        BY <1>18, <1>19, <2>1, <4>3
      <4>5. gcur' = c /\ gcur' # 0
        BY <1>2, <1>10, <4>4
      <4>6. PICK z : z \in ToSet(left)
        <5>1. left[1] \in ToSet(left)
          <6>1. 1 \in DOMAIN left
            BY <1>16, <4>4
          <6> QED BY <6>1 DEF ToSet
        <5> QED BY <5>1
      <4>7. z \in Known /\ ~Single(z)
        BY <1>2, <1>7, <1>10, <1>11, <1>16, <4>6 DEF MembersOK
      <4>8. w = cfg(z).kind
        BY <1>9, <4>3, <4>7
      <4> QED BY <1>14, <1>17, <4>3, <4>5, <4>6, <4>8
    <3> QED BY <1>7, <3>1, <3>2, <3>3 DEF OwnerOK
  <2> QED BY <1>5, <1>6, <2>1 DEF OwnerOK
<1>30. RoutersOK'
  <2>1. ASSUME NEW w \in Mux PROVE Apart(routes'[w])
    <3>1. routes'[w] \subseteq routes[w]
      BY <1>19
    <3> QED BY <1>7, <3>1 DEF RoutersOK, Apart
  <2> QED BY <2>1 DEF RoutersOK
<1> QED BY <1>4, <1>20, <1>27, <1>28, <1>29, <1>30 DEF PxyParts

-----------------------------------------------------------------------------
(* The routes of frps: every step.                                         *)

\* Proxies leave the requests alone.
LEMMA RequestsStay ==
  UNCHANGED <<vscene, gidx, rq, idle>> /\ ReqTypes /\ TurnsOK /\ ShownOK
    => ReqTypes' /\ TurnsOK' /\ ShownOK'
<1> SUFFICES ASSUME UNCHANGED <<vscene, gidx, rq, idle>>, ReqTypes, TurnsOK, ShownOK
             PROVE  ReqTypes' /\ TurnsOK' /\ ShownOK'
  OBVIOUS
<1>1. ReqTypes'
  BY DEF ReqTypes, Known
<1>2. TurnsOK'
  BY DEF TurnsOK, Turns, req
<1>3. ShownOK'
  BY DEF ShownOK, req, Known, cfg
<1> QED BY <1>1, <1>2, <1>3

LEMMA PxyStep ==
  ASSUME VhostInv, NEW p \in Pxy,
         \/ RegisterRoute(p) \/ getOrCreateGroup(p) \/ RegisterGroup(p) \/ RunDone(p)
         \/ CloseRoute(p) \/ LeaveGroup(p) \/ CloseDone(p)
         \/ RunHTTP(p) \/ RunHTTPS(p) \/ RunTCPMux(p) \/ CloseVhost(p)
  PROVE  VhostInv'
<1>1. PxyParts /\ ReqTypes /\ TurnsOK /\ ShownOK
  BY DEF VhostInv, PxyParts
<1>2. UNCHANGED <<vscene, gidx, rq, idle>>
  BY DEF RegisterRoute, getOrCreateGroup, RegisterGroup, RunDone, CloseRoute, LeaveGroup, CloseDone,
         RunHTTP, RunHTTPS, RunTCPMux, CloseVhost, Starts
<1>3. ReqTypes' /\ TurnsOK' /\ ShownOK'
  BY <1>1, <1>2, RequestsStay
<1>4. ASSUME RunDone(p) \/ CloseVhost(p) \/ CloseDone(p) PROVE PxyParts'
  <2>1. PICK at \in {"close", "on", "done"} :
          /\ PxyGoto(p, at) /\ UNCHANGED <<vscene, routes, gcur, ginst>> /\ pst[p].at # "off"
          /\ (at = "on" => pst[p].at = "run" /\ pst[p].todo = <<>>) /\ (at = "done" => pst[p].held = <<>>)
    BY <1>4 DEF RunDone, CloseVhost, CloseDone
  <2> QED BY <1>1, <2>1, GotoKeeps
<1>5. PxyParts'
  BY <1>1, <1>4, StartKeeps, RegisterKeeps, CreateKeeps, RegisterGroupKeeps, CloseRouteKeeps, LeaveKeeps
<1> QED BY <1>3, <1>5 DEF VhostInv, PxyParts

LEMMA VhostInvStep == VhostInv /\ [VhostNext]_vhostVars => VhostInv'
<1> SUFFICES ASSUME VhostInv, [VhostNext]_vhostVars PROVE VhostInv'
  OBVIOUS
<1>1. CASE UNCHANGED vhostVars
  <2>1. UNCHANGED <<vscene, vpxyVars, gidx, rq, idle>>
    BY <1>1 DEF vhostVars
  <2>2. PxyParts'
    BY <2>1, PxyPartsSame DEF VhostInv, PxyParts
  <2>3. ReqTypes' /\ TurnsOK' /\ ShownOK'
    BY <2>1, RequestsStay DEF VhostInv
  <2> QED BY <2>2, <2>3 DEF VhostInv, PxyParts
<1>2. CASE VhostNext
  BY <1>2, PxyStep, RequestStep, IdleStep, Zenon DEF VhostNext, VhostStep
<1> QED BY <1>1, <1>2

\* Whatever proxies of http, https and tcpmux come and go, alone or in a group, and
\* whatever is asked for: a proxy that runs has all its routes, no route is left of one
\* that is gone, every name is routed by the domain closest to it, no route lies outside
\* its user's pools, and who is served has shown the credentials (vhost/router.go,
\* getByRoute, Add and Del; group/http.go, Register and UnRegister; vhost/http.go).
THEOREM RoutesSoundHolds == VhostSpec => []RoutesSound
<1>1. (\E s : VhostSceneOK(s) /\ VhostInit(s)) => VhostInv
  BY VhostInvInit
<1>2. VhostInv /\ [VhostNext]_vhostVars => VhostInv'
  BY VhostInvStep
<1>3. VhostInv => RoutesSound
  BY VhostInvSound
<1> QED BY <1>1, <1>2, <1>3, PTL DEF VhostSpec

-----------------------------------------------------------------------------
(* The ways in which two NATs try to reach each other.                     *)

AnSpec == (\E s : PairSceneOK(s) /\ AnInit(s)) /\ [][AnNext]_anVars

\* A way of a record, and the side of one.
Mode == 0..4
Way == {w \in [mode : Mode, index : Nat, score : Int] :
          w.index \in DOMAIN getBehaviorByMode(w.mode) /\ w.score <= 10}
SideOfWay == [role : {"sender", "receiver"}, ttl : Nat, delay : Nat, range : Nat,
              random : Nat, listen : Nat]

Row(m, i) == getBehaviorByMode(m)[i]
StartsWith(w, m, i, a, b) == /\ w.mode = m /\ w.index = i
                             /\ Row(m, i)[1].role = "sender" => w.score = a
                             /\ Row(m, i)[1].role # "sender" => w.score = b

\* What a table of behaviours is made of: a side that sends and a side that receives,
\* the one that sends first where the kind of NAT decides who sends.
TwoSides(b) == /\ b \in SideOfWay \X SideOfWay
               /\ {b[1].role, b[2].role} = {"sender", "receiver"}
HardPlays(way, c, b) ==
  /\ way.mode = 1 => b[IF c.hard THEN 1 ELSE 2].role = "sender"
  /\ way.mode = 2 => b[IF c.hard THEN 1 ELSE 2].role = "receiver"
PublicPlays(c, v, b) ==
  /\ c.public => b[1].role = "receiver"
  /\ v.public /\ ~c.public => b[2].role = "receiver"
TableOK(m, n) ==
  LET table == getBehaviorByMode(m) IN
  /\ table \in Seq(SideOfWay \X SideOfWay) /\ Len(table) = n
  /\ \A i \in 1..n : TwoSides(table[i]) /\ (m \in {1, 2} => table[i][1].role = "sender")

\* No way is twice in a record.
OneOfEach(s) == \A i, j \in DOMAIN s : s[i].mode = s[j].mode /\ s[i].index = s[j].index => i = j
RecordOf(s, modes) ==
  /\ s \in Seq(Way) /\ s # <<>> /\ OneOfEach(s) /\ \A i \in DOMAIN s : s[i].mode \in modes
FreshRecord(s) == \A i \in DOMAIN s : s[i].score \in 0..1

RecordOK ==
  /\ anScores \in Seq(Way) /\ OneOfEach(anScores)
  /\ anTries \in [DOMAIN anScores -> Nat]

\* Until somebody succeeds, a way has lost what it was tried, from 0 or 1 at first,
\* and none is further ahead than that.
TriesOK ==
  anOpen = {} =>
    /\ \A i \in DOMAIN anScores : anScores[i].score + anTries[i] \in 0..1
    /\ \A i, j \in DOMAIN anScores : anScores[i].score <= anScores[j].score + 1

AnswerOK == SidesMeet /\ PortsInReach /\ HardSide /\ PublicReceivesFirst

AnInv == PairSceneOK(anScene) /\ RecordOK /\ TriesOK /\ AnswerOK

LEMMA Table0 == TableOK(0, 10)
<1> DEFINE tab == mode0Behaviors
<1>1. tab = getBehaviorByMode(0)
  BY DEF getBehaviorByMode
<1>2. tab \in Seq(SideOfWay \X SideOfWay) /\ Len(tab) = 10
  BY DEF mode0Behaviors, SideOfWay, Sender, Receiver
<1>3. \A i \in 1..10 : TwoSides(tab[i])
  BY DEF mode0Behaviors, TwoSides, SideOfWay, Sender, Receiver
<1> QED BY <1>1, <1>2, <1>3 DEF TableOK

LEMMA Table1 == TableOK(1, 6)
<1>1. PICK tab : tab = getBehaviorByMode(1)
  OBVIOUS
<1>2. tab = mode1Behaviors
  BY <1>1 DEF getBehaviorByMode
<1>3. \A i \in 1..6 : <<7, 7, 4, 4, 0, 0>>[i] \in Nat
  OBVIOUS
<1>4. ASSUME NEW i \in 1..6 PROVE TwoSides(tab[i]) /\ tab[i][1].role = "sender"
  <2>1. PICK d \in Nat : d = IF i % 2 = 0 THEN 2000 ELSE 0
    OBVIOUS
  <2>2. PICK t \in Nat : t = <<7, 7, 4, 4, 0, 0>>[i]
    BY <1>3
  <2>3. tab[i] = <<Sender(d, 0, 0), Receiver(t, 10, 0)>>
    <3>1. tab[i] = <<Sender(IF i % 2 = 0 THEN 2000 ELSE 0, 0, 0),
                     Receiver(<<7, 7, 4, 4, 0, 0>>[i], 10, 0)>>
      BY <1>2 DEF mode1Behaviors
    <3> QED BY <3>1, <2>1, <2>2
  <2> QED BY <2>3 DEF TwoSides, SideOfWay, Sender, Receiver
<1>5. tab \in Seq(SideOfWay \X SideOfWay) /\ Len(tab) = 6
  BY <1>2, <1>4 DEF mode1Behaviors, TwoSides
<1> QED BY <1>1, <1>4, <1>5 DEF TableOK

LEMMA Table2 == TableOK(2, 3)
<1>1. PICK tab : tab = getBehaviorByMode(2)
  OBVIOUS
<1>2. tab = mode2Behaviors
  BY <1>1 DEF getBehaviorByMode
<1>3. \A i \in 1..3 : <<7, 4, 0>>[i] \in Nat
  OBVIOUS
<1>4. ASSUME NEW i \in 1..3 PROVE TwoSides(tab[i]) /\ tab[i][1].role = "sender"
  <2>1. PICK t \in Nat : tab[i] = <<Sender(3000, 0, 1000), Receiver(t, 0, 256)>>
    BY <1>2, <1>3 DEF mode2Behaviors
  <2> QED BY <2>1 DEF TwoSides, SideOfWay, Sender, Receiver
<1>5. tab \in Seq(SideOfWay \X SideOfWay) /\ Len(tab) = 3
  BY <1>2, <1>4 DEF mode2Behaviors, TwoSides
<1> QED BY <1>1, <1>4, <1>5 DEF TableOK

LEMMA Table3 == TableOK(3, 6)
<1>1. PICK tab : tab = getBehaviorByMode(3)
  OBVIOUS
<1>2. tab = mode3Behaviors
  BY <1>1 DEF getBehaviorByMode
<1>3. \A i \in 1..3 : <<7, 4, 0>>[i] \in Nat
  OBVIOUS
<1>4. ASSUME NEW i \in 1..6 PROVE TwoSides(tab[i])
  <2>1. PICK t \in Nat : \/ tab[i] = <<Sender(0, 10, 0), Receiver(t, 10, 0)>>
                         \/ tab[i] = <<Receiver(t, 10, 0), Sender(0, 10, 0)>>
    <3>1. CASE i <= 3
      BY <1>2, <1>3, <3>1 DEF mode3Behaviors
    <3>2. CASE ~(i <= 3)
      BY <1>2, <1>3, <3>2 DEF mode3Behaviors
    <3> QED BY <3>1, <3>2
  <2> QED BY <2>1 DEF TwoSides, SideOfWay, Sender, Receiver
<1>5. tab \in Seq(SideOfWay \X SideOfWay) /\ Len(tab) = 6
  BY <1>2, <1>4 DEF mode3Behaviors, TwoSides
<1> QED BY <1>1, <1>4, <1>5 DEF TableOK

LEMMA Table4 == TableOK(4, 3)
<1>1. PICK tab : tab = getBehaviorByMode(4)
  OBVIOUS
<1>2. tab = mode4Behaviors
  BY <1>1 DEF getBehaviorByMode
<1>3. \A i \in 1..3 : <<7, 4, 0>>[i] \in Nat
  OBVIOUS
<1>4. ASSUME NEW i \in 1..3 PROVE TwoSides(tab[i])
  <2>1. PICK t \in Nat : tab[i] = <<Sender(3000, 0, 1000), Receiver(t, 2, 256)>>
    BY <1>2, <1>3 DEF mode4Behaviors
  <2> QED BY <2>1 DEF TwoSides, SideOfWay, Sender, Receiver
<1>5. tab \in Seq(SideOfWay \X SideOfWay) /\ Len(tab) = 3
  BY <1>2, <1>4 DEF mode4Behaviors, TwoSides
<1> QED BY <1>1, <1>4, <1>5 DEF TableOK

LEMMA TablesOK == ASSUME NEW m \in Mode PROVE \E n \in Nat : n > 0 /\ TableOK(m, n)
  BY Table0, Table1, Table2, Table3, Table4 DEF Mode

LEMMA ScoreIs ==
  ASSUME NEW m \in Mode, NEW a \in 0..1, NEW b \in 0..1,
         NEW n \in Nat, n > 0, TableOK(m, n), NEW s, s = getBehaviorScores(m, a, b)
  PROVE  /\ s \in Seq(Way) /\ Len(s) = n
         /\ \A i \in 1..n : StartsWith(s[i], m, i, a, b)
<1> DEFINE tab == getBehaviorByMode(m)
           e(i) == [mode |-> m, index |-> i,
                    score |-> IF tab[i][1].role = "sender" THEN a ELSE b]
<1>1. DOMAIN tab = 1..n
  BY DEF TableOK
<1>2. s = [i \in 1..n |-> e(i)]
  BY <1>1 DEF getBehaviorScores, scoresIn
<1>3. \A i \in 1..n : e(i) \in Way
  <2> TAKE i \in 1..n
  <2> DEFINE q == IF tab[i][1].role = "sender" THEN a ELSE b
  <2>1. q \in 0..1
    OBVIOUS
  <2> HIDE DEF q
  <2>2. [mode |-> m, index |-> i, score |-> q] \in [mode : Mode, index : Nat, score : Int]
    BY <2>1
  <2>3. i \in DOMAIN getBehaviorByMode(m) /\ q <= 10
    BY <1>1, <2>1
  <2> HIDE DEF tab
  <2>4. [mode |-> m, index |-> i, score |-> q] \in Way
    BY <2>2, <2>3 DEF Way
  <2> QED BY <2>4 DEF q, tab
<1>4. \A i \in 1..n : s[i] = e(i)
  BY <1>2
<1>5. s \in Seq(Way) /\ Len(s) = n
  <2> HIDE DEF e
  <2> QED BY <1>2, <1>3
<1> QED BY <1>4, <1>5 DEF Row, StartsWith

LEMMA ScoresOK ==
  ASSUME NEW m \in Mode, NEW a \in 0..1, NEW b \in 0..1, NEW s, s = getBehaviorScores(m, a, b)
  PROVE  RecordOf(s, {m}) /\ FreshRecord(s)
<1>1. PICK n \in Nat : n > 0 /\ TableOK(m, n)
  BY TablesOK
<1>2. s \in Seq(Way) /\ Len(s) = n
  BY <1>1, ScoreIs
<1>3. \A i \in 1..n : s[i].mode = m /\ s[i].index = i /\ s[i].score \in {a, b}
  <2>1. \A i \in 1..n : StartsWith(s[i], m, i, a, b)
    BY <1>1, ScoreIs
  <2> QED BY <2>1 DEF StartsWith
<1>4. DOMAIN s = 1..n /\ s # <<>>
  BY <1>1, <1>2
<1>5. OneOfEach(s) /\ FreshRecord(s) /\ \A i \in DOMAIN s : s[i].mode \in {m}
  BY <1>3, <1>4 DEF OneOfEach, FreshRecord
<1> QED BY <1>2, <1>4, <1>5 DEF RecordOf

LEMMA ConcatOK ==
  ASSUME NEW M, NEW N, M \cap N = {}, NEW s, NEW t,
         RecordOf(s, M), RecordOf(t, N), FreshRecord(s), FreshRecord(t)
  PROVE  RecordOf(s \o t, M \cup N) /\ FreshRecord(s \o t)
<1>1. s \in Seq(Way) /\ t \in Seq(Way)
  BY DEF RecordOf
<1>2. PICK u : u = s \o t
  OBVIOUS
<1>3. /\ u \in Seq(Way) /\ Len(u) = Len(s) + Len(t)
      /\ \A i \in 1..Len(s) : u[i] = s[i]
      /\ \A i \in Len(s) + 1..Len(s) + Len(t) : u[i] = t[i - Len(s)]
  BY <1>1, <1>2
<1>4. Len(s) \in Nat /\ Len(t) \in Nat /\ DOMAIN s = 1..Len(s) /\ DOMAIN t = 1..Len(t)
      /\ DOMAIN u = 1..Len(u)
  BY <1>1, <1>3
<1>5. \A i \in DOMAIN u : \/ i \in DOMAIN s /\ u[i] = s[i]
                          \/ i - Len(s) \in DOMAIN t /\ u[i] = t[i - Len(s)] /\ i \notin DOMAIN s
  BY <1>3, <1>4
<1>6. /\ \A i \in DOMAIN s : s[i].mode \in M /\ s[i].score \in 0..1
      /\ \A i \in DOMAIN t : t[i].mode \in N /\ t[i].score \in 0..1
  BY DEF RecordOf, FreshRecord
<1>7. FreshRecord(u) /\ \A i \in DOMAIN u : u[i].mode \in M \cup N
  BY <1>5, <1>6 DEF FreshRecord
<1>8. OneOfEach(u)
  <2> SUFFICES ASSUME NEW i \in DOMAIN u, NEW j \in DOMAIN u,
                      u[i].mode = u[j].mode, u[i].index = u[j].index
               PROVE  i = j
    BY DEF OneOfEach
  <2>1. i \in Int /\ j \in Int
    BY <1>4
  <2>2. CASE i \in DOMAIN s /\ j \in DOMAIN s
    BY <2>2, <1>3, <1>4 DEF RecordOf, OneOfEach
  <2>3. CASE i \notin DOMAIN s /\ j \notin DOMAIN s
    <3>1. i - Len(s) = j - Len(s)
      BY <2>3, <1>5 DEF RecordOf, OneOfEach
    <3> QED BY <3>1, <2>1, <1>4
  <2>4. CASE i \in DOMAIN s /\ j \notin DOMAIN s
    <3>1. u[i].mode \in M /\ u[j].mode \in N
      BY <2>4, <1>3, <1>4, <1>5, <1>6
    <3> QED BY <3>1
  <2>5. CASE i \notin DOMAIN s /\ j \in DOMAIN s
    <3>1. u[j].mode \in M /\ u[i].mode \in N
      BY <2>5, <1>3, <1>4, <1>5, <1>6
    <3> QED BY <3>1
  <2> QED BY <2>2, <2>3, <2>4, <2>5
<1>9. u # <<>>
  <2>1. Len(s) > 0
    BY <1>1 DEF RecordOf
  <2> QED BY <2>1, <1>3, <1>4
<1> QED BY <1>2, <1>3, <1>7, <1>8, <1>9 DEF RecordOf

LEMMA WiderOK ==
  ASSUME NEW M, M \subseteq Mode, NEW s, RecordOf(s, M), FreshRecord(s)
  PROVE  RecordOf(s, Mode) /\ FreshRecord(s)
  BY DEF RecordOf

LEMMA PublicScoresOK ==
  ASSUME NEW c, NEW v
  PROVE  RecordOf(publicScores(c, v), {0}) /\ FreshRecord(publicScores(c, v))
<1>1. PICK a \in 0..1, b \in 0..1 : publicScores(c, v) = getBehaviorScores(0, a, b)
  <2>1. CASE c.public
    BY <2>1 DEF publicScores
  <2>2. CASE ~c.public /\ v.public
    BY <2>2 DEF publicScores
  <2>3. CASE ~c.public /\ ~v.public
    BY <2>3 DEF publicScores, scoresOf
  <2> QED BY <2>1, <2>2, <2>3
<1> QED BY <1>1, ScoresOK DEF Mode

LEMMA ScoresOfOK ==
  ASSUME NEW m \in Mode, NEW a \in 0..1
  PROVE  RecordOf(scoresOf(m, a), {m}) /\ FreshRecord(scoresOf(m, a))
  BY ScoresOK DEF scoresOf

LEMMA TwoOK ==
  ASSUME NEW s, NEW t, NEW k \in Mode, NEW m \in Mode, k # m,
         RecordOf(s, {k}), RecordOf(t, {m}), FreshRecord(s), FreshRecord(t)
  PROVE  RecordOf(s \o t, Mode) /\ FreshRecord(s \o t)
<1>1. RecordOf(s \o t, {k} \cup {m}) /\ FreshRecord(s \o t)
  BY ConcatOK
<1>2. PICK w : w = s \o t
  OBVIOUS
<1>3. {k} \cup {m} \subseteq Mode
  OBVIOUS
<1> QED BY <1>1, <1>2, <1>3, WiderOK

LEMMA ThreeOK ==
  ASSUME NEW s, NEW t, NEW u, NEW k \in Mode, NEW m \in Mode, NEW n \in Mode,
         k # m, k # n, m # n, RecordOf(s, {k}), RecordOf(t, {m}), RecordOf(u, {n}),
         FreshRecord(s), FreshRecord(t), FreshRecord(u)
  PROVE  RecordOf(s \o t \o u, Mode) /\ FreshRecord(s \o t \o u)
<1>1. RecordOf(s \o t, {k} \cup {m}) /\ FreshRecord(s \o t)
  BY ConcatOK
<1>2. PICK w : w = s \o t
  OBVIOUS
<1>3. RecordOf(w \o u, {k} \cup {m} \cup {n}) /\ FreshRecord(w \o u)
  <2>1. ({k} \cup {m}) \cap {n} = {}
    OBVIOUS
  <2> QED BY <1>1, <1>2, <2>1, ConcatOK
<1> QED BY <1>2, <1>3, WiderOK

LEMMA RecordsOK ==
  ASSUME NEW c, NEW v, NEW s, s = newMakeHoleRecords(c, v)
  PROVE  RecordOf(s, Mode) /\ FreshRecord(s)
<1> DEFINE p == publicScores(c, v)
<1>1. \/ s = p
      \/ s = scoresOf(1, 0) \o scoresOf(2, 0) \o p
      \/ s = scoresOf(2, 0) \o scoresOf(1, 0) \o p
      \/ s = scoresOf(3, 0) \o scoresOf(4, 0)
      \/ s = scoresOf(4, 0)
      \/ s = scoresOf(0, 1) \o scoresOf(1, 1) \o scoresOf(3, 1)
  BY DEF newMakeHoleRecords
<1>2. RecordOf(p, {0}) /\ FreshRecord(p)
  BY PublicScoresOK
<1>3. 0 \in Mode /\ 1 \in Mode /\ 2 \in Mode /\ 3 \in Mode /\ 4 \in Mode
  BY DEF Mode
<1> HIDE DEF p
<1>4. \A m \in Mode, a \in 0..1 : RecordOf(scoresOf(m, a), {m}) /\ FreshRecord(scoresOf(m, a))
  BY ScoresOfOK
<1>5. 0 \in 0..1 /\ 1 \in 0..1
  OBVIOUS
<1>6. PICK s1, s2, s3, s4, t0, t1, t3 :
        /\ s1 = scoresOf(1, 0) /\ s2 = scoresOf(2, 0) /\ s3 = scoresOf(3, 0) /\ s4 = scoresOf(4, 0)
        /\ t0 = scoresOf(0, 1) /\ t1 = scoresOf(1, 1) /\ t3 = scoresOf(3, 1)
  OBVIOUS
<1>7. /\ RecordOf(s1, {1}) /\ FreshRecord(s1) /\ RecordOf(s2, {2}) /\ FreshRecord(s2)
      /\ RecordOf(s3, {3}) /\ FreshRecord(s3) /\ RecordOf(s4, {4}) /\ FreshRecord(s4)
      /\ RecordOf(t0, {0}) /\ FreshRecord(t0) /\ RecordOf(t1, {1}) /\ FreshRecord(t1)
      /\ RecordOf(t3, {3}) /\ FreshRecord(t3)
  BY <1>3, <1>4, <1>5, <1>6
<1>8. CASE s = p
  BY <1>2, <1>3, <1>8, WiderOK
<1>9. CASE s = s1 \o s2 \o p
  BY <1>2, <1>3, <1>7, <1>9, ThreeOK
<1>10. CASE s = s2 \o s1 \o p
  BY <1>2, <1>3, <1>7, <1>10, ThreeOK
<1>11. CASE s = s3 \o s4
  BY <1>3, <1>7, <1>11, TwoOK
<1>12. CASE s = s4
  BY <1>3, <1>7, <1>12, WiderOK
<1>13. CASE s = t0 \o t1 \o t3
  BY <1>3, <1>7, <1>13, ThreeOK
<1> QED BY <1>1, <1>6, <1>8, <1>9, <1>10, <1>11, <1>12, <1>13

LEMMA EasyRecords ==
  ASSUME NEW c, NEW v, ~c.hard, ~v.hard
  PROVE  newMakeHoleRecords(c, v) = publicScores(c, v)
<1>1. {x \in {"c", "v"} : (IF x = "c" THEN c ELSE v).hard} = {}
  OBVIOUS
<1>2. Cardinality({x \in {"c", "v"} : (IF x = "c" THEN c ELSE v).hard}) = 0
  BY <1>1, FS_EmptySet
<1> QED BY <1>2 DEF newMakeHoleRecords

LEMMA BestIs ==
  ASSUME NEW s \in Seq(Way), s # <<>>
  PROVE  best(s) \in DOMAIN s /\ \A j \in DOMAIN s : s[j].score <= s[best(s)].score
<1>1. DOMAIN s = 1..Len(s) /\ Len(s) \in Nat /\ Len(s) > 0
  OBVIOUS
<1>2. \A j \in DOMAIN s : s[j].score \in Int /\ s[j].score <= 10
  <2>1. \A j \in DOMAIN s : s[j] \in Way
    OBVIOUS
  <2> QED BY <2>1 DEF Way
<1>3. PICK K : K = {10 - s[j].score : j \in DOMAIN s}
  OBVIOUS
<1>4. K \in SUBSET Nat /\ K # {}
  <2>1. \A j \in DOMAIN s : 10 - s[j].score \in Nat
    BY <1>2
  <2>2. 1 \in DOMAIN s
    BY <1>1
  <2> QED BY <1>3, <2>1, <2>2
<1>5. PICK k \in K : \A m \in K : k <= m
  BY <1>4, MinIs
<1>6. PICK J : J = {j \in DOMAIN s : 10 - s[j].score = k}
  OBVIOUS
<1>7. J \in SUBSET Nat /\ J # {}
  BY <1>1, <1>3, <1>5, <1>6
<1>8. PICK i \in J : \A m \in J : i <= m
  BY <1>7, MinIs
<1>9. i \in DOMAIN s /\ \A j \in DOMAIN s : s[j].score <= s[i].score
  <2>1. i \in DOMAIN s /\ 10 - s[i].score = k
    BY <1>6, <1>8
  <2>2. \A j \in DOMAIN s : k <= 10 - s[j].score
    BY <1>3, <1>5
  <2> QED BY <1>2, <2>1, <2>2
<1>10. ASSUME NEW j \in 1..(i - 1) PROVE s[j].score < s[i].score
  <2>1. j \in DOMAIN s /\ j < i /\ i \in Nat
    BY <1>1, <1>9
  <2>2. j \notin J
    BY <1>1, <1>8, <2>1
  <2>3. 10 - s[j].score # 10 - s[i].score
    BY <1>6, <1>8, <2>1, <2>2
  <2> QED BY <1>2, <1>9, <2>1, <2>3
<1>11. \E x \in DOMAIN s : /\ \A j \in DOMAIN s : s[j].score <= s[x].score
                           /\ \A j \in 1..(x - 1) : s[j].score < s[x].score
  BY <1>9, <1>10
<1> QED BY <1>11 DEF best

LEMMA PortIs == ASSUME NEW x \in PortNumber PROVE x \in Nat /\ 1 <= x /\ x <= 65535
  BY DEF PortNumber

LEMMA FeatureIs ==
  ASSUME NEW m \in SideSet, NEW f, f = ClassifyNATFeature(m.mapped, m.assisted)
  PROVE  /\ f.hard \in BOOLEAN /\ f.regular \in BOOLEAN /\ f.public \in BOOLEAN
         /\ f.diff \in Nat
<1>1. PICK K : K = ports(m.mapped)
  OBVIOUS
<1>2. K \subseteq PortNumber /\ K # {}
  <2>1. m.mapped \in Seq(Address) /\ Len(m.mapped) > 1
    BY DEF SideSet
  <2>2. PICK q : q = m.mapped
    OBVIOUS
  <2>3. \A i \in DOMAIN q : q[i] \in Address
    BY <2>1, <2>2
  <2>4. \A i \in DOMAIN q : q[i].port \in PortNumber
    BY <2>3 DEF Address
  <2>5. 1 \in DOMAIN q
    BY <2>1, <2>2
  <2>6. K = {q[i].port : i \in DOMAIN q}
    BY <1>1, <2>2 DEF ports
  <2> QED BY <2>4, <2>5, <2>6
<1>3. PICK hi \in K, lo \in K : hi = Max(K) /\ lo = Min(K) /\ lo <= hi
  <2>1. Max(K) \in K /\ \A y \in K : y <= Max(K)
    <3>1. PICK n \in Nat : n = 65535
      OBVIOUS
    <3>2. \A x \in K : x \in Nat /\ 1 <= x /\ x <= n
      BY <1>2, <3>1, PortIs
    <3>3. \A x \in K : x \in 0..n
      BY <3>2
    <3> QED BY <1>2, <3>3, MaxIs
  <2>2. K \in SUBSET Nat
    BY <1>2, PortIs
  <2>3. Min(K) \in K
    BY <1>2, <2>2, MinIs
  <2> QED BY <2>1, <2>3
<1>4. \E d \in Nat, pub \in BOOLEAN : \E nat : f = Feature(nat, d, pub)
  <2>1. hi - lo \in Nat
    <3>1. hi \in Nat /\ lo \in Nat
      BY <1>2, PortIs
    <3> QED BY <1>3, <3>1
  <2>2. PICK ip \in BOOLEAN, port \in BOOLEAN :
          f = Feature(IF ip /\ port THEN "BothChanged" ELSE IF ip THEN "IPChanged"
                      ELSE IF port THEN "PortChanged" ELSE "NoChange",
                      IF port /\ ~ip THEN hi - lo ELSE 0,
                      ips(m.mapped) \cap m.assisted # {})
    BY <1>1, <1>3, Zenon DEF ClassifyNATFeature
  <2>3. PICK pub : pub = (ips(m.mapped) \cap m.assisted # {})
    OBVIOUS
  <2>4. pub \in BOOLEAN
    BY <2>3
  <2>5. PICK d : d = IF port /\ ~ip THEN hi - lo ELSE 0
    OBVIOUS
  <2>6. d \in Nat
    BY <2>1, <2>5
  <2>7. PICK nat : nat = IF ip /\ port THEN "BothChanged" ELSE IF ip THEN "IPChanged"
                         ELSE IF port THEN "PortChanged" ELSE "NoChange"
    OBVIOUS
  <2>8. f = Feature(nat, d, pub)
    BY <2>2, <2>3, <2>5, <2>7, Zenon
  <2> QED BY <2>4, <2>6, <2>8
<1> QED BY <1>4 DEF Feature

LEMMA RangeIs ==
  ASSUME NEW m \in SideSet, NEW d \in Nat, NEW n \in Nat,
         NEW r, r = getRangePorts(m.mapped, d, n)
  PROVE  Reaches(r, m.mapped)
<1> SUFFICES ASSUME NEW i \in DOMAIN r
             PROVE  /\ 1 <= r[i].from /\ r[i].to <= 65535
                    /\ Last(m.mapped).port \in r[i].from..r[i].to
  BY DEF Reaches
<1>1. PICK p : p = Last(m.mapped).port
  OBVIOUS
<1>2. p \in PortNumber
  <2>1. m.mapped \in Seq(Address) /\ Len(m.mapped) > 1
    BY DEF SideSet
  <2>2. PICK q : q = m.mapped
    OBVIOUS
  <2>3. Len(q) \in DOMAIN q
    BY <2>1, <2>2
  <2>4. q[Len(q)] \in Address
    BY <2>1, <2>2, <2>3
  <2>5. p = q[Len(q)].port
    BY <1>1, <2>2 DEF Last
  <2> QED BY <2>4, <2>5 DEF Address
<1>0. p \in Int /\ 1 <= p /\ p <= 65535
  BY <1>2, PortIs
<1>3. PICK hi, lo : lo = Max({p - d - 5, p - n, 1}) /\ hi = Min({p + d + 5, p + n, 65535})
  OBVIOUS
<1>4. lo \in Int /\ lo >= 1 /\ lo <= p
  <2>1. PICK a \in Int, b \in Int, k \in Int : a = p - d - 5 /\ b = p - n /\ k = 1
    BY <1>0
  <2>2. lo = Max({a, b, k})
    BY <1>3, <2>1
  <2>3. lo \in {a, b, k} /\ \A y \in {a, b, k} : lo >= y
    <3>1. \E x \in {a, b, k} : \A y \in {a, b, k} : x >= y
      OBVIOUS
    <3> QED BY <2>2, <3>1 DEF Max
  <2> QED BY <1>0, <2>1, <2>3
<1>5. hi \in Int /\ hi <= 65535 /\ p <= hi
  <2>1. PICK a \in Int, b \in Int, k \in Int : a = p + d + 5 /\ b = p + n /\ k = 65535
    BY <1>0
  <2>2. hi = Min({a, b, k})
    BY <1>3, <2>1
  <2>3. PICK h : h = Min({a, b, k})
    OBVIOUS
  <2>4. h \in {a, b, k} /\ \A y \in {a, b, k} : h <= y
    <3>1. \E x \in {a, b, k} : \A y \in {a, b, k} : x <= y
      OBVIOUS
    <3> QED BY <2>3, <3>1 DEF Min
  <2> QED BY <1>0, <2>1, <2>2, <2>3, <2>4
<1>6. r = <<>> \/ r = <<[from |-> lo, to |-> hi]>>
  BY <1>1, <1>3 DEF getRangePorts
<1>7. r[i] = [from |-> lo, to |-> hi]
  <2>1. CASE r = <<>>
    BY <2>1
  <2>2. CASE r = <<[from |-> lo, to |-> hi]>>
    <3>1. i = 1
      BY <2>2
    <3> QED BY <2>2, <3>1
  <2> QED BY <1>6, <2>1, <2>2
<1> QED BY <1>1, <1>0, <1>4, <1>5, <1>7

LEMMA SidesIs ==
  ASSUME NEW way \in Way, NEW c, NEW v, c.hard \in BOOLEAN,
         NEW b, b = sides(way, c, v)
  PROVE  TwoSides(b) /\ HardPlays(way, c, b) /\ (way.mode = 0 => b = Row(0, way.index))
<1>1. way.mode \in Mode /\ way.index \in DOMAIN getBehaviorByMode(way.mode)
  BY DEF Way
<1>2. PICK n \in Nat : n > 0 /\ TableOK(way.mode, n)
  BY <1>1, TablesOK
<1>3. PICK x : x = getBehaviorByMode(way.mode)[way.index]
  OBVIOUS
<1>4. TwoSides(x) /\ (way.mode \in {1, 2} => x[1].role = "sender")
  BY <1>1, <1>2, <1>3 DEF TableOK
<1>5. x \in SideOfWay \X SideOfWay /\ {x[1].role, x[2].role} = {"sender", "receiver"}
  BY <1>4 DEF TwoSides
<1>6. PICK y : y = <<x[2], x[1]>>
  OBVIOUS
<1>7. y \in SideOfWay \X SideOfWay /\ y[1] = x[2] /\ y[2] = x[1]
  BY <1>5, <1>6
<1>8. TwoSides(y)
  BY <1>5, <1>7 DEF TwoSides
<1>9. PICK swap : swap = (\/ way.mode = 1 /\ ~c.hard
                          \/ way.mode = 2 /\ c.hard
                          \/ way.mode = 4 /\ ~c.regular)
  OBVIOUS
<1>10. b = IF swap THEN y ELSE x
  BY <1>3, <1>6, <1>9 DEF sides
<1>11. way.mode \in {1, 2} => x[1].role = "sender" /\ x[2].role = "receiver"
  BY <1>4, <1>5
<1>12. ASSUME way.mode = 1 PROVE b[IF c.hard THEN 1 ELSE 2].role = "sender"
  BY <1>7, <1>9, <1>10, <1>11, <1>12
<1>13. ASSUME way.mode = 2 PROVE b[IF c.hard THEN 1 ELSE 2].role = "receiver"
  BY <1>7, <1>9, <1>10, <1>11, <1>13
<1>14. TwoSides(b)
  BY <1>4, <1>8, <1>10
<1>15. way.mode = 0 => b = x
  BY <1>9, <1>10
<1> QED BY <1>3, <1>12, <1>13, <1>14, <1>15 DEF Row, HardPlays

LEMMA RolesOf0 ==
  getBehaviorByMode(0)[1][1].role = "sender" /\ getBehaviorByMode(0)[2][1].role = "receiver"
<1>1. getBehaviorByMode(0) = mode0Behaviors
  BY DEF getBehaviorByMode
<1>2. mode0Behaviors[1][1] = Sender(0, 0, 0) /\ mode0Behaviors[2][1] = Receiver(7, 0, 0)
  BY DEF mode0Behaviors
<1> QED BY <1>1, <1>2 DEF Sender, Receiver

\* What the first side does when a record starts with the scores a and b.
LEMMA FirstSide ==
  ASSUME NEW a \in 0..1, NEW b \in 0..1, a # b, NEW s, s = getBehaviorScores(0, a, b)
  PROVE  \A i \in DOMAIN s : (\A j \in DOMAIN s : s[j].score <= s[i].score) =>
           /\ s[i].mode = 0 /\ s[i].index = i
           /\ Row(0, i)[1].role = IF a = 1 THEN "sender" ELSE "receiver"
<1>1. 0 \in Mode /\ 10 \in Nat /\ 10 > 0
  BY DEF Mode
<1>2. PICK tab : tab = getBehaviorByMode(0)
  OBVIOUS
<1>3. /\ Len(s) = 10 /\ s \in Seq(Way)
      /\ \A j \in 1..10 : /\ s[j].mode = 0 /\ s[j].index = j
                          /\ tab[j][1].role = "sender" => s[j].score = a
                          /\ tab[j][1].role # "sender" => s[j].score = b
  <2>1. PICK m \in Mode, n \in Nat : m = 0 /\ n = 10 /\ n > 0 /\ TableOK(m, n)
    BY <1>1, Table0
  <2>2. n > 0 /\ TableOK(m, n) /\ s = getBehaviorScores(m, a, b)
    BY <2>1
  <2>3. /\ s \in Seq(Way) /\ Len(s) = n
        /\ \A j \in 1..n : StartsWith(s[j], m, j, a, b)
    BY <2>2, ScoreIs
  <2> QED BY <1>2, <2>1, <2>3 DEF Row, StartsWith
<1>4. DOMAIN s = 1..10
  BY <1>3
<1>5. tab[1][1].role = "sender" /\ tab[2][1].role = "receiver"
  BY <1>2, RolesOf0
<1>6. s[1].score = a /\ s[2].score = b
  BY <1>3, <1>5
<1> SUFFICES ASSUME NEW i \in DOMAIN s, \A j \in DOMAIN s : s[j].score <= s[i].score
             PROVE  /\ s[i].mode = 0 /\ s[i].index = i
                    /\ Row(0, i)[1].role = IF a = 1 THEN "sender" ELSE "receiver"
  OBVIOUS
<1>7. s[i].score = 1
  <2>1. i \in 1..10 /\ 1 \in DOMAIN s /\ 2 \in DOMAIN s
    BY <1>4
  <2>2. s[i].score \in {a, b}
    BY <1>3, <2>1
  <2>3. a <= s[i].score /\ b <= s[i].score
    BY <1>6, <2>1
  <2> QED BY <2>2, <2>3
<1>8. tab[i][1].role \in {"sender", "receiver"}
  <2>1. TwoSides(tab[i])
    BY <1>2, <1>4, Table0 DEF TableOK
  <2>2. tab[i][1] \in SideOfWay
    BY <2>1 DEF TwoSides
  <2> QED BY <2>2 DEF SideOfWay
<1>9. s[i].mode = 0 /\ s[i].index = i /\ (tab[i][1].role = "sender" => s[i].score = a)
      /\ (tab[i][1].role # "sender" => s[i].score = b)
  BY <1>3, <1>4
<1>10. tab[i][1].role = IF a = 1 THEN "sender" ELSE "receiver"
  BY <1>7, <1>8, <1>9
<1> QED BY <1>2, <1>9, <1>10, Zenon DEF Row

\* Who is in a public network receives.
LEMMA PublicReceives ==
  ASSUME NEW c, NEW v, c.hard = FALSE, v.hard = FALSE, NEW s, s = newMakeHoleRecords(c, v),
         NEW way, way = s[best(s)], NEW b, b = sides(way, c, v)
  PROVE  PublicPlays(c, v, b)
<1>1. s = publicScores(c, v)
  BY EasyRecords
<1>2. RecordOf(s, Mode)
  BY RecordsOK
<1>3. PICK i \in DOMAIN s : way = s[i] /\ \A j \in DOMAIN s : s[j].score <= s[i].score
  BY <1>2, BestIs DEF RecordOf
<1>4. way \in Way
  BY <1>2, <1>3 DEF RecordOf
<1>5. TwoSides(b) /\ (way.mode = 0 => b = Row(0, way.index))
  <2>1. c.hard \in BOOLEAN /\ v.hard \in BOOLEAN
    OBVIOUS
  <2> QED BY <1>4, <2>1, SidesIs
<1>6. b \in SideOfWay \X SideOfWay /\ {b[1].role, b[2].role} = {"sender", "receiver"}
  BY <1>5 DEF TwoSides
<1>7. ASSUME c.public PROVE b[1].role = "receiver"
  <2>1. s = getBehaviorScores(0, 0, 1)
    BY <1>1, <1>7 DEF publicScores
  <2>2. 0 \in 0..1 /\ 1 \in 0..1 /\ 0 # 1
    OBVIOUS
  <2>3. s[i].mode = 0 /\ s[i].index = i /\ Row(0, i)[1].role = "receiver"
    BY <1>3, <2>1, <2>2, FirstSide
  <2> QED BY <1>3, <1>5, <2>3
<1>8. ASSUME v.public, ~c.public PROVE b[2].role = "receiver"
  <2>1. s = getBehaviorScores(0, 1, 0)
    BY <1>1, <1>8 DEF publicScores
  <2>2. 0 \in 0..1 /\ 1 \in 0..1 /\ 0 # 1
    OBVIOUS
  <2>3. s[i].mode = 0 /\ s[i].index = i /\ Row(0, i)[1].role = "sender"
    BY <1>3, <2>1, <2>2, FirstSide
  <2>4. b[1].role = "sender"
    BY <1>3, <1>5, <2>3
  <2> QED BY <1>6, <2>4
<1> QED BY <1>7, <1>8 DEF PublicPlays

LEMMA TimeoutIs ==
  ASSUME NEW b, TwoSides(b), NEW t, t = timeoutMs(b), NEW e, e = Max({b[1].delay, b[2].delay})
  PROVE  t \in Int /\ e \in Int /\ t >= e + 5000
<1>1. PICK k \in Nat, l \in Nat : k = b[1].delay /\ l = b[2].delay
  <2>1. b[1] \in SideOfWay /\ b[2] \in SideOfWay
    BY DEF TwoSides
  <2> QED BY <2>1 DEF SideOfWay
<1>2. e \in {k, l}
  <2>1. \E x \in {k, l} : \A y \in {k, l} : x >= y
    OBVIOUS
  <2> QED BY <1>1, <2>1 DEF Max
<1>3. PICK q \in Nat : t = e + 5000 + q
  <2>1. PICK q : q = IF b[1].listen > 0 \/ b[2].listen > 0 THEN 30000 ELSE 0
    OBVIOUS
  <2>2. q \in Nat
    BY <2>1
  <2>3. t = e + 5000 + q
    BY <2>1 DEF timeoutMs
  <2> QED BY <2>2, <2>3
<1> QED BY <1>2, <1>3

\* An answer of analysis: way w of the record s for the two sides c and v of the pair.
AnswerIs(x, pair, c, v, s) ==
  LET b == sides(s[best(s)], c, v)
      t == timeoutMs(b)
  IN /\ x.way = s[best(s)] /\ x.c = c /\ x.v = v /\ x.pair = pair
     /\ x.cResp = newNatHoleResponse(pair[2].mapped, b[1], t - b[1].delay, v.diff)
     /\ x.vResp = newNatHoleResponse(pair[1].mapped, b[2], t - b[2].delay, c.diff)
     /\ x.first => s = newMakeHoleRecords(c, v)

LEMMA AnswerKeeps ==
  ASSUME NEW pair \in SideSet \X SideSet, NEW c, NEW v, NEW s, RecordOf(s, Mode),
         c = ClassifyNATFeature(pair[1].mapped, pair[1].assisted),
         v = ClassifyNATFeature(pair[2].mapped, pair[2].assisted),
         AnswerIs(anAnswer', pair, c, v, s)
  PROVE  AnswerOK'
<1>1. PICK x : x = anAnswer'
  OBVIOUS
<1>2. PICK way : way = s[best(s)]
  OBVIOUS
<1>3. PICK b : b = sides(way, c, v)
  OBVIOUS
<1>4. PICK t : t = timeoutMs(b)
  OBVIOUS
<1>5. way \in Way
  BY <1>2, BestIs DEF RecordOf
<1>6. /\ c.hard \in BOOLEAN /\ c.public \in BOOLEAN /\ c.diff \in Nat
      /\ v.hard \in BOOLEAN /\ v.public \in BOOLEAN /\ v.diff \in Nat
  <2>1. pair[1] \in SideSet /\ pair[2] \in SideSet
    OBVIOUS
  <2> QED BY <2>1, FeatureIs
<1>7. TwoSides(b) /\ HardPlays(way, c, b)
  BY <1>3, <1>5, <1>6, SidesIs
<1>8. /\ x.way = way /\ x.c = c /\ x.v = v /\ x.pair = pair
      /\ x.cResp = newNatHoleResponse(pair[2].mapped, b[1], t - b[1].delay, v.diff)
      /\ x.vResp = newNatHoleResponse(pair[1].mapped, b[2], t - b[2].delay, c.diff)
      /\ x.first => s = newMakeHoleRecords(c, v)
  BY <1>1, <1>2, <1>3, <1>4, Zenon DEF AnswerIs
<1>9. PICK p, q : p = x.cResp /\ q = x.vResp
  OBVIOUS
<1>10. /\ p.role = b[1].role /\ p.delay = b[1].delay /\ p.wait = t - b[1].delay
       /\ p.candidates = getRangePorts(pair[2].mapped, v.diff, b[1].range)
  BY <1>8, <1>9 DEF newNatHoleResponse
<1>11. /\ q.role = b[2].role /\ q.delay = b[2].delay /\ q.wait = t - b[2].delay
       /\ q.candidates = getRangePorts(pair[1].mapped, c.diff, b[2].range)
  BY <1>8, <1>9 DEF newNatHoleResponse
<1>12. b[1] \in SideOfWay /\ b[2] \in SideOfWay /\ {b[1].role, b[2].role} = {"sender", "receiver"}
  BY <1>7 DEF TwoSides
<1>13. /\ b[1].delay \in Nat /\ b[2].delay \in Nat /\ b[1].range \in Nat /\ b[2].range \in Nat
  BY <1>12 DEF SideOfWay
<1>14. SidesMeet'
  <2>1. PICK e : e = Max({b[1].delay, b[2].delay})
    OBVIOUS
  <2>2. t \in Int /\ e \in Int /\ t >= e + 5000
    BY <1>4, <1>7, <2>1, TimeoutIs
  <2>3. p.delay + p.wait = t /\ q.delay + q.wait = t
    BY <1>10, <1>11, <1>13, <2>2
  <2>4. {p.role, q.role} = {"sender", "receiver"} /\ e = Max({p.delay, q.delay})
    BY <1>10, <1>11, <1>12, <2>1
  <2>5. /\ p.delay + p.wait = q.delay + q.wait
        /\ p.delay + p.wait >= Max({p.delay, q.delay}) + 5000
    BY <2>2, <2>3, <2>4
  <2> QED BY <1>1, <1>9, <2>4, <2>5 DEF SidesMeet, Ends
<1>15. PortsInReach'
  <2>1. pair[1] \in SideSet /\ pair[2] \in SideSet
    OBVIOUS
  <2>2. PICK k, l, m, n : k = q.candidates /\ l = p.candidates /\ m = pair[1] /\ n = pair[2]
    OBVIOUS
  <2>3. Reaches(k, m.mapped)
    BY <1>6, <1>11, <1>13, <2>1, <2>2, RangeIs
  <2>4. Reaches(l, n.mapped)
    BY <1>6, <1>10, <1>13, <2>1, <2>2, RangeIs
  <2> QED BY <1>1, <1>8, <1>9, <2>2, <2>3, <2>4 DEF PortsInReach
<1>16. HardSide'
  <2>1. c.hard # v.hard => /\ way.mode = 1 => (IF c.hard THEN p ELSE q).role = "sender"
                           /\ way.mode = 2 => (IF c.hard THEN p ELSE q).role = "receiver"
    BY <1>6, <1>7, <1>10, <1>11 DEF HardPlays
  <2> QED BY <1>1, <1>8, <1>9, <2>1 DEF HardSide
<1>17. PublicReceivesFirst'
  <2>1. ASSUME x.first, ~c.hard, ~v.hard
        PROVE  /\ c.public => p.role = "receiver"
               /\ v.public /\ ~c.public => q.role = "receiver"
    <3>1. c.hard = FALSE /\ v.hard = FALSE /\ s = newMakeHoleRecords(c, v)
      BY <1>6, <1>8, <2>1
    <3>2. PublicPlays(c, v, b)
      BY <1>2, <1>3, <3>1, PublicReceives
    <3> QED BY <1>10, <1>11, <3>2 DEF PublicPlays
  <2> QED BY <1>1, <1>8, <1>9, <2>1 DEF PublicReceivesFirst
<1> QED BY <1>14, <1>15, <1>16, <1>17 DEF AnswerOK

DecidedBy(pair, sc, r, x) ==
  \E c, v, s : /\ c = ClassifyNATFeature(pair[1].mapped, pair[1].assisted)
               /\ v = ClassifyNATFeature(pair[2].mapped, pair[2].assisted)
               /\ s = IF sc = <<>> THEN newMakeHoleRecords(c, v) ELSE sc
               /\ r.scores = recommand(s) /\ r.way = s[best(s)]
               /\ AnswerIs(x, pair, c, v, s)

LEMMA DecisionIs ==
  ASSUME NEW pair \in Pairs, NEW sc, NEW r, r = analysis(pair[1], pair[2], sc),
         NEW first, first = (sc = <<>>),
         NEW x, x = [way |-> r.way, c |-> r.c, v |-> r.v, cResp |-> r.told.c,
                     vResp |-> r.told.v, pair |-> pair, first |-> first]
  PROVE  DecidedBy(pair, sc, r, x)
<1>1. PICK c, v : /\ c = ClassifyNATFeature(pair[1].mapped, pair[1].assisted)
                  /\ v = ClassifyNATFeature(pair[2].mapped, pair[2].assisted)
  OBVIOUS
<1>2. PICK s : s = IF sc = <<>> THEN newMakeHoleRecords(c, v) ELSE sc
  OBVIOUS
<1>3. r = decision(pair[1], pair[2], c, v, s)
  BY <1>1, <1>2, Zenon DEF analysis
<1>4. PICK way : way = s[best(s)]
  OBVIOUS
<1>5. PICK b : b = sides(way, c, v)
  OBVIOUS
<1>6. PICK told : told = answers(pair[1], pair[2], c, v, b, timeoutMs(b))
  OBVIOUS
<1>7. r = [way |-> way, scores |-> recommand(s), c |-> c, v |-> v, told |-> told]
  BY <1>3, <1>4, <1>5, <1>6, Zenon DEF decision
<1>8. /\ told.c = newNatHoleResponse(pair[2].mapped, b[1], timeoutMs(b) - b[1].delay, v.diff)
      /\ told.v = newNatHoleResponse(pair[1].mapped, b[2], timeoutMs(b) - b[2].delay, c.diff)
  BY <1>6 DEF answers
<1>9. AnswerIs(x, pair, c, v, s)
  <2>1. r.way = way /\ r.c = c /\ r.v = v /\ r.told = told
    BY <1>7
  <2>2. x = [way |-> way, c |-> c, v |-> v, cResp |-> told.c,
             vResp |-> told.v, pair |-> pair, first |-> first]
    BY <2>1, Zenon
  <2>3. /\ x.way = way /\ x.c = c /\ x.v = v /\ x.pair = pair
        /\ x.cResp = told.c /\ x.vResp = told.v /\ x.first = first
    BY <2>2
  <2>4. first => s = newMakeHoleRecords(c, v)
    BY <1>2
  <2> QED BY <1>4, <1>5, <1>8, <2>3, <2>4, Zenon DEF AnswerIs
<1>10. r.scores = recommand(s) /\ r.way = s[best(s)]
  BY <1>4, <1>7
<1> QED BY <1>1, <1>2, <1>9, <1>10, Zenon DEF DecidedBy

LEMMA RecommandIs ==
  ASSUME NEW s, RecordOf(s, Mode), NEW u, u = recommand(s)
  PROVE  /\ u \in Seq(Way) /\ DOMAIN u = DOMAIN s /\ OneOfEach(u)
         /\ \A j \in DOMAIN s : /\ u[j].mode = s[j].mode /\ u[j].index = s[j].index
                                /\ u[j].score = IF j = best(s) THEN s[j].score - 1 ELSE s[j].score
<1>1. PICK i : i = best(s)
  OBVIOUS
<1>2. s \in Seq(Way) /\ i \in DOMAIN s
  BY <1>1, BestIs DEF RecordOf
<1>3. PICK w : w = [s[i] EXCEPT !.score = @ - 1]
  OBVIOUS
<1>4. s[i] \in Way
  BY <1>2
<1>5. w \in Way /\ w.mode = s[i].mode /\ w.index = s[i].index /\ w.score = s[i].score - 1
  <2>1. PICK x : x = s[i]
    OBVIOUS
  <2>2. x \in [mode : Mode, index : Nat, score : Int] /\ x.score <= 10
        /\ x.index \in DOMAIN getBehaviorByMode(x.mode)
    BY <1>4, <2>1 DEF Way
  <2>3. w \in [mode : Mode, index : Nat, score : Int]
        /\ w.mode = x.mode /\ w.index = x.index /\ w.score = x.score - 1
    BY <1>3, <2>1, <2>2
  <2>4. w.score <= 10
    BY <2>2, <2>3
  <2>5. w.index \in DOMAIN getBehaviorByMode(w.mode)
    BY <2>2, <2>3, Zenon
  <2>6. w \in Way
    BY <2>3, <2>4, <2>5 DEF Way
  <2> QED BY <2>1, <2>3, <2>6
<1>6. u = [s EXCEPT ![i] = w]
  BY <1>1, <1>3 DEF recommand
<1>7. u \in Seq(Way) /\ DOMAIN u = DOMAIN s /\ \A j \in DOMAIN s : u[j] = IF j = i THEN w ELSE s[j]
  BY <1>2, <1>5, <1>6
<1>8. \A j \in DOMAIN s : /\ u[j].mode = s[j].mode /\ u[j].index = s[j].index
                          /\ u[j].score = IF j = i THEN s[j].score - 1 ELSE s[j].score
  BY <1>5, <1>7
<1>9. OneOfEach(u)
  BY <1>7, <1>8 DEF RecordOf, OneOfEach
<1> QED BY <1>1, <1>7, <1>8, <1>9

LEMMA ReportIs ==
  ASSUME NEW s \in Seq(Way), OneOfEach(s), NEW way, NEW u, u = reportSuccess(s, way)
  PROVE  u \in Seq(Way) /\ DOMAIN u = DOMAIN s /\ OneOfEach(u)
<1> DEFINE up(w) == IF w.mode = way.mode /\ w.index = way.index
                    THEN [w EXCEPT !.score = IF @ + 2 > 10 THEN 10 ELSE @ + 2] ELSE w
<1>1. ASSUME NEW w \in Way
      PROVE  up(w) \in Way /\ up(w).mode = w.mode /\ up(w).index = w.index
  <2>1. w \in [mode : Mode, index : Nat, score : Int]
        /\ w.index \in DOMAIN getBehaviorByMode(w.mode)
    BY DEF Way
  <2>2. PICK k \in Int : k = (IF w.score + 2 > 10 THEN 10 ELSE w.score + 2) /\ k <= 10
    BY <2>1
  <2>3. PICK x : x = [w EXCEPT !.score = k]
    OBVIOUS
  <2>4. x \in [mode : Mode, index : Nat, score : Int]
        /\ x.mode = w.mode /\ x.index = w.index /\ x.score = k
    BY <2>1, <2>3
  <2>5. x.index \in DOMAIN getBehaviorByMode(x.mode)
    BY <2>1, <2>4, Zenon
  <2>6. x \in Way
    BY <2>2, <2>4, <2>5 DEF Way
  <2>7. up(w) = x \/ up(w) = w
    BY <2>2, <2>3
  <2> QED BY <2>4, <2>6, <2>7
<1>2. DOMAIN s = 1..Len(s) /\ Len(s) \in Nat
  OBVIOUS
<1>3. u = [i \in 1..Len(s) |-> up(s[i])]
  BY <1>2, Zenon DEF reportSuccess
<1>4. \A i \in 1..Len(s) : s[i] \in Way
  BY <1>2
<1>5. \A i \in 1..Len(s) : up(s[i]) \in Way
  BY <1>1, <1>4
<1>6. \A i \in 1..Len(s) : up(s[i]).mode = s[i].mode /\ up(s[i]).index = s[i].index
  BY <1>1, <1>4
<1> HIDE DEF up
<1>7. u \in Seq(Way) /\ DOMAIN u = 1..Len(s)
  BY <1>2, <1>3, <1>5
<1>8. \A i \in 1..Len(s) : u[i].mode = s[i].mode /\ u[i].index = s[i].index
  BY <1>3, <1>6
<1>9. OneOfEach(u)
  BY <1>2, <1>7, <1>8 DEF OneOfEach
<1> QED BY <1>2, <1>7, <1>9

LEMMA AnsweredKeeps ==
  ASSUME AnswerOK, anAnswer' = anAnswer
  PROVE  AnswerOK'
<1>1. SidesMeet' /\ PortsInReach'
  BY DEF AnswerOK, SidesMeet, PortsInReach
<1>2. HardSide' /\ PublicReceivesFirst'
  BY DEF AnswerOK, HardSide, PublicReceivesFirst
<1> QED BY <1>1, <1>2 DEF AnswerOK

LEMMA AnalysisKeeps ==
  ASSUME AnInv, Analysis
  PROVE  AnInv'
<1>1. PICK pair : pair = anScene.now
  OBVIOUS
<1>2. pair \in Pairs /\ PairSceneOK(anScene)'
  <2>1. /\ anScene \in [now : Pairs \cup {<<>>}, later : SUBSET Pairs,
                        asks : Nat, reports : Nat, cleans : Nat]
        /\ anScene.asks > 0 => anScene.now # <<>>
    BY DEF AnInv, PairSceneOK
  <2>2. anScene.asks > 0 /\ anScene' = [anScene EXCEPT !.asks = @ - 1]
    BY DEF Analysis
  <2>3. pair \in Pairs
    BY <1>1, <2>1, <2>2
  <2>4. /\ anScene' \in [now : Pairs \cup {<<>>}, later : SUBSET Pairs,
                         asks : Nat, reports : Nat, cleans : Nat]
        /\ anScene'.now = anScene.now
    BY <2>1, <2>2
  <2>5. PairSceneOK(anScene')
    BY <2>1, <2>2, <2>4 DEF PairSceneOK
  <2> QED BY <2>3, <2>5
<1>3. PICK r : /\ r = analysis(pair[1], pair[2], anScores)
               /\ anScores' = r.scores
               /\ anAnswer' = [way |-> r.way, c |-> r.c, v |-> r.v,
                               cResp |-> r.told.c, vResp |-> r.told.v,
                               pair |-> pair, first |-> anScores = <<>>]
               /\ anTries' = [j \in DOMAIN r.scores |->
                                (IF anScores = <<>> THEN 0 ELSE anTries[j])
                                + (IF r.scores[j].mode = r.way.mode
                                      /\ r.scores[j].index = r.way.index THEN 1 ELSE 0)]
               /\ anOpen' = IF anScene.reports = 0 THEN anOpen
                            ELSE anOpen \cup {[mode |-> r.way.mode, index |-> r.way.index]}
  BY <1>1, Zenon DEF Analysis
<1>4. PICK c, v, s :
        /\ c = ClassifyNATFeature(pair[1].mapped, pair[1].assisted)
        /\ v = ClassifyNATFeature(pair[2].mapped, pair[2].assisted)
        /\ s = IF anScores = <<>> THEN newMakeHoleRecords(c, v) ELSE anScores
        /\ r.scores = recommand(s) /\ r.way = s[best(s)]
        /\ AnswerIs(anAnswer', pair, c, v, s)
  <2>1. r = analysis(pair[1], pair[2], anScores)
    BY <1>3
  <2>2. PICK first : first = (anScores = <<>>)
    OBVIOUS
  <2>3. PICK x : x = [way |-> r.way, c |-> r.c, v |-> r.v, cResp |-> r.told.c,
                      vResp |-> r.told.v, pair |-> pair, first |-> first]
    OBVIOUS
  <2>4. anAnswer' = x
    BY <1>3, <2>2, <2>3, Zenon
  <2>5. DecidedBy(pair, anScores, r, x)
    BY <1>2, <2>1, <2>2, <2>3, DecisionIs
  <2> QED BY <2>4, <2>5, Zenon DEF DecidedBy
<1>5. RecordOf(s, Mode) /\ (anScores = <<>> => FreshRecord(s))
  <2>1. CASE anScores = <<>>
    BY <1>4, <2>1, RecordsOK
  <2>2. CASE anScores # <<>>
    <3>1. anScores \in Seq(Way) /\ OneOfEach(anScores)
      BY DEF AnInv, RecordOK
    <3>2. \A i \in DOMAIN anScores : anScores[i].mode \in Mode
      <4>1. \A i \in DOMAIN anScores : anScores[i] \in Way
        BY <3>1
      <4> QED BY <4>1 DEF Way
    <3>3. s = anScores
      BY <1>4, <2>2
    <3> QED BY <2>2, <3>1, <3>2, <3>3 DEF RecordOf
  <2> QED BY <2>1, <2>2
<1>6. AnswerOK'
  BY <1>2, <1>4, <1>5, AnswerKeeps DEF Pairs
<1>7. PICK i : i = best(s)
  OBVIOUS
<1>8. i \in DOMAIN s /\ \A j \in DOMAIN s : s[j].score <= s[i].score
  BY <1>5, <1>7, BestIs DEF RecordOf
<1>9. PICK u : u = r.scores
  OBVIOUS
<1>10. /\ u \in Seq(Way) /\ DOMAIN u = DOMAIN s /\ OneOfEach(u)
       /\ \A j \in DOMAIN s : /\ u[j].mode = s[j].mode /\ u[j].index = s[j].index
                              /\ u[j].score = IF j = i THEN s[j].score - 1 ELSE s[j].score
  BY <1>4, <1>5, <1>7, <1>9, RecommandIs
<1>11. PICK was : was = [j \in DOMAIN s |-> IF anScores = <<>> THEN 0 ELSE anTries[j]]
  OBVIOUS
<1>12. was \in [DOMAIN s -> Nat]
  <2>1. CASE anScores = <<>>
    BY <1>11, <2>1
  <2>2. CASE anScores # <<>>
    <3>1. s = anScores /\ anTries \in [DOMAIN s -> Nat]
      BY <1>4, <2>2 DEF AnInv, RecordOK
    <3> QED BY <1>11, <2>2, <3>1
  <2> QED BY <2>1, <2>2
<1>13. DOMAIN anTries' = DOMAIN s
       /\ \A j \in DOMAIN s : anTries'[j] = was[j] + (IF j = i THEN 1 ELSE 0)
  <2>1. anTries' = [j \in DOMAIN s |-> (IF anScores = <<>> THEN 0 ELSE anTries[j])
                       + (IF u[j].mode = r.way.mode /\ u[j].index = r.way.index THEN 1 ELSE 0)]
    BY <1>3, <1>9, <1>10, Zenon
  <2>2. r.way = s[i]
    BY <1>4, <1>7
  <2>3. \A j \in DOMAIN s : (u[j].mode = r.way.mode /\ u[j].index = r.way.index) <=> j = i
    BY <1>5, <1>8, <1>10, <2>2 DEF RecordOf, OneOfEach
  <2>4. \A j \in DOMAIN s : was[j] = IF anScores = <<>> THEN 0 ELSE anTries[j]
    BY <1>11
  <2>5. \A j \in DOMAIN s : anTries'[j] = was[j] + (IF u[j].mode = r.way.mode /\ u[j].index = r.way.index
                                                    THEN 1 ELSE 0)
    BY <2>1, <2>4
  <2>6. \A j \in DOMAIN s : anTries'[j] = was[j] + (IF j = i THEN 1 ELSE 0)
    BY <2>3, <2>5
  <2> QED BY <2>1, <2>6
<1>14. anScores' = u
  BY <1>3, <1>9
<1>15. RecordOK'
  <2>1. anTries' = [j \in DOMAIN s |-> anTries'[j]]
    BY <1>3, <1>9, <1>10
  <2>2. \A j \in DOMAIN s : anTries'[j] \in Nat
    BY <1>12, <1>13
  <2>3. anTries' \in [DOMAIN s -> Nat]
    BY <2>1, <2>2
  <2> QED BY <1>10, <1>14, <2>3 DEF RecordOK
<1>16. TriesOK'
  <2> SUFFICES ASSUME anOpen' = {}
               PROVE  /\ \A j \in DOMAIN u : u[j].score + anTries'[j] \in 0..1
                      /\ \A j, k \in DOMAIN u : u[j].score <= u[k].score + 1
    BY <1>14 DEF TriesOK
  <2>1. anOpen = {}
    BY <1>3
  <2>2. \A j \in DOMAIN s : s[j].score \in Int /\ was[j] \in Nat
    <3>1. \A j \in DOMAIN s : s[j] \in Way
      BY <1>5 DEF RecordOf
    <3> QED BY <1>12, <3>1 DEF Way
  <2>3. /\ \A j \in DOMAIN s : s[j].score + was[j] \in 0..1
        /\ \A j, k \in DOMAIN s : s[j].score <= s[k].score + 1
    <3>1. CASE anScores = <<>>
      <4>1. \A j \in DOMAIN s : s[j].score \in 0..1 /\ was[j] = 0
        BY <1>5, <1>11, <3>1 DEF FreshRecord
      <4> QED BY <4>1
    <3>2. CASE anScores # <<>>
      <4>1. s = anScores
        BY <1>4, <3>2
      <4>2. \A j \in DOMAIN s : was[j] = anTries[j]
        BY <1>11, <3>2
      <4>3. /\ \A j \in DOMAIN s : s[j].score + anTries[j] \in 0..1
            /\ \A j, k \in DOMAIN s : s[j].score <= s[k].score + 1
        BY <2>1, <4>1 DEF AnInv, TriesOK
      <4> QED BY <4>2, <4>3
    <3> QED BY <3>1, <3>2
  <2>4. ASSUME NEW j \in DOMAIN u PROVE u[j].score + anTries'[j] \in 0..1
    <3>1. j \in DOMAIN s /\ s[j].score \in Int /\ was[j] \in Nat /\ s[j].score + was[j] \in 0..1
      BY <1>10, <2>2, <2>3
    <3>2. CASE j = i
      <4>1. u[j].score = s[j].score - 1 /\ anTries'[j] = was[j] + 1
        BY <1>10, <1>13, <3>1, <3>2
      <4> QED BY <3>1, <4>1
    <3>3. CASE j # i
      <4>1. u[j].score = s[j].score /\ anTries'[j] = was[j]
        BY <1>10, <1>13, <3>1, <3>3
      <4> QED BY <3>1, <4>1
    <3> QED BY <3>2, <3>3
  <2>5. ASSUME NEW j \in DOMAIN u, NEW k \in DOMAIN u PROVE u[j].score <= u[k].score + 1
    <3>1. /\ s[j].score \in Int /\ s[k].score \in Int /\ s[i].score \in Int
          /\ s[j].score <= s[i].score /\ s[j].score <= s[k].score + 1
      BY <1>8, <1>10, <2>2, <2>3
    <3>2. u[j].score <= s[j].score /\ u[j].score \in Int
      BY <1>10, <3>1
    <3>3. CASE k = i /\ j = i
      BY <3>2, <3>3
    <3>4. CASE k = i /\ j # i
      BY <1>10, <3>1, <3>2, <3>4
    <3>5. CASE k # i
      BY <1>10, <3>1, <3>2, <3>5
    <3> QED BY <3>3, <3>4, <3>5
  <2> QED BY <2>4, <2>5
<1> QED BY <1>2, <1>6, <1>15, <1>16 DEF AnInv

LEMMA ReportKeeps ==
  ASSUME AnInv, ReportSuccess
  PROVE  AnInv'
<1>1. PairSceneOK(anScene)'
  <2>1. /\ anScene \in [now : Pairs \cup {<<>>}, later : SUBSET Pairs,
                        asks : Nat, reports : Nat, cleans : Nat]
        /\ anScene.asks > 0 => anScene.now # <<>>
    BY DEF AnInv, PairSceneOK
  <2>2. anScene.reports > 0 /\ anScene' = [anScene EXCEPT !.reports = @ - 1]
    BY DEF ReportSuccess
  <2>3. /\ anScene' \in [now : Pairs \cup {<<>>}, later : SUBSET Pairs,
                         asks : Nat, reports : Nat, cleans : Nat]
        /\ anScene'.now = anScene.now /\ anScene'.asks = anScene.asks
    BY <2>1, <2>2
  <2>4. PairSceneOK(anScene')
    BY <2>1, <2>3 DEF PairSceneOK
  <2> QED BY <2>4
<1>2. PICK way \in anOpen : anScores' = reportSuccess(anScores, way)
  BY DEF ReportSuccess
<1>3. anAnswer' = anAnswer /\ anTries' = anTries /\ anOpen' = anOpen
  BY DEF ReportSuccess
<1>4. RecordOK'
  <2>1. anScores \in Seq(Way) /\ OneOfEach(anScores) /\ anTries \in [DOMAIN anScores -> Nat]
    BY DEF AnInv, RecordOK
  <2>2. anScores' \in Seq(Way) /\ DOMAIN anScores' = DOMAIN anScores /\ OneOfEach(anScores')
    BY <1>2, <2>1, ReportIs
  <2> QED BY <1>3, <2>1, <2>2 DEF RecordOK
<1>5. TriesOK'
  BY <1>2, <1>3 DEF TriesOK
<1>6. AnswerOK'
  BY <1>3, AnsweredKeeps DEF AnInv
<1> QED BY <1>1, <1>4, <1>5, <1>6 DEF AnInv

LEMMA CleanKeeps ==
  ASSUME AnInv, Clean
  PROVE  AnInv'
<1>1. PairSceneOK(anScene)'
  <2>1. /\ anScene \in [now : Pairs \cup {<<>>}, later : SUBSET Pairs,
                        asks : Nat, reports : Nat, cleans : Nat]
        /\ anScene.asks > 0 => anScene.now # <<>>
    BY DEF AnInv, PairSceneOK
  <2>2. anScene.cleans > 0 /\ anScene' = [anScene EXCEPT !.cleans = @ - 1]
    BY DEF Clean
  <2>3. /\ anScene' \in [now : Pairs \cup {<<>>}, later : SUBSET Pairs,
                         asks : Nat, reports : Nat, cleans : Nat]
        /\ anScene'.now = anScene.now /\ anScene'.asks = anScene.asks
    BY <2>1, <2>2
  <2>4. PairSceneOK(anScene')
    BY <2>1, <2>3 DEF PairSceneOK
  <2> QED BY <2>4
<1>2. anScores' = <<>> /\ anTries' = <<>> /\ anAnswer' = anAnswer
  BY DEF Clean
<1>3. RecordOK' /\ TriesOK'
  BY <1>2 DEF RecordOK, TriesOK, OneOfEach
<1>4. AnswerOK'
  BY <1>2, AnsweredKeeps DEF AnInv
<1> QED BY <1>1, <1>3, <1>4 DEF AnInv

LEMMA NatChangesKeeps ==
  ASSUME AnInv, NatChanges
  PROVE  AnInv'
<1>1. PairSceneOK(anScene)'
  <2>1. /\ anScene \in [now : Pairs \cup {<<>>}, later : SUBSET Pairs,
                        asks : Nat, reports : Nat, cleans : Nat]
    BY DEF AnInv, PairSceneOK
  <2>2. PICK p \in anScene.later : anScene' = [anScene EXCEPT !.now = p, !.later = @ \ {p}]
    BY Zenon DEF NatChanges
  <2>3. p \in Pairs /\ p # <<>>
    <3>1. anScene.later \subseteq Pairs
      BY <2>1
    <3>2. p \in SideSet \X SideSet
      BY <2>2, <3>1 DEF Pairs
    <3>3. \A q \in SideSet \X SideSet : q # <<>>
      OBVIOUS
    <3> QED BY <3>2, <3>3 DEF Pairs
  <2>4. /\ anScene' \in [now : Pairs \cup {<<>>}, later : SUBSET Pairs,
                         asks : Nat, reports : Nat, cleans : Nat]
        /\ anScene'.now = p
    BY <2>1, <2>2, <2>3
  <2>5. PairSceneOK(anScene')
    BY <2>3, <2>4 DEF PairSceneOK
  <2> QED BY <2>5
<1>2. UNCHANGED <<anScores, anAnswer, anTries, anOpen>>
  BY DEF NatChanges
<1>3. RecordOK' /\ TriesOK'
  BY <1>2 DEF AnInv, RecordOK, TriesOK
<1>4. AnswerOK'
  BY <1>2, AnsweredKeeps DEF AnInv
<1> QED BY <1>1, <1>3, <1>4 DEF AnInv

LEMMA AnInvSound == AnInv => WaysSound
<1> SUFFICES ASSUME AnInv PROVE WaysSound
  OBVIOUS
<1>1. anScores \in Seq(Way) /\ anTries \in [DOMAIN anScores -> Nat]
  BY DEF AnInv, RecordOK
<1>2. AnalyzerTypeOK
  <2>1. \A i \in DOMAIN anScores : anScores[i] \in Way
    BY <1>1
  <2>2. \A i \in DOMAIN anScores : anScores[i].mode \in 0..4 /\ anScores[i].score <= 10
    BY <2>1 DEF Way, Mode
  <2>3. \A i \in DOMAIN anScores : anScores[i].index \in DOMAIN getBehaviorByMode(anScores[i].mode)
    BY <2>1, Zenon DEF Way
  <2>4. DOMAIN anTries = DOMAIN anScores
    BY <1>1
  <2> QED BY <2>2, <2>3, <2>4 DEF AnalyzerTypeOK
<1>3. WaysAllTried
  <2> SUFFICES ASSUME anOpen = {}, NEW i \in DOMAIN anTries, NEW j \in DOMAIN anTries
               PROVE  anTries[i] <= anTries[j] + 2
    BY DEF WaysAllTried
  <2>1. /\ anScores[i].score + anTries[i] \in 0..1 /\ anScores[j].score + anTries[j] \in 0..1
        /\ anScores[j].score <= anScores[i].score + 1
    BY <1>1 DEF AnInv, TriesOK
  <2>2. anTries[i] \in Nat /\ anTries[j] \in Nat
    BY <1>1
  <2>3. anScores[i].score \in Int /\ anScores[j].score \in Int
    <3>1. anScores[i] \in Way /\ anScores[j] \in Way
      BY <1>1
    <3> QED BY <3>1 DEF Way
  <2> QED BY <2>1, <2>2, <2>3
<1> QED BY <1>2, <1>3 DEF AnInv, AnswerOK, WaysSound

\* Whatever two sides ask for, whichever sides share a record, whoever succeeds and whenever
\* a record is cleaned away: one side sends and the other receives, both give up together,
\* the ports they try exist and hold the last one seen, the hard side plays the part of
\* its mode, who is public receives first, and every way gets its turn
\* (nathole/analysis.go, GetRecommandBehaviors and recommand; controller.go, analysis).
THEOREM WaysSoundHolds == AnSpec => []WaysSound
<1>1. (\E s : PairSceneOK(s) /\ AnInit(s)) => AnInv
  BY DEF AnInit, AnInv, RecordOK, TriesOK, AnswerOK, OneOfEach, SidesMeet, PortsInReach,
         HardSide, PublicReceivesFirst
<1>2. AnInv /\ [AnNext]_anVars => AnInv'
  <2> SUFFICES ASSUME AnInv, [AnNext]_anVars PROVE AnInv'
    OBVIOUS
  <2>1. CASE UNCHANGED anVars
    <3>1. anScene' = anScene /\ anScores' = anScores /\ anAnswer' = anAnswer
          /\ anTries' = anTries /\ anOpen' = anOpen
      BY <2>1 DEF anVars
    <3>2. PairSceneOK(anScene)' /\ RecordOK' /\ TriesOK'
      BY <3>1 DEF AnInv, RecordOK, TriesOK
    <3> QED BY <3>1, <3>2, AnsweredKeeps DEF AnInv
  <2>2. CASE AnNext
    BY <2>2, AnalysisKeeps, ReportKeeps, CleanKeeps, NatChangesKeeps DEF AnNext
  <2> QED BY <2>1, <2>2
<1>3. AnInv => WaysSound
  BY AnInvSound
<1> QED BY <1>1, <1>2, <1>3, PTL DEF AnSpec
=============================================================================

---------------------------- MODULE MCServing ------------------------------
(***************************************************************************)
(* Scenes of requests for TLC: calls of the control's API (ControlApi),    *)
(* of NPS' console (NpsWeb), sign-ins there (NpsLogin) and connections to  *)
(* frps (FrpWire).  A behaviour plays one scene of one of them; the others *)
(* rest in a scene in which nothing can happen.                            *)
(***************************************************************************)
EXTENDS ControlApi, NpsWeb, NpsLogin, FrpWire, TLC

CONSTANTS root, bob, eve, r1, r2, r3, r4, r5, r6, t1, t2

-----------------------------------------------------------------------------
(* ControlApi.                                                             *)

Ask(op, tok) == [op |-> op, tok |-> tok, name |-> None, role |-> "user", on |-> TRUE,
                pw |-> 0, old |-> 0, id |-> None]
Account(role, on) == [role |-> role, on |-> on, pw |-> 1, inc |-> 0]
AllUsers == root :> Account("admin", TRUE) @@ bob :> Account("user", TRUE) @@ eve :> Account("user", TRUE)

LogAs(n) == [Ask("login", None) EXCEPT !.name = n, !.pw = 1]
\* r1 and r2 log in as the administrator and as bob; the others are the scene's.
Calls4(a, b, c, d) ==
  [req |-> r1 :> LogAs(root) @@ r2 :> LogAs(bob) @@ r3 :> a @@ r4 :> b @@ r5 :> c
            @@ r6 :> d,
   after |-> r1 :> {} @@ r2 :> {} @@ r3 :> {r1, r2} @@ r4 :> {r1, r2} @@ r5 :> {r1, r2}
              @@ r6 :> {r1, r2},
   users |-> AllUsers, tuns |-> (t1 :> bob @@ t2 :> None), node |-> FALSE, outages |-> 0]

Calls(a, b, c) == Calls4(a, b, c, None)

UpsertUser(n, role, on) == [Ask("upsert", r1) EXCEPT !.name = n, !.role = role, !.on = on]
DeleteUser(n) == [Ask("delete", r1) EXCEPT !.name = n]
CreateTunnel(t) == [Ask("create", r2) EXCEPT !.id = t]
TunnelCall(op, tok, n, t) == [Ask(op, tok) EXCEPT !.name = n, !.id = t]

Quiet == [Calls(None, None, None) EXCEPT !.req = [q \in Req |-> None]]

MCSetups ==
  {Quiet,
   Calls(DeleteUser(bob), CreateTunnel(t2), TunnelCall("update", r2, None, t1)),
   Calls(TunnelCall("update", r1, eve, t1), TunnelCall("update", r2, None, t1),
         TunnelCall("remove", r2, None, t1)),
   Calls(UpsertUser(bob, "user", FALSE), UpsertUser(bob, "user", TRUE),
         [Ask("expire", None) EXCEPT !.name = bob]),
   Calls(UpsertUser(bob, "admin", TRUE), DeleteUser(root), Ask("sync", r2)),
   Calls([Ask("password", r2) EXCEPT !.pw = 2, !.old = 1],
         [Ask("password", r1) EXCEPT !.name = bob, !.pw = 3],
         [Ask("view", r2) EXCEPT !.name = eve]),
   Calls(Ask("logout", r2), CreateTunnel(t2), DeleteUser(bob)),
   [Calls(UpsertUser(bob, "user", FALSE), CreateTunnel(t2), UpsertUser(bob, "user", TRUE))
      EXCEPT !.after[r5] = {r3}],
   Calls4(DeleteUser(bob), UpsertUser(bob, "user", TRUE), CreateTunnel(t2),
          TunnelCall("update", r2, None, t1)),
   Calls4(UpsertUser(bob, "user", FALSE), TunnelCall("update", r1, eve, t1),
          TunnelCall("update", r2, None, t1), TunnelCall("create", r1, bob, t2)),
   [Calls(Ask("drop", r1), [Ask("node", r1) EXCEPT !.on = FALSE], Ask("node", r1))
      EXCEPT !.node = TRUE, !.outages = 1],
   [Calls(Ask("drop", r2), Ask("node", r2), None) EXCEPT !.node = TRUE],
   [Quiet EXCEPT !.node = TRUE, !.outages = 4]}

-----------------------------------------------------------------------------
(* NpsWeb.                                                                 *)

NoRec == [x |-> 0]
Cl(key, user, max, pool) == [key |-> key, user |-> user, max |-> max, pool |-> pool, on |-> TRUE]
Ta(c, mode, port, pw, on) == [client |-> c, mode |-> mode, port |-> port, pw |-> pw, on |-> on]
Ho(c, host, loc, scheme) == [client |-> c, host |-> host, loc |-> loc, scheme |-> scheme, shut |-> FALSE]
Post(op, who, id, of, val) ==
  [op |-> op, who |-> who, id |-> id, cl |-> of, val |-> val, on |-> TRUE, no |-> 1]

C1 == Cl("k1", "u1", 2, {})
C2 == Cl("k2", "", 0, {1, 2})
T1 == Ta(1, "tcp", 1, "", TRUE)
T2 == Ta(2, "secret", 0, "x", TRUE)
H1 == Ho(1, "a", "/", "all")
NewT == Ta(0, "tcp", 0, "", TRUE)
Web(reqs, crashes, failures) ==
  [db |-> [clients |-> [i \in Ids |-> IF i = 1 THEN C1 ELSE C2],
           tasks |-> [i \in Ids |-> IF i = 1 THEN T1 ELSE T2],
           hosts |-> [i \in Ids |-> H1]],
   in |-> [clients |-> {1, 2}, tasks |-> {1, 2}, hosts |-> {1}],
   todo |-> reqs, budget |-> [crashes |-> crashes, failures |-> failures]]
Add1 == Post("add", 0, 0, 1, NewT)
Add3 == Post("add", 0, 0, 3, NewT)
AddB == Post("add", 2, 0, 1, Ta(0, "tcp", 2, "y", TRUE))
AddS == Post("add", 0, 0, 2, Ta(0, "secret", 0, "x", TRUE))
Cp == Post("copy", 1, 1, 0, NewT)
Ed == Post("edit", 1, 1, 0, Ta(0, "tcp", 2, "", TRUE))
EdOver == Post("edit", 2, 2, 0, Ta(0, "tcp", 3, "", TRUE))
PostOp(op, who, id) == Post(op, who, id, 0, NoRec)
NewC == Post("addClient", 0, 0, 0, Cl("", "u2", 1, {2}))
NewC1 == Post("addClient", 0, 0, 0, Cl("k1", "u2", 1, {2}))
EdC == Post("editClient", 0, 1, 0, Cl("k3", "u1", 1, {1}))
EdC1 == Post("editClient", 1, 1, 0, Cl("k3", "u3", 1, {1}))
NewH == Post("addHost", 0, 0, 1, Ho(0, "a", "", "http"))
NewH2 == Post("addHost", 2, 0, 2, Ho(0, "b", "", "http"))
NewH3 == Post("addHost", 0, 0, 2, Ho(0, "c", "/x", "all"))
EdH == Post("editHost", 1, 1, 0, Ho(0, "b", "/", "http"))

MCWebs ==
  {Web({Add1, PostOp("stop", 1, 1), AddB}, 1, 0),
   Web({Cp, PostOp("start", 1, 1), AddS}, 1, 0),
   Web({Ed, PostOp("del", 0, 1), Add1}, 1, 0),
   Web({PostOp("delClient", 0, 1), Add1, NewH2}, 1, 0),
   Web({NewC, Add3, NewH}, 1, 0),
   Web({NewC, NewC1, EdC, PostOp("white", 0, 1)}, 1, 0),
   Web({NewH, NewH2, EdH, PostOp("shutHost", 1, 1)}, 1, 0),
   Web({EdC1, PostOp("changeStatus", 0, 2), EdOver}, 0, 0),
   Web({PostOp("delHost", 0, 1), NewH2, NewH3}, 1, 0),
   Web({Add1, AddB}, 1, 1),
   Web({NewC, Add3}, 0, 1),
   Web({PostOp("del", 1, 2), PostOp("del", 0, 2), AddB}, 1, 0)}

NoWeb == Web({}, 0, 0)
ASSUME WebsAssumption == Cap \in Nat /\ \A sc \in MCWebs \cup {NoWeb} : WebSceneOK(sc)

-----------------------------------------------------------------------------
(* NpsLogin.                                                               *)

MCLogins == {[wrong |-> w, in |-> {}] : w \in [Browser -> 0..2]}

-----------------------------------------------------------------------------
(* FrpWire: a login and a work or visitor connection beside it.            *)

Dials(ask, of, w, tls, mux, algs) ==
  [ask |-> ask, of |-> of, wire |-> w, tls |-> tls, mux |-> mux, algs |-> algs,
   ok |-> TRUE, fits |-> TRUE, stops |-> ""]
Pair(x, y, force, mux) ==
  [cl |-> ("w1" :> x) @@ ("w2" :> y), force |-> force, mux |-> mux, cuts |-> 1]
MCWires ==
  {Pair(Dials("Login", "w1", w, s[1], mux, <<"new", "xchacha", "aes">>),
        [Dials(ask, "w1", w, s[1], mux, <<"new", "xchacha", "aes">>)
           EXCEPT !.ok = ask = "NewWorkConn"],
        s[2], smux) :
     w \in {"v1", "v2"}, mux \in BOOLEAN, smux \in BOOLEAN,
     s \in {<<"", FALSE>>, <<"", TRUE>>, <<"tls17", TRUE>>},
     ask \in {"NewWorkConn", "NewVisitorConn"}}
  \cup
  {Pair([Dials("Login", "w1", w, "tls16", mux, algs) EXCEPT !.ok = ok, !.fits = fit],
        [Dials("Ping", "w2", w, "", mux, algs) EXCEPT !.stops = stops], FALSE, mux) :
     w \in {"v1", "v2"}, mux \in BOOLEAN, algs \in {<<"aes", "xchacha">>, <<"new">>},
     ok \in BOOLEAN, fit \in BOOLEAN, stops \in {"", "dial", "head"}}
ASSUME WiresAssumption == \A s \in MCWires \cup {NoWire} : WireSceneOK(s)

-----------------------------------------------------------------------------

allVars == <<vars, webVars, loginVars, wireVars>>

\* One of them plays, the others rest.
Scenes(k, part, scenes, rest) == IF k = part THEN scenes ELSE {rest}
SceneInit ==
  \E k \in 1..4 :
    /\ Init /\ (k = 1) = (use # Quiet)
    /\ \E s \in Scenes(k, 2, MCWebs, NoWeb) : WebInit(s)
    /\ \E s \in Scenes(k, 3, MCLogins, NoLogin) : LoginInit(s)
    /\ \E s \in Scenes(k, 4, MCWires, NoWire) : WireInit(s)
SceneNext ==
  \/ Next /\ UNCHANGED <<webVars, loginVars, wireVars>>
  \/ WebNext /\ UNCHANGED <<vars, loginVars, wireVars>>
  \/ LoginNext /\ UNCHANGED <<vars, webVars, wireVars>>
  \/ WireNext /\ UNCHANGED <<vars, webVars, loginVars>>
SceneSpec == /\ SceneInit /\ [][SceneNext]_allVars
             /\ ApiFair /\ WebFair /\ LoginFair /\ WireFair

-----------------------------------------------------------------------------
(* The console of NPS: its database and its sign-in.                       *)

\* Database and sessions of the console are sound (lib/file, login.go).
ConsoleSound == WebSound /\ SignInSound

\* The console answers: a handler ends, and who has the right password gets in.
ConsoleAnswers == RequestEnds /\ GetsIn
=============================================================================

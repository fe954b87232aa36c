------------------------------- MODULE MCDesk -------------------------------
(***************************************************************************)
(* Scenes for TLC of the control beside its requests: what it bills        *)
(* (Traffic), what its console shows (ControlViews), the engines it may    *)
(* start as processes (EngineManager) and the log it keeps (LogBuffer).    *)
(* They share nothing; a behaviour plays one of them.                      *)
(***************************************************************************)
EXTENDS Traffic, ControlViews, EngineManager, LogBuffer, TLC

-----------------------------------------------------------------------------
(* ControlViews.                                                           *)

Tun(id, at, engine, mode, on, port) ==
  [id |-> id, user |-> "ann", node |-> at, engine |-> engine, mode |-> mode,
   on |-> on, port |-> port]
UserRec(n, ports, key) == [name |-> n, on |-> TRUE, ports |-> ports, max |-> 2, key |-> key]
NodeRec(on, addr) == [id |-> "edge", on |-> on, addr |-> addr]
LocalNode == [id |-> "local", on |-> TRUE, addr |-> ""]
Cli(at, engine, online, last) ==
  [user |-> "ann", node |-> at, engine |-> engine, online |-> online, seen |-> last]
Entry(addr, port, fails) == [addr |-> addr, port |-> port, fails |-> fails]
Asking(kind, who) == [kind |-> kind, who |-> who, admin |-> who = "root"]
Becomes(part, x, y) == [part |-> part, out |-> x, in |-> y]

Ann == UserRec("ann", {1, 2}, "k1")
Bob == UserRec("bob", {2}, "k2")
Va == Tun("ta", "local", "frp", "tcp", TRUE, 1)
Vb == Tun("tb", "edge", "nps", "http", TRUE, 2)
Vc == Tun("tc", "edge", "nps", "udp", TRUE, 2)
World(ts, live, open) ==
  [users |-> {Ann, Bob}, tuns |-> ts, nodes |-> {LocalNode, NodeRec(TRUE, "e1")},
   live |-> live, open |-> open]
Look(world, changes, asks, reports, failures) ==
  [world |-> world, edits |-> changes, asks |-> asks, reports |-> reports, failures |-> failures]
MCViews ==
  {Look(World({Va}, {Cli("edge", "frp", TRUE, 2)}, {Entry("control", 1, FALSE)}),
        {Becomes("live", {}, {Cli("local", "frp", FALSE, 3)}),
         Becomes("live", {Cli("local", "frp", FALSE, 3)}, {Cli("local", "frp", TRUE, 4)}),
         Becomes("open", {Entry("control", 1, FALSE)}, {})},
        "v1" :> Asking("availability", "ann"), 1, 0),
   Look(World({Vb, Vc}, {Cli("edge", "nps", TRUE, 2)}, {Entry("e1", 2, FALSE)}),
        {Becomes("open", {Entry("e1", 2, FALSE)}, {Entry("e1", 2, TRUE)}),
         Becomes("nodes", {NodeRec(TRUE, "e1")}, {NodeRec(TRUE, "")})},
        "v1" :> Asking("availability", "root"), 2, 0),
   Look(World({[Va EXCEPT !.on = FALSE], Vc}, {Cli("local", "nps", FALSE, 3)}, {}),
        {Becomes("live", {}, {Cli("edge", "nps", TRUE, 2)})},
        "v1" :> Asking("availability", "root") @@ "v2" :> Asking("clients", "root"), 1, 0),
   Look(World({Va, Vc}, {}, {}),
        {Becomes("nodes", {NodeRec(TRUE, "e1")}, {NodeRec(FALSE, "e1")}),
         Becomes("nodes", {NodeRec(FALSE, "e1")}, {}),
         Becomes("tuns", {Va}, {[Va EXCEPT !.node = "edge"]}),
         Becomes("users", {Ann}, {[Ann EXCEPT !.on = FALSE]})},
        "v1" :> Asking("bootstrap", "ann") @@ "v2" :> Asking("bootstrap", "bob"), 0, 0),
   Look(World({Va, Vc, Tun("td", "local", "nps", "tcp", TRUE, 2)}, {}, {}),
        {Becomes("users", {Ann}, {[Ann EXCEPT !.ports = {1}, !.max = 0]}),
         Becomes("tuns", {Va}, {})},
        "v1" :> Asking("diagnostics", "ann") @@ "v2" :> Asking("diagnostics", "root"), 0, 0),
   Look(World({Va, Vc}, {}, {}), {Becomes("users", {Ann}, {UserRec("ann", {1}, "k3")})},
        "v1" :> Asking("export", "root") @@ "v2" :> Asking("export", "root"), 0, 0),
   Look(World({Va, Vc}, {}, {}), {}, "v1" :> Asking("export", "root"), 0, 1)}

ASSUME ViewsAssumption == \A s \in MCViews \cup {NoView} : SceneOK(s)

-----------------------------------------------------------------------------
(* EngineManager and LogBuffer.                                            *)

MCEngines == {[calls |-> 5, others |-> 1, configured |-> TRUE],
              [calls |-> 2, others |-> 2, configured |-> FALSE]}

\* Lines 1 to 5, in chunks that end anywhere.
MCLogs ==
  {[chunks |-> << << <<1, 1>> >>, << <<1, 2>>, <<2, 1>>, <<2, 2>>, <<3, 1>> >>,
                  << <<3, 2>> >>, << <<4, 1>>, <<4, 2>>, <<5, 1>>, <<5, 2>> >> >>,
    max |-> m, clears |-> c] : m \in 1..3, c \in 0..2}

ASSUME LogsAssumption == \A s \in MCLogs \cup {NoLog} : LogSceneOK(s)

-----------------------------------------------------------------------------

\* Which one plays; the others rest.
VARIABLE play
allVars == <<vars, viewVars, engineVars, logVars, play>>

\* Either the administrator is busy and a node waits for the answer to a report, or
\* he only creates the user, and the reports of one node overtake each other.
Chatty == CHOOSE n \in Node : TRUE
BillingPlays ==
  \/ play = "billing" /\ \A n \in Node : Len(wire'[n]) <= 1
  \/ play = "late" /\ edits' <= 1 /\ \A n \in Node \ {Chatty} : wire'[n] = <<>>

Scenes(part, scenes, quiet) == IF play = part THEN scenes ELSE {quiet}
SceneInit ==
  /\ play \in {"billing", "late", "views", "engine", "log"} /\ Init
  /\ \E s \in Scenes("views", MCViews, NoView) : ViewInit(s)
  /\ \E s \in Scenes("engine", MCEngines, NoEngine) : EngineInit(s)
  /\ \E s \in Scenes("log", MCLogs, NoLog) : LogInit(s)
SceneNext ==
  /\ play' = play
  /\ \/ Next /\ BillingPlays /\ UNCHANGED <<viewVars, engineVars, logVars>>
     \/ ViewNext /\ UNCHANGED <<vars, engineVars, logVars>>
     \/ EngineNext /\ UNCHANGED <<vars, viewVars, logVars>>
     \/ LogNext /\ UNCHANGED <<vars, viewVars, engineVars>>

BillingFair ==
  /\ \A n \in Node : /\ WF_vars(Send(n) /\ BillingPlays)
                     /\ WF_vars(Report(n) /\ BillingPlays)
  /\ WF_vars(Bill /\ BillingPlays)
  /\ WF_vars(EndEdit /\ BillingPlays)
  /\ WF_vars(ForgetSeen /\ BillingPlays)
SceneSpec == /\ SceneInit /\ [][SceneNext]_allVars
             /\ BillingFair /\ ViewFair /\ EngineFair /\ LogFair

\* What the control bills was carried, and what it shows was so (main.go, manager.go,
\* log_buffer.go).
DeskSound == BillingSound /\ ViewsSound /\ EngineSound /\ LogSound

\* Who exceeds a limit is cut off, requests are answered, processes that ended are
\* forgotten and the log catches up.
DeskSettles == CutOff /\ ViewsEnd /\ EngineForgets /\ LogCatchesUp
=============================================================================

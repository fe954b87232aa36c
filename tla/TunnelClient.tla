---------------------------- MODULE TunnelClient ----------------------------
(***************************************************************************)
(* The client process: cmd/tunnel-client.  The launcher's handlers start,  *)
(* stop and restart a run of runClientCtx; a run logs in to the control,   *)
(* fetches the user's tunnels periodically and starts one NPC client (the  *)
(* vendored npsclient.TRPClient) per node that has some.                   *)
(*                                                                         *)
(* Three things are shared by goroutines that know nothing of each other:  *)
(* the launcher's state, the list of registered NPC clients, and NPC's     *)
(* global CloseClient, which every client sets and all of them read.       *)
(*                                                                         *)
(* A configuration is complete or not, a bootstrap answer is the set of    *)
(* nodes with tunnels, and the end of the process is left out.             *)
(***************************************************************************)
EXTENDS Naturals, FiniteSets

CONSTANTS
  Node,      \* the nodes a user may have tunnels on
  MaxRuns,   \* bound on the runs of the client
  Slow,      \* whether a request to the control may outlast restart's patience
  MaxEdits,  \* bound on the changes of the user's tunnels
  MaxFaults, \* bound on failed requests, failed attempts to connect and
             \* connections that break
  None

Run == 1..MaxRuns
Npc == Run \X Node

ASSUME ClientAssumption ==
  /\ MaxRuns \in Nat \ {0} /\ Slow \in BOOLEAN
  /\ MaxEdits \in Nat /\ MaxFaults \in Nat
  /\ None \notin Run

VARIABLES
  running, cancel,  \* launcherState; cancel names the run it cancels
  hasCfg,           \* launcherState.cfg is complete
  shown,            \* launcherState.tunnels: the nodes they are on
  waiting, due,     \* restart goroutines that wait, and that are done waiting
  pc,               \* per run, where runClientCtx is
  cancelled,        \* the runs whose context is cancelled
  startedNPS,       \* per run, the nodes an NPC client was started for
  npc,              \* per NPC client, where its goroutine is
  closed,           \* the NPC clients whose once is used up
  list,             \* runningClients
  CloseClient,      \* npsclient.CloseClient
  assigned,         \* the nodes the control would answer now
  intent,           \* history: what was asked of the launcher last
  edits, faults, lost

launcher == <<running, cancel, hasCfg, shown, waiting, due, intent>>
runs     == <<pc, cancelled, startedNPS>>
npcs     == <<npc, closed, list, CloseClient>>
env      == <<assigned, edits, faults, lost>>
vars     == <<launcher, runs, npcs, env>>

Init ==
  /\ running = FALSE /\ cancel = None /\ hasCfg \in BOOLEAN /\ shown = {}
  /\ waiting = 0 /\ due = 0 /\ intent = "none"
  /\ pc = [r \in Run |-> "none"] /\ cancelled = {}
  /\ startedNPS = [r \in Run |-> {}]
  /\ npc = [c \in Npc |-> "none"] /\ closed = {} /\ list = {}
  /\ CloseClient = FALSE
  /\ assigned \in SUBSET Node /\ edits = 0 /\ faults = 0 /\ lost = 0

MayFail == faults + lost < MaxFaults

----------------------------------------------------------------------------
(* The launcher *)

Unused == {r \in Run : pc[r] = "none"}

\* Requests are bounded so that a restart under way always finds an unused run.
MayAsk == Cardinality(Unused) > waiting + due

\* Mutant: does not look at s.running.
startClientAlways ==
  \E r \in Unused :
    /\ \A q \in Unused : r <= q
    /\ running' = TRUE /\ cancel' = r /\ hasCfg' = TRUE /\ shown' = {}
    /\ pc' = [pc EXCEPT ![r] = "login"]

\* startClient: refused while a run is in progress.
startClient ==
  IF running THEN UNCHANGED <<running, cancel, hasCfg, shown, pc>>
  ELSE \E r \in Unused :
         /\ \A q \in Unused : r <= q
         /\ running' = TRUE /\ cancel' = r /\ hasCfg' = TRUE /\ shown' = {}
         /\ pc' = [pc EXCEPT ![r] = "login"]

\* POST /api/start with a complete form, or the auto-connect of runLauncher.
\* An error answer asks nothing.
start ==
  /\ MayAsk /\ startClient /\ intent' = IF running THEN intent ELSE "up"
  /\ UNCHANGED <<waiting, due, cancelled, startedNPS, npcs, env>>

stop ==
  /\ intent' = "down"
  /\ cancelled' = IF running THEN cancelled \cup {cancel} ELSE cancelled
  /\ UNCHANGED <<running, cancel, hasCfg, shown, waiting, due, pc, startedNPS,
                 npcs, env>>

\* Mutant: does not wait for the old run.
restartAtOnce ==
  /\ MayAsk /\ hasCfg /\ intent' = "up"
  /\ cancelled' = IF running THEN cancelled \cup {cancel} ELSE cancelled
  /\ due' = due + 1
  /\ UNCHANGED <<running, cancel, hasCfg, shown, waiting, pc, startedNPS, npcs, env>>

\* restart cancels the run in progress and leaves the rest to a goroutine.
restart ==
  /\ MayAsk /\ hasCfg /\ intent' = "up"
  /\ cancelled' = IF running THEN cancelled \cup {cancel} ELSE cancelled
  /\ IF running THEN waiting' = waiting + 1 /\ due' = due
                ELSE due' = due + 1 /\ waiting' = waiting
  /\ UNCHANGED <<running, cancel, hasCfg, shown, pc, startedNPS, npcs, env>>

\* A request to the control takes up to 12 seconds.
RequestPending == \E r \in Run : pc[r] \in {"login", "sync"}

\* The goroutine polls s.running, and gives up after 8 seconds.
restartWaited ==
  /\ waiting > 0
  /\ ~running \/ (Slow /\ RequestPending)
  /\ waiting' = waiting - 1 /\ due' = due + 1
  /\ UNCHANGED <<running, cancel, hasCfg, shown, intent, runs, npcs, env>>

restartStart ==
  /\ due > 0 /\ due' = due - 1 /\ startClient
  /\ UNCHANGED <<waiting, intent, cancelled, startedNPS, npcs, env>>

----------------------------------------------------------------------------
(* A run of runClientCtx *)

\* loginControl.  When it fails runClientCtx returns before its deferred calls.
login(r) ==
  /\ pc[r] = "login"
  /\ \/ /\ pc' = [pc EXCEPT ![r] = "sync"] /\ CloseClient' = FALSE
        /\ faults' = faults
     \/ /\ MayFail /\ faults' = faults + 1
        /\ pc' = [pc EXCEPT ![r] = "returned"] /\ CloseClient' = CloseClient
  /\ UNCHANGED <<launcher, cancelled, startedNPS, npc, closed, list,
                 assigned, edits, lost>>

fetchFails(r) ==
  /\ pc[r] = "sync" /\ pc' = [pc EXCEPT ![r] = "loop"]
  /\ MayFail /\ faults' = faults + 1
  /\ UNCHANGED <<launcher, cancelled, startedNPS, npcs, assigned, edits, lost>>

\* syncAndStart: shows the tunnels and starts a client for each new node.
syncAndStart(r) ==
  LET fresh == assigned \ startedNPS[r]
  IN  /\ pc[r] = "sync" /\ pc' = [pc EXCEPT ![r] = "loop"]
      /\ shown' = assigned
      /\ startedNPS' = [startedNPS EXCEPT ![r] = @ \cup fresh]
      /\ npc' = [c \in Npc |-> IF c[1] = r /\ c[2] \in fresh THEN "spawned" ELSE npc[c]]
      /\ UNCHANGED <<running, cancel, hasCfg, waiting, due, intent, cancelled,
                     closed, list, CloseClient, env>>

tick(r) ==
  /\ pc[r] = "loop" /\ pc' = [pc EXCEPT ![r] = "sync"]
  /\ UNCHANGED <<launcher, cancelled, startedNPS, npcs, env>>

\* Mutant: empties the list first.
closeAllClientsCleared(r) ==
  /\ pc[r] = "loop" /\ r \in cancelled
  /\ pc' = [pc EXCEPT ![r] = "returned"] /\ list' = {}
  /\ UNCHANGED <<launcher, cancelled, startedNPS, npc, closed, CloseClient, env>>

\* ctx.Done, and the deferred closeAllClients.  Close acts once per client; it
\* ends the connection if there is one, and asks everybody else to give up.
closeAllClients(r) ==
  /\ pc[r] = "loop" /\ r \in cancelled
  /\ pc' = [pc EXCEPT ![r] = "returned"]
  /\ npc' = [c \in Npc |->
               IF c \in list \ closed /\ npc[c] = "connected" THEN "done" ELSE npc[c]]
  /\ CloseClient' = (CloseClient \/ list \ closed # {})
  /\ closed' = closed \cup list /\ list' = {}
  /\ UNCHANGED <<launcher, cancelled, startedNPS, env>>

\* The end of startClient's goroutine.
exited(r) ==
  /\ pc[r] = "returned" /\ pc' = [pc EXCEPT ![r] = "done"]
  /\ running' = FALSE /\ cancel' = None /\ shown' = {}
  /\ UNCHANGED <<hasCfg, waiting, due, intent, cancelled, startedNPS, npcs, env>>

----------------------------------------------------------------------------
(* The goroutine of an NPC client *)

registerClient(c) ==
  /\ npc[c] = "spawned" /\ npc' = [npc EXCEPT ![c] = "registered"]
  /\ list' = list \cup {c}
  /\ UNCHANGED <<launcher, runs, closed, CloseClient, env>>

\* TRPClient.Start begins by clearing the global flag.
Start(c) ==
  /\ npc[c] = "registered" /\ npc' = [npc EXCEPT ![c] = "retry"]
  /\ CloseClient' = FALSE
  /\ UNCHANGED <<launcher, runs, closed, list, env>>

Retry(c) ==
  /\ npc[c] = "retry"
  /\ npc' = [npc EXCEPT ![c] = IF CloseClient THEN "done" ELSE "dialing"]
  /\ UNCHANGED <<launcher, runs, closed, list, CloseClient, env>>

\* NewConn; nothing is checked between its return and handleMain.
Connect(c) ==
  /\ npc[c] = "dialing" /\ npc' = [npc EXCEPT ![c] = "connected"]
  /\ UNCHANGED <<launcher, runs, closed, list, CloseClient, env>>

ConnectFails(c) ==
  /\ npc[c] = "dialing" /\ npc' = [npc EXCEPT ![c] = "retry"]
  /\ MayFail /\ faults' = faults + 1
  /\ UNCHANGED <<launcher, runs, closed, list, CloseClient, assigned, edits, lost>>

\* handleMain or ping sees the connection fail: Close, and Start returns.
Lost(c) ==
  /\ MayFail /\ lost' = lost + 1
  /\ npc[c] = "connected" /\ npc' = [npc EXCEPT ![c] = "done"]
  /\ CloseClient' = (CloseClient \/ c \notin closed) /\ closed' = closed \cup {c}
  /\ UNCHANGED <<launcher, runs, list, assigned, edits, faults>>

----------------------------------------------------------------------------

\* Somebody gives the user tunnels on other nodes.
Assign ==
  /\ edits < MaxEdits /\ edits' = edits + 1
  /\ assigned' \in SUBSET Node \ {assigned}
  /\ UNCHANGED <<launcher, runs, npcs, faults, lost>>

LauncherStep == start \/ stop \/ restart \/ restartWaited \/ restartStart

RunStep(r) == login(r) \/ fetchFails(r) \/ syncAndStart(r) \/ tick(r)
              \/ closeAllClients(r) \/ exited(r)

NpcStep(c) == registerClient(c) \/ Start(c) \/ Retry(c) \/ Connect(c)
              \/ ConnectFails(c) \/ Lost(c)

Next ==
  \/ LauncherStep
  \/ \E r \in Run : RunStep(r)
  \/ \E c \in Npc : NpcStep(c)
  \/ Assign

Spec == Init /\ [][Next]_vars

\* Requests end (the HTTP client has a timeout), goroutines run, the ticker
\* ticks, and select, which picks at random, sees ctx.Done in the end.  Nobody
\* has to ask anything of the launcher.
Fairness ==
  /\ WF_vars(restartWaited) /\ WF_vars(restartStart)
  /\ \A r \in Run : /\ WF_vars(login(r) \/ fetchFails(r) \/ syncAndStart(r) \/ tick(r)
                               \/ exited(r))
                    /\ SF_vars(closeAllClients(r))
  /\ \A c \in Npc : WF_vars(registerClient(c) \/ Start(c) \/ Retry(c) \/ Connect(c)
                             \/ ConnectFails(c))

FairSpec == Spec /\ Fairness

----------------------------------------------------------------------------
(* Properties *)

\* Every part of the process is in one of its states.
ClientTypeOK ==
  /\ running \in BOOLEAN /\ cancel \in Run \cup {None} /\ hasCfg \in BOOLEAN
  /\ shown \in SUBSET Node /\ waiting \in 0..MaxRuns /\ due \in 0..MaxRuns
  /\ pc \in [Run -> {"none", "login", "sync", "loop", "returned", "done"}]
  /\ cancelled \in SUBSET Run /\ startedNPS \in [Run -> SUBSET Node]
  /\ npc \in [Npc -> {"none", "spawned", "registered", "retry", "dialing",
                      "connected", "done"}]
  /\ closed \in SUBSET Npc /\ list \in SUBSET Npc /\ CloseClient \in BOOLEAN
  /\ assigned \in SUBSET Node /\ intent \in {"none", "up", "down"}

Alive == {r \in Run : pc[r] \notin {"none", "done"}}

\* Whatever starts, stops and restarts overlap, at most one run is in progress,
\* the launcher knows whether, its cancel function is that run's, and it shows
\* tunnels only then.
OneRun ==
  /\ \A q, r \in Alive : q = r
  /\ Alive = IF running THEN {cancel} ELSE {}
  /\ ~running => cancel = None /\ shown = {}

\* A run that was cancelled, by stop or by restart, ends: no request or sync in
\* progress makes it miss its context.
StopEnds == (running /\ cancel \in cancelled) ~> ~(running /\ cancel \in cancelled)

\* A run leaves none of its established connections behind: each is one that
\* closeAllClients still has in its list and that was not closed before.
StopCloses ==
  [][\A c \in Npc :
       /\ pc[c[1]] # "returned" /\ pc'[c[1]] = "returned" /\ npc[c] = "connected"
       => npc'[c] = "done"]_vars

\* A run is in progress and will stay so.
Live == running /\ cancel \notin cancelled

\* README.md:109 "one-click reconnect": while the requests succeed, a start or a
\* restart leads to a run that is not about to end, unless somebody stops it.
RestartReconnects ==
  (intent = "up" /\ faults = 0) ~> (intent = "down" \/ faults > 0 \/ Live)

\* The run in progress is connected to node n if the user has tunnels there.
Serves(n) == n \in assigned => \E r \in Run : cancel = r /\ npc[r, n] = "connected"

\* While the client runs and no connection breaks, it comes to be connected to
\* every node that has tunnels, whatever attempts failed, and however the NPC
\* clients of earlier runs set and clear the flag they all share.
ComesToServe == <>[](Live /\ lost = 0) => \A n \in Node : <>[]Serves(n)

\* The client does what it was asked last: a run that was cancelled ends, a start or
\* restart leads to a run, and a run comes to serve its nodes.
ClientFollows == []ClientTypeOK /\ StopEnds /\ RestartReconnects /\ ComesToServe
=============================================================================

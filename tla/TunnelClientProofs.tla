------------------------- MODULE TunnelClientProofs -------------------------
(***************************************************************************)
(* Proofs about TunnelClient, for any number of nodes and runs.            *)
(***************************************************************************)
EXTENDS TunnelClient, TLAPS

PCs == {"none", "login", "sync", "loop", "returned", "done"}

\* OneRun is inductive with the types of the two variables it counts on.
CInv == running \in BOOLEAN /\ pc \in [Run -> PCs] /\ OneRun

\* No run is in progress at first.
LEMMA CInvInit == Init => CInv
BY DEF Init, CInv, OneRun, Alive, PCs

\* A run in progress is the one the launcher knows.
LEMMA AliveIsKnown ==
  ASSUME CInv, NEW r \in Run, pc[r] \notin {"none", "done"}
  PROVE  running /\ cancel = r
BY DEF CInv, OneRun, Alive

\* A step that moves no run in or out of progress and leaves the launcher's
\* view of it alone keeps the invariant.
LEMMA SameRuns ==
  ASSUME CInv, pc' \in [Run -> PCs], Alive' = Alive,
         UNCHANGED <<running, cancel>>, ~running => shown' = {}
  PROVE  CInv'
BY DEF CInv, OneRun

\* Starting a run is refused while there is one.
LEMMA startClientOneRun ==
  ASSUME CInv, startClient
  PROVE  CInv'
<1>1. CASE running
  BY <1>1 DEF startClient, CInv, OneRun, Alive
<1>2. CASE ~running
  <2>1. PICK r \in Unused : /\ running' = TRUE /\ cancel' = r /\ shown' = {}
                            /\ pc' = [pc EXCEPT ![r] = "login"]
    BY <1>2 DEF startClient
  <2>2. r \in Run /\ pc' \in [Run -> PCs] /\ Alive = {}
    BY <1>2, <2>1 DEF CInv, OneRun, Unused, PCs
  <2>3. Alive' = {r}
    BY <2>1, <2>2 DEF Alive, CInv
  <2> QED BY <2>1, <2>2, <2>3 DEF CInv, OneRun
<1> QED BY <1>1, <1>2

\* A request to the launcher, or a step of a restart under way.
LEMMA LauncherStepOneRun ==
  ASSUME CInv, LauncherStep
  PROVE  CInv'
<1>1. CASE start \/ restartStart
  BY <1>1, startClientOneRun DEF start, restartStart
<1>2. CASE stop \/ restart \/ restartWaited
  <2>1. UNCHANGED <<running, cancel, shown, pc>>
    BY <1>2 DEF stop, restart, restartWaited, runs
  <2>2. Alive' = Alive /\ pc' \in [Run -> PCs] /\ (~running => shown' = {})
    BY <2>1 DEF Alive, CInv, OneRun
  <2> QED BY <2>1, <2>2, SameRuns
<1> QED BY <1>1, <1>2 DEF LauncherStep

\* A step of a run.
LEMMA RunStepOneRun ==
  ASSUME CInv, NEW r \in Run, RunStep(r)
  PROVE  CInv'
<1>1. CASE login(r) \/ fetchFails(r) \/ syncAndStart(r) \/ tick(r) \/ closeAllClients(r)
  <2>1. /\ pc[r] \in {"login", "sync", "loop"}
        /\ \E to \in {"sync", "loop", "returned"} : pc' = [pc EXCEPT ![r] = to]
        /\ UNCHANGED <<running, cancel>>
    BY <1>1 DEF login, fetchFails, syncAndStart, tick, closeAllClients, launcher
  <2>2. running
    BY <2>1, AliveIsKnown
  <2>3. pc' \in [Run -> PCs] /\ Alive' = Alive
    BY <2>1 DEF CInv, PCs, Alive
  <2> QED BY <2>1, <2>2, <2>3, SameRuns
<1>2. CASE exited(r)
  <2>1. running /\ cancel = r
    BY <1>2, AliveIsKnown DEF exited
  <2>2. /\ pc' = [pc EXCEPT ![r] = "done"]
        /\ running' = FALSE /\ cancel' = None /\ shown' = {}
    BY <1>2 DEF exited
  <2>3. pc' \in [Run -> PCs] /\ Alive' = {}
    BY <2>1, <2>2 DEF CInv, OneRun, Alive, PCs
  <2> QED BY <2>2, <2>3 DEF CInv, OneRun
<1> QED BY <1>1, <1>2 DEF RunStep

\* What the NPC clients and the control do does not touch the launcher.
LEMMA OtherStepOneRun ==
  ASSUME CInv, UNCHANGED <<launcher, runs>>
  PROVE  CInv'
BY DEF CInv, OneRun, Alive, launcher, runs

\* Every step keeps the invariant.
LEMMA CInvStep == CInv /\ [Next]_vars => CInv'
<1> SUFFICES ASSUME CInv, [Next]_vars PROVE CInv'
  OBVIOUS
<1>1. CASE LauncherStep
  BY <1>1, LauncherStepOneRun
<1>2. CASE \E r \in Run : RunStep(r)
  BY <1>2, RunStepOneRun
<1>3. CASE (\E c \in Npc : NpcStep(c)) \/ Assign \/ UNCHANGED vars
  <2>1. UNCHANGED <<launcher, runs>>
    BY <1>3 DEF NpcStep, registerClient, Start, Retry, Connect, ConnectFails, Lost,
                Assign, vars
  <2> QED BY <2>1, OtherStepOneRun
<1> QED BY <1>1, <1>2, <1>3 DEF Next

\* However many starts, stops and restarts overlap, and whatever fails meanwhile,
\* the launcher never has two runs of the client in progress, and never loses
\* the one it has.
THEOREM OneRunHolds == Spec => []OneRun
<1>1. CInv => OneRun
  BY DEF CInv
<1> QED BY CInvInit, CInvStep, <1>1, PTL DEF Spec

----------------------------------------------------------------------------
(* Connections *)

NpcPCs == {"none", "spawned", "registered", "retry", "dialing", "connected", "done"}

\* An NPC client was started by its run, and once.
StartedOnce ==
  \A c \in Npc : npc[c] # "none" => pc[c[1]] # "none" /\ c[2] \in startedNPS[c[1]]

\* A run starts no client before it has logged in.
FreshRuns == \A r \in Run : pc[r] \in {"none", "login"} => startedNPS[r] = {}

\* Nobody closes a client that has not registered.
RegisteredFirst == \A c \in Npc : npc[c] \in {"none", "spawned"} => c \notin list \cup closed

\* The clients of the run in progress are on the list until their goroutine ends.
Listed ==
  \A c \in Npc :
    /\ pc[c[1]] \in {"login", "sync", "loop"}
    /\ npc[c] \in {"registered", "retry", "dialing", "connected"}
    => c \in list /\ c \notin closed

KInv ==
  /\ CInv /\ npc \in [Npc -> NpcPCs] /\ startedNPS \in [Run -> SUBSET Node]
  /\ assigned \in SUBSET Node
  /\ StartedOnce /\ FreshRuns /\ RegisteredFirst /\ Listed

\* There are no clients at first.
LEMMA KInvInit == Init => KInv
BY CInvInit DEF Init, KInv, NpcPCs, StartedOnce, FreshRuns, RegisteredFirst, Listed, Npc

\* A client belongs to a run and a node.
LEMMA NpcType == \A c \in Npc : c[1] \in Run /\ c[2] \in Node
BY DEF Npc

\* A step that starts no run, or one that has no clients, and leaves the clients
\* alone.
LEMMA ClientsUntouched ==
  ASSUME KInv, CInv', UNCHANGED <<npc, closed, list, startedNPS>>,
         assigned' \in SUBSET Node,
         \A r \in Run : pc'[r] = pc[r] \/ (pc[r] = "none" /\ pc'[r] # "none")
                       \/ (pc[r] \in {"login", "sync", "loop"} /\ pc'[r] \notin {"none", "login"})
                       \/ (pc[r] = "returned" /\ pc'[r] = "done")
  PROVE  KInv'
<1>1. StartedOnce'
  BY NpcType DEF KInv, StartedOnce
<1>2. RegisteredFirst'
  BY DEF KInv, RegisteredFirst
<1>3. Listed'
  BY NpcType DEF KInv, Listed, StartedOnce
<1>4. FreshRuns'
  BY DEF KInv, FreshRuns
<1> QED BY <1>1, <1>2, <1>3, <1>4 DEF KInv

\* What the launcher does.
LEMMA LauncherStepClients ==
  ASSUME KInv, LauncherStep
  PROVE  KInv'
<1>1. CInv'
  BY LauncherStepOneRun DEF KInv
<1>2. /\ UNCHANGED <<npc, closed, list, startedNPS, assigned>>
      /\ pc' = pc \/ \E r \in Unused : pc' = [pc EXCEPT ![r] = "login"]
  BY DEF LauncherStep, start, startClient, stop, restart, restartWaited, restartStart,
         npcs, env, runs
<1>3. \A r \in Run : pc'[r] = pc[r] \/ (pc[r] = "none" /\ pc'[r] # "none")
  BY <1>2 DEF KInv, CInv, Unused
<1> QED BY <1>1, <1>2, <1>3, ClientsUntouched DEF KInv

\* What a run does.
LEMMA RunStepClients ==
  ASSUME KInv, NEW r \in Run, RunStep(r)
  PROVE  KInv'
<1> USE NpcType
<1>0. CInv' /\ pc \in [Run -> PCs]
  BY RunStepOneRun DEF KInv, CInv
<1>1. CASE login(r) \/ fetchFails(r) \/ tick(r) \/ exited(r)
  <2>1. /\ UNCHANGED <<npc, closed, list, startedNPS, assigned>>
        /\ \/ /\ pc[r] \in {"login", "sync", "loop"}
              /\ \E to \in {"sync", "loop", "returned"} : pc' = [pc EXCEPT ![r] = to]
           \/ pc[r] = "returned" /\ pc' = [pc EXCEPT ![r] = "done"]
    BY <1>1 DEF login, fetchFails, tick, exited, npcs, env
  <2>2. \A q \in Run : pc'[q] = pc[q]
                       \/ (pc[q] \in {"login", "sync", "loop"} /\ pc'[q] \notin {"none", "login"})
                       \/ (pc[q] = "returned" /\ pc'[q] = "done")
    BY <1>0, <2>1
  <2> QED BY <1>0, <2>1, <2>2, ClientsUntouched DEF KInv
<1>2. CASE syncAndStart(r)
  <2> DEFINE fresh == assigned \ startedNPS[r]
  <2>1. /\ pc[r] = "sync" /\ pc' = [pc EXCEPT ![r] = "loop"]
        /\ startedNPS' = [startedNPS EXCEPT ![r] = @ \cup fresh]
        /\ npc' = [c \in Npc |-> IF c[1] = r /\ c[2] \in fresh THEN "spawned" ELSE npc[c]]
        /\ UNCHANGED <<closed, list, assigned>>
    BY <1>2 DEF syncAndStart, env
  <2>2. npc' \in [Npc -> NpcPCs] /\ startedNPS' \in [Run -> SUBSET Node]
    BY <2>1 DEF KInv, NpcPCs
  <2>3. StartedOnce'
    BY <1>0, <2>1 DEF KInv, StartedOnce
  <2>4. RegisteredFirst'
    BY <2>1 DEF KInv, RegisteredFirst, StartedOnce
  <2>5. Listed'
    BY <1>0, <2>1 DEF KInv, Listed
  <2>6. FreshRuns'
    BY <1>0, <2>1 DEF KInv, FreshRuns
  <2> QED BY <1>0, <2>1, <2>2, <2>3, <2>4, <2>5, <2>6 DEF KInv
<1>3. CASE closeAllClients(r)
  <2>1. /\ pc[r] = "loop" /\ pc' = [pc EXCEPT ![r] = "returned"]
        /\ npc' = [c \in Npc |-> IF c \in list \ closed /\ npc[c] = "connected"
                                 THEN "done" ELSE npc[c]]
        /\ closed' = closed \cup list /\ list' = {}
        /\ UNCHANGED <<startedNPS, assigned>>
    BY <1>3 DEF closeAllClients, env
  <2>2. npc' \in [Npc -> NpcPCs]
    BY <2>1 DEF KInv, NpcPCs
  <2>3. StartedOnce'
    BY <1>0, <2>1 DEF KInv, StartedOnce
  <2>4. RegisteredFirst'
    BY <2>1 DEF KInv, RegisteredFirst
  <2>5. \A q \in Run : pc'[q] \notin {"login", "sync", "loop"}
    BY <1>0, <2>1, AliveIsKnown DEF KInv
  <2>6. Listed'
    BY <2>5 DEF Listed
  <2>7. FreshRuns'
    BY <1>0, <2>1 DEF KInv, FreshRuns
  <2> QED BY <1>0, <2>1, <2>2, <2>3, <2>4, <2>6, <2>7 DEF KInv
<1> QED BY <1>1, <1>2, <1>3 DEF RunStep

\* What an NPC client does.
LEMMA NpcStepClients ==
  ASSUME KInv, NEW c \in Npc, NpcStep(c)
  PROVE  KInv'
<1>1. /\ UNCHANGED <<launcher, runs, assigned>>
      /\ \E to \in NpcPCs \ {"none", "spawned"} : npc' = [npc EXCEPT ![c] = to]
      /\ npc[c] # "none"
  BY DEF NpcStep, registerClient, Start, Retry, Connect, ConnectFails, Lost, NpcPCs, env
<1>2. \/ npc[c] = "spawned" /\ list' = list \cup {c} /\ closed' = closed
      \/ npc[c] # "spawned" /\ list' = list /\ closed' = closed
      \/ npc[c] # "spawned" /\ list' = list /\ closed' = closed \cup {c} /\ npc'[c] = "done"
  BY DEF NpcStep, registerClient, Start, Retry, Connect, ConnectFails, Lost, KInv
<1>3. npc[c] # "done"
  BY DEF NpcStep, registerClient, Start, Retry, Connect, ConnectFails, Lost
<1>4. CInv' /\ npc' \in [Npc -> NpcPCs]
  BY <1>1, OtherStepOneRun DEF KInv
<1>5. StartedOnce'
  BY <1>1 DEF KInv, StartedOnce, runs
<1>6. RegisteredFirst'
  BY <1>1, <1>2 DEF KInv, RegisteredFirst
<1>7. Listed'
  BY <1>1, <1>2, <1>3 DEF KInv, Listed, RegisteredFirst, runs, NpcPCs
<1>8. FreshRuns'
  BY <1>1 DEF KInv, FreshRuns, runs
<1> QED BY <1>1, <1>4, <1>5, <1>6, <1>7, <1>8 DEF KInv, runs

\* Every step keeps the invariant.
LEMMA KInvStep == KInv /\ [Next]_vars => KInv'
<1> SUFFICES ASSUME KInv, [Next]_vars PROVE KInv'
  OBVIOUS
<1>1. CASE LauncherStep
  BY <1>1, LauncherStepClients
<1>2. CASE \E r \in Run : RunStep(r)
  BY <1>2, RunStepClients
<1>3. CASE \E c \in Npc : NpcStep(c)
  BY <1>3, NpcStepClients
<1>4. CASE Assign \/ UNCHANGED vars
  <2>1. UNCHANGED <<launcher, runs, npcs>> /\ assigned' \in SUBSET Node
    BY <1>4 DEF Assign, vars, env, KInv
  <2>2. CInv'
    BY <2>1, OtherStepOneRun DEF KInv
  <2> QED BY <2>1, <2>2, ClientsUntouched DEF runs, npcs
<1> QED BY <1>1, <1>2, <1>3, <1>4 DEF Next

\* A run that ends closes every connection that its clients had established by
\* then, also those that were made while it was being cancelled: each of them is
\* on the list and has never been closed.
THEOREM StopClosesHolds == Spec => StopCloses
<1> DEFINE P == \A c \in Npc :
                  /\ pc[c[1]] # "returned" /\ pc'[c[1]] = "returned" /\ npc[c] = "connected"
                  => npc'[c] = "done"
<1>1. KInv /\ [Next]_vars => [P]_vars
  <2> SUFFICES ASSUME KInv, Next, NEW c \in Npc, pc[c[1]] # "returned",
                      pc'[c[1]] = "returned", npc[c] = "connected"
               PROVE  npc'[c] = "done"
    OBVIOUS
  <2>1. c[1] \in Run /\ pc \in [Run -> PCs] /\ pc[c[1]] # "none"
    BY NpcType DEF KInv, CInv, StartedOnce
  <2>2. pc[c[1]] # "login"
    BY <2>1 DEF KInv, StartedOnce, FreshRuns
  <2>3. closeAllClients(c[1])
    <3>1. CASE LauncherStep
      BY <2>1, <3>1 DEF LauncherStep, start, startClient, stop, restart, restartWaited,
                        restartStart, runs, Unused
    <3>2. CASE \E r \in Run : RunStep(r)
      BY <2>1, <2>2, <3>2 DEF RunStep, login, fetchFails, syncAndStart, tick, exited,
                              closeAllClients
    <3>3. CASE (\E d \in Npc : NpcStep(d)) \/ Assign
      BY <3>3 DEF NpcStep, registerClient, Start, Retry, Connect, ConnectFails, Lost,
                  Assign, runs
    <3> QED BY <3>1, <3>2, <3>3 DEF Next
  <2>4. c \in list \ closed
    BY <2>3 DEF closeAllClients, KInv, Listed
  <2> QED BY <2>3, <2>4 DEF closeAllClients
<1> QED BY KInvInit, KInvStep, <1>1, PTL DEF Spec, StopCloses
=============================================================================

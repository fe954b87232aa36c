--------------------------- MODULE EngineManager ----------------------------
(***************************************************************************)
(* Starting and stopping an engine as a process of its own: Manager of     *)
(* internal/engine/manager.go.  Start, Stop and Status hold the mutex from *)
(* their first line to their last, their pauses included, so each is one   *)
(* step; the goroutine that waits for a process takes the mutex when the   *)
(* process has ended, whatever was started since.                          *)
(***************************************************************************)
EXTENDS Naturals, Sequences, FiniteSets

\* A scene: how many calls there may be, and how often somebody else listens at the
\* engine's port; configured says whether a binary is.
NoEngine == [calls |-> 0, others |-> 0, configured |-> FALSE]

VARIABLES
  emScene,   \* the scene, counted down
  emProc,    \* Manager.procs of the engine: the process, or 0
  emCmd,     \* the processes there were: "up", "listening", "killed" (before it
             \* listened), "dying" (it listens still), "gone" or "reaped"
  emOther,   \* somebody else listens at the port
  emStatus   \* what the last call answered

engineVars == <<emScene, emProc, emCmd, emOther, emStatus>>

NoStatus == [running |-> FALSE, pid |-> 0, portOpen |-> FALSE]
EngineInit(s) ==
  emScene = s /\ emProc = 0 /\ emCmd = <<>> /\ emOther = FALSE /\ emStatus = NoStatus

Call == emScene.calls > 0 /\ emScene' = [emScene EXCEPT !.calls = @ - 1]

\* statusLocked: of the process kept, and of a dial of the port.
statusOf(proc, cmds, other) ==
  LET open == other \/ \E c \in DOMAIN cmds : cmds[c] \in {"listening", "dying"} IN
  [running |-> proc # 0 \/ open, pid |-> proc, portOpen |-> open]

Status == /\ Call /\ emStatus' = statusOf(emProc, emCmd, emOther)
          /\ UNCHANGED <<emProc, emCmd, emOther>>

\* command: an engine without a binary, or within the control itself, is not started.
command == emScene.configured

\* Start: not what is running, be it somebody else's; the process may fail to start,
\* and listen or end before the pause is over.
Start ==
  /\ Call /\ UNCHANGED emOther
  /\ IF statusOf(emProc, emCmd, emOther).running \/ ~command
     THEN emStatus' = statusOf(emProc, emCmd, emOther) /\ UNCHANGED <<emProc, emCmd>>
     ELSE \/ emStatus' = statusOf(emProc, emCmd, emOther) /\ UNCHANGED <<emProc, emCmd>>
          \/ \E state \in {"up", "listening", "gone"} :
               LET c == Len(emCmd) + 1 IN
               /\ emCmd' = Append(emCmd, state) /\ emProc' = c
               /\ emStatus' = statusOf(c, emCmd', emOther)

\* Stop: kills the process and forgets it, which need not be over after the pause.
Stop ==
  /\ Call /\ UNCHANGED emOther
  /\ emCmd' = IF emProc # 0 /\ emCmd[emProc] \in {"up", "listening"}
              THEN [emCmd EXCEPT ![emProc] = IF @ = "up" THEN "killed" ELSE "dying"]
              ELSE emCmd
  /\ emProc' = 0 /\ emStatus' = statusOf(0, emCmd', emOther)

\* A process comes to listen, or ends: by itself or as it was killed.
Listens(c) == emCmd[c] = "up" /\ emCmd' = [emCmd EXCEPT ![c] = "listening"]
Ends(c) ==
  /\ emCmd[c] \in {"up", "listening", "killed", "dying"}
  /\ emCmd' = [emCmd EXCEPT ![c] = "gone"]

\* The goroutine of Start after cmd.Wait.
reaped(c) ==
  /\ emCmd[c] = "gone" /\ emCmd' = [emCmd EXCEPT ![c] = "reaped"]
  /\ emProc' = IF emProc = c THEN 0 ELSE emProc

Somebody == /\ emScene.others > 0 /\ emScene' = [emScene EXCEPT !.others = @ - 1]
            /\ emOther' = ~emOther /\ UNCHANGED <<emProc, emCmd, emStatus>>

EngineNext ==
  \/ Status \/ Start \/ Stop \/ Somebody
  \/ \E c \in DOMAIN emCmd : /\ Listens(c) \/ Ends(c)
                             /\ UNCHANGED <<emScene, emProc, emOther, emStatus>>
  \/ \E c \in DOMAIN emCmd : reaped(c) /\ UNCHANGED <<emScene, emOther, emStatus>>

EngineFair ==
  /\ WF_engineVars(\E c \in DOMAIN emCmd :
                     reaped(c) /\ UNCHANGED <<emScene, emOther, emStatus>>)
  /\ WF_engineVars(\E c \in DOMAIN emCmd :
                     emCmd[c] \in {"killed", "dying"} /\ Ends(c)
                     /\ UNCHANGED <<emScene, emProc, emOther, emStatus>>)

-----------------------------------------------------------------------------
(* Properties.                                                             *)

Alive == {c \in DOMAIN emCmd : emCmd[c] \in {"up", "listening"}}

\* Of the processes it started at most one is alive and was not told to end, and that
\* is the one a Stop would reach, whenever the goroutines of earlier ones get the mutex.
OneProcess == Alive \subseteq {emProc}

\* No process that was not started, or was stopped, is shown as the engine's
\* (statusLocked): after a Stop no process id is, though the port may be open.
ShownIsKept == emProc # 0 => emCmd[emProc] \notin {"killed", "dying", "reaped"}

EngineSound == OneProcess /\ ShownIsKept

\* A process that ended is forgotten, so that it can be started again.
EngineForgets == \A c \in 1..3 :
  (c \in DOMAIN emCmd /\ emCmd[c] = "gone") ~> (c \in DOMAIN emCmd /\ emProc # c)
=============================================================================

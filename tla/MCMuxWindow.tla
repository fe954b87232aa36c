---------------------------- MODULE MCMuxWindow ----------------------------
(***************************************************************************)
(* The NPS multiplexer for TLC: a stream (MuxWindow) or the queues of a    *)
(* session (MuxQueue).  A behaviour plays one of them.                     *)
(***************************************************************************)
EXTENDS MuxWindow, MuxQueue

-----------------------------------------------------------------------------
(* A connection that is closed at any moment, with a window of one or two  *)
(* segments; one that stays open and is long enough for counts to build up *)
(* below half a window and for the window to fill; and one whose reader    *)
(* gives up at a deadline.                                                 *)

Plain == [init |-> 1, wins |-> {1, 2}, bytes |-> 2, write |-> 2, room |-> 2,
          deadline |-> FALSE, close |-> {"A"}]
NoStream == [Plain EXCEPT !.bytes = 0, !.write = 1, !.room = 0, !.wins = {1}, !.close = {}]

MCSetups == {NoStream, Plain,
             [Plain EXCEPT !.init = 4, !.wins = {4}, !.bytes = 5, !.write = 5,
                           !.room = 5, !.close = {}],
             [Plain EXCEPT !.bytes = 1, !.write = 1, !.wins = {1},
                           !.close = {"B"}, !.deadline = TRUE]}

-----------------------------------------------------------------------------
(* Two goroutines that find a ring full; streams enough for indexes of two *)
(* bits to wrap, and for more rings; packets of two chains; a close while  *)
(* each of the queues has something.                                       *)

Pushes(conns, a, b, n, close) ==
  [conns |-> conns, todo |-> [p \in Pusher |-> IF p = "a" THEN a ELSE b], size |-> n,
   close |-> close]
MCQueues == {Pushes(FALSE, <<"high", "high">>, <<"high">>, 1, FALSE),
             Pushes(TRUE, <<"low", "low", "low", "low", "low">>, <<>>, 1, FALSE),
             Pushes(FALSE, <<"mid", "mid">>, <<"low">>, 1, FALSE),
             Pushes(FALSE, <<"low">>, <<>>, 1, TRUE),
             Pushes(TRUE, <<"low">>, <<>>, 1, TRUE)}

-----------------------------------------------------------------------------

allVars == <<vars, queVars>>
SceneInit ==
  /\ Init
  /\ \/ use # NoStream /\ QueInit(NoQueue)
     \/ use = NoStream /\ \E s \in MCQueues : QueInit(s)
SceneNext == (Next /\ UNCHANGED queVars) \/ (QueNext /\ UNCHANGED vars)
SceneSpec == SceneInit /\ [][SceneNext]_allVars /\ Fairness /\ QueFair

\* What StreamSettles says of a stream, and what is in a queue is taken.
MuxSettles == StreamSettles /\ QueueSettles
=============================================================================

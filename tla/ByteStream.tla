----------------------------- MODULE ByteStream -----------------------------
(***************************************************************************)
(* What one direction of a multiplexed connection promises its users: the  *)
(* bytes put in at one end come out at the other, no more than were put    *)
(* in, and the reader is told of the end only when it has everything that  *)
(* was put in before the writing end was closed, unless it closed the      *)
(* connection itself.  Module MuxWindow implements it.                     *)
(***************************************************************************)
EXTENDS Naturals

VARIABLES
  sent,    \* bytes put in
  read,    \* bytes that came out
  closed,  \* the writing end was closed
  finAt,   \* bytes put in before that
  cut,     \* the reading end was closed
  eof      \* the reader was told of the end

stream == <<sent, read, closed, finAt, cut, eof>>

Init == sent = 0 /\ read = 0 /\ ~closed /\ finAt = 0 /\ ~cut /\ ~eof

\* A Write under way while its end is closed may still add bytes.
Put == sent' > sent /\ UNCHANGED <<read, closed, finAt, cut, eof>>

Take == /\ read' > read /\ read' <= sent
        /\ UNCHANGED <<sent, closed, finAt, cut, eof>>

Shut == ~closed /\ closed' /\ finAt' = sent /\ UNCHANGED <<sent, read, cut, eof>>

Cut == ~cut /\ cut' /\ UNCHANGED <<sent, read, closed, finAt, eof>>

End == /\ cut \/ (closed /\ read >= finAt)
       /\ eof' /\ UNCHANGED <<sent, read, closed, finAt, cut>>

Next == Put \/ Take \/ Shut \/ Cut \/ End

Spec == Init /\ [][Next]_stream
=============================================================================

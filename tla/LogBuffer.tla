----------------------------- MODULE LogBuffer ------------------------------
(***************************************************************************)
(* The log that the control shows: logBuffer of cmd/tunnel-control/        *)
(* log_buffer.go, with the pipe to which log_capture_unix.go redirects the *)
(* output of the process.  One goroutine copies the pipe to the old output *)
(* and to the buffer; handlers list and clear.  addLine, list and clear    *)
(* hold the mutex, but the line not yet complete is kept without it.       *)
(*                                                                         *)
(* A line is two pieces, <<i, 1>> and <<i, 2>>; the second ends it.        *)
(***************************************************************************)
EXTENDS Naturals, SequencesExt, FiniteSets

\* A scene: the chunks the pipe will carry, the entries kept, and how many clears.
NoLog == [chunks |-> <<>>, max |-> 1, clears |-> 0]

\* The pieces are numbered in the order in which they are written: those of a text come
\* one after the other, and every chunk goes on where the one before it ended.
Piece == (Nat \ {0}) \X {1, 2}
No(piece) == 2 * piece[1] + piece[2]
GoesOn(text) ==
  /\ text \in Seq(Piece)
  /\ \A i \in DOMAIN text : No(text[i]) = No(text[1]) + i - 1
LogSceneOK(s) ==
  /\ s \in [chunks : Seq(Seq(Piece) \ {<<>>}), max : Nat \ {0}, clears : Nat]
  /\ \A k \in DOMAIN s.chunks :
       /\ GoesOn(s.chunks[k])
       /\ k = 1 => s.chunks[k][1] = <<1, 1>>
       /\ k > 1 => No(s.chunks[k][1]) = No(Last(s.chunks[k - 1])) + 1

VARIABLES
  lbScene,    \* the scene; the chunks still to come
  lbText,     \* what addChunk has of the chunk it is at, with the rest before it
  lbLines,    \* its complete lines, still to be added
  lbPartial,  \* logBuffer.partial
  lbEntries,  \* logBuffer.entries: [id, line]
  lbNext,     \* logBuffer.nextID
  lbAdded,    \* ghost: all lines added since the last clear
  lbTorn      \* ghost: lines of which a clear took a piece

logVars == <<lbScene, lbText, lbLines, lbPartial, lbEntries, lbNext, lbAdded, lbTorn>>

LogInit(s) ==
  /\ lbScene = s /\ lbText = <<>> /\ lbLines = <<>> /\ lbPartial = <<>>
  /\ lbEntries = <<>> /\ lbNext = 0 /\ lbAdded = <<>> /\ lbTorn = {}

\* A piece with which a line is complete; the lines of a text, and what is after the last.
Complete(piece) == piece[2] = 2
ends(text) == {i \in DOMAIN text : Complete(text[i])}
lastEnd(text) == IF ends(text) = {} THEN 0 ELSE Max(ends(text))
linesOf(text) == SubSeq(text, 1, lastEnd(text))
afterLast(text) == SubSeq(text, lastEnd(text) + 1, Len(text))

\* The first of some lines, and the others.
firstLine(text) == SubSeq(text, 1, Min(ends(text)))
otherLines(text) == SubSeq(text, Min(ends(text)) + 1, Len(text))

\* addChunk: the text, with the piece kept of the line before;
ReadPartial ==
  /\ lbText = <<>> /\ lbLines = <<>> /\ lbScene.chunks # <<>>
  /\ lbScene' = [lbScene EXCEPT !.chunks = Tail(@)]
  /\ lbText' = lbPartial \o Head(lbScene.chunks)
  /\ UNCHANGED <<lbLines, lbPartial, lbEntries, lbNext, lbAdded, lbTorn>>

\* the piece to keep, into the map that is there by now;
WritePartial ==
  /\ lbText # <<>> /\ lbPartial' = afterLast(lbText) /\ lbLines' = linesOf(lbText) /\ lbText' = <<>>
  /\ UNCHANGED <<lbScene, lbEntries, lbNext, lbAdded, lbTorn>>

\* The last max of them.
keep(entries) ==
  IF Len(entries) > lbScene.max
  THEN SubSeq(entries, Len(entries) - lbScene.max + 1, Len(entries)) ELSE entries

addLine ==
  /\ lbLines # <<>> /\ lbLines' = otherLines(lbLines) /\ lbNext' = lbNext + 1
  /\ lbEntries' = keep(Append(lbEntries, [id |-> lbNext + 1, line |-> firstLine(lbLines)]))
  /\ lbAdded' = Append(lbAdded, firstLine(lbLines))
  /\ UNCHANGED <<lbScene, lbText, lbPartial, lbTorn>>

\* clear, by a handler at any time.
clear ==
  /\ lbScene.clears > 0 /\ lbScene' = [lbScene EXCEPT !.clears = @ - 1]
  /\ lbEntries' = <<>> /\ lbPartial' = <<>> /\ lbAdded' = <<>>
  /\ lbTorn' = lbTorn \cup {lbPartial[i][1] : i \in DOMAIN lbPartial}
  /\ UNCHANGED <<lbText, lbLines, lbNext>>

LogNext == ReadPartial \/ WritePartial \/ addLine \/ clear
LogFair == WF_logVars(ReadPartial \/ WritePartial \/ addLine)

\* list: from the newest entry back, as far as no more than the limit match.
places(matching) == {i \in DOMAIN lbEntries : lbEntries[i] \in matching}
atMost(limit) == IF limit = 0 \/ limit > lbScene.max THEN lbScene.max ELSE limit
list(limit, matching) ==
  LET since(k) == {i \in places(matching) : k <= i}
      fits == {k \in 1..(Len(lbEntries) + 1) : Cardinality(since(k)) <= atMost(limit)}
  IN since(Min(fits))

-----------------------------------------------------------------------------
(* Properties.                                                             *)

\* The log holds the last lines since it was cleared, each once, in order and with
\* both of its pieces; only a line that was incomplete at a clear may be torn
\* (addChunk, addLine).
LogTrue ==
  /\ [i \in DOMAIN lbEntries |-> lbEntries[i].line]
       = SubSeq(lbAdded, Len(lbAdded) - Len(lbEntries) + 1, Len(lbAdded))
  /\ Len(lbEntries) = Min({Len(lbAdded), lbScene.max})
  /\ \A i \in DOMAIN lbEntries :
       /\ lbEntries[i].id = lbNext - Len(lbEntries) + i
       /\ LET l == Last(lbEntries[i].line)[1] IN
          lbEntries[i].line = << <<l, 1>>, <<l, 2>> >> \/ l \in lbTorn
  /\ \A i, j \in DOMAIN lbAdded : i < j => Last(lbAdded[i])[1] < Last(lbAdded[j])[1]

\* What a handler lists are the newest entries that match: none is left out that is
\* newer than one of them, and none at all as long as there is room (list).
ListTrue ==
  \A limit \in 0..3 : \A matching \in SUBSET ToSet(lbEntries) :
    LET out == list(limit, matching)
        room == atMost(limit)
    IN /\ Cardinality(out) <= room
       /\ places(matching) \subseteq out \/ Cardinality(out) = room
       /\ \A i \in out, j \in places(matching) \ out : j < i

LogSound == LogTrue /\ ListTrue

\* What was written gets into the log.
LogCatchesUp == <>(lbScene.chunks = <<>> /\ lbText = <<>> /\ lbLines = <<>>)
=============================================================================

----------------------------- MODULE MuxWindow -----------------------------
(***************************************************************************)
(* One direction of one connection of the NPS multiplexer,                 *)
(* upstream/NPS/lib/nps_mux/conn.go and queue.go: the send window at the   *)
(* writing end A, the receive window and its queue at the reading end B.   *)
(*                                                                         *)
(* Goroutines: at A the caller of Write (wpc) and the read loop of the     *)
(* session, which delivers acknowledgements (apc); at B the read loop,     *)
(* which delivers segments (bpc), the caller of Read (rpc) and the caller  *)
(* of Close (cpc).  A step is what one atomic operation makes visible: a   *)
(* load followed by a compare-and-swap is one step when everything the new *)
(* value is computed from is the swapped word, and two when the length of  *)
(* the queue, another word, is read in between.                            *)
(*                                                                         *)
(* Bytes are counted, not named: chains and wires are queues of them.      *)
(* Deadlines of writes are not used on these connections; those of reads   *)
(* are (server/proxy/udp.go).                                              *)
(* The overflow branches need 2^31 unacknowledged bytes, 16 times the      *)
(* largest window, and are left out.                                       *)
(***************************************************************************)
EXTENDS Naturals, Sequences, SequencesExt, FiniteSetsExt

CONSTANTS
  MSS,       \* maximumSegmentSize
  Setups     \* the connections considered, see Setup

\* A connection and its use: the initial window (30 segments in the code), the
\* sizes calcSize may come to, the bytes written in all and the lengths of the
\* buffers of Write and of Read, whether Read has a deadline, and the ends that
\* are closed by their owner whenever it likes.
Setup == [init: Nat \ {0}, wins: SUBSET (Nat \ {0}), bytes: Nat,
          write: Nat \ {0}, room: Nat, deadline: BOOLEAN,
          close: SUBSET {"A", "B"}]

ASSUME WindowAssumption ==
  /\ MSS \in Nat \ {0}
  /\ \A s \in Setups : s \in Setup /\ s.init \in s.wins

VARIABLES
  use,                \* the setup, which never changes
  wpc, left, amt,     \* Write: where it is, bytes of the buffer left, segment
  snd,                \* sendWindow: [max, send, wait, op (closeOp), tok, shut]
  apc,                \* read loop of A
  aClosed, aClosing,  \* conn.isClose and conn.closingFlag at A
  data,               \* segments under way: [len, part], or Fin
  acks,               \* acknowledgements under way: [max, read], or Fin
  bpc, seg, snap,     \* read loop of B, its segment, its copy of the window
  rcv,                \* receiveWindow.maxSizeDone: [max, read, wait]
  qLen, qWait, chain, \* receiveWindowQueue: lengthWait and the chain
  owed,               \* what each end of it took from the chain and has not
                      \* yet taken from the length
  rpc, elem, want,    \* Read: where it is, its element, room in the buffer
  rsnap,              \* its copy of the window
  rOp, rTok,          \* closeOp and closeOpCh of the receive window
  stopTok, stopped,   \* stopOp and the Once around Stop
  bClosed, cpc,       \* conn.isClose at B, the goroutine in closeProcess
  sent, read, eof,    \* history: bytes sent, bytes read, Read returned EOF
  finAt               \* history: bytes sent when A was closed

wVars == <<wpc, left, amt, aClosed, aClosing, sent, finAt>>
aVars == <<snd, apc>>
bVars == <<bpc, seg, snap>>
qVars == <<qLen, qWait, chain, owed>>
rVars == <<rpc, elem, want, rsnap, read, eof>>
cVars == <<rOp, rTok, stopTok, stopped, bClosed, cpc>>
vars  == <<use, wVars, aVars, data, acks, bVars, rcv, qVars, rVars, cVars>>

Fin     == [fin |-> TRUE]
NoSeg   == [len |-> 0, part |-> FALSE]
NoSnap  == [max |-> 0, read |-> 0, wait |-> FALSE, full |-> FALSE]
Left(a, b) == IF a > b THEN a - b ELSE 0

\* sendWindow.New and receiveWindow.New: the word maxSizeDone, the channels empty.
newSendWindow == [max |-> use.init, send |-> 0, wait |-> FALSE, op |-> FALSE,
                  tok |-> 0, shut |-> FALSE]
newReceiveWindow == [max |-> use.init, read |-> 0, wait |-> FALSE]
newReceiveWindowQueue ==
  qLen = 0 /\ qWait = FALSE /\ chain = <<>> /\ owed = [w \in {"reader", "closer"} |-> 0]

Init ==
  /\ use \in Setups
  /\ wpc = "idle" /\ left = 0 /\ amt = 0
  /\ snd = newSendWindow
  /\ apc = "idle" /\ aClosed = FALSE /\ aClosing = FALSE
  /\ data = <<>> /\ acks = <<>>
  /\ bpc = "idle" /\ seg = NoSeg /\ snap = NoSnap
  /\ rcv = newReceiveWindow /\ newReceiveWindowQueue
  /\ rpc = "idle" /\ elem = [size |-> 0, rest |-> 0, part |-> FALSE]
  /\ want = 0 /\ rsnap = NoSnap
  /\ rOp = FALSE /\ rTok = 0 /\ stopTok = 0 /\ stopped = FALSE
  /\ bClosed = FALSE /\ cpc = "none"
  /\ sent = 0 /\ read = 0 /\ eof = FALSE /\ finAt = 0

----------------------------------------------------------------------------
(* A: conn.Write and the send window *)

\* conn.Write and SetSendBuf.  A refused Write changes nothing.
Write(n) ==
  /\ wpc = "idle" /\ ~aClosed /\ ~aClosing /\ sent + n <= use.bytes
  /\ wpc' = "ready" /\ left' = n
  /\ UNCHANGED <<amt, aClosed, aClosing, sent, finAt, aVars, data, acks, bVars, rcv,
                 qVars, rVars, cVars>>

\* WriteTo up to the choice of a segment, or to the wait.  A writer that comes
\* back from the wait (start) does not look at closeOp again.
WriteTo ==
  /\ wpc = "start" \/ (wpc = "ready" /\ ~snd.op /\ left > 0)
  /\ LET remain == Left(snd.max, snd.send)
     IN  IF remain = 0
         THEN /\ snd' = [snd EXCEPT !.wait = TRUE]
              /\ wpc' = "wait" /\ UNCHANGED amt
         ELSE /\ wpc' = "send" /\ amt' = Min({MSS, left, remain})
              /\ UNCHANGED snd
  /\ UNCHANGED left

\* WriteFull is over: the buffer is drained, or the window is closed.
WriteEnds ==
  /\ wpc = "ready" /\ (snd.op \/ left = 0)
  /\ wpc' = "idle" /\ left' = 0 /\ UNCHANGED <<amt, snd>>

\* waitReceiveWindow is told that the window was closed.
WaitClosed ==
  /\ wpc = "wait" /\ wpc' = "idle" /\ left' = 0 /\ UNCHANGED amt
  /\ \/ snd.tok > 0 /\ snd' = [snd EXCEPT !.tok = @ - 1]
     \/ snd.shut /\ UNCHANGED snd

WindowStep ==
  /\ WriteTo \/ WriteEnds \/ WaitClosed
  /\ UNCHANGED <<apc, aClosed, aClosing, sent, finAt, data, acks, bVars, rcv, qVars,
                 rVars, cVars>>

\* sent, which counts the segment before it is queued.
sentSize == [snd EXCEPT !.send = @ + amt]

\* The rest of WriteTo and the sendInfo of WriteFull.
SendSegment ==
  /\ wpc = "send" /\ wpc' = "ready"
  /\ snd' = sentSize
  /\ data' = Append(data, [len |-> amt, part |-> amt < left])
  /\ left' = left - amt /\ sent' = sent + amt
  /\ UNCHANGED <<amt, apc, aClosed, aClosing, finAt, acks, bVars, rcv, qVars, rVars, cVars>>

\* Mutant: a waiting writer is not told.
SetSizeSilent(ack) ==
  /\ snd' = [snd EXCEPT !.max = ack.max, !.send = @ - ack.read, !.wait = FALSE]
  /\ apc' = "idle"

\* SetSize.  With the window closed it closes setSizeCh instead.
SetSize(ack) ==
  LET send    == snd.send - ack.read
      newWait == snd.wait /\ Left(ack.max, send) = 0
  IN  \/ snd.op /\ snd' = [snd EXCEPT !.shut = TRUE] /\ UNCHANGED apc
      \/ /\ ~snd.op
         /\ ack.read > snd.send \/ (ack.read = 0 /\ ack.max = snd.max)
         /\ UNCHANGED aVars
      \/ /\ ~snd.op /\ ack.read <= snd.send /\ (ack.read > 0 \/ ack.max # snd.max)
         /\ snd' = [snd EXCEPT !.max = ack.max, !.send = send, !.wait = newWait]
         /\ apc' = IF snd.wait /\ ~newWait THEN "allow" ELSE "idle"

\* The read loop of A takes what B sent: an acknowledgement or the end.  It drops
\* both once the connection is closed here.
RecvAck ==
  /\ apc = "idle" /\ acks # <<>> /\ acks' = Tail(acks)
  /\ \/ aClosed /\ UNCHANGED <<aVars, aClosing>>
     \/ /\ ~aClosed /\ Head(acks) = Fin
        /\ aClosing' = TRUE /\ UNCHANGED aVars
     \/ ~aClosed /\ Head(acks) # Fin /\ SetSize(Head(acks)) /\ UNCHANGED aClosing
  /\ UNCHANGED <<wpc, left, amt, aClosed, sent, finAt, data, bVars, rcv, qVars, rVars,
                 cVars>>

\* allow hands the token to the waiting writer, or finds the window closed.
AllowWriter ==
  /\ apc = "allow" /\ apc' = "idle"
  /\ \/ wpc = "wait" /\ wpc' = "start" /\ UNCHANGED snd
     \/ /\ snd.tok > 0 /\ snd' = [snd EXCEPT !.tok = @ - 1, !.shut = TRUE]
        /\ UNCHANGED wpc
  /\ UNCHANGED <<left, amt, aClosed, aClosing, sent, finAt, data, acks, bVars, rcv,
                 qVars, rVars, cVars>>

\* Close at A: the mark and the message, then the window.  The owner closes when
\* it likes, and does so when it has seen the other end close.
CloseA ==
  /\ "A" \in use.close \/ aClosing
  /\ \/ /\ ~aClosed /\ aClosed' = TRUE /\ data' = Append(data, Fin)
        /\ finAt' = sent /\ UNCHANGED snd
     \/ /\ aClosed /\ ~snd.op /\ snd' = [snd EXCEPT !.op = TRUE, !.tok = 2]
        /\ UNCHANGED <<aClosed, data, finAt>>
  /\ UNCHANGED <<wpc, left, amt, aClosing, sent, apc, acks, bVars, rcv, qVars,
                 rVars, cVars>>

----------------------------------------------------------------------------
(* B: the read loop and the receive window *)

Remaining(max, delta) == Left(max, qLen + delta)

\* calcSize: every tenth segment a new size, at most doubled (six times the
\* initial one) and at least halved.
calcSize == {n \in use.wins : /\ n >= rcv.max \div 2
                             /\ n <= (IF rcv.max = use.init THEN 6 ELSE 2) * rcv.max}

\* The read loop of B takes a message.  It drops a segment of a closed
\* connection, closes the connection when only its window is closed, and for the
\* end of the other side runs Stop.
RecvSegment ==
  /\ bpc = "idle" /\ data # <<>> /\ data' = Tail(data)
  /\ \/ bClosed /\ UNCHANGED <<bVars, rcv, stopTok, stopped, cpc>>
     \/ /\ ~bClosed /\ Head(data) = Fin
        /\ stopped' = TRUE /\ stopTok' = IF stopped THEN stopTok ELSE 2
        /\ UNCHANGED <<bVars, rcv, cpc>>
     \/ /\ ~bClosed /\ Head(data) # Fin /\ rOp
        /\ cpc' = IF cpc = "none" THEN "mark" ELSE cpc
        /\ bpc' = "closing" /\ UNCHANGED <<seg, snap, rcv, stopTok, stopped>>
     \/ /\ ~bClosed /\ Head(data) # Fin /\ ~rOp
        /\ seg' = Head(data) /\ bpc' = "load"
        /\ \E n \in calcSize \cup {rcv.max} : rcv' = [rcv EXCEPT !.max = n]
        /\ UNCHANGED <<snap, stopTok, stopped, cpc>>
  /\ UNCHANGED <<wVars, aVars, acks, qVars, rVars, rOp, rTok, bClosed>>

\* What unpack makes of the word, and whether delta more bytes fill the window.
unpack(delta) == [max |-> rcv.max, read |-> rcv.read, wait |-> rcv.wait,
                  full |-> Remaining(rcv.max, delta) = 0]

\* receiveWindow.Write reads its word and the length of the queue.
LoadWindow ==
  /\ bpc = "load"
  /\ snap' = unpack(seg.len)
  /\ bpc' = IF rcv.wait THEN "length" ELSE "swap"
  /\ UNCHANGED <<seg, rcv, qVars, rpc>>

Same(s) == rcv = [max |-> s.max, read |-> s.read, wait |-> s.wait]

\* It swaps in the wait mark, or takes the count it is about to acknowledge;
\* snap.wait now says that nothing will be sent.
SwapWindow ==
  /\ bpc = "swap"
  /\ IF Same(snap)
     THEN /\ rcv' = IF snap.full THEN [rcv EXCEPT !.wait = TRUE]
                                 ELSE [rcv EXCEPT !.read = 0]
          /\ bpc' = "length" /\ snap' = [snap EXCEPT !.wait = snap.full]
     ELSE bpc' = "load" /\ UNCHANGED <<rcv, snap>>
  /\ UNCHANGED <<seg, qVars, rpc>>

\* receiveWindowQueue.Push: the length and the wait mark, then the chain.
PushLength ==
  /\ bpc = "length" /\ qLen' = qLen + seg.len /\ qWait' = FALSE
  /\ bpc' = IF qWait THEN "chainwake" ELSE "chain"
  /\ UNCHANGED <<seg, snap, rcv, chain, owed, rpc>>

PushChain ==
  /\ bpc \in {"chain", "chainwake"} /\ chain' = Append(chain, seg)
  /\ bpc' = IF bpc = "chainwake" THEN "allow" ELSE "ack"
  /\ UNCHANGED <<seg, snap, rcv, qLen, qWait, owed, rpc>>

BufferStep ==
  /\ LoadWindow \/ SwapWindow \/ PushLength \/ PushChain
  /\ UNCHANGED <<wVars, aVars, data, acks, elem, want, rsnap, read, eof, cVars>>

\* allowPop wakes the reader that waits for a segment, or finds the queue stopped.
AllowPop ==
  /\ bpc = "allow" /\ bpc' = "ack"
  /\ \/ rpc = "wait" /\ rpc' = "pop" /\ UNCHANGED stopTok
     \/ stopTok > 0 /\ stopTok' = stopTok - 1 /\ UNCHANGED rpc
  /\ UNCHANGED <<wVars, aVars, data, acks, seg, snap, rcv, qVars, elem, want,
                 rsnap, read, eof, rOp, rTok, stopped, bClosed, cpc>>

\* The acknowledgement at the end of receiveWindow.Write.
AckSegment ==
  /\ bpc = "ack" /\ bpc' = "idle" /\ seg' = NoSeg /\ snap' = NoSnap
  /\ acks' = IF snap.wait THEN acks
             ELSE Append(acks, [max |-> snap.max, read |-> snap.read])
  /\ UNCHANGED <<wVars, aVars, data, rcv, qVars, rVars, cVars>>

----------------------------------------------------------------------------
(* B: conn.Read; a buffer without room returns at once. *)

BeginRead(n) ==
  /\ rpc = "idle" /\ ~bClosed /\ ~rOp /\ n > 0
  /\ want' = n /\ rpc' = "copy" /\ UNCHANGED <<elem, rsnap, read, eof, qVars, stopTok>>

\* copyData: take bytes of the current element; the end of an element is
\* reported to the window, and a buffer with room waits for the next part.
CopyData ==
  /\ rpc = "copy" /\ elem.rest > 0
  /\ LET l == Min({want, elem.rest})
     IN  /\ elem' = [elem EXCEPT !.rest = @ - l] /\ want' = want - l
         /\ read' = read + l
         /\ rpc' = IF l = elem.rest THEN "status" ELSE "idle"
  /\ UNCHANGED <<rsnap, eof, qVars, stopTok>>

\* Mutant: drops the data that are queued when the other side has closed.
NextElementHasty ==
  /\ rpc = "copy" /\ elem.rest = 0
  /\ rpc' = IF stopped THEN "err" ELSE "pop"
  /\ eof' = stopped /\ UNCHANGED <<elem, want, rsnap, read, qVars, stopTok>>

\* The element is used up: Pop the next, unless the window was closed.
NextElement ==
  /\ rpc = "copy" /\ elem.rest = 0
  /\ rpc' = IF rOp THEN "idle" ELSE "pop"
  /\ UNCHANGED <<elem, want, rsnap, read, eof, qVars, stopTok>>

\* Pop finds the queue empty and marks that it waits, or goes on to take.
Pop ==
  /\ rpc = "pop"
  /\ IF qLen = 0 THEN qWait' = TRUE /\ rpc' = "wait"
                 ELSE UNCHANGED qWait /\ rpc' = "take"
  /\ UNCHANGED <<elem, want, rsnap, read, eof, qLen, chain, owed, stopTok>>

\* TryPop: popTail of the chain, then the length, an atomic step of its own.
popTail(w) ==
  chain # <<>> /\ owed[w] = 0 /\ chain' = Tail(chain)
  /\ owed' = [owed EXCEPT ![w] = Head(chain).len] /\ UNCHANGED <<qLen, qWait>>
TakeLength(w) ==
  owed[w] > 0 /\ qLen' = qLen - owed[w] /\ owed' = [owed EXCEPT ![w] = 0]
  /\ UNCHANGED <<chain, qWait>>

\* The loop around TryPop, for as long as the chain is empty.
TakeElement ==
  /\ rpc = "take"
  /\ \/ /\ popTail("reader") /\ UNCHANGED rpc
        /\ elem' = [size |-> Head(chain).len, rest |-> Head(chain).len,
                    part |-> Head(chain).part]
     \/ TakeLength("reader") /\ rpc' = "copy" /\ UNCHANGED elem
  /\ UNCHANGED <<want, rsnap, read, eof, stopTok>>

\* waitPush is stopped, or its deadline passes.
WaitPushEnds ==
  /\ rpc = "wait" /\ rpc' = "err"
  /\ \/ stopTok > 0 /\ stopTok' = stopTok - 1 /\ eof' = TRUE
     \/ use.deadline /\ UNCHANGED <<stopTok, eof>>
  /\ UNCHANGED <<elem, want, rsnap, read, qVars>>

ReadStep ==
  /\ \/ BeginRead(use.room)
     \/ CopyData \/ NextElement \/ Pop \/ TakeElement \/ WaitPushEnds
  /\ UNCHANGED <<wVars, aVars, data, acks, bVars, rcv, rOp, rTok, stopped, bClosed, cpc>>

\* sendStatus reads its word and the length of the queue.
LoadStatus ==
  /\ rpc = "status" /\ rpc' = "report"
  /\ rsnap' = unpack(0)
  /\ UNCHANGED <<rcv, elem>>

\* A writer that waits for room, half a window read, or an empty queue.
ShouldAck(s) ==
  \/ s.wait /\ ~s.full
  \/ s.read + elem.size >= s.max \div 2
  \/ Remaining(s.max, 0) = s.max

\* Mutant: stores the count without comparing the word with its copy.
SwapStatusBlind ==
  /\ rpc = "report"
  /\ rcv' = [rcv EXCEPT !.read = rsnap.read + elem.size]
  /\ rsnap' = NoSnap /\ elem' = [elem EXCEPT !.size = 0]
  /\ rpc' = IF want > 0 /\ elem.part THEN "copy" ELSE "idle"

\* It swaps: an acknowledgement is due, or only the count changes.
SwapStatus ==
  /\ rpc = "report"
  /\ LET s == rsnap
     IN  IF ~Same(s) THEN rpc' = "status" /\ UNCHANGED <<rcv, rsnap, elem>>
         ELSE IF ShouldAck(s)
         THEN /\ rcv' = [rcv EXCEPT !.read = 0, !.wait = FALSE]
              /\ rsnap' = [s EXCEPT !.read = s.read + elem.size]
              /\ rpc' = "sendack" /\ elem' = [elem EXCEPT !.size = 0]
         ELSE /\ rcv' = [rcv EXCEPT !.read = s.read + elem.size]
              /\ rsnap' = NoSnap /\ elem' = [elem EXCEPT !.size = 0]
              /\ rpc' = IF want > 0 /\ elem.part THEN "copy" ELSE "idle"

StatusStep ==
  /\ LoadStatus \/ SwapStatus
  /\ UNCHANGED <<wVars, aVars, data, acks, bVars, qVars, want, read, eof, cVars>>

AckStatus ==
  /\ rpc = "sendack" /\ acks' = Append(acks, [max |-> rsnap.max, read |-> rsnap.read])
  /\ rsnap' = NoSnap /\ rpc' = IF want > 0 /\ elem.part THEN "copy" ELSE "idle"
  /\ UNCHANGED <<wVars, aVars, data, bVars, rcv, qVars, elem, want, read, eof, cVars>>

----------------------------------------------------------------------------
(* B: Close, and receiveWindow.CloseWindow, which a failed Read calls too *)

\* The owner of the connection calls Close when it likes, and when it was told of
\* the end; so does the read loop (RecvSegment).
CloseB ==
  /\ "B" \in use.close \/ eof
  /\ cpc = "none" /\ cpc' = "mark"
  /\ UNCHANGED <<wVars, aVars, data, acks, bVars, rcv, qVars, rVars, rOp, rTok,
                 stopTok, stopped, bClosed>>

\* closeProcess up to the windows.
MarkClosed ==
  /\ cpc = "mark" /\ cpc' = "check"
  /\ bClosed' = TRUE /\ acks' = Append(acks, Fin)
  /\ UNCHANGED <<rpc, rOp, rTok, stopTok, stopped, bpc>>

\* At(from, to): the closing goroutine or the reader moves.
At(from, to) ==
  \/ cpc = from /\ cpc' = to /\ UNCHANGED rpc
  \/ rpc = (IF from = "check" THEN "err" ELSE from) /\ rpc' = to /\ UNCHANGED cpc

\* window.CloseWindow tests a plain boolean and then sets it: two goroutines may
\* both pass the test, and the second finds the channel full.
CheckWindow ==
  /\ \/ ~rOp /\ At("check", "set")
     \/ rOp /\ At("check", "stop")
  /\ UNCHANGED <<rOp, rTok, stopTok, stopped, bClosed, acks, bpc>>

SetClosed ==
  /\ At("set", "stop") /\ rTok = 0
  /\ rOp' = TRUE /\ rTok' = 2
  /\ UNCHANGED <<stopTok, stopped, bClosed, acks, bpc>>

\* Stop, inside its Once.
StopQueue ==
  /\ At("stop", "release")
  /\ stopped' = TRUE /\ stopTok' = IF stopped THEN stopTok ELSE 2
  /\ UNCHANGED <<rOp, rTok, bClosed, acks, bpc>>

\* The read loop goes on once the Close it called, or waited for, is over.
LoopContinues ==
  /\ bpc = "closing" /\ cpc = "done" /\ bpc' = "idle"
  /\ UNCHANGED <<rpc, rOp, rTok, stopTok, stopped, bClosed, cpc, acks>>

CloseStep ==
  /\ MarkClosed \/ CheckWindow \/ SetClosed \/ StopQueue \/ LoopContinues
  /\ UNCHANGED <<wVars, aVars, data, seg, snap, rcv, qVars, elem, want, rsnap, read, eof>>

\* release empties the queue.
Release ==
  /\ \/ /\ UNCHANGED <<cpc, rpc>>
        /\ \/ cpc = "release" /\ (popTail("closer") \/ TakeLength("closer"))
           \/ rpc = "release" /\ (popTail("reader") \/ TakeLength("reader"))
     \/ /\ chain = <<>> /\ UNCHANGED qVars
        /\ \/ cpc = "release" /\ owed["closer"] = 0 /\ cpc' = "done" /\ UNCHANGED rpc
           \/ rpc = "release" /\ owed["reader"] = 0 /\ rpc' = "idle" /\ UNCHANGED cpc
  /\ UNCHANGED <<wVars, aVars, data, acks, bVars, rcv, elem, want, rsnap,
                 read, eof, rOp, rTok, stopTok, stopped, bClosed>>

----------------------------------------------------------------------------

Writer == (WindowStep \/ SendSegment) /\ UNCHANGED use
LoopA  == (RecvAck \/ AllowWriter) /\ UNCHANGED use
LoopB  == (RecvSegment \/ BufferStep \/ AllowPop \/ AckSegment) /\ UNCHANGED use
Reader == (ReadStep \/ StatusStep \/ AckStatus) /\ UNCHANGED use
Closer == (CloseStep \/ Release) /\ UNCHANGED use
Owner  == (Write(use.write) \/ CloseB) /\ UNCHANGED use
OwnerA == CloseA /\ UNCHANGED use

Next == Writer \/ LoopA \/ LoopB \/ Reader \/ Closer \/ Owner \/ OwnerA

Spec == Init /\ [][Next]_vars

\* Goroutines run.  The reader calls Read again and again, the owner of A closes
\* when it has seen B close (io.Copy ends); nobody has to write or to close.
Fairness ==
  /\ WF_vars(Writer) /\ WF_vars(LoopA) /\ WF_vars(LoopB) /\ WF_vars(Reader)
  /\ WF_vars(Closer) /\ WF_vars(OwnerA /\ (aClosing \/ aClosed))
FairSpec == Spec /\ Fairness

----------------------------------------------------------------------------
(* Properties *)


Seg  == [len: 1..MSS, part: BOOLEAN]
Ack  == [max: use.wins, read: 0..use.bytes]

\* Every word and queue has the shape the code gives it; the channels hold no
\* more tokens than their capacity.
WindowTypeOK ==
  /\ wpc \in {"idle", "ready", "start", "send", "wait"} /\ apc \in {"idle", "allow"}
  /\ left \in 0..use.bytes /\ amt \in 0..MSS
  /\ snd.max \in use.wins /\ snd.send \in 0..use.bytes /\ snd.tok \in 0..2
  /\ data \in Seq(Seg \cup {Fin}) /\ acks \in Seq(Ack \cup {Fin})
  /\ bpc \in {"idle", "load", "swap", "length", "chain", "chainwake", "allow", "ack", "closing"}
  /\ rcv.max \in use.wins /\ rcv.read \in 0..use.bytes
  /\ chain \in Seq(Seg) /\ qLen \in 0..use.bytes /\ owed \in [{"reader", "closer"} -> 0..MSS]
  /\ rpc \in {"idle", "copy", "pop", "wait", "take", "status", "report", "sendack",
              "err", "set", "stop", "release"}
  /\ cpc \in {"none", "mark", "check", "set", "stop", "release", "done"}
  /\ rTok \in {0, 2} /\ stopTok \in 0..2

Sum(s, f(_)) == FoldLeft(LAMBDA acc, x : acc + f(x), 0, s)
LenOf(x)  == IF x = Fin THEN 0 ELSE x.len
ReadOf(x) == IF x = Fin THEN 0 ELSE x.read

InHand  == IF bpc \in {"load", "swap", "length"} THEN seg.len ELSE 0
Pending == (IF bpc \in {"length", "chain", "chainwake", "allow", "ack"} /\ ~snap.wait
            THEN snap.read ELSE 0)
           + (IF rpc = "sendack" THEN rsnap.read ELSE 0)

\* As long as the connection is open at both ends, what the send window counts
\* as outstanding is exactly what is under way, queued, being read, or read and
\* not yet acknowledged: no acknowledgement is lost or counted twice by the two
\* goroutines that race for the receive window's word.
Conserved ==
  ~aClosed /\ ~bClosed /\ ~rOp =>
    snd.send = Sum(data, LenOf) + InHand + qLen - owed["reader"] + elem.size
               + rcv.read + Pending
               + Sum(acks, ReadOf)

\* The bytes queued at B never exceed the largest window it may have granted.
QueueBounded == qLen <= Max(use.wins)

\* The read loop of A serves every connection of the session: the token it hands
\* to a waiting writer is always taken, by the writer or by the close.
LoopNotHeldUp == apc = "allow" ~> apc = "idle"

\* The connection is a byte stream: a Read that reports the end has delivered all
\* that was sent before the writing end closed, Stop does not overtake queued
\* segments, and nothing is read twice.
Stream == INSTANCE ByteStream WITH closed <- aClosed, cut <- bClosed \/ rOp
IsByteStream == Stream!Spec

\* A connection that nobody closes delivers every byte that was written,
\* whatever the order of acknowledgements, resizes and waits.
Delivered ==
  [](~aClosed /\ ~bClosed /\ ~rOp) =>
    ((sent + left = use.bytes) ~> (read = use.bytes))

\* A writer that waits for room is released when its end is closed.
CloseWakesWriter == aClosed ~> wpc = "idle"

\* The windows of both ends account for every byte, and for no more than was granted.
WindowSound == WindowTypeOK /\ Conserved /\ QueueBounded

\* The two ends a Close may leave behind.  The reader saw a length before
\* release emptied the chain: Pop tries for ever (queue.go:273-279).  Two
\* goroutines passed the test of CloseWindow: the second finds the channel full.
Spins       == rpc = "take" /\ chain = <<>> /\ owed["reader"] = 0 /\ rOp
Blocked(pc) == pc = "set" /\ rTok = 2

\* A Close at B ends, and so does the Read it interrupts, but for those two.
CloseEnds ==
  /\ cpc = "mark" ~> cpc = "done" \/ Blocked(cpc)
  /\ bClosed ~> rpc = "idle" \/ Spins \/ Blocked(rpc)

\* The loop of the session is never held up, bytes arrive, a close wakes the
\* writer, and ends both the reader and the closer but for the two named cases.
StreamSettles == LoopNotHeldUp /\ Delivered /\ CloseWakesWriter /\ CloseEnds
=============================================================================

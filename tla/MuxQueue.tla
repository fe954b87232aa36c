------------------------------ MODULE MuxQueue ------------------------------
(***************************************************************************)
(* The queues of a session of the NPS multiplexer,                         *)
(* upstream/NPS/lib/nps_mux/queue.go: the packets that wait for the wire   *)
(* (priorityQueue, three chains) and the streams that wait to be accepted  *)
(* (connQueue, one chain).  A chain (bufChain) is a list of rings          *)
(* (bufDequeue) without a lock: goroutines reserve a slot and then write   *)
(* it, one goroutine takes, and when the session closes another one        *)
(* empties the queue beside it.                                            *)
(* A step is one atomic operation on a shared word, or a load and the      *)
(* compare-and-swap that succeeds only if nothing changed since.  Indexes  *)
(* of a ring are words, modulo Word.                                       *)
(* Only the pushers' hints to the scheduler (bufDequeue.starving, Gosched) *)
(* are left out.                                                           *)
(***************************************************************************)
EXTENDS Naturals, Sequences, FiniteSets

CONSTANTS
  Pusher,      \* goroutines that push
  Word,        \* 2^dequeueBits
  MaxStarving  \* maxStarving

ASSUME QueueAssumption ==
  /\ Word \in Nat \ {0} /\ Word % 4 = 0 /\ MaxStarving \in Nat \ {0}

Class == {"high", "mid", "low"}

\* A scene: which of the two queues it is, the classes each goroutine pushes, the
\* size of the first rings and whether the session may be closed.
NoQueue == [conns |-> FALSE, todo |-> [p \in Pusher |-> <<>>], size |-> 1, close |-> FALSE]

VARIABLES
  queScene,  \* the scene, which never changes
  rings,     \* rings[c][d]: the d-th ring made for chain c
  ends,      \* ends[c]: bufChain.head, tail and newChain
  push,      \* push[p]: pushes begun, where the present one is, its ring and index
  take,      \* take[t]: where a taker is, its attempt, its chain, what it loaded
  starving,  \* priorityQueue.starving
  que,       \* [closed, stop]: Mux.IsClose and the flag of the queue
  got,       \* history: what was taken, in order
  late,      \* history: chains that were pushed to from a ring no longer their head
  missed,    \* history: the taker was last told during the attempt before it waits
  passed     \* history: packets of the middle chain that went before a waiting one

queVars == <<queScene, rings, ends, push, take, starving, que, got, late, missed, passed>>

\* writeSession (or the accepting loop of readSession) and Mux.release.
Taker == {"loop", "release"}

None0 == <<>>
newRing(n) == [vals |-> [i \in 0..n-1 |-> None0], head |-> 0, tail |-> 0, next |-> 0]
size(r) == Cardinality(DOMAIN r.vals)
slotOf(r, i) == i % size(r)

\* priorityQueue.New, connQueue.New and bufChain.new.
newChains(n) ==
  /\ rings = [c \in Class |-> <<newRing(n)>>]
  /\ ends = [c \in Class |-> [head |-> 1, tail |-> 1, new |-> FALSE]]
NotTaking == [pc |-> "off", try |-> 1, at |-> "high", d |-> 0, next |-> 0, head |-> 0,
              tail |-> 0, val |-> None0, low |-> FALSE]

QueInit(s) ==
  /\ queScene = s /\ newChains(s.size)
  /\ push = [p \in Pusher |-> [n |-> 0, pc |-> "idle", d |-> 0, i |-> 0]]
  /\ take = [t \in Taker |-> IF t = "loop" /\ s # NoQueue THEN [NotTaking EXCEPT !.pc = "idle"]
                            ELSE NotTaking]
  /\ starving = 0 /\ que = [closed |-> FALSE, stop |-> FALSE]
  /\ got = <<>> /\ late = {} /\ missed = FALSE /\ passed = 0

-----------------------------------------------------------------------------
(* Push.                                                                   *)

\* priorityQueue.push: the chain of a packet is that of its flag.
chainOf(p) == IF queScene.conns THEN "low" ELSE queScene.todo[p][push[p].n]
packet(p) == <<p, push[p].n>>
PushGoto(p, pc) == push' = [push EXCEPT ![p].pc = pc]

\* sendInfo of an open session, or the read loop with a new stream.
sendInfo(p) ==
  /\ push[p].pc = "idle" /\ push[p].n < Len(queScene.todo[p]) /\ ~que.closed
  /\ push' = [push EXCEPT ![p].pc = "start", ![p].n = @ + 1]
  /\ UNCHANGED <<rings, ends, late>>

\* bufChain.pushHead waits while a ring is added, and loads the head.
LoadHead(p) ==
  LET c == chainOf(p) IN
  /\ push[p].pc = "start" /\ ~ends[c].new
  /\ push' = [push EXCEPT ![p].pc = "reserve", ![p].d = ends[c].head]
  /\ UNCHANGED <<rings, ends, late>>

isFull(r) == (r.tail + size(r)) % Word = r.head

\* Mutant: a full ring is not noticed.
ReserveAlways(p) ==
  LET c == chainOf(p)  d == push[p].d  r == rings[c][d] IN
  /\ push[p].pc = "reserve"
  /\ push' = [push EXCEPT ![p].pc = "write", ![p].i = r.head]
  /\ rings' = [rings EXCEPT ![c][d].head = (r.head + 1) % Word]
  /\ late' = IF d # ends[c].head THEN late \cup {c} ELSE late
  /\ UNCHANGED ends

\* bufDequeue.pushHead: the next slot is reserved, unless the ring is full.
Reserve(p) ==
  LET c == chainOf(p)  d == push[p].d  r == rings[c][d] IN
  /\ push[p].pc = "reserve"
  /\ \/ isFull(r) /\ PushGoto(p, "full") /\ UNCHANGED <<rings, late>>
     \/ /\ ~isFull(r)
        /\ push' = [push EXCEPT ![p].pc = "write", ![p].i = r.head]
        /\ rings' = [rings EXCEPT ![c][d].head = (r.head + 1) % Word]
        /\ late' = IF d # ends[c].head THEN late \cup {c} ELSE late
  /\ UNCHANGED ends

\* The slot is written.
WriteSlot(p) ==
  LET c == chainOf(p)  d == push[p].d  r == rings[c][d] IN
  /\ push[p].pc = "write" /\ PushGoto(p, "tell")
  /\ rings' = [rings EXCEPT ![c][d].vals[slotOf(r, push[p].i)] = packet(p)]
  /\ UNCHANGED <<ends, late>>

\* Of those who found the ring full one adds another, the rest start again.
GrowOrRetry(p) ==
  LET c == chainOf(p) IN
  /\ push[p].pc = "full"
  /\ PushGoto(p, IF ends[c].new THEN "start" ELSE "grow")
  /\ ends' = [ends EXCEPT ![c].new = TRUE]
  /\ UNCHANGED <<rings, late>>

\* newSize: twice the size, up to dequeueLimit.
grown(n) == IF 2 * n >= Word \div 4 THEN Word \div 4 ELSE 2 * n

\* The new ring, with the packet in it, is the head.
Grow(p) ==
  LET c == chainOf(p)  d == push[p].d IN
  /\ push[p].pc = "grow" /\ PushGoto(p, "link")
  /\ rings' = [rings EXCEPT ![c] =
       Append(@, [newRing(grown(size(@[d]))) EXCEPT !.vals[0] = packet(p), !.head = 1])]
  /\ ends' = [ends EXCEPT ![c].head = Len(rings[c]) + 1]
  /\ late' = IF d # ends[c].head THEN late \cup {c} ELSE late

\* It follows the ring that was found full; others may push again.
Link(p) ==
  LET c == chainOf(p) IN
  /\ push[p].pc = "link" /\ PushGoto(p, "unlock")
  /\ rings' = [rings EXCEPT ![c][push[p].d].next = ends[c].head]
  /\ UNCHANGED <<ends, late>>
Unlock(p) ==
  /\ push[p].pc = "unlock" /\ PushGoto(p, "tell")
  /\ ends' = [ends EXCEPT ![chainOf(p)].new = FALSE]
  /\ UNCHANGED <<rings, late>>

\* cond.Broadcast wakes the taker if it waits by then.
waits == take["loop"].pc = "asleep"
Broadcast ==
  /\ take' = IF waits THEN [take EXCEPT !["loop"].pc = "try"] ELSE take
  /\ missed' = (~waits /\ take["loop"].try = 3)

PushStep(p) ==
  /\ \/ sendInfo(p) \/ LoadHead(p) \/ Reserve(p) \/ WriteSlot(p) \/ GrowOrRetry(p)
     \/ Grow(p) \/ Link(p) \/ Unlock(p)
  /\ UNCHANGED <<queScene, take, starving, que, got, missed, passed>>
PushTells(p) ==
  /\ push[p].pc = "tell" /\ PushGoto(p, "idle") /\ Broadcast
  /\ UNCHANGED <<queScene, rings, ends, starving, que, got, late, passed>>

-----------------------------------------------------------------------------
(* TryPop.                                                                 *)

chainAt(at) == IF at = "again" THEN "mid" ELSE at
firstChain == IF queScene.conns THEN "low" ELSE "high"
\* priorityQueue.TryPop: the chain to try when this one has nothing.
chainAfter(at) ==
  CASE queScene.conns -> "none"
    [] at = "high" -> IF starving < MaxStarving THEN "mid" ELSE "low"
    [] at = "mid" -> "low"
    [] at = "low" -> IF starving > 0 THEN "again" ELSE "none"
    [] at = "again" -> "none"
\* uint8
starvingAfter(at) ==
  CASE queScene.conns \/ at = "high" -> starving
    [] at = "low" -> starving \div 2
    [] OTHER -> (starving + 1) % 256

Holds(c) == \E d \in ends[c].tail..Len(rings[c]) : rings[c][d].head # rings[c][d].tail

\* bufChain.popTail: the ring at the tail, of the first chain or of a later one,
TryPop(t) ==
  /\ take[t].pc = "try"
  /\ take' = [take EXCEPT ![t].pc = "next", ![t].at = firstChain, ![t].low = Holds("low"),
                          ![t].d = ends[firstChain].tail]
  /\ UNCHANGED <<rings, ends, starving, got, passed>>
LoadTail(t) ==
  /\ take[t].pc = "tail"
  /\ take' = [take EXCEPT ![t].pc = "next", ![t].d = ends[chainAt(take[t].at)].tail]
  /\ UNCHANGED <<rings, ends, starving, got, passed>>

\* and what follows it;
LoadNext(t) ==
  /\ take[t].pc = "next"
  /\ take' = [take EXCEPT ![t].pc = "load",
                          ![t].next = rings[chainAt(take[t].at)][take[t].d].next]
  /\ UNCHANGED <<rings, ends, starving, got, passed>>

\* bufDequeue.popTail: the indexes.  An empty ring that nothing follows ends the
\* search in this chain; one that has a successor is dropped.
LoadEnds(t) ==
  LET k == take[t]  c == chainAt(k.at)  r == rings[c][k.d] IN
  /\ k.pc = "load"
  /\ CASE r.head # r.tail ->
            /\ take' = [take EXCEPT ![t].pc = "slot", ![t].head = r.head, ![t].tail = r.tail]
            /\ UNCHANGED ends
       [] r.head = r.tail /\ k.next # 0 ->
            /\ take' = [take EXCEPT ![t].pc = "next", ![t].d = k.next]
            /\ ends' = IF ends[c].tail = k.d THEN [ends EXCEPT ![c].tail = k.next] ELSE ends
       [] OTHER ->
            /\ take' = [take EXCEPT ![t].pc = IF chainAfter(k.at) = "none" THEN "nil" ELSE "tail",
                                    ![t].at = chainAfter(k.at)]
            /\ UNCHANGED ends
  /\ UNCHANGED <<rings, starving, got, passed>>

\* The slot; one that is not written yet, or was emptied by another taker, is loaded
\* again with the indexes.
LoadSlot(t) ==
  LET k == take[t]  r == rings[chainAt(k.at)][k.d]  v == r.vals[slotOf(r, k.tail)] IN
  /\ k.pc = "slot"
  /\ take' = [take EXCEPT ![t].pc = IF v = None0 THEN "load" ELSE "swap", ![t].val = v]
  /\ UNCHANGED <<rings, ends, starving, got, passed>>

\* It is emptied by one of them,
TakeSlot(t) ==
  LET k == take[t]  c == chainAt(k.at)  r == rings[c][k.d]  i == slotOf(r, k.tail) IN
  /\ k.pc = "swap"
  /\ \/ /\ r.vals[i] # k.val /\ take' = [take EXCEPT ![t].pc = "load"]
        /\ UNCHANGED <<rings, got, passed>>
     \/ /\ r.vals[i] = k.val
        /\ take' = [take EXCEPT ![t].pc = "bump"]
        /\ rings' = [rings EXCEPT ![c][k.d].vals[i] = None0]
        /\ got' = Append(got, k.val)
        /\ passed' = IF k.at \in {"mid", "again"} /\ k.low THEN passed + 1
                     ELSE IF k.at = "high" THEN passed ELSE 0
  /\ UNCHANGED <<ends, starving>>

\* who then gives it back to the pushers.
Bump(t) ==
  LET k == take[t]  c == chainAt(k.at) IN
  /\ k.pc = "bump"
  /\ rings' = [rings EXCEPT ![c][k.d].tail = (@ + 1) % Word]
  /\ starving' = starvingAfter(k.at)
  /\ take' = [take EXCEPT ![t].pc = "got"]
  /\ UNCHANGED <<ends, got, passed>>

TakeStep(t) ==
  /\ \/ TryPop(t) \/ LoadTail(t) \/ LoadNext(t) \/ LoadEnds(t) \/ LoadSlot(t)
     \/ TakeSlot(t) \/ Bump(t)
  /\ UNCHANGED <<queScene, push, que, late, missed>>

-----------------------------------------------------------------------------
(* Pop, in the loop of the writer or of the accepting goroutine.           *)

LoopGoto(pc, try) == take' = [take EXCEPT !["loop"].pc = pc, !["loop"].try = try]

\* The loop ends with the session, before and after Pop.
LoopPops ==
  /\ take["loop"].pc \in {"idle", "got"}
  /\ LoopGoto(IF que.closed THEN "end" ELSE "try", 1)

\* Pop tries twice and then once more with the lock; each time in vain it looks
\* whether the queue was stopped, and at last it waits.
PopFails ==
  LET k == take["loop"] IN
  /\ k.pc = "nil"
  /\ CASE que.stop -> LoopGoto("got", 1)
       [] ~que.stop /\ k.try < 3 -> LoopGoto("try", k.try + 1)
       [] OTHER -> LoopGoto("doze", 3)

\* cond.Wait: from here on Broadcast finds it.
Wait == take["loop"].pc = "doze" /\ LoopGoto("asleep", 3)

LoopStep ==
  /\ LoopPops \/ PopFails \/ Wait
  /\ UNCHANGED <<queScene, rings, ends, push, starving, que, got, late, missed, passed>>

-----------------------------------------------------------------------------
(* Close.                                                                  *)

ReleaseGoto(pc) == take' = [take EXCEPT !["release"].pc = pc]

\* Mux.Close.
CloseSession ==
  /\ queScene.close /\ ~que.closed /\ que' = [que EXCEPT !.closed = TRUE] /\ ReleaseGoto("try")
  /\ UNCHANGED <<queScene, rings, ends, push, starving, got, late, missed, passed>>

\* release empties the queue, stops it,
ReleaseStep ==
  /\ \/ take["release"].pc = "got" /\ ReleaseGoto("try") /\ UNCHANGED que
     \/ /\ take["release"].pc = "nil" /\ ReleaseGoto("tell") /\ que' = [que EXCEPT !.stop = TRUE]
  /\ UNCHANGED <<queScene, rings, ends, push, starving, got, late, missed, passed>>

\* and tells the taker.
StopTells ==
  /\ take["release"].pc = "tell"
  /\ take' = [take EXCEPT !["release"].pc = "end",
                          !["loop"].pc = IF waits THEN "try" ELSE @]
  /\ missed' = (~waits /\ take["loop"].try = 3)
  /\ UNCHANGED <<queScene, rings, ends, push, starving, que, got, late, passed>>

-----------------------------------------------------------------------------

QueNext ==
  \/ \E p \in Pusher : PushStep(p) \/ PushTells(p)
  \/ \E t \in Taker : TakeStep(t)
  \/ LoopStep \/ CloseSession \/ ReleaseStep \/ StopTells

\* Goroutines that can go on do; nobody has to close a session.
QueFair ==
  /\ \A p \in Pusher : WF_queVars(PushStep(p) \/ PushTells(p))
  /\ WF_queVars(TakeStep("loop") \/ LoopStep)
  /\ WF_queVars(TakeStep("release") \/ ReleaseStep \/ StopTells)

-----------------------------------------------------------------------------
(* Properties.                                                             *)

Pkt == Pusher \X (Nat \ {0})
QueTypeOK ==
  /\ \A c \in Class : /\ ends[c].head \in 1..Len(rings[c]) /\ ends[c].tail \in 1..Len(rings[c])
                      /\ \A d \in DOMAIN rings[c] :
                           LET r == rings[c][d] IN
                           /\ r.head \in 0..Word-1 /\ r.tail \in 0..Word-1
                           /\ size(r) <= Word \div 4 /\ r.next \in 0..Len(rings[c])
  /\ late \subseteq Class /\ starving \in 0..255

\* A packet is taken at most once.
TakenOnce == \A i, j \in DOMAIN got : got[i] = got[j] => i = j

\* Who has reserved a slot finds it free, and is alone there, as the comments of
\* bufDequeue say (slots outside tail..head belong to the producers).
SlotOwned ==
  \A p \in Pusher : push[p].pc = "write" =>
    LET c == chainOf(p)  d == push[p].d  r == rings[c][d]  i == slotOf(r, push[p].i) IN
    /\ r.vals[i] = None0
    /\ \A q \in Pusher \ {p} :
         push[q].pc = "write" /\ chainOf(q) = c /\ push[q].d = d => slotOf(r, push[q].i) # i

\* Packets of one chain and one goroutine are taken in the order of their pushes.
ClassOf(k) == IF queScene.conns THEN "low" ELSE queScene.todo[k[1]][k[2]]
InOrder ==
  \A i, j \in DOMAIN got :
    i < j /\ got[i][1] = got[j][1] /\ ClassOf(got[i]) = ClassOf(got[j])
      /\ ClassOf(got[i]) \notin late
      => got[i][2] < got[j][2]

\* What was pushed and not taken is in a ring the taker will come to.
Pushed(k) == \/ k[2] < push[k[1]].n
             \/ k[2] = push[k[1]].n /\ push[k[1]].pc \in {"link", "unlock", "tell", "idle"}
Found(k) ==
  LET c == ClassOf(k) IN
  \E d \in ends[c].tail..Len(rings[c]) : \E i \in DOMAIN rings[c][d].vals :
    rings[c][d].vals[i] = k
Lined(c) ==
  \A d \in ends[c].tail..Len(rings[c]) - 1 :
    \/ rings[c][d].next = d + 1
    \/ \E p \in Pusher : push[p].pc = "link" /\ chainOf(p) = c /\ push[p].d = d
NothingLost ==
  /\ \A p \in Pusher : \A n \in 1..push[p].n :
       Pushed(<<p, n>>) /\ ClassOf(<<p, n>>) \notin late
         => Found(<<p, n>>) \/ \E i \in DOMAIN got : got[i] = <<p, n>>
  /\ \A c \in Class \ late : Lined(c)

\* A packet of the lowest chain waits for no more than MaxStarving of the middle one.
NotStarved == passed <= MaxStarving

QueueSound == QueTypeOK /\ TakenOnce /\ SlotOwned /\ InOrder /\ NothingLost /\ NotStarved

\* In the end all is taken, unless a push went to a ring that was no longer the head
\* (late), or the taker was told while it was about to wait (missed); and after Close
\* the loop has ended, with the same exceptions.
AllTaken == \A p \in Pusher : \A n \in 1..push[p].n : \E i \in DOMAIN got : got[i] = <<p, n>>
QueueSettles ==
  <>[](/\ \A p \in Pusher : push[p].pc = "idle"
       /\ late # {} \/ missed \/ (IF que.closed THEN take["loop"].pc = "end" ELSE AllTaken))
=============================================================================

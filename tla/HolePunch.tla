----------------------------- MODULE HolePunch ------------------------------
(***************************************************************************)
(* How frps decides the way in which a client and a visitor behind NATs    *)
(* try to reach each other: upstream/frp/pkg/nathole/classify.go,          *)
(* analysis.go and the analysis of controller.go.  The functions are pure  *)
(* but for the scores of a pair of NATs, which every decision changes; the *)
(* exchange of messages around them is module NatHole's subject.           *)
(***************************************************************************)
EXTENDS Integers, Sequences, SequencesExt, FiniteSets

\* An address is [ip, port].  What is known of a NAT: NatFeature.
Feature(nat, diff, public) ==
  [hard |-> nat # "NoChange", behavior |-> nat, diff |-> diff,
   regular |-> nat = "PortChanged" /\ diff \in 1..5, public |-> public]

ips(addrs) == {addrs[i].ip : i \in DOMAIN addrs}
ports(addrs) == {addrs[i].port : i \in DOMAIN addrs}

\* Of at least two addresses (ClassifyNATFeature fails with fewer).
ClassifyNATFeature(addrs, localIPs) ==
  LET ip == Cardinality(ips(addrs)) > 1
      port == Cardinality(ports(addrs)) > 1 IN
  Feature(IF ip /\ port THEN "BothChanged" ELSE IF ip THEN "IPChanged"
          ELSE IF port THEN "PortChanged" ELSE "NoChange",
          IF port /\ ~ip THEN Max(ports(addrs)) - Min(ports(addrs)) ELSE 0,
          ips(addrs) \cap localIPs # {})

-----------------------------------------------------------------------------
(* The tables: what each side does, sender or receiver.                    *)

Sender(delay, range, random) ==
  [role |-> "sender", ttl |-> 0, delay |-> delay, range |-> range, random |-> random, listen |-> 0]
Receiver(ttl, range, listen) ==
  [role |-> "receiver", ttl |-> ttl, delay |-> 0, range |-> range, random |-> 0, listen |-> listen]

mode0Behaviors ==
  << <<Sender(0, 0, 0), Receiver(7, 0, 0)>>, <<Receiver(7, 0, 0), Sender(0, 0, 0)>>,
     <<Sender(0, 0, 0), Receiver(4, 0, 0)>>, <<Receiver(4, 0, 0), Sender(0, 0, 0)>>,
     <<Sender(0, 0, 0), Receiver(0, 0, 0)>>, <<Receiver(0, 0, 0), Sender(0, 0, 0)>>,
     <<Sender(5000, 0, 0), Receiver(0, 0, 0)>>, <<Sender(10000, 0, 0), Receiver(0, 0, 0)>>,
     <<Receiver(0, 0, 0), Sender(5000, 0, 0)>>, <<Receiver(0, 0, 0), Sender(10000, 0, 0)>> >>

mode1Behaviors ==
  [i \in 1..6 |-> <<Sender(IF i % 2 = 0 THEN 2000 ELSE 0, 0, 0),
                    Receiver(<<7, 7, 4, 4, 0, 0>>[i], 10, 0)>>]
mode2Behaviors == [i \in 1..3 |-> <<Sender(3000, 0, 1000), Receiver(<<7, 4, 0>>[i], 0, 256)>>]
mode3Behaviors ==
  LET ttl == <<7, 4, 0>> IN
  [i \in 1..6 |-> IF i <= 3 THEN <<Sender(0, 10, 0), Receiver(ttl[i], 10, 0)>>
                  ELSE <<Receiver(ttl[i - 3], 10, 0), Sender(0, 10, 0)>>]
mode4Behaviors == [i \in 1..3 |-> <<Sender(3000, 0, 1000), Receiver(<<7, 4, 0>>[i], 2, 256)>>]

getBehaviorByMode(mode) ==
  <<mode0Behaviors, mode1Behaviors, mode2Behaviors, mode3Behaviors, mode4Behaviors>>[mode + 1]

\* The scores that the ways of a mode start with.
scoresIn(table, mode, sender, receiver) ==
  [i \in DOMAIN table |->
     [mode |-> mode, index |-> i,
      score |-> IF table[i][1].role = "sender" THEN sender ELSE receiver]]
getBehaviorScores(mode, sender, receiver) ==
  scoresIn(getBehaviorByMode(mode), mode, sender, receiver)

scoresOf(mode, score) == getBehaviorScores(mode, score, score)

\* appendMode0: who is in a public network had better be the receiver.
publicScores(c, v) ==
  IF c.public THEN getBehaviorScores(0, 0, 1)
  ELSE IF v.public THEN getBehaviorScores(0, 1, 0) ELSE scoresOf(0, 0)

newMakeHoleRecords(c, v) ==
  LET hard == Cardinality({x \in {"c", "v"} : (IF x = "c" THEN c ELSE v).hard})
      regular == Cardinality({x \in {"c", "v"} : (IF x = "c" THEN c ELSE v).regular}) IN
  CASE hard = 0 -> publicScores(c, v)
    [] hard = 1 /\ regular = 1 -> scoresOf(1, 0) \o scoresOf(2, 0) \o publicScores(c, v)
    [] hard = 1 /\ regular = 0 -> scoresOf(2, 0) \o scoresOf(1, 0) \o publicScores(c, v)
    [] hard = 2 /\ regular = 2 -> scoresOf(3, 0) \o scoresOf(4, 0)
    [] hard = 2 /\ regular = 1 -> scoresOf(4, 0)
    [] OTHER -> scoresOf(0, 1) \o scoresOf(1, 1) \o scoresOf(3, 1)

\* The first of the best.
best(scores) ==
  CHOOSE i \in DOMAIN scores :
    /\ \A j \in DOMAIN scores : scores[j].score <= scores[i].score
    /\ \A j \in 1..(i - 1) : scores[j].score < scores[i].score

\* recommand: what the scores are after the best way was recommended.
recommand(scores) == [scores EXCEPT ![best(scores)].score = @ - 1]

reportSuccess(scores, way) ==
  [i \in DOMAIN scores |-> IF scores[i].mode = way.mode /\ scores[i].index = way.index
                           THEN [scores[i] EXCEPT !.score = IF @ + 2 > 10 THEN 10 ELSE @ + 2]
                           ELSE scores[i]]

\* Mutant: the regular one receives.
sidesUnswapped(way, c, v) == getBehaviorByMode(way.mode)[way.index]

\* GetRecommandBehaviors: the behaviours of the client and of the visitor; the table
\* is turned over where the kind of NAT decides who sends.
sides(way, c, v) ==
  LET b == getBehaviorByMode(way.mode)[way.index]
      swap == \/ way.mode = 1 /\ ~c.hard
              \/ way.mode = 2 /\ c.hard
              \/ way.mode = 4 /\ ~c.regular
  IN IF swap THEN <<b[2], b[1]>> ELSE b

-----------------------------------------------------------------------------
(* The answers.                                                            *)

\* Compacted in place, addresses of which two neighbours are equal leave "" at their
\* end, and no port can be read from that.
Shrinks(addrs) == \E i \in 2..Len(addrs) : addrs[i] = addrs[i - 1]

getRangePorts(addrs, diff, max) ==
  LET p == Last(addrs).port IN
  IF max <= 0 \/ addrs = <<>> \/ Shrinks(addrs) THEN <<>>
  ELSE << [from |-> Max({p - diff - 5, p - max, 1}), to |-> Min({p + diff + 5, p + max, 65535})] >>

timeoutMs(b) ==
  Max({b[1].delay, b[2].delay}) + 5000
  + (IF b[1].listen > 0 \/ b[2].listen > 0 THEN 30000 ELSE 0)

newNatHoleResponse(addrs, b, wait, diff) ==
  [role |-> b.role, delay |-> b.delay, wait |-> wait,
   candidates |-> getRangePorts(addrs, diff, b.range)]

\* What the two are told to do; b is what each side does, for so long.
answers(cm, vm, c, v, b, timeout) ==
  [c |-> newNatHoleResponse(vm.mapped, b[1], timeout - b[1].delay, v.diff),
   v |-> newNatHoleResponse(cm.mapped, b[2], timeout - b[2].delay, c.diff)]

\* GetRecommandBehaviors with the scores of the pair, and the answers.
decision(cm, vm, c, v, s) ==
  LET way == s[best(s)]
      told(b) == answers(cm, vm, c, v, b, timeoutMs(b))
  IN [way |-> way, scores |-> recommand(s), c |-> c, v |-> v, told |-> told(sides(way, c, v))]

\* analysis: of the addresses of the client and of the visitor, with the scores
\* there are or none.
analysis(cm, vm, scores) ==
  LET decide(c, v) ==
        decision(cm, vm, c, v, IF scores = <<>> THEN newMakeHoleRecords(c, v) ELSE scores)
  IN decide(ClassifyNATFeature(cm.mapped, cm.assisted),
            ClassifyNATFeature(vm.mapped, vm.assisted))
=============================================================================

------------------------------ MODULE Analyzer ------------------------------
(***************************************************************************)
(* The memory frps keeps of the ways in which a client and a visitor tried *)
(* to reach each other: Analyzer of upstream/frp/pkg/nathole/analysis.go   *)
(* as Controller.analysis and HandleReport use it.  Asks for the same pair *)
(* of addresses follow one another and reports of success come when they   *)
(* like; meanwhile a side may come from other ports, or turn out to be in  *)
(* a public network, and the record may be cleaned away.  What belongs to  *)
(* another key has a record of its own, which is another scene.            *)
(***************************************************************************)
EXTENDS HolePunch

\* A scene: the pair of messages [mapped, assisted] asked for first and those that
\* may follow, and how many asks, reports of success and cleanings there may be.
NoPair == [now |-> <<>>, later |-> {}, asks |-> 0, reports |-> 0, cleans |-> 0]

\* What a side sends: at least two addresses at which it was seen, and its own.
PortNumber == 1..65535
Address == [ip : STRING, port : PortNumber]
SideSet == [mapped : {a \in Seq(Address) : Len(a) > 1}, assisted : SUBSET STRING]
Pairs == SideSet \X SideSet
PairSceneOK(s) ==
  /\ s \in [now : Pairs \cup {<<>>}, later : SUBSET Pairs, asks : Nat, reports : Nat, cleans : Nat]
  /\ s.asks > 0 => s.now # <<>>

VARIABLES
  anScene,   \* the scene, counted down
  anScores,  \* the record's scores; <<>> without a record
  anAnswer,  \* the last answer of analysis, or <<>>
  anTries,   \* how often each way was recommended since the record is there
  anOpen     \* ways of sessions whose success may still be reported

anVars == <<anScene, anScores, anAnswer, anTries, anOpen>>

AnInit(s) == /\ anScene = s /\ anScores = <<>> /\ anAnswer = <<>>
             /\ anTries = <<>> /\ anOpen = {}

\* Controller.analysis of a session, which tries the way it gets.
Analysis ==
  /\ anScene.asks > 0 /\ anScene' = [anScene EXCEPT !.asks = @ - 1]
  /\ \E r \in {analysis(anScene.now[1], anScene.now[2], anScores)} :
       /\ anScores' = r.scores
       /\ anAnswer' = [way |-> r.way, c |-> r.c, v |-> r.v,
                       cResp |-> r.told.c, vResp |-> r.told.v,
                       pair |-> anScene.now, first |-> anScores = <<>>]
       /\ anTries' = [j \in DOMAIN r.scores |->
                        (IF anScores = <<>> THEN 0 ELSE anTries[j])
                        + (IF r.scores[j].mode = r.way.mode
                              /\ r.scores[j].index = r.way.index THEN 1 ELSE 0)]
       /\ anOpen' = IF anScene.reports = 0 THEN anOpen
                    ELSE anOpen \cup {[mode |-> r.way.mode, index |-> r.way.index]}

\* HandleReport: ReportSuccess, if the record is still there.
ReportSuccess ==
  /\ anScene.reports > 0 /\ anScene' = [anScene EXCEPT !.reports = @ - 1]
  /\ \E way \in anOpen : anScores' = reportSuccess(anScores, way)
  /\ UNCHANGED <<anAnswer, anTries, anOpen>>

\* Analyzer.Clean, after it was not used for a while.
Clean ==
  /\ anScores # <<>> /\ anScene.cleans > 0 /\ anScene' = [anScene EXCEPT !.cleans = @ - 1]
  /\ anScores' = <<>> /\ anTries' = <<>>
  /\ UNCHANGED <<anAnswer, anOpen>>

\* Session.genAnalysisKey: what the record of a pair is found by.
genAnalysisKey(pair) ==
  LET part(m) == LET f == ClassifyNATFeature(m.mapped, m.assisted) IN
                 <<m.mapped[1].ip, f.hard, f.behavior, f.regular>>
  IN <<part(pair[1]), part(pair[2])>>

\* The next session that finds this record comes from other ports or networks.
NatChanges ==
  /\ \E p \in anScene.later :
       /\ genAnalysisKey(p) = genAnalysisKey(anScene.now)
       /\ anScene' = [anScene EXCEPT !.now = p, !.later = @ \ {p}]
  /\ UNCHANGED <<anScores, anAnswer, anTries, anOpen>>

AnNext == Analysis \/ ReportSuccess \/ Clean \/ NatChanges

-----------------------------------------------------------------------------
(* Properties.                                                             *)

\* Type invariant of the record: a score has an upper limit, and there is one for
\* every way of some modes.
AnalyzerTypeOK ==
  /\ \A i \in DOMAIN anScores : /\ anScores[i].mode \in 0..4 /\ anScores[i].score <= 10
                                /\ anScores[i].index \in DOMAIN getBehaviorByMode(anScores[i].mode)
  /\ DOMAIN anTries = DOMAIN anScores

Ends(side) == side.delay + side.wait

\* Whatever the record says, one side sends and the other receives; both give up at
\* the same time, and not before the packets of the one that was told to wait had
\* time to arrive (controller.go, analysis).
SidesMeet ==
  anAnswer # <<>> =>
    LET c == anAnswer.cResp  v == anAnswer.vResp IN
    /\ {c.role, v.role} = {"sender", "receiver"}
    /\ Ends(c) = Ends(v) /\ Ends(c) >= Max({c.delay, v.delay}) + 5000

\* The ports at which a side is told to look for the other one exist, and the one
\* the other side was last seen at is among them (controller.go, getRangePorts).
Reaches(ranges, addrs) ==
  \A i \in DOMAIN ranges : /\ 1 <= ranges[i].from /\ ranges[i].to <= 65535
                           /\ Last(addrs).port \in ranges[i].from..ranges[i].to
PortsInReach ==
  anAnswer # <<>> => /\ Reaches(anAnswer.vResp.candidates, anAnswer.pair[1].mapped)
                     /\ Reaches(anAnswer.cResp.candidates, anAnswer.pair[2].mapped)

\* "HardNAT is always the sender" in mode 1, "always the receiver" in mode 2
\* (analysis.go), whichever of the sides that share a record is asked for.
HardSide ==
  anAnswer # <<>> /\ anAnswer.c.hard # anAnswer.v.hard =>
    LET hard == IF anAnswer.c.hard THEN anAnswer.cResp ELSE anAnswer.vResp IN
    /\ anAnswer.way.mode = 1 => hard.role = "sender"
    /\ anAnswer.way.mode = 2 => hard.role = "receiver"

\* As long as nobody succeeds no way is tried three times more often than another
\* one: every way gets its turn.
WaysAllTried ==
  anOpen = {} => \A i, j \in DOMAIN anTries : anTries[i] <= anTries[j] + 2

\* Who is in a public network receives when an easy pair is asked for the first time
\* ("PublicNetwork is always receiver", analysis.go).
PublicReceivesFirst ==
  anAnswer # <<>> /\ anAnswer.first /\ ~anAnswer.c.hard /\ ~anAnswer.v.hard =>
    /\ anAnswer.c.public => anAnswer.cResp.role = "receiver"
    /\ anAnswer.v.public /\ ~anAnswer.c.public => anAnswer.vResp.role = "receiver"

\* What two sides are told fits together, whatever is remembered of sides like them.
WaysSound ==
  /\ AnalyzerTypeOK /\ SidesMeet /\ PortsInReach /\ HardSide
  /\ WaysAllTried /\ PublicReceivesFirst
=============================================================================

------------------------------ MODULE Traffic ------------------------------
(***************************************************************************)
(* Billing of one user's traffic: cmd/tunnel-control/main.go reportTraffic *)
(* and the handlers of the administrator that write the same record.       *)
(*                                                                         *)
(* Every node keeps a cumulative counter of the bytes it has carried for   *)
(* the user and posts it every 5 seconds.  The control remembers the last  *)
(* value of each node, bills the difference, and disables the user at its  *)
(* limit.  It does so under trafficMu, but through two calls of the store, *)
(* GetUser and UpsertUser, between which other handlers run.               *)
(*                                                                         *)
(* The two directions of a counter are treated alike and are taken as one. *)
(* Expiry dates are those of module Store, and left out.                   *)
(***************************************************************************)
EXTENDS Naturals, Sequences, SequencesExt, FiniteSetsExt

CONSTANTS
  Node,      \* the nodes that carry the user's traffic
  Limit,     \* flow limits somebody may set; 0 is no limit
  MaxWire,   \* reports of one node that may be unanswered at a time
  MaxBytes,  \* bound on the bytes carried
  MaxEdits,  \* bound on the administrator's requests
  MaxFaults, \* bound on lost reports and on restarts
  None

VARIABLES
  rec,       \* the user's record in the store, or None
  counter,   \* Client.Flow of the NPS of each node
  wire,      \* per node, the reports posted and not yet handled: the value, and
             \* (history) what the node had carried by then
  seen,      \* userTraffic: the last counter value of each node, or None
  job,       \* the report in progress, between GetUser and UpsertUser
  edit,      \* the upsertUser in progress, between GetUser and UpsertUser
  resetting, \* a reset-flow has reset the record, not yet userTraffic
  carried,   \* history: the bytes carried so far
  past,      \* history: per node, see below
  again,     \* history: the bytes reports handled late may bill once more
  edits, faults

vars == <<rec, counter, wire, seen, job, edit, resetting, carried, past, again, edits, faults>>

\* past[n]: what the node carried, what it had carried when it sent the report
\* handled last, and how many of its reports on the way are older than that one.

ASSUME TrafficAssumption ==
  /\ Limit \subseteq Nat /\ None \notin Nat
  /\ MaxWire \in Nat \ {0} /\ MaxBytes \in Nat
  /\ MaxEdits \in Nat /\ MaxFaults \in Nat

Record == [enabled: BOOLEAN, limit: Limit, used: Nat]

Nothing == [n \in Node |-> None]

Init ==
  /\ rec = None /\ counter = [n \in Node |-> 0] /\ wire = [n \in Node |-> <<>>]
  /\ seen = Nothing /\ job = None /\ edit = None /\ resetting = FALSE
  /\ carried = 0 /\ past = [n \in Node |-> [total |-> 0, told |-> 0, older |-> 0]]
  /\ again = 0 /\ edits = 0 /\ faults = 0

----------------------------------------------------------------------------
(* Nodes *)

Carry(n) ==
  /\ carried < MaxBytes
  /\ carried' = carried + 1 /\ counter' = [counter EXCEPT ![n] = @ + 1]
  /\ past' = [past EXCEPT ![n].total = @ + 1]
  /\ UNCHANGED <<rec, wire, seen, job, edit, resetting, again, edits, faults>>

\* reportTrafficOnce.  The agent posts its next report when the last one was
\* answered or after 4 seconds, when that one may still be on its way.
Send(n) ==
  /\ Len(wire[n]) < MaxWire
  /\ wire' = [wire EXCEPT ![n] = Append(@, [value |-> counter[n], at |-> past[n].total])]
  /\ UNCHANGED <<rec, counter, seen, job, edit, resetting, carried, past, again, edits, faults>>

Lose(n) ==
  /\ faults < MaxFaults /\ faults' = faults + 1
  /\ \E i \in DOMAIN wire[n] :
       /\ wire' = [wire EXCEPT ![n] = RemoveAt(@, i)]
       /\ past' = [past EXCEPT ![n].older = IF i <= @ THEN @ - 1 ELSE @]
  /\ UNCHANGED <<rec, counter, seen, job, edit, resetting, carried, again, edits>>

\* NPS writes its counters to clients.json once a minute, and a client that is
\* deleted and created again starts at zero.
NodeRestart(n) ==
  /\ faults < MaxFaults /\ faults' = faults + 1
  /\ \E c \in 0..counter[n] : counter' = [counter EXCEPT ![n] = c]
  /\ UNCHANGED <<rec, wire, seen, job, edit, resetting, carried, past, again, edits>>

----------------------------------------------------------------------------
(* The control *)

\* What a report bills: the first value of a node is only a baseline, and a lower
\* one than the last is taken for a restarted counter.
Delta(v, last) == IF last # None /\ v > last THEN v - last ELSE 0

\* A report handled after one sent later takes the baseline back: what was carried
\* in between is billed once more, and what it shows itself should not be billed.
Repeated(p, i, r, last) ==
  IF i <= p.older THEN p.told - r.at + Delta(r.value, last) ELSE 0

\* reportTraffic up to GetUser.  The handlers of two reports race for trafficMu.
Report(n) ==
  /\ job = None
  /\ \E i \in DOMAIN wire[n] :
       LET r == wire[n][i]
           d == Delta(r.value, seen[n])
       IN  /\ wire' = [wire EXCEPT ![n] = RemoveAt(@, i)]
           /\ seen' = [seen EXCEPT ![n] = r.value]
           /\ job' = IF d > 0 /\ rec # None THEN [user |-> rec, delta |-> d] ELSE None
           /\ past' = [past EXCEPT ![n].told = r.at, ![n].older = i - 1]
           /\ again' = again + Repeated(past[n], i, r, seen[n])
  /\ UNCHANGED <<rec, counter, edit, resetting, carried, edits, faults>>

\* Mutant: the limit is exclusive.
BilledPastLimit(user, delta) ==
  LET newUsed == user.used + delta
  IN  [enabled |-> user.enabled /\ ~(user.limit > 0 /\ newUsed > user.limit),
       limit |-> user.limit, used |-> newUsed]

\* The record that replaces the one GetUser returned.
Billed(user, delta) ==
  LET newUsed == user.used + delta
  IN  [enabled |-> user.enabled /\ ~(user.limit > 0 /\ newUsed >= user.limit),
       limit |-> user.limit, used |-> newUsed]

\* The rest of reportTraffic.  UpsertUser creates a record that is not there.
Bill ==
  /\ job # None /\ job' = None
  /\ rec' = Billed(job.user, job.delta)
  /\ UNCHANGED <<counter, wire, seen, edit, resetting, carried, past, again, edits, faults>>

\* userTraffic and the handlers in progress are lost, the store is not.
ControlRestart ==
  /\ faults < MaxFaults /\ faults' = faults + 1
  /\ seen' = Nothing /\ job' = None /\ edit' = None /\ resetting' = FALSE
  /\ wire' = [n \in Node |-> <<>>]
  /\ past' = [n \in Node |-> [past[n] EXCEPT !.older = 0]]
  /\ UNCHANGED <<rec, counter, carried, again, edits>>

----------------------------------------------------------------------------
(* The administrator *)

\* upsertUser keeps the traffic that GetUser shows.
BeginEdit(enabled, limit) ==
  /\ edits < MaxEdits /\ edits' = edits + 1 /\ edit = None
  /\ edit' = [enabled |-> enabled, limit |-> limit,
              used |-> IF rec = None THEN 0 ELSE rec.used]
  /\ UNCHANGED <<rec, counter, wire, seen, job, resetting, carried, past, again, faults>>

EndEdit ==
  /\ edit # None /\ rec' = edit /\ edit' = None
  /\ UNCHANGED <<counter, wire, seen, job, resetting, carried, past, again, edits, faults>>

DeleteUser ==
  /\ edits < MaxEdits /\ edits' = edits + 1
  /\ rec # None /\ rec' = None
  /\ UNCHANGED <<counter, wire, seen, job, edit, resetting, carried, past, again, faults>>

\* userAction reset-flow: ResetUserFlow first, then, under trafficMu, userTraffic.
ResetFlow ==
  /\ edits < MaxEdits /\ edits' = edits + 1 /\ ~resetting
  /\ rec # None /\ rec' = [rec EXCEPT !.used = 0] /\ resetting' = TRUE
  /\ UNCHANGED <<counter, wire, seen, job, edit, carried, past, again, faults>>

ForgetSeen ==
  /\ resetting /\ job = None
  /\ seen' = Nothing /\ resetting' = FALSE
  /\ UNCHANGED <<rec, counter, wire, job, edit, carried, past, again, edits, faults>>

----------------------------------------------------------------------------

Next ==
  \/ \E n \in Node : Carry(n) \/ Send(n) \/ Lose(n) \/ NodeRestart(n) \/ Report(n)
  \/ Bill \/ ControlRestart
  \/ \E e \in BOOLEAN, l \in Limit : BeginEdit(e, l)
  \/ EndEdit \/ DeleteUser \/ ResetFlow \/ ForgetSeen

Spec == Init /\ [][Next]_vars

\* The agent's ticker never stops, and the handlers of the control run.
Fairness ==
  /\ \A n \in Node : WF_vars(Send(n)) /\ WF_vars(Report(n))
  /\ WF_vars(Bill) /\ WF_vars(EndEdit) /\ WF_vars(ForgetSeen)

FairSpec == Spec /\ Fairness

----------------------------------------------------------------------------
(* Properties *)

\* Every counter, report and record is well formed.
TrafficTypeOK ==
  /\ rec \in Record \cup {None} /\ edit \in Record \cup {None}
  /\ counter \in [Node -> 0..MaxBytes]
  /\ wire \in [Node -> Seq([value: 0..MaxBytes, at: 0..MaxBytes])]
  /\ \A n \in Node : Len(wire[n]) <= MaxWire
  /\ seen \in [Node -> 0..MaxBytes \cup {None}]
  /\ job \in [user: Record, delta: Nat] \cup {None}
  /\ resetting \in BOOLEAN /\ carried \in 0..MaxBytes
  /\ past \in [Node -> [total: 0..MaxBytes, told: 0..MaxBytes, older: Nat]]
  /\ again \in Nat

\* The user is never billed for more than the nodes carried, whatever reports
\* were lost and whoever restarted (main_test.go:352 "CounterResetDoesNotDouble-
\* Bill"), and although the record is written back from stale copies.  Only a
\* report handled after its successor bills anything twice, and no more than what
\* it takes the baseline back.
NeverOverbills == rec # None => rec.used <= carried + again

\* What is billed, being billed, or counted by a node and still to be reported.
Owed ==
  rec.used + (IF job = None THEN 0 ELSE job.delta)
    + MapThenSumSet(LAMBDA n : counter[n] - seen[n],
                    {n \in Node : seen[n] # None /\ counter[n] > seen[n]})

OverLimit ==
  /\ rec # None /\ rec.enabled /\ rec.limit > 0 /\ Owed >= rec.limit
  /\ job # None \/ \E n \in Node : seen[n] # None /\ counter[n] > seen[n]

\* Nobody else writes the record any more, and no report in progress holds an
\* older copy of it.
Quiet ==
  /\ edits = MaxEdits /\ faults = MaxFaults /\ edit = None /\ ~resetting
  /\ job # None => job.user = rec

\* A user whose traffic reaches the limit is disabled in the end, also when it
\* takes the reports of several nodes and earlier ones were lost.
CutOff == (Quiet /\ OverLimit) ~> (rec = None \/ ~rec.enabled)

\* Reports and records are well formed, and nothing is billed that was not carried.
BillingSound == TrafficTypeOK /\ NeverOverbills
=============================================================================

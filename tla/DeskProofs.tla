----------------------------- MODULE DeskProofs -----------------------------
(***************************************************************************)
(* Proofs about the control beside its requests: billing (Traffic), the    *)
(* answers of its console (ControlViews), the processes of the engines     *)
(* (EngineManager) and the log (LogBuffer).                                *)
(***************************************************************************)
EXTENDS MCDesk, FiniteSetTheorems, SequenceTheorems, WellFoundedInduction, TLAPS

-----------------------------------------------------------------------------
(* Billing.                                                                *)

\* What a node carried, and what it had carried when it sent the report handled last.
Totals == [n \in Node |-> past[n].total]
Tolds  == [n \in Node |-> past[n].told]

\* The bytes a function of the nodes counts, each an element.
Below(f) == {b \in Node \X Nat : b[2] >= 1 /\ b[2] <= f[b[1]]}

\* What may have been billed: the bytes carried before the reports handled last, and
\* those billed again.
Budget == Cardinality(Below(Tolds)) + again

\* The reports w of a node that counts c, with baseline s: of two reports, the later
\* one shows no more bytes than were carried in between, and so does each of them
\* against the counter and against the baseline it follows.
ReportsOrdered(w, c, s, p) ==
  /\ p.told <= p.total
  /\ \A i \in DOMAIN w : w[i].at <= p.total /\ c + w[i].at <= w[i].value + p.total
  /\ \A i \in DOMAIN w : \A j \in DOMAIN w : i < j =>
       w[i].at <= w[j].at /\ w[j].value + w[i].at <= w[i].value + w[j].at
  /\ \A i \in DOMAIN w : i <= p.older => w[i].at <= p.told
  /\ \A i \in DOMAIN w : i > p.older => p.told <= w[i].at
  /\ s # None => c + p.told <= s + p.total
  /\ s # None => \A i \in DOMAIN w : i > p.older => w[i].value + p.told <= s + w[i].at

\* What holds of the reports and counters of a node.
ReportsKept(n) ==
  /\ ReportsOrdered(wire[n], counter[n], seen[n], past[n]) /\ past[n].older <= Len(wire[n])
  /\ counter[n] <= carried /\ past[n].total <= carried

\* The record and every copy of it that may be written back stay within the budget.
BillInv ==
  /\ TrafficTypeOK
  /\ \A n \in Node : ReportsKept(n)
  /\ IsFiniteSet(Below(Totals)) /\ Cardinality(Below(Totals)) <= carried
  /\ rec # None => rec.used <= Budget
  /\ edit # None => edit.used <= Budget
  /\ job # None => job.user.used + job.delta <= Budget

Sent == [value: 0..MaxBytes, at: 0..MaxBytes]
Past == [total: 0..MaxBytes, told: 0..MaxBytes, older: Nat]

\* The type invariant in their words.
TypeIs ==
  /\ rec \in Record \cup {None} /\ edit \in Record \cup {None}
  /\ counter \in [Node -> 0..MaxBytes]
  /\ wire \in [Node -> Seq(Sent)] /\ \A n \in Node : Len(wire[n]) <= MaxWire
  /\ seen \in [Node -> 0..MaxBytes \cup {None}]
  /\ job \in [user: Record, delta: Nat] \cup {None}
  /\ resetting \in BOOLEAN /\ carried \in 0..MaxBytes
  /\ past \in [Node -> Past] /\ again \in Nat

LEMMA TypeParts == TrafficTypeOK <=> TypeIs
BY Zenon DEF TrafficTypeOK, TypeIs, Sent, Past

LEMMA TypePartsStay == TrafficTypeOK' <=> TypeIs'
BY TypeParts, PTL

\* A record is a record whatever None is.
LEMMA TypesOfBilling == TrafficTypeOK =>
         /\ rec # None => rec \in Record
         /\ edit # None => edit \in Record
         /\ job # None => job.user \in Record /\ job.delta \in Nat
         /\ \A n \in Node : /\ counter[n] \in 0..MaxBytes /\ seen[n] \in 0..MaxBytes \cup {None}
                            /\ wire[n] \in Seq(Sent) /\ Len(wire[n]) <= MaxWire
                            /\ past[n] \in Past
         /\ MaxBytes \in Nat /\ None \notin Nat /\ carried \in Nat /\ again \in Nat
<1> SUFFICES ASSUME TrafficTypeOK
             PROVE  /\ rec # None => rec \in Record
                    /\ edit # None => edit \in Record
                    /\ job # None => job.user \in Record /\ job.delta \in Nat
                    /\ \A n \in Node : /\ counter[n] \in 0..MaxBytes
                                       /\ seen[n] \in 0..MaxBytes \cup {None}
                                       /\ wire[n] \in Seq(Sent) /\ Len(wire[n]) <= MaxWire
                                       /\ past[n] \in Past
                    /\ MaxBytes \in Nat /\ None \notin Nat /\ carried \in Nat /\ again \in Nat
  OBVIOUS
<1>1. TypeIs /\ MaxBytes \in Nat /\ None \notin Nat
  BY TypeParts, TrafficAssumption
<1>2. job # None => job.user \in Record /\ job.delta \in Nat
  BY <1>1 DEF TypeIs
<1> QED BY <1>1, <1>2 DEF TypeIs

LEMMA UsedType ==
  TrafficTypeOK => /\ rec # None => rec.used \in Nat
                   /\ edit # None => edit.used \in Nat
                   /\ job # None => job.user.used + job.delta \in Nat
BY TypesOfBilling DEF Record

LEMMA UsedStaysNat ==
  TrafficTypeOK' => /\ rec' # None => rec'.used \in Nat
                    /\ edit' # None => edit'.used \in Nat
                    /\ job' # None => job'.user.used + job'.delta \in Nat
<1> DEFINE N == /\ rec # None => rec.used \in Nat
                /\ edit # None => edit.used \in Nat
                /\ job # None => job.user.used + job.delta \in Nat
<1>1. TrafficTypeOK => N
  BY UsedType
<1>2. TrafficTypeOK' => N'
  BY <1>1, PTL
<1> QED BY <1>2

\* Where the element at k of a sequence was before the one at i was removed.
Was(k, i) == IF k < i THEN k ELSE k + 1

LEMMA Removed ==
  ASSUME NEW S, NEW s \in Seq(S), NEW i \in DOMAIN s
  PROVE  /\ RemoveAt(s, i) \in Seq(S) /\ Len(RemoveAt(s, i)) = Len(s) - 1
         /\ \A k \in DOMAIN RemoveAt(s, i) :
              k \in Nat /\ Was(k, i) \in DOMAIN s /\ RemoveAt(s, i)[k] = s[Was(k, i)]
<1>1. PICK n \in Nat : n = Len(s) /\ DOMAIN s = 1..n /\ i \in 1..n
  BY LenProperties
<1> DEFINE a == SubSeq(s, 1, i - 1)
           b == SubSeq(s, i + 1, n)
<1>2. \A k \in 1..n : s[k] \in S
  BY <1>1, ElementOfSeq
<1>3. 1 \in Int /\ i - 1 \in Int /\ i + 1 \in Int /\ n \in Int
  BY <1>1
<1>4. \A k \in 1 .. i - 1 : s[k] \in S
  BY <1>1, <1>2
<1>5. \A k \in i + 1 .. n : s[k] \in S
  BY <1>1, <1>2
<1>6. /\ a \in Seq(S) /\ Len(a) = IF 1 <= i - 1 THEN (i - 1) - 1 + 1 ELSE 0
      /\ \A k \in 1 .. (i - 1) - 1 + 1 : a[k] = s[1 + k - 1]
  BY <1>3, <1>4, SubSeqProperties
<1>7. /\ b \in Seq(S) /\ Len(b) = IF i + 1 <= n THEN n - (i + 1) + 1 ELSE 0
      /\ \A k \in 1 .. n - (i + 1) + 1 : b[k] = s[(i + 1) + k - 1]
  BY <1>3, <1>5, SubSeqProperties
<1>8. Len(a) = i - 1 /\ Len(b) = n - i
  BY <1>1, <1>6, <1>7
<1>9. \A k \in 1 .. i - 1 : a[k] = s[k]
  BY <1>1, <1>6
<1>10. \A k \in 1 .. n - i : b[k] = s[k + i]
  BY <1>1, <1>7
<1> HIDE DEF a, b
<1>11. /\ a \o b \in Seq(S) /\ Len(a \o b) = Len(a) + Len(b)
       /\ \A k \in 1 .. Len(a) + Len(b) :
            (a \o b)[k] = IF k <= Len(a) THEN a[k] ELSE b[k - Len(a)]
  BY <1>6, <1>7, ConcatProperties
<1>12. Len(a \o b) = n - 1 /\ DOMAIN (a \o b) = 1 .. n - 1
  BY <1>1, <1>8, <1>11, LenProperties
<1>13. RemoveAt(s, i) = a \o b
  BY <1>1 DEF RemoveAt, a, b
<1>14. ASSUME NEW k \in 1 .. n - 1
       PROVE  k \in Nat /\ Was(k, i) \in 1..n /\ (a \o b)[k] = s[Was(k, i)]
  <2>1. k \in Nat /\ Was(k, i) \in 1..n
    BY <1>1 DEF Was
  <2>2. k \in 1 .. Len(a) + Len(b)
    BY <1>1, <1>8
  <2>3. CASE k < i
    <3>1. (a \o b)[k] = a[k] /\ a[k] = s[k]
      BY <1>1, <1>8, <1>9, <1>11, <2>2, <2>3
    <3> QED BY <2>1, <2>3, <3>1 DEF Was
  <2>4. CASE k >= i
    <3>1. (a \o b)[k] = b[k - (i - 1)]
      BY <1>1, <1>8, <1>11, <2>2, <2>4
    <3>2. k - (i - 1) \in 1 .. n - i /\ k - (i - 1) + i = k + 1
      BY <1>1, <2>4
    <3>3. b[k - (i - 1)] = s[k + 1]
      BY <1>10, <3>2
    <3> QED BY <1>1, <2>1, <2>4, <3>1, <3>3 DEF Was
  <2>5. k < i \/ k >= i
    BY <1>1
  <2> QED BY <2>3, <2>4, <2>5
<1> QED BY <1>1, <1>11, <1>12, <1>13, <1>14

\* What the fields of the reports and of the past of a node are.
LEMMA SentNumbers ==
  ASSUME NEW w \in Seq(Sent), NEW i \in DOMAIN w
  PROVE  w[i] \in Sent /\ w[i].value \in Nat /\ w[i].at \in Nat
<1>1. w[i] \in Sent
  BY ElementOfSeq, LenProperties
<1>2. MaxBytes \in Nat
  BY TrafficAssumption
<1> QED BY <1>1, <1>2 DEF Sent

LEMMA PastNumbers ==
  ASSUME NEW p \in Past
  PROVE  p.total \in Nat /\ p.told \in Nat /\ p.older \in Nat
BY TrafficAssumption DEF Past

-----------------------------------------------------------------------------
(* The order of the reports of a node.                                     *)

\* A byte more, or a counter that was set back.
LEMMA OrderedCounts ==
  ASSUME NEW w \in Seq(Sent), NEW c \in Nat, NEW s \in Nat \cup {None}, NEW p \in Past, NEW q \in Past,
         NEW d \in Nat, ReportsOrdered(w, c, s, p), None \notin Nat,
         NEW e \in Nat, q.total = p.total + d, e <= c + d, q.told = p.told, q.older = p.older
  PROVE  ReportsOrdered(w, e, s, q)
<1>1. \A i \in DOMAIN w : w[i].value \in Nat /\ w[i].at \in Nat
  BY SentNumbers
<1>2. p.total \in Nat /\ p.told \in Nat /\ p.older \in Nat
  BY PastNumbers
<1>3. /\ p.told <= p.total
      /\ \A i \in DOMAIN w : w[i].at <= p.total /\ c + w[i].at <= w[i].value + p.total
      /\ s # None => c + p.told <= s + p.total
  BY DEF ReportsOrdered
<1>4. q.told <= q.total
  BY <1>2, <1>3
<1>5. \A i \in DOMAIN w : w[i].at <= q.total /\ e + w[i].at <= w[i].value + q.total
  BY <1>1, <1>2, <1>3
<1>6. s # None => e + q.told <= s + q.total
  BY <1>2, <1>3
<1> QED BY <1>4, <1>5, <1>6 DEF ReportsOrdered

\* A report of the counter as it is.
LEMMA OrderedSends ==
  ASSUME NEW w \in Seq(Sent), NEW c \in Nat, NEW s \in Nat \cup {None}, NEW p \in Past,
         ReportsOrdered(w, c, s, p), None \notin Nat, [value |-> c, at |-> p.total] \in Sent,
         p.older <= Len(w)
  PROVE  ReportsOrdered(Append(w, [value |-> c, at |-> p.total]), c, s, p)
<1> DEFINE r == [value |-> c, at |-> p.total]
           v == Append(w, r)
<1>1. PICK n \in Nat : n = Len(w) /\ DOMAIN w = 1..n
  BY LenProperties
<1>2. /\ DOMAIN v = 1 .. n + 1 /\ v[n + 1] = r /\ \A i \in DOMAIN w : v[i] = w[i]
  <2>1. /\ v \in Seq(Sent) /\ Len(v) = n + 1
        /\ \A i \in 1..n : v[i] = w[i]
        /\ v[n + 1] = r
    BY <1>1, AppendProperties
  <2> QED BY <1>1, <2>1, LenProperties
<1>3. r.value = c /\ r.at = p.total
  OBVIOUS
<1> HIDE DEF v, r
<1>4. \A i \in DOMAIN w : w[i].value \in Nat /\ w[i].at \in Nat
  BY SentNumbers
<1>5. p.total \in Nat /\ p.told \in Nat /\ p.older \in Nat
  BY PastNumbers
<1>6. \A i \in DOMAIN v : i = n + 1 \/ i \in DOMAIN w
  BY <1>1, <1>2
<1>7. n + 1 > p.older /\ n + 1 \notin DOMAIN w /\ \A i \in DOMAIN w : i < n + 1
  BY <1>1, <1>5
<1>8. \A i \in DOMAIN v : v[i].at <= p.total /\ c + v[i].at <= v[i].value + p.total
  BY <1>2, <1>3, <1>4, <1>5, <1>6 DEF ReportsOrdered
<1>9. \A i \in DOMAIN v : \A j \in DOMAIN v : i < j =>
        v[i].at <= v[j].at /\ v[j].value + v[i].at <= v[i].value + v[j].at
  <2> SUFFICES ASSUME NEW i \in DOMAIN v, NEW j \in DOMAIN v, i < j
               PROVE  v[i].at <= v[j].at /\ v[j].value + v[i].at <= v[i].value + v[j].at
    OBVIOUS
  <2>1. i \in DOMAIN w
    BY <1>1, <1>2, <1>6
  <2>2. CASE j = n + 1
    BY <1>2, <1>3, <2>1, <2>2 DEF ReportsOrdered
  <2>3. CASE j \in DOMAIN w
    BY <1>2, <2>1, <2>3 DEF ReportsOrdered
  <2> QED BY <1>6, <2>2, <2>3
<1>10. \A i \in DOMAIN v : i <= p.older => v[i].at <= p.told
  BY <1>1, <1>2, <1>5, <1>6, <1>7 DEF ReportsOrdered
<1>11. \A i \in DOMAIN v : i > p.older => p.told <= v[i].at
  BY <1>2, <1>3, <1>6 DEF ReportsOrdered
<1>12. s # None => \A i \in DOMAIN v : i > p.older => v[i].value + p.told <= s + v[i].at
  BY <1>2, <1>3, <1>6 DEF ReportsOrdered
<1>13. p.told <= p.total /\ (s # None => c + p.told <= s + p.total)
  BY DEF ReportsOrdered
<1> QED BY <1>8, <1>9, <1>10, <1>11, <1>12, <1>13 DEF ReportsOrdered, v, r

\* A report is lost.
LEMMA OrderedLoses ==
  ASSUME NEW w \in Seq(Sent), NEW c \in Nat, NEW s \in Nat \cup {None}, NEW p \in Past, NEW q \in Past,
         ReportsOrdered(w, c, s, p), NEW i \in DOMAIN w,
         q.total = p.total, q.told = p.told,
         q.older = IF i <= p.older THEN p.older - 1 ELSE p.older
  PROVE  ReportsOrdered(RemoveAt(w, i), c, s, q)
<1> DEFINE v == RemoveAt(w, i)
<1>1. \A k \in DOMAIN v : k \in Nat /\ Was(k, i) \in DOMAIN w /\ v[k] = w[Was(k, i)]
  BY Removed
<1>2. i \in Nat /\ i >= 1 /\ p.older \in Nat
  BY LenProperties, PastNumbers
<1> HIDE DEF v
<1>3. \A k \in DOMAIN v : \A j \in DOMAIN v : k < j => Was(k, i) < Was(j, i)
  BY <1>1, <1>2 DEF Was
<1>4. \A k \in DOMAIN v : (k <= q.older => Was(k, i) <= p.older) /\ (k > q.older => Was(k, i) > p.older)
  BY <1>1, <1>2 DEF Was
<1>5. \A k \in DOMAIN v : v[k].at <= q.total /\ c + v[k].at <= v[k].value + q.total
  BY <1>1 DEF ReportsOrdered
<1>6. \A k \in DOMAIN v : \A j \in DOMAIN v : k < j =>
        v[k].at <= v[j].at /\ v[j].value + v[k].at <= v[k].value + v[j].at
  BY <1>1, <1>3 DEF ReportsOrdered
<1>7. \A k \in DOMAIN v : k <= q.older => v[k].at <= q.told
  BY <1>1, <1>4 DEF ReportsOrdered
<1>8. \A k \in DOMAIN v : k > q.older => q.told <= v[k].at
  BY <1>1, <1>4 DEF ReportsOrdered
<1>9. s # None => \A k \in DOMAIN v : k > q.older => v[k].value + q.told <= s + v[k].at
  BY <1>1, <1>4 DEF ReportsOrdered
<1>10. q.told <= q.total /\ (s # None => c + q.told <= s + q.total)
  BY DEF ReportsOrdered
<1> QED BY <1>5, <1>6, <1>7, <1>8, <1>9, <1>10 DEF ReportsOrdered, v

\* A report is handled: it becomes the baseline.
LEMMA OrderedHandles ==
  ASSUME NEW w \in Seq(Sent), NEW c \in Nat, NEW s \in Nat \cup {None}, NEW p \in Past, NEW q \in Past,
         ReportsOrdered(w, c, s, p), NEW i \in DOMAIN w,
         q.total = p.total, q.told = w[i].at, q.older = i - 1
  PROVE  ReportsOrdered(RemoveAt(w, i), c, w[i].value, q)
<1> DEFINE v == RemoveAt(w, i)
<1>1. \A k \in DOMAIN v : k \in Nat /\ Was(k, i) \in DOMAIN w /\ v[k] = w[Was(k, i)]
  BY Removed
<1>2. i \in Nat /\ i >= 1
  BY LenProperties
<1> HIDE DEF v
<1>3. \A k \in DOMAIN v : \A j \in DOMAIN v : k < j => Was(k, i) < Was(j, i)
  BY <1>1, <1>2 DEF Was
<1>4. \A k \in DOMAIN v : (k <= q.older => Was(k, i) < i) /\ (k > q.older => i < Was(k, i))
  BY <1>1, <1>2 DEF Was
<1>5. \A k \in DOMAIN v : v[k].at <= q.total /\ c + v[k].at <= v[k].value + q.total
  BY <1>1 DEF ReportsOrdered
<1>6. \A k \in DOMAIN v : \A j \in DOMAIN v : k < j =>
        v[k].at <= v[j].at /\ v[j].value + v[k].at <= v[k].value + v[j].at
  BY <1>1, <1>3 DEF ReportsOrdered
<1>7. \A k \in DOMAIN v : k <= q.older => v[k].at <= q.told
  BY <1>1, <1>4 DEF ReportsOrdered
<1>8. \A k \in DOMAIN v : k > q.older => q.told <= v[k].at
  BY <1>1, <1>4 DEF ReportsOrdered
<1>9. \A k \in DOMAIN v : k > q.older => v[k].value + q.told <= w[i].value + v[k].at
  BY <1>1, <1>4 DEF ReportsOrdered
<1>10. q.told <= q.total /\ c + q.told <= w[i].value + q.total
  BY DEF ReportsOrdered
<1> QED BY <1>5, <1>6, <1>7, <1>8, <1>9, <1>10 DEF ReportsOrdered, v

\* The baseline is forgotten; a restart of the control also loses the reports.
LEMMA OrderedForgets ==
  ASSUME NEW w, NEW c, NEW s, NEW p, ReportsOrdered(w, c, s, p)
  PROVE  ReportsOrdered(w, c, None, p)
BY DEF ReportsOrdered

LEMMA OrderedRestarts ==
  ASSUME NEW w, NEW c, NEW s, NEW p, NEW q, ReportsOrdered(w, c, s, p), q.total = p.total, q.told = p.told
  PROVE  ReportsOrdered(<<>>, c, None, q)
<1>1. DOMAIN <<>> = {}
  OBVIOUS
<1> QED BY <1>1 DEF ReportsOrdered

-----------------------------------------------------------------------------
(* Counting bytes.                                                         *)

\* More bytes of one node.
LEMMA BelowGrows ==
  ASSUME NEW f \in [Node -> Nat], NEW g \in [Node -> Nat], NEW n \in Node, NEW d \in Nat,
         IsFiniteSet(Below(f)), g[n] = f[n] + d, \A m \in Node : m # n => g[m] = f[m]
  PROVE  /\ IsFiniteSet(Below(g)) /\ Cardinality(Below(g)) = Cardinality(Below(f)) + d
         /\ Cardinality(Below(f)) \in Nat
<1>1. PICK p \in Nat, q \in Nat : p = f[n] /\ q = g[n] /\ q = p + d
  OBVIOUS
<1> DEFINE D == {n} \X (p + 1 .. q)
<1>2. Below(g) = Below(f) \cup D /\ Below(f) \cap D = {}
  <2>1. \A b \in Below(g) : b \in Below(f) \cup D
    <3> SUFFICES ASSUME NEW b \in Below(g), b \notin Below(f) PROVE b \in D
      OBVIOUS
    <3>1. b \in Node \X Nat /\ b[2] >= 1 /\ b[2] <= g[b[1]]
      BY DEF Below
    <3>2. b[1] = n
      BY <3>1 DEF Below
    <3>3. b[2] > p
      BY <1>1, <3>1, <3>2 DEF Below
    <3> QED BY <1>1, <3>1, <3>2, <3>3
  <2>2. \A b \in Below(f) : b \in Below(g) /\ b \notin D
    <3> SUFFICES ASSUME NEW b \in Below(f) PROVE b \in Below(g) /\ b \notin D
      OBVIOUS
    <3>1. b \in Node \X Nat /\ b[2] >= 1 /\ b[2] <= f[b[1]]
      BY DEF Below
    <3>2. CASE b[1] = n
      BY <1>1, <3>1, <3>2 DEF Below
    <3>3. CASE b[1] # n
      BY <3>1, <3>3 DEF Below
    <3> QED BY <3>2, <3>3
  <2>3. \A b \in D : b \in Below(g)
    BY <1>1 DEF Below
  <2> QED BY <2>1, <2>2, <2>3
<1>3. IsFiniteSet(D) /\ Cardinality(D) = d
  <2>1. IsFiniteSet(p + 1 .. q) /\ Cardinality(p + 1 .. q) = d
    <3>1. p + 1 \in Int /\ q \in Int
      BY <1>1
    <3>2. /\ IsFiniteSet(p + 1 .. q)
          /\ Cardinality(p + 1 .. q) = IF p + 1 > q THEN 0 ELSE q - (p + 1) + 1
      BY <3>1, FS_Interval
    <3> QED BY <1>1, <3>2
  <2>2. IsFiniteSet({n}) /\ Cardinality({n}) = 1
    BY FS_Singleton
  <2>3. IsFiniteSet(D) /\ Cardinality(D) = 1 * d
    BY <2>1, <2>2, FS_Product
  <2> QED BY <2>3
<1> HIDE DEF D
<1>4. IsFiniteSet(Below(g))
  BY <1>2, <1>3, FS_Union
<1>5. Cardinality(Below(g)) = Cardinality(Below(f)) + Cardinality(D) - Cardinality(Below(f) \cap D)
  BY <1>2, <1>3, FS_Union
<1>6. Cardinality(Below(f) \cap D) = 0
  BY <1>2, FS_EmptySet
<1>7. Cardinality(Below(f)) \in Nat
  BY FS_CardinalityType
<1> QED BY <1>3, <1>4, <1>5, <1>6, <1>7

\* No byte that is not below a greater bound.
LEMMA BelowSmaller ==
  ASSUME NEW f \in [Node -> Nat], NEW g \in [Node -> Nat], IsFiniteSet(Below(g)),
         \A n \in Node : f[n] <= g[n]
  PROVE  /\ IsFiniteSet(Below(f)) /\ Cardinality(Below(f)) <= Cardinality(Below(g))
         /\ Cardinality(Below(f)) \in Nat /\ Cardinality(Below(g)) \in Nat
<1>1. Below(f) \subseteq Below(g)
  BY DEF Below
<1> QED BY <1>1, FS_Subset, FS_CardinalityType

\* What one node counts is set.
LEMMA BelowSet ==
  ASSUME NEW f \in [Node -> Nat], NEW g \in [Node -> Nat], NEW n \in Node, IsFiniteSet(Below(f)),
         \A m \in Node : m # n => g[m] = f[m]
  PROVE  /\ IsFiniteSet(Below(g)) /\ Cardinality(Below(g)) = Cardinality(Below(f)) + g[n] - f[n]
         /\ Cardinality(Below(f)) \in Nat
<1>1. PICK p \in Nat, q \in Nat : p = f[n] /\ q = g[n]
  OBVIOUS
<1>2. CASE q >= p
  <2>1. q - p \in Nat /\ g[n] = f[n] + (q - p)
    BY <1>1, <1>2
  <2>2. /\ IsFiniteSet(Below(g)) /\ Cardinality(Below(g)) = Cardinality(Below(f)) + (q - p)
        /\ Cardinality(Below(f)) \in Nat
    BY <2>1, BelowGrows
  <2> QED BY <1>1, <2>2
<1>3. CASE q < p
  <2>1. p - q \in Nat /\ f[n] = g[n] + (p - q) /\ \A m \in Node : f[m] \in Nat /\ g[m] \in Nat
    BY <1>1, <1>3
  <2>2. \A m \in Node : g[m] <= f[m]
    BY <1>1, <1>3, <2>1
  <2>3. IsFiniteSet(Below(g))
    BY <2>2, BelowSmaller
  <2>4. /\ Cardinality(Below(f)) = Cardinality(Below(g)) + (p - q)
        /\ Cardinality(Below(g)) \in Nat
    <3>1. \A m \in Node : m # n => f[m] = g[m]
      OBVIOUS
    <3> QED BY <2>1, <2>3, <3>1, BelowGrows
  <2> QED BY <1>1, <2>1, <2>3, <2>4
<1> QED BY <1>1, <1>2, <1>3

-----------------------------------------------------------------------------
(* The steps.                                                              *)

LEMMA TotalsTold ==
  TrafficTypeOK => Totals \in [Node -> Nat] /\ Tolds \in [Node -> Nat]
<1> SUFFICES ASSUME TrafficTypeOK PROVE Totals \in [Node -> Nat] /\ Tolds \in [Node -> Nat]
  OBVIOUS
<1>1. \A n \in Node : past[n].total \in Nat /\ past[n].told \in Nat
  BY TypesOfBilling, PastNumbers
<1> QED BY <1>1 DEF Totals, Tolds

LEMMA TotalsToldStay ==
  TrafficTypeOK' => (Totals \in [Node -> Nat] /\ Tolds \in [Node -> Nat])'
BY TotalsTold, PTL

\* The budget is a number no greater than what was carried and what is billed again.
LEMMA BudgetHolds ==
  ASSUME BillInv
  PROVE  /\ Budget \in Nat /\ Budget <= carried + again
         /\ IsFiniteSet(Below(Tolds)) /\ Cardinality(Below(Tolds)) \in Nat
<1>1. /\ Totals \in [Node -> Nat] /\ Tolds \in [Node -> Nat] /\ again \in Nat /\ carried \in Nat
      /\ IsFiniteSet(Below(Totals)) /\ Cardinality(Below(Totals)) <= carried
  BY TotalsTold, TypesOfBilling DEF BillInv
<1>2. \A n \in Node : Tolds[n] <= Totals[n]
  BY DEF BillInv, ReportsKept, ReportsOrdered, Totals, Tolds
<1>3. /\ IsFiniteSet(Below(Tolds)) /\ Cardinality(Below(Tolds)) <= Cardinality(Below(Totals))
      /\ Cardinality(Below(Tolds)) \in Nat /\ Cardinality(Below(Totals)) \in Nat
  BY <1>1, <1>2, BelowSmaller
<1> QED BY <1>1, <1>3 DEF Budget

\* A step that leaves what was carried and the reports handled as they were.
LEMMA BillFrame ==
  ASSUME BillInv, TrafficTypeOK', carried' = carried, again' = again,
         \A n \in Node : past'[n].total = past[n].total /\ past'[n].told = past[n].told,
         \A n \in Node : ReportsKept(n)',
         rec' # None => rec'.used <= Budget, edit' # None => edit'.used <= Budget,
         job' # None => job'.user.used + job'.delta <= Budget
  PROVE  BillInv'
<1>1. Totals' = Totals /\ Tolds' = Tolds
  BY DEF Totals, Tolds
<1>2. Budget' = Budget
  BY <1>1 DEF Budget
<1>3. IsFiniteSet(Below(Totals')) /\ Cardinality(Below(Totals')) <= carried'
  BY <1>1 DEF BillInv
<1> QED BY <1>2, <1>3 DEF BillInv

\* A byte more is carried.
LEMMA CarryBills ==
  ASSUME BillInv, NEW n \in Node, Carry(n)
  PROVE  BillInv'
<1>1. /\ carried' = carried + 1 /\ carried < MaxBytes /\ counter' = [counter EXCEPT ![n] = @ + 1]
      /\ past' = [past EXCEPT ![n].total = @ + 1]
      /\ UNCHANGED <<rec, wire, seen, job, edit, resetting, again>>
  BY DEF Carry
<1>2. /\ TrafficTypeOK /\ carried \in Nat /\ MaxBytes \in Nat /\ None \notin Nat /\ again \in Nat
      /\ \A m \in Node : /\ counter[m] \in Nat /\ counter[m] <= carried
                         /\ past[m] \in Past /\ past[m].total \in Nat /\ past[m].total <= carried
                         /\ wire[m] \in Seq(Sent) /\ seen[m] \in Nat \cup {None}
  BY TypesOfBilling, PastNumbers DEF BillInv, ReportsKept
<1>3. /\ counter'[n] = counter[n] + 1 /\ \A m \in Node : m # n => counter'[m] = counter[m]
      /\ counter' \in [Node -> 0..MaxBytes] /\ \A m \in Node : counter'[m] <= carried'
  BY <1>1, <1>2, TypeParts, TypePartsStay DEF TypeIs
<1>4. /\ past'[n] = [past[n] EXCEPT !.total = @ + 1] /\ \A m \in Node : m # n => past'[m] = past[m]
      /\ past' \in [Node -> Past]
  <2>1. past \in [Node -> Past]
    BY <1>2, TypeParts, TypePartsStay DEF TypeIs
  <2>2. past[n].total + 1 \in 0..MaxBytes
    BY <1>1, <1>2
  <2>3. [past[n] EXCEPT !.total = @ + 1] \in Past
    BY <1>2, <2>2 DEF Past
  <2> QED BY <1>1, <2>1, <2>3
<1>5. /\ past'[n].total = past[n].total + 1 /\ past'[n].told = past[n].told
      /\ past'[n].older = past[n].older
  BY <1>2, <1>4 DEF Past
<1>6. TrafficTypeOK'
  BY <1>1, <1>2, <1>3, <1>4, TypeParts, TypePartsStay DEF TypeIs
<1>7. ReportsKept(n)'
  <2>1. ReportsOrdered(wire[n], counter[n], seen[n], past[n])
    BY DEF BillInv, ReportsKept
  <2>2. counter[n] + 1 \in Nat /\ counter[n] + 1 <= counter[n] + 1 /\ past'[n] \in Past
    BY <1>2, <1>4
  <2>3. ReportsOrdered(wire[n], counter[n] + 1, seen[n], past'[n])
    BY <1>2, <1>5, <2>1, <2>2, OrderedCounts
  <2>4. past'[n].total <= carried'
    BY <1>1, <1>2, <1>5
  <2> QED BY <1>1, <1>3, <1>5, <2>3, <2>4 DEF BillInv, ReportsKept
<1>8. \A m \in Node : m # n => ReportsKept(m)'
  BY <1>1, <1>2, <1>3, <1>4 DEF BillInv, ReportsKept
<1>9. Tolds' = Tolds /\ Budget' = Budget
  <2>1. \A m \in Node : past'[m].told = past[m].told
    BY <1>4, <1>5
  <2>2. Tolds' = Tolds
    BY <2>1 DEF Tolds
  <2> QED BY <1>1, <2>2 DEF Budget
<1>10. IsFiniteSet(Below(Totals')) /\ Cardinality(Below(Totals')) <= carried'
  <2>1. /\ Totals \in [Node -> Nat] /\ Totals' \in [Node -> Nat]
        /\ IsFiniteSet(Below(Totals)) /\ Cardinality(Below(Totals)) <= carried
    BY <1>2, <1>6, TotalsTold, TotalsToldStay DEF BillInv
  <2>2. Totals'[n] = Totals[n] + 1 /\ \A m \in Node : m # n => Totals'[m] = Totals[m]
    BY <1>4, <1>5 DEF Totals
  <2>3. /\ IsFiniteSet(Below(Totals')) /\ Cardinality(Below(Totals')) = Cardinality(Below(Totals)) + 1
        /\ Cardinality(Below(Totals)) \in Nat
    BY <2>1, <2>2, BelowGrows
  <2> QED BY <1>1, <1>2, <2>1, <2>3
<1> QED BY <1>1, <1>6, <1>7, <1>8, <1>9, <1>10 DEF BillInv

\* What a report bills is in the budget once it is handled.
LEMMA ReportInBudget ==
  ASSUME NEW w \in Seq(Sent), NEW c \in Nat, NEW s \in Nat \cup {None}, NEW p \in Past,
         ReportsOrdered(w, c, s, p), NEW i \in DOMAIN w, None \notin Nat
  PROVE  /\ Delta(w[i].value, s) \in Nat /\ Repeated(p, i, w[i], s) \in Nat
         /\ Delta(w[i].value, s) <= (w[i].at - p.told) + Repeated(p, i, w[i], s)
         /\ 0 <= (w[i].at - p.told) + Repeated(p, i, w[i], s)
<1>1. w[i].value \in Nat /\ w[i].at \in Nat /\ p.told \in Nat /\ p.older \in Nat /\ i \in Nat
  BY SentNumbers, PastNumbers, LenProperties
<1>2. Delta(w[i].value, s) \in Nat
  BY <1>1 DEF Delta
<1>3. CASE i <= p.older
  <2>1. w[i].at <= p.told
    BY <1>3 DEF ReportsOrdered
  <2>2. Repeated(p, i, w[i], s) = p.told - w[i].at + Delta(w[i].value, s)
    BY <1>3 DEF Repeated
  <2> HIDE DEF Delta, Repeated
  <2> QED BY <1>1, <1>2, <2>1, <2>2
<1>4. CASE i > p.older
  <2>1. p.told <= w[i].at /\ (s # None => w[i].value + p.told <= s + w[i].at)
    BY <1>4 DEF ReportsOrdered
  <2>2. Repeated(p, i, w[i], s) = 0
    BY <1>1, <1>4 DEF Repeated
  <2>3. Delta(w[i].value, s) <= w[i].at - p.told
    BY <1>1, <2>1 DEF Delta
  <2> QED BY <1>1, <1>2, <2>1, <2>2, <2>3
<1> QED BY <1>1, <1>3, <1>4

LEMMA ReportBills ==
  ASSUME BillInv, NEW n \in Node, Report(n)
  PROVE  BillInv'
<1>1. /\ TrafficTypeOK /\ carried \in Nat /\ MaxBytes \in Nat /\ None \notin Nat /\ again \in Nat
      /\ wire[n] \in Seq(Sent) /\ Len(wire[n]) <= MaxWire /\ MaxWire \in Nat
      /\ past[n] \in Past /\ counter[n] \in Nat /\ seen[n] \in Nat \cup {None}
      /\ ReportsOrdered(wire[n], counter[n], seen[n], past[n])
      /\ past \in [Node -> Past] /\ wire \in [Node -> Seq(Sent)] /\ seen \in [Node -> 0..MaxBytes \cup {None}]
  BY TypesOfBilling, TypeParts, TrafficAssumption DEF BillInv, ReportsKept, TypeIs
<1>2. PICK i \in DOMAIN wire[n] :
        /\ wire' = [wire EXCEPT ![n] = RemoveAt(@, i)]
        /\ seen' = [seen EXCEPT ![n] = wire[n][i].value]
        /\ job' = IF Delta(wire[n][i].value, seen[n]) > 0 /\ rec # None
                  THEN [user |-> rec, delta |-> Delta(wire[n][i].value, seen[n])] ELSE None
        /\ past' = [past EXCEPT ![n].told = wire[n][i].at, ![n].older = i - 1]
        /\ again' = again + Repeated(past[n], i, wire[n][i], seen[n])
        /\ UNCHANGED <<rec, counter, edit, resetting, carried>> /\ job = None
  BY DEF Report
<1> DEFINE r == wire[n][i]
           d == Delta(r.value, seen[n])
           x == Repeated(past[n], i, r, seen[n])
<1>3. /\ r \in Sent /\ r.value \in Nat /\ r.at \in Nat /\ r.value \in 0..MaxBytes /\ r.at \in 0..MaxBytes
      /\ i \in Nat /\ i >= 1 /\ i <= Len(wire[n]) /\ Len(wire[n]) \in Nat
  <2>1. r \in Sent /\ r.value \in Nat /\ r.at \in Nat
    BY <1>1, SentNumbers
  <2>2. r.value \in 0..MaxBytes /\ r.at \in 0..MaxBytes
    BY <2>1 DEF Sent
  <2>3. Len(wire[n]) \in Nat /\ i \in 1..Len(wire[n])
    BY <1>1, LenProperties
  <2> QED BY <2>1, <2>2, <2>3
<1>4. /\ d \in Nat /\ x \in Nat /\ d <= (r.at - past[n].told) + x
      /\ 0 <= (r.at - past[n].told) + x
  BY <1>1, ReportInBudget
<1>5. /\ RemoveAt(wire[n], i) \in Seq(Sent) /\ Len(RemoveAt(wire[n], i)) = Len(wire[n]) - 1
  BY <1>1, Removed
<1>6. /\ past'[n] = [past[n] EXCEPT !.told = r.at, !.older = i - 1]
      /\ past'[n] \in Past /\ \A m \in Node : m # n => past'[m] = past[m]
  <2>1. past' = [past EXCEPT ![n] = [past[n] EXCEPT !.told = r.at, !.older = i - 1]]
    BY <1>1, <1>2
  <2>2. i - 1 \in Nat
    BY <1>3
  <2>3. [past[n] EXCEPT !.told = r.at, !.older = i - 1] \in Past
    BY <1>1, <1>3, <2>2 DEF Past
  <2> QED BY <1>1, <2>1, <2>3
<1>7. past'[n].total = past[n].total /\ past'[n].told = r.at /\ past'[n].older = i - 1
  BY <1>1, <1>6 DEF Past
<1>8. /\ wire'[n] = RemoveAt(wire[n], i) /\ seen'[n] = r.value
      /\ \A m \in Node : m # n => wire'[m] = wire[m] /\ seen'[m] = seen[m]
  BY <1>1, <1>2
<1> HIDE DEF r, d, x
<1>9. job' # None => job' = [user |-> rec, delta |-> d] /\ rec # None
  BY <1>2 DEF d, r
<1>10. TrafficTypeOK'
  <2>1. wire' \in [Node -> Seq(Sent)] /\ seen' \in [Node -> 0..MaxBytes \cup {None}]
        /\ past' \in [Node -> Past]
    <3>1. /\ wire' = [wire EXCEPT ![n] = RemoveAt(wire[n], i)] /\ seen' = [seen EXCEPT ![n] = r.value]
          /\ past' = [past EXCEPT ![n] = [past[n] EXCEPT !.told = r.at, !.older = i - 1]]
      BY <1>2 DEF r
    <3> QED BY <1>1, <1>3, <1>5, <1>6, <3>1
  <2>2. \A m \in Node : Len(wire'[m]) <= MaxWire
    <3>1. Len(wire'[n]) <= MaxWire
      BY <1>1, <1>3, <1>5, <1>8
    <3>2. \A m \in Node : Len(wire[m]) <= MaxWire
      BY <1>1, TypeParts DEF TypeIs
    <3> QED BY <1>8, <3>1, <3>2
  <2>3. job' \in [user: Record, delta: Nat] \cup {None}
    BY <1>1, <1>2, <1>4, <1>9, TypesOfBilling DEF d, r
  <2>4. again' \in Nat
    BY <1>1, <1>2, <1>4 DEF x, r
  <2> QED BY <1>1, <1>2, <2>1, <2>2, <2>3, <2>4, TypeParts, TypePartsStay DEF TypeIs
<1>11. \A m \in Node : ReportsKept(m)'
  <2>1. ReportsOrdered(RemoveAt(wire[n], i), counter[n], r.value, past'[n])
    BY <1>1, <1>6, <1>7, OrderedHandles DEF r
  <2>2. ReportsKept(n)'
    BY <1>2, <1>3, <1>5, <1>7, <1>8, <2>1 DEF BillInv, ReportsKept
  <2>3. \A m \in Node : m # n => ReportsKept(m)'
    BY <1>2, <1>6, <1>8 DEF BillInv, ReportsKept
  <2> QED BY <2>2, <2>3
<1>12. Budget' = Budget + (r.at - past[n].told) + x /\ Budget \in Nat
  <2>1. /\ Tolds \in [Node -> Nat] /\ Tolds' \in [Node -> Nat] /\ IsFiniteSet(Below(Tolds))
    BY <1>1, <1>10, TotalsTold, TotalsToldStay, BudgetHolds
  <2>2. /\ Tolds'[n] = r.at /\ Tolds[n] = past[n].told
        /\ \A m \in Node : m # n => Tolds'[m] = Tolds[m]
    BY <1>6, <1>7 DEF Tolds
  <2>3. /\ Cardinality(Below(Tolds')) = Cardinality(Below(Tolds)) + r.at - past[n].told
        /\ Cardinality(Below(Tolds)) \in Nat
    BY <2>1, <2>2, BelowSet
  <2>4. again' = again + x
    BY <1>2 DEF x, r
  <2>5. past[n].told \in Nat
    BY <1>1, PastNumbers
  <2> QED BY <1>1, <1>3, <1>4, <2>3, <2>4, <2>5 DEF Budget
<1>13. past[n].told \in Nat
  BY <1>1, PastNumbers
<1>14. Budget' >= Budget /\ Budget' >= Budget + d /\ Budget' \in Int
  <2>1. PICK a \in Int : a = r.at - past[n].told
    BY <1>3, <1>13
  <2>2. Budget' = Budget + a + x /\ d <= a + x /\ 0 <= a + x
    BY <1>4, <1>12, <2>1
  <2> QED BY <1>4, <1>12, <2>1, <2>2
<1>15. Totals' = Totals
  BY <1>6, <1>7 DEF Totals
<1>16. /\ rec # None => rec.used \in Nat /\ rec.used <= Budget
       /\ edit # None => edit.used \in Nat /\ edit.used <= Budget
  BY <1>1, UsedType DEF BillInv
<1>17. rec' # None => rec'.used <= Budget'
  BY <1>2, <1>12, <1>14, <1>16
<1>18. edit' # None => edit'.used <= Budget'
  BY <1>2, <1>12, <1>14, <1>16
<1>19. job' # None => job'.user.used + job'.delta <= Budget'
  BY <1>4, <1>9, <1>12, <1>14, <1>16
<1> QED BY <1>2, <1>10, <1>11, <1>15, <1>17, <1>18, <1>19 DEF BillInv

\* The other steps bill nothing, or put a copy of the record in its place.
LEMMA OthersBill ==
  ASSUME BillInv,
         \/ \E n \in Node : Send(n) \/ Lose(n) \/ NodeRestart(n)
         \/ Bill \/ ControlRestart \/ (\E e \in BOOLEAN, l \in Limit : BeginEdit(e, l))
         \/ EndEdit \/ DeleteUser \/ ResetFlow \/ ForgetSeen
  PROVE  BillInv'
<1>1. /\ TrafficTypeOK /\ MaxBytes \in Nat /\ carried \in Nat /\ again \in Nat /\ None \notin Nat
      /\ past \in [Node -> Past] /\ wire \in [Node -> Seq(Sent)] /\ Budget \in Nat /\ MaxWire \in Nat
      /\ \A n \in Node :
           /\ counter[n] \in Nat /\ counter[n] <= carried /\ counter[n] \in 0..MaxBytes
           /\ past[n] \in Past /\ past[n].total \in Nat /\ past[n].told \in Nat /\ past[n].older \in Nat
           /\ wire[n] \in Seq(Sent) /\ seen[n] \in Nat \cup {None} /\ Len(wire[n]) <= MaxWire
           /\ ReportsOrdered(wire[n], counter[n], seen[n], past[n])
           /\ past[n].older <= Len(wire[n]) /\ Len(wire[n]) \in Nat /\ past[n].total <= carried
  BY TypesOfBilling, TypeParts, PastNumbers, BudgetHolds, LenProperties, TrafficAssumption
     DEF BillInv, ReportsKept, TypeIs
<1>2. carried' = carried /\ again' = again
  BY DEF Send, Lose, NodeRestart, Bill, ControlRestart, BeginEdit, EndEdit, DeleteUser,
         ResetFlow, ForgetSeen
<1>3. ASSUME NEW n \in Node, Send(n) PROVE BillInv'
  <2> DEFINE r == [value |-> counter[n], at |-> past[n].total]
  <2>1. /\ Len(wire[n]) < MaxWire /\ wire' = [wire EXCEPT ![n] = Append(@, r)]
        /\ UNCHANGED <<rec, counter, seen, job, edit, resetting, past>>
    BY <1>3 DEF Send
  <2>2. r \in Sent
    BY <1>1 DEF Sent, Past
  <2>3. Append(wire[n], r) \in Seq(Sent) /\ Len(Append(wire[n], r)) = Len(wire[n]) + 1
    BY <1>1, <2>2, AppendProperties
  <2>4. ReportsOrdered(Append(wire[n], r), counter[n], seen[n], past[n])
    BY <1>1, <2>2, OrderedSends
  <2> HIDE DEF r
  <2>5. /\ wire'[n] = Append(wire[n], r) /\ \A m \in Node : m # n => wire'[m] = wire[m]
        /\ wire' \in [Node -> Seq(Sent)]
    BY <1>1, <2>1, <2>3
  <2>6. TrafficTypeOK'
    <3>1. \A m \in Node : Len(wire'[m]) <= MaxWire
      BY <1>1, <2>1, <2>3, <2>5
    <3> QED BY <1>1, <1>2, <2>1, <2>5, <3>1, TypeParts, TypePartsStay DEF TypeIs
  <2>7. \A m \in Node : ReportsKept(m)'
    <3>1. ReportsKept(n)'
      BY <1>1, <1>2, <2>1, <2>3, <2>4, <2>5 DEF ReportsKept
    <3>2. \A m \in Node : m # n => ReportsKept(m)'
      BY <1>1, <1>2, <2>1, <2>5 DEF ReportsKept
    <3> QED BY <3>1, <3>2
  <2> QED BY <1>2, <2>1, <2>6, <2>7, BillFrame DEF BillInv
<1>4. ASSUME NEW n \in Node, Lose(n) PROVE BillInv'
  <2>1. PICK i \in DOMAIN wire[n] :
          /\ wire' = [wire EXCEPT ![n] = RemoveAt(@, i)]
          /\ past' = [past EXCEPT ![n].older = IF i <= @ THEN @ - 1 ELSE @]
          /\ UNCHANGED <<rec, counter, seen, job, edit, resetting>>
    BY <1>4 DEF Lose
  <2>2. i \in Nat /\ i >= 1 /\ i <= Len(wire[n])
    BY <1>1, LenProperties
  <2>3. RemoveAt(wire[n], i) \in Seq(Sent) /\ Len(RemoveAt(wire[n], i)) = Len(wire[n]) - 1
    BY <1>1, Removed
  <2> DEFINE o == IF i <= past[n].older THEN past[n].older - 1 ELSE past[n].older
  <2>4. o \in Nat /\ o <= Len(wire[n]) - 1
    BY <1>1, <2>2
  <2>5. /\ past' = [past EXCEPT ![n] = [past[n] EXCEPT !.older = o]]
        /\ past'[n] = [past[n] EXCEPT !.older = o]
        /\ past'[n] \in Past /\ \A m \in Node : m # n => past'[m] = past[m]
    BY <1>1, <2>1, <2>4 DEF Past
  <2>6. past'[n].total = past[n].total /\ past'[n].told = past[n].told /\ past'[n].older = o
    BY <1>1, <2>5 DEF Past
  <2>7. ReportsOrdered(RemoveAt(wire[n], i), counter[n], seen[n], past'[n])
    BY <1>1, <2>5, <2>6, OrderedLoses
  <2> HIDE DEF o
  <2>8. /\ wire'[n] = RemoveAt(wire[n], i) /\ \A m \in Node : m # n => wire'[m] = wire[m]
        /\ wire' \in [Node -> Seq(Sent)] /\ past' \in [Node -> Past]
    BY <1>1, <2>1, <2>3, <2>5
  <2>9. TrafficTypeOK'
    <3>1. \A m \in Node : Len(wire'[m]) <= MaxWire
      <4>1. Len(wire'[n]) <= MaxWire
        BY <1>1, <2>3, <2>8
      <4> QED BY <1>1, <2>8, <4>1
    <3> QED BY <1>1, <1>2, <2>1, <2>8, <3>1, TypeParts, TypePartsStay DEF TypeIs
  <2>10. \A m \in Node : ReportsKept(m)'
    <3>1. ReportsKept(n)'
      BY <1>1, <1>2, <2>1, <2>3, <2>4, <2>6, <2>7, <2>8 DEF ReportsKept
    <3>2. \A m \in Node : m # n => ReportsKept(m)'
      BY <1>1, <1>2, <2>1, <2>5, <2>8 DEF ReportsKept
    <3> QED BY <3>1, <3>2
  <2>11. \A m \in Node : past'[m].total = past[m].total /\ past'[m].told = past[m].told
    BY <2>5, <2>6
  <2> QED BY <1>2, <2>1, <2>9, <2>10, <2>11, BillFrame DEF BillInv
<1>5. ASSUME NEW n \in Node, NodeRestart(n) PROVE BillInv'
  <2>1. PICK c \in 0..counter[n] :
          /\ counter' = [counter EXCEPT ![n] = c]
          /\ UNCHANGED <<rec, wire, seen, job, edit, resetting, past>>
    BY <1>5 DEF NodeRestart
  <2>2. /\ counter'[n] = c /\ \A m \in Node : m # n => counter'[m] = counter[m]
        /\ c \in Nat /\ c <= counter[n] + 0 /\ c \in 0..MaxBytes /\ c <= carried
    BY <1>1, <2>1, TypeParts, TypePartsStay DEF TypeIs
  <2>3. TrafficTypeOK'
    BY <1>1, <1>2, <2>1, <2>2, TypeParts, TypePartsStay DEF TypeIs
  <2>4. ReportsOrdered(wire[n], c, seen[n], past[n])
    <3>1. past[n].total = past[n].total + 0 /\ 0 \in Nat
      BY <1>1
    <3> QED BY <1>1, <2>2, <3>1, OrderedCounts
  <2>5. \A m \in Node : ReportsKept(m)'
    <3>1. ReportsKept(n)'
      BY <1>1, <1>2, <2>1, <2>2, <2>4 DEF ReportsKept
    <3>2. \A m \in Node : m # n => ReportsKept(m)'
      BY <1>1, <1>2, <2>1, <2>2 DEF ReportsKept
    <3> QED BY <3>1, <3>2
  <2> QED BY <1>2, <2>1, <2>3, <2>5, BillFrame DEF BillInv
<1>6. CASE ForgetSeen
  <2>1. /\ UNCHANGED <<rec, counter, wire, job, edit, past>> /\ seen' = Nothing /\ resetting' = FALSE
    BY <1>6 DEF ForgetSeen
  <2>2. seen' \in [Node -> 0..MaxBytes \cup {None}] /\ \A n \in Node : seen'[n] = None
    BY <2>1 DEF Nothing
  <2>3. TrafficTypeOK'
    BY <1>1, <1>2, <2>1, <2>2, TypeParts, TypePartsStay DEF TypeIs
  <2>4. ASSUME NEW m \in Node PROVE ReportsKept(m)'
    <3>1. ReportsOrdered(wire[m], counter[m], None, past[m])
      BY <1>1, OrderedForgets
    <3> QED BY <1>1, <1>2, <2>1, <2>2, <3>1 DEF ReportsKept
  <2> QED BY <1>2, <2>1, <2>3, <2>4, BillFrame DEF BillInv
<1>7. CASE ControlRestart
  <2>1. /\ UNCHANGED <<rec, counter>> /\ seen' = Nothing /\ resetting' = FALSE
        /\ job' = None /\ edit' = None /\ wire' = [n \in Node |-> <<>>]
        /\ past' = [n \in Node |-> [past[n] EXCEPT !.older = 0]]
    BY <1>7 DEF ControlRestart
  <2>2. seen' \in [Node -> 0..MaxBytes \cup {None}] /\ \A n \in Node : seen'[n] = None
    BY <2>1 DEF Nothing
  <2>3. /\ <<>> \in Seq(Sent) /\ Len(<<>>) = 0
        /\ \A n \in Node : wire'[n] = <<>>
        /\ wire' \in [Node -> Seq(Sent)]
    BY <2>1, EmptySeq
  <2>4. ASSUME NEW n \in Node
        PROVE  /\ past'[n] = [past[n] EXCEPT !.older = 0] /\ past'[n] \in Past
               /\ past'[n].total = past[n].total /\ past'[n].told = past[n].told /\ past'[n].older = 0
    BY <1>1, <2>1 DEF Past
  <2>5. past' \in [Node -> Past]
    <3>1. \A n \in Node : [past[n] EXCEPT !.older = 0] \in Past
      BY <1>1 DEF Past
    <3> QED BY <2>1, <3>1
  <2>6. TrafficTypeOK'
    <3>1. wire' \in [Node -> Seq(Sent)] /\ \A n \in Node : Len(wire'[n]) <= MaxWire
      BY <1>1, <2>3
    <3> QED BY <1>1, <1>2, <2>1, <2>2, <2>5, <3>1, TypeParts, TypePartsStay DEF TypeIs
  <2>7. ASSUME NEW m \in Node PROVE ReportsKept(m)'
    <3>1. ReportsOrdered(<<>>, counter[m], None, past'[m])
      BY <1>1, <2>4, OrderedRestarts
    <3>2. wire'[m] = <<>> /\ seen'[m] = None /\ counter'[m] = counter[m] /\ Len(<<>>) = 0
      BY <2>1, <2>2, <2>3
    <3>3. /\ past'[m].older <= Len(wire'[m]) /\ counter'[m] <= carried' /\ past'[m].total <= carried'
      <4>1. past'[m].older = 0 /\ past'[m].total = past[m].total /\ Len(wire'[m]) = 0
        BY <2>4, <3>2
      <4>2. counter[m] <= carried /\ past[m].total <= carried
        BY <1>1
      <4> QED BY <1>2, <3>2, <4>1, <4>2
    <3> QED BY <3>1, <3>2, <3>3 DEF ReportsKept
  <2> QED BY <1>2, <2>1, <2>4, <2>6, <2>7, BillFrame DEF BillInv
<1>8. CASE Bill \/ EndEdit \/ DeleteUser \/ ResetFlow \/ \E e \in BOOLEAN, l \in Limit : BeginEdit(e, l)
  <2>1. UNCHANGED <<counter, wire, seen, past>>
    BY <1>8 DEF Bill, BeginEdit, EndEdit, DeleteUser, ResetFlow
  <2>2. \A m \in Node : ReportsKept(m)'
    BY <1>1, <1>2, <2>1 DEF ReportsKept
  <2>3. \A m \in Node : past'[m].total = past[m].total /\ past'[m].told = past[m].told
    BY <2>1
  <2>4. /\ rec # None => rec \in Record /\ rec.used <= Budget
        /\ edit # None => edit \in Record /\ edit.used <= Budget
        /\ job # None => /\ job.user \in Record /\ job.delta \in Nat
                         /\ job.user.used + job.delta <= Budget
    BY <1>1, TypesOfBilling DEF BillInv
  <2>5. CASE Bill
    <3>1. /\ job # None /\ job' = None /\ rec' = Billed(job.user, job.delta)
          /\ edit' = edit /\ resetting' = resetting
      BY <2>5 DEF Bill
    <3>2. job.user.used \in Nat /\ job.delta \in Nat /\ job.user.limit \in Limit
          /\ job.user.enabled \in BOOLEAN
      BY <2>4, <3>1 DEF Record
    <3>3. rec' \in Record /\ rec'.used = job.user.used + job.delta
      BY <3>1, <3>2 DEF Billed, Record
    <3>4. TrafficTypeOK'
      BY <1>1, <1>2, <2>1, <3>1, <3>3, TypeParts, TypePartsStay DEF TypeIs
    <3> QED BY <1>2, <2>2, <2>3, <2>4, <3>1, <3>3, <3>4, BillFrame
  <2>6. CASE EndEdit
    <3>1. /\ edit # None /\ rec' = edit /\ edit' = None /\ job' = job /\ resetting' = resetting
      BY <2>6 DEF EndEdit
    <3>2. TrafficTypeOK'
      BY <1>1, <1>2, <2>1, <3>1, TypeParts, TypePartsStay DEF TypeIs
    <3> QED BY <1>2, <2>2, <2>3, <2>4, <3>1, <3>2, BillFrame
  <2>7. CASE DeleteUser
    <3>1. rec' = None /\ edit' = edit /\ job' = job /\ resetting' = resetting
      BY <2>7 DEF DeleteUser
    <3>2. TrafficTypeOK'
      BY <1>1, <1>2, <2>1, <3>1, TypeParts, TypePartsStay DEF TypeIs
    <3> QED BY <1>2, <2>2, <2>3, <2>4, <3>1, <3>2, BillFrame
  <2>8. CASE ResetFlow
    <3>1. /\ rec # None /\ rec' = [rec EXCEPT !.used = 0] /\ resetting' = TRUE
          /\ edit' = edit /\ job' = job
      BY <2>8 DEF ResetFlow
    <3>2. rec' \in Record /\ rec'.used = 0
      BY <2>4, <3>1 DEF Record
    <3>3. TrafficTypeOK'
      BY <1>1, <1>2, <2>1, <3>1, <3>2, TypeParts, TypePartsStay DEF TypeIs
    <3> QED BY <1>1, <1>2, <2>2, <2>3, <2>4, <3>1, <3>2, <3>3, BillFrame
  <2>9. ASSUME NEW e \in BOOLEAN, NEW l \in Limit, BeginEdit(e, l) PROVE BillInv'
    <3> DEFINE u == IF rec = None THEN 0 ELSE rec.used
    <3>1. /\ edit' = [enabled |-> e, limit |-> l, used |-> u]
          /\ rec' = rec /\ job' = job /\ resetting' = resetting
      BY <2>9 DEF BeginEdit
    <3>2. u \in Nat /\ u <= Budget
      BY <1>1, <2>4 DEF Record
    <3> HIDE DEF u
    <3>3. edit' \in Record /\ edit'.used = u
      BY <3>1, <3>2 DEF Record
    <3>4. TrafficTypeOK'
      BY <1>1, <1>2, <2>1, <3>1, <3>3, TypeParts, TypePartsStay DEF TypeIs
    <3> QED BY <1>2, <2>2, <2>3, <2>4, <3>1, <3>2, <3>3, <3>4, BillFrame
  <2> QED BY <1>8, <2>5, <2>6, <2>7, <2>8, <2>9
<1> QED BY <1>3, <1>4, <1>5, <1>6, <1>7, <1>8

LEMMA BillStep == BillInv /\ [Next]_vars => BillInv'
<1> SUFFICES ASSUME BillInv, [Next]_vars PROVE BillInv'
  OBVIOUS
<1>1. CASE Next
  BY <1>1, CarryBills, ReportBills, OthersBill DEF Next
<1>2. CASE UNCHANGED vars
  <2>1. UNCHANGED <<rec, counter, wire, seen, job, edit, resetting, carried, past, again>>
    BY <1>2 DEF vars
  <2>2. TrafficTypeOK'
    BY <2>1, TypeParts, TypePartsStay DEF TypeIs, BillInv
  <2>3. \A n \in Node : ReportsKept(n)'
    BY <2>1 DEF ReportsKept, BillInv
  <2> QED BY <2>1, <2>2, <2>3, BillFrame DEF BillInv
<1> QED BY <1>1, <1>2

\* Nothing was carried yet.
LEMMA BillStarts == Init => BillInv
<1> SUFFICES ASSUME Init PROVE BillInv
  OBVIOUS
<1>1. <<>> \in Seq(Sent) /\ Len(<<>>) = 0 /\ MaxWire \in Nat /\ MaxBytes \in Nat /\ DOMAIN <<>> = {}
  BY EmptySeq, TrafficAssumption
<1>2. /\ counter = [n \in Node |-> 0] /\ wire = [n \in Node |-> <<>>]
      /\ seen = [n \in Node |-> None] /\ carried = 0 /\ again = 0
      /\ past = [n \in Node |-> [total |-> 0, told |-> 0, older |-> 0]]
      /\ rec = None /\ edit = None /\ job = None /\ resetting = FALSE
  BY DEF Init, Nothing
<1>3. TrafficTypeOK
  <2>1. counter \in [Node -> 0..MaxBytes] /\ carried \in 0..MaxBytes /\ again \in Nat
    BY <1>1, <1>2
  <2>2. wire \in [Node -> Seq(Sent)] /\ \A n \in Node : Len(wire[n]) <= MaxWire
    BY <1>1, <1>2
  <2>3. seen \in [Node -> 0..MaxBytes \cup {None}]
    BY <1>2
  <2>4. past \in [Node -> Past]
    BY <1>1, <1>2 DEF Past
  <2> QED BY <1>2, <2>1, <2>2, <2>3, <2>4, TypeParts, TypePartsStay DEF TypeIs
<1>4. \A n \in Node : ReportsKept(n)
  <2> SUFFICES ASSUME NEW n \in Node PROVE ReportsKept(n)
    OBVIOUS
  <2>1. /\ counter[n] = 0 /\ wire[n] = <<>> /\ seen[n] = None
        /\ past[n].total = 0 /\ past[n].told = 0 /\ past[n].older = 0
    BY <1>2
  <2>2. ReportsOrdered(wire[n], counter[n], seen[n], past[n])
    BY <1>1, <2>1 DEF ReportsOrdered
  <2> QED BY <1>1, <1>2, <2>1, <2>2 DEF ReportsKept
<1>5. Below(Totals) = {}
  <2>1. \A n \in Node : Totals[n] = 0
    BY <1>2 DEF Totals
  <2> QED BY <2>1 DEF Below
<1>6. IsFiniteSet(Below(Totals)) /\ Cardinality(Below(Totals)) = 0
  BY <1>5, FS_EmptySet
<1> QED BY <1>2, <1>3, <1>4, <1>6 DEF BillInv

LEMMA BilledWasCarried == BillInv => BillingSound
<1> SUFFICES ASSUME BillInv PROVE BillingSound
  OBVIOUS
<1>1. TrafficTypeOK /\ carried \in Nat /\ again \in Nat /\ Budget \in Nat /\ Budget <= carried + again
  BY TypesOfBilling, BudgetHolds DEF BillInv
<1>2. rec # None => rec.used \in Nat /\ rec.used <= Budget
  BY <1>1, UsedType DEF BillInv
<1>3. rec # None => rec.used <= carried + again
  BY <1>1, <1>2
<1> QED BY <1>1, <1>3 DEF BillingSound, NeverOverbills

\* A user is never billed for more than its nodes carried, but for what reports handled
\* after their successors repeat: for any number of nodes and of reports on their way,
\* any limits, edits, deletions and resets between two calls of the store, reports that
\* are lost and nodes that restart.
THEOREM BillingSoundHolds == SceneSpec => []BillingSound
<1>1. SceneInit => BillInv
  BY BillStarts DEF SceneInit
<1>2. BillInv /\ [SceneNext]_allVars => BillInv'
  BY BillStep DEF SceneNext, allVars
<1> QED BY <1>1, <1>2, BilledWasCarried, PTL DEF SceneSpec

-----------------------------------------------------------------------------
(* The processes of an engine.                                             *)

CmdStates == {"up", "listening", "killed", "dying", "gone", "reaped"}

\* The process kept is one that was started and not stopped since, and no other is alive.
EngineInv ==
  /\ emCmd \in Seq(CmdStates) /\ emProc \in 0..Len(emCmd)
  /\ Alive \subseteq {emProc}
  /\ emProc # 0 => emCmd[emProc] \in {"up", "listening", "gone"}

\* A process that takes another state.
LEMMA OtherState ==
  ASSUME emCmd \in Seq(CmdStates), NEW c \in DOMAIN emCmd, NEW state \in CmdStates,
         emCmd' = [emCmd EXCEPT ![c] = state]
  PROVE  /\ emCmd' \in Seq(CmdStates) /\ Len(emCmd') = Len(emCmd)
         /\ DOMAIN emCmd' = DOMAIN emCmd /\ emCmd'[c] = state
         /\ \A d \in DOMAIN emCmd : d # c => emCmd'[d] = emCmd[d]
<1>1. emCmd' \in Seq(CmdStates) /\ Len(emCmd') = Len(emCmd)
  BY ExceptSeq
<1> QED BY <1>1

\* One that is started, when none is kept.
LEMMA NewProcess ==
  ASSUME EngineInv, emProc = 0, NEW state \in {"up", "listening", "gone"},
         emCmd' = Append(emCmd, state), emProc' = Len(emCmd) + 1
  PROVE  EngineInv'
<1>1. emCmd \in Seq(CmdStates) /\ Alive \subseteq {0} /\ state \in CmdStates
  BY DEF EngineInv, CmdStates
<1>2. Len(emCmd) \in Nat /\ DOMAIN emCmd = 1..Len(emCmd)
  BY <1>1, LenProperties
<1>3. /\ emCmd' \in Seq(CmdStates) /\ Len(emCmd') = Len(emCmd) + 1
      /\ \A d \in 1..Len(emCmd) : emCmd'[d] = emCmd[d]
      /\ emCmd'[Len(emCmd) + 1] = state
  BY <1>1, AppendProperties
<1>4. DOMAIN emCmd' = 1..(Len(emCmd) + 1)
  BY <1>3, LenProperties
<1> DEFINE k == Len(emCmd)
<1>5. k \in Nat /\ emProc' = k + 1 /\ DOMAIN emCmd' = 1..(k + 1) /\ DOMAIN emCmd = 1..k
      /\ Len(emCmd') = k + 1 /\ emCmd'[k + 1] = state /\ \A d \in 1..k : emCmd'[d] = emCmd[d]
  BY <1>2, <1>3, <1>4
<1> HIDE DEF k
<1>6. Alive' \subseteq {emProc'}
  <2> SUFFICES ASSUME NEW d \in DOMAIN emCmd', emCmd'[d] \in {"up", "listening"}, d # k + 1
               PROVE  FALSE
    BY <1>5 DEF Alive
  <2>1. d \in 1..k /\ d # 0
    BY <1>5
  <2> QED BY <1>1, <1>5, <2>1 DEF Alive
<1> QED BY <1>3, <1>5, <1>6 DEF EngineInv

\* One that is told to end, ends or is waited for.
LEMMA ProcessTurns ==
  ASSUME EngineInv, NEW c \in DOMAIN emCmd, NEW state \in CmdStates,
         emCmd' = [emCmd EXCEPT ![c] = state], emProc' \in {emProc, 0},
         emProc' = 0 => emProc \in {0, c},
         state \in {"up", "listening"} => c = emProc',
         emProc' = c => state \in {"up", "listening", "gone"}
  PROVE  EngineInv'
<1>1. /\ emCmd \in Seq(CmdStates) /\ Alive \subseteq {emProc} /\ emProc \in 0..Len(emCmd)
      /\ (emProc # 0 => emCmd[emProc] \in {"up", "listening", "gone"})
      /\ DOMAIN emCmd = 1..Len(emCmd)
  BY LenProperties DEF EngineInv
<1>2. /\ emCmd' \in Seq(CmdStates) /\ Len(emCmd') = Len(emCmd)
      /\ DOMAIN emCmd' = DOMAIN emCmd /\ emCmd'[c] = state
      /\ \A d \in DOMAIN emCmd : d # c => emCmd'[d] = emCmd[d]
  BY <1>1, OtherState
<1>3. Alive' \subseteq {emProc'}
  <2> SUFFICES ASSUME NEW d \in DOMAIN emCmd, emCmd'[d] \in {"up", "listening"}, d # emProc'
               PROVE  FALSE
    BY <1>2 DEF Alive
  <2>1. d # c
    BY <1>2
  <2>2. d \in Alive
    BY <1>2, <2>1 DEF Alive
  <2>3. d = emProc /\ emProc' = 0 /\ emProc \in {0, c}
    BY <1>1, <2>2
  <2>4. d # 0
    <3>1. Len(emCmd) \in Nat
      BY <1>1, LenProperties
    <3> QED BY <1>1, <3>1
  <2> QED BY <2>1, <2>3, <2>4
<1>4. emProc' # 0 => emCmd'[emProc'] \in {"up", "listening", "gone"}
  <2> SUFFICES ASSUME emProc' # 0, emProc' # c
               PROVE  emCmd'[emProc'] \in {"up", "listening", "gone"}
    BY <1>2
  <2>1. emProc' = emProc /\ emProc \in DOMAIN emCmd
    <3>1. Len(emCmd) \in Nat
      BY <1>1, LenProperties
    <3> QED BY <1>1, <3>1
  <2> QED BY <1>1, <1>2, <2>1
<1>5. emProc' \in 0..Len(emCmd')
  <2>1. Len(emCmd) \in Nat
    BY <1>1, LenProperties
  <2> QED BY <1>1, <1>2, <2>1
<1> QED BY <1>2, <1>3, <1>4, <1>5 DEF EngineInv

LEMMA EngineStep == EngineInv /\ [EngineNext]_engineVars => EngineInv'
<1> SUFFICES ASSUME EngineInv, [EngineNext]_engineVars PROVE EngineInv'
  OBVIOUS
<1>1. /\ emCmd \in Seq(CmdStates) /\ Alive \subseteq {emProc} /\ emProc \in 0..Len(emCmd)
      /\ (emProc # 0 => emCmd[emProc] \in {"up", "listening", "gone"})
      /\ DOMAIN emCmd = 1..Len(emCmd) /\ Len(emCmd) \in Nat
  BY LenProperties DEF EngineInv
<1>2. ASSUME UNCHANGED <<emProc, emCmd>> PROVE EngineInv'
  BY <1>2 DEF EngineInv, Alive
<1>3. CASE Start
  <2>1. CASE statusOf(emProc, emCmd, emOther).running \/ ~command
    BY <1>2, <1>3, <2>1 DEF Start
  <2>2. CASE ~(statusOf(emProc, emCmd, emOther).running \/ ~command)
    <3>1. emProc = 0
      BY <2>2 DEF statusOf
    <3>2. CASE UNCHANGED <<emProc, emCmd>>
      BY <1>2, <3>2
    <3>3. CASE \E state \in {"up", "listening", "gone"} :
                 emCmd' = Append(emCmd, state) /\ emProc' = Len(emCmd) + 1
      BY <3>1, <3>3, NewProcess
    <3> QED BY <1>3, <2>2, <3>2, <3>3 DEF Start
  <2> QED BY <2>1, <2>2
<1>4. CASE Stop
  <2>1. emProc' = 0
    BY <1>4 DEF Stop
  <2>2. CASE emProc # 0 /\ emCmd[emProc] \in {"up", "listening"}
    <3> DEFINE state == IF emCmd[emProc] = "up" THEN "killed" ELSE "dying"
    <3>1. emCmd' = [emCmd EXCEPT ![emProc] = state] /\ state \in CmdStates
      BY <1>4, <2>2 DEF Stop, CmdStates
    <3>2. emProc \in DOMAIN emCmd /\ state \notin {"up", "listening"}
      BY <1>1, <2>2
    <3> HIDE DEF state
    <3>3. emProc' # emProc
      BY <2>1, <2>2
    <3> QED BY <2>1, <3>1, <3>2, <3>3, ProcessTurns
  <2>3. CASE ~(emProc # 0 /\ emCmd[emProc] \in {"up", "listening"})
    <3>1. emCmd' = emCmd
      BY <1>4, <2>3 DEF Stop
    <3>2. Alive = {}
      <4> SUFFICES ASSUME NEW c \in Alive PROVE FALSE
        OBVIOUS
      <4>1. c = emProc /\ c \in 1..Len(emCmd) /\ emCmd[c] \in {"up", "listening"}
        BY <1>1 DEF Alive
      <4> QED BY <1>1, <2>3, <4>1
    <3>3. Alive' = {}
      BY <3>1, <3>2 DEF Alive
    <3> QED BY <1>1, <2>1, <3>1, <3>3 DEF EngineInv
  <2> QED BY <2>2, <2>3
<1>5. ASSUME NEW c \in DOMAIN emCmd, Listens(c) \/ Ends(c), emProc' = emProc PROVE EngineInv'
  <2>1. emProc \in {emProc, 0} /\ (emProc = 0 => emProc \in {0, c})
    OBVIOUS
  <2>2. CASE Listens(c)
    <3>1. emCmd' = [emCmd EXCEPT ![c] = "listening"] /\ c \in Alive
      BY <2>2 DEF Listens, Alive
    <3>2. c = emProc
      BY <1>1, <3>1
    <3> QED BY <1>5, <2>1, <3>1, <3>2, ProcessTurns DEF CmdStates
  <2>3. CASE Ends(c)
    BY <1>5, <2>1, <2>3, ProcessTurns DEF Ends, CmdStates
  <2> QED BY <1>5, <2>2, <2>3
<1>6. ASSUME NEW c \in DOMAIN emCmd, reaped(c) PROVE EngineInv'
  <2>1. emCmd' = [emCmd EXCEPT ![c] = "reaped"] /\ emProc' = IF emProc = c THEN 0 ELSE emProc
    BY <1>6 DEF reaped
  <2>2. c # 0
    BY <1>1
  <2>3. emProc' \in {emProc, 0} /\ (emProc' = 0 => emProc \in {0, c}) /\ emProc' # c
    BY <2>1, <2>2
  <2> QED BY <2>1, <2>3, ProcessTurns DEF CmdStates
<1>7. CASE Status \/ Somebody \/ UNCHANGED engineVars
  BY <1>2, <1>7 DEF Status, Somebody, engineVars
<1> QED BY <1>3, <1>4, <1>5, <1>6, <1>7 DEF EngineNext

LEMMA EngineStarts == ASSUME NEW s, EngineInit(s) PROVE EngineInv
<1>1. emCmd = <<>> /\ emProc = 0
  BY DEF EngineInit
<1>2. emCmd \in Seq(CmdStates) /\ Len(emCmd) = 0 /\ DOMAIN emCmd = {}
  BY <1>1, EmptySeq
<1> QED BY <1>1, <1>2 DEF EngineInv, Alive

\* Whatever order calls, ends of processes and the goroutines that wait for them come in,
\* at most one process was started and not told to end, and it is the one kept; no process
\* that was stopped is shown.  For any number of calls and of processes.
THEOREM EngineSoundHolds ==
  ASSUME NEW s PROVE EngineInit(s) /\ [][EngineNext]_engineVars => []EngineSound
<1>1. EngineInit(s) => EngineInv
  BY EngineStarts
<1>2. EngineInv => EngineSound
  BY DEF EngineInv, EngineSound, OneProcess, ShownIsKept
<1> QED BY <1>1, <1>2, EngineStep, PTL

-----------------------------------------------------------------------------
(* What the console shows.                                                 *)

Fields == {"at", "users", "tuns", "nodes", "live", "left", "answer"}
FrameInv(s) ==
  /\ DOMAIN vwScene = DOMAIN NoView /\ vwScene.asks = s.asks /\ vwScene.edits \subseteq s.edits
  /\ DOMAIN vwWorld = WorldParts /\ Keyed(vwWorld) /\ LiveOK(vwKnown)
  /\ \A p \in WorldParts : PartOK(p, vwWorld[p])
  /\ DOMAIN vwJob = Views /\ \A q \in Views : DOMAIN vwJob[q] = Fields

Now == Holding(vwWorld, vwKnown)
At(q) == vwJob[q].at

\* What holds did so at some time of a request under way, and what did all the time holds.
InOrder(x) ==
  Keyed(x) /\ (\A u \in x.users : u.name # "") /\ (\A n \in x.nodes : n.id # "")
GhostInv ==
  \A q \in Views :
    /\ \A p \in Parts :
         /\ At(q) # "end" => Now[p] \subseteq vwEver[q][p] /\ vwAlways[q][p] \subseteq Now[p]
         /\ At(q) = "new" => vwEver[q][p] = Now[p] /\ vwAlways[q][p] = Now[p]
    /\ InOrder(vwAlways[q])

\* What a list has read: the users it may see, the tunnels, and the clients so far.
Mine(q, tuns) == {t \in tuns : Asked(q).admin \/ t.user = Asked(q).who}
ReadInv(q) == Asked(q).kind \in ListViews =>
  /\ At(q) \in {"new", "tuns", "frp", "nps", "remote", "probe", "add", "end"}
  /\ LiveOK(vwJob[q].live)
  /\ \A u \in vwJob[q].users : IsFiniteSet(u.ports) /\ (Asked(q).admin \/ u.name = Asked(q).who)
  /\ At(q) \in {"new", "tuns", "frp"} => vwJob[q].live = {}
  /\ At(q) \notin {"new", "tuns"} =>
       /\ vwJob[q].tuns \subseteq vwEver[q].tuns /\ Mine(q, vwAlways[q].tuns) \subseteq vwJob[q].tuns
       /\ IsFiniteSet(vwJob[q].tuns)
  /\ At(q) \in {"nps", "remote"} => vwJob[q].live \subseteq Of("local", vwEver[q].live)
  /\ At(q) = "nps" => \A x \in Of("local", vwAlways[q].live) :
                        x.engine = "frp" => x \in vwJob[q].live
  /\ At(q) = "remote" => Of("local", vwAlways[q].live) \subseteq vwJob[q].live
  /\ At(q) \in {"probe", "add"} /\ Asked(q).kind # "diagnostics" =>
       vwJob[q].live \subseteq MaySee(q) /\ MustSee(q) \subseteq vwJob[q].live

\* Availability.
TrueState(q, a) ==
  LET t == a.t IN
  /\ a.state = "ok" =>
       /\ t \in vwEver[q].tuns /\ t.on
       /\ \E s \in MaySee(q) : Of2(t, s) /\ s.online
       /\ \E o \in vwEver[q].open :
            /\ o.port = t.port /\ (t.mode = "http" => ~o.fails)
            /\ o.addr \in Addrs(vwEver[q].nodes, t.node) \cup {"control"}
  /\ a.state = "down" =>
       ~ /\ \E s \in MustSee(q) : Of2(t, s) /\ s.online
         /\ \E o \in vwAlways[q].open, n \in vwAlways[q].nodes :
              n.id = t.node /\ o.port = t.port /\ o.addr = addrIn({n}, t.node)
TrueAddr(q, r) ==
  /\ r.t \in vwEver[q].tuns
  /\ r.addr \in Addrs(vwEver[q].nodes, r.t.node) \cup {"control"}
  /\ \A n \in vwAlways[q].nodes : n.id = r.t.node => r.addr = addrIn({n}, r.t.node)
AvailInv(q) == Asked(q).kind = "availability" =>
  /\ At(q) = "probe" => vwJob[q].left \subseteq vwEver[q].tuns
  /\ At(q) \notin {"probe", "end"} => vwJob[q].nodes = {} /\ vwJob[q].answer = {}
  /\ At(q) # "end" => \A r \in vwJob[q].nodes : TrueAddr(q, r)
  /\ \A a \in vwJob[q].answer : TrueState(q, a)

\* Clients.
ClientOn(live, a) == \E s \in live : s.user = a.user /\ s.engine = a.engine /\ s.online
ClientInv(q) == Asked(q).kind = "clients" /\ At(q) = "end" =>
  \A a \in vwJob[q].answer :
    (ClientOn(MustSee(q), a) => a.online) /\ (a.online => ClientOn(MaySee(q), a))

\* Bootstrap.
ServedOf(q, x) == {t \in x.tuns : t.user = Asked(q).who /\ t.on
                                    /\ \E n \in x.nodes : n.id = t.node /\ n.on}
BootInv(q) == Asked(q).kind = "bootstrap" =>
  /\ At(q) \in {"new", "tuns", "nodes", "404", "end"}
  /\ At(q) = "nodes" => \A t \in vwJob[q].tuns : t \in vwEver[q].tuns /\ t.user = Asked(q).who
  /\ At(q) = "nodes" => \A t \in vwAlways[q].tuns : t.user = Asked(q).who => t \in vwJob[q].tuns
  /\ At(q) = "end" =>
       /\ ServedOf(q, vwAlways[q]) \subseteq {a.t : a \in vwJob[q].answer}
       /\ {a.t : a \in vwJob[q].answer} \subseteq ServedOf(q, vwEver[q])
       /\ \A a \in vwJob[q].answer : a.addr \in Addrs(vwEver[q].nodes, a.t.node)

\* Diagnostics.
UsageInv(q) == Asked(q).kind = "diagnostics" /\ At(q) = "end" =>
  \A a \in vwJob[q].answer :
    LET left(mode) == a.user.ports \ PortsUsed(vwEver[q].tuns, a.user, {mode}) IN
    vwEver[q] = vwAlways[q] =>
      /\ a.tcpFree >= 0 /\ (a.tcpFree > 0 => left("tcp") # {})
      /\ a.udpFree >= 0 /\ (a.udpFree > 0 => left("udp") # {})

\* Export: every file is of a user and a node that somebody who exports has seen,
MadeOf(f) ==
  \/ f.user = ""
  \/ \E r \in Views : /\ Asked(r).kind = "export" /\ At(r) # "new"
       /\ \E u \in vwEver[r].users : f.user = u.name /\ f.key = {u.key}
       /\ \/ f.node = ""
          \/ \E n \in vwEver[r].nodes : f.node = n.id /\ f.addr = addrIn({n}, n.id)
FilesInv == \A f \in vwFiles : MadeOf(f)

\* and those of the users and the nodes there were all the time are written one by one.
HasFile(name, id) == \E f \in vwFiles : f.user = name /\ f.node = id
HasFiles(q, u) ==
  /\ HasFile(u.name, "")
  /\ \A t \in vwAlways[q].tuns, n \in vwAlways[q].nodes :
       t.user = u.name /\ n.id = t.node => HasFile(u.name, n.id)
ExportInv(q) == Asked(q).kind = "export" =>
  /\ At(q) \in {"new", "list", "user", "node", "500", "end"}
  /\ At(q) \in {"list", "user", "node"} =>
       \A u \in vwJob[q].users : u \in vwEver[q].users /\ u.name # ""
  /\ At(q) = "list" => vwAlways[q].users \subseteq vwJob[q].users
  /\ At(q) \in {"user", "node"} =>
       /\ \A n \in vwJob[q].nodes : n \in vwEver[q].nodes /\ n.id # ""
       /\ vwAlways[q].nodes \subseteq vwJob[q].nodes
  /\ At(q) \in {"user", "node", "end"} =>
       \A u \in vwAlways[q].users : HasFiles(q, u) \/ (At(q) # "end" /\ u \in vwJob[q].users)
  /\ At(q) = "node" =>
       \E u \in vwJob[q].users :
         /\ \A t \in vwAlways[q].tuns : t.user = u.name => t \in vwJob[q].tuns
         /\ vwJob[q].left \subseteq {[u |-> u, n |-> n] : n \in vwJob[q].nodes}
         /\ HasFile(u.name, "")
         /\ \A t \in vwJob[q].tuns, n \in vwJob[q].nodes :
              n.id = t.node => [u |-> u, n |-> n] \in vwJob[q].left \/ HasFile(u.name, n.id)

ViewInv(s) ==
  /\ FrameInv(s) /\ GhostInv /\ FilesInv
  /\ \A q \in Views : ReadInv(q) /\ AvailInv(q) /\ ClientInv(q) /\ BootInv(q)
                        /\ UsageInv(q) /\ ExportInv(q)

\* One field of a request besides where it is.
LEMMA ReadSets ==
  ASSUME NEW s, FrameInv(s), NEW q \in Views, NEW part \in Fields \ {"at"}, NEW at, NEW val,
         Read(q, at, part, val)
  PROVE  /\ DOMAIN vwJob' = Views /\ \A r \in Views : DOMAIN vwJob'[r] = Fields
         /\ \A r \in Views : r # q => vwJob'[r] = vwJob[r]
         /\ vwJob'[q].at = at /\ vwJob'[q][part] = val
         /\ \A f \in Fields \ {"at", part} : vwJob'[q][f] = vwJob[q][f]
<1>1. DOMAIN vwJob = Views /\ \A r \in Views : DOMAIN vwJob[r] = Fields
  BY DEF FrameInv
<1>2. vwJob' = [vwJob EXCEPT ![q] = [[@ EXCEPT !.at = at] EXCEPT ![part] = val]]
  BY <1>1 DEF Read
<1>3. "at" \in Fields /\ part \in Fields /\ part # "at"
  BY DEF Fields
<1> QED BY <1>1, <1>2, <1>3

\* A handler that makes a step, and what it leaves alone.
Frames(q) ==
  /\ UNCHANGED <<vwWorld, vwKnown>>
  /\ DOMAIN vwScene' = DOMAIN vwScene /\ vwScene'.asks = vwScene.asks
  /\ vwScene'.edits = vwScene.edits
  /\ DOMAIN vwJob' = Views /\ \A r \in Views : DOMAIN vwJob'[r] = Fields
  /\ \A r \in Views : r # q => vwJob'[r] = vwJob[r]
  /\ At(q) # "end" /\ At(q)' # "new"

LEMMA StepFrames ==
  ASSUME NEW s, FrameInv(s), NEW q \in Views, ViewStep(q)
  PROVE  Frames(q)
<1>1. /\ DOMAIN vwJob = Views /\ \A r \in Views : DOMAIN vwJob[r] = Fields
      /\ DOMAIN vwScene = {"world", "edits", "asks", "reports", "failures"}
  BY DEF FrameInv, NoView
<1>2. CASE Users(q)
  BY <1>2, ReadSets DEF Users, Fields, Frames, ViewAt, reading, At
<1>3. CASE ListTunnels(q)
  <2> DEFINE at == IF Asked(q).kind = "diagnostics" THEN "add" ELSE "frp"
  <2>1. Read(q, at, "tuns", filterTunnelsByUser(q, vwWorld.tuns)) /\ at # "new"
    BY <1>3 DEF ListTunnels
  <2> HIDE DEF at
  <2> QED BY <1>3, <2>1, ReadSets DEF ListTunnels, Fields, Frames, ViewAt, reading, At
<1>4. CASE FRPClientStatuses(q)
  BY <1>4, ReadSets DEF FRPClientStatuses, Fields, Frames, ViewAt, reading, At
<1>5. CASE NPSClientStatuses(q)
  BY <1>5, ReadSets DEF NPSClientStatuses, Fields, Frames, ViewAt, reading, At
<1>6. CASE allClientStatuses(q)
  BY <1>1, <1>6 DEF allClientStatuses, Fields, Frames, ViewAt, reading, At
<1>7. CASE runtimeForTunnel(q)
  BY <1>1, <1>7 DEF runtimeForTunnel, Fields, Frames, ViewAt, reading, At
<1>8. CASE checkTunnelAvailability(q)
  BY <1>1, <1>8 DEF checkTunnelAvailability, Fields, Frames, ViewAt, reading, At
<1>9. CASE listAvailability(q)
  BY <1>9, ReadSets DEF listAvailability, Answer, Fields, Frames, ViewAt, reading, At
<1>10. CASE clientStatusesFor(q)
  BY <1>10, ReadSets DEF clientStatusesFor, Answer, Fields, Frames, ViewAt, reading, At
<1>11. CASE resourceUsageFor(q)
  BY <1>11, ReadSets DEF resourceUsageFor, Answer, Fields, Frames, ViewAt, reading, At
<1>12. CASE GetUser(q)
  BY <1>12, ReadSets DEF GetUser, Answer, Fields, Frames, ViewAt, reading, At
<1>13. CASE BootstrapTunnels(q)
  BY <1>13, ReadSets DEF BootstrapTunnels, Fields, Frames, ViewAt, reading, At
<1>14. CASE clientBootstrap(q)
  BY <1>14, ReadSets DEF clientBootstrap, Answer, Fields, Frames, ViewAt, reading, At
<1>15. CASE ListNodes(q)
  BY <1>15, ReadSets DEF ListNodes, Fields, Frames, ViewAt, reading, At
<1>16. ASSUME NEW file, NEW next, Write(q, file, next), At(q) # "end",
              DOMAIN next = Views, \A r \in Views : DOMAIN next[r] = Fields,
              \A r \in Views : r # q => next[r] = vwJob[r], next[q].at # "new"
       PROVE  Frames(q)
  <2>1. UNCHANGED <<vwWorld, vwKnown>>
    BY <1>16 DEF Write, exporting
  <2>2. CASE vwJob' = next /\ vwScene' = vwScene
    BY <1>16, <2>1, <2>2 DEF Frames, At
  <2>3. CASE vwScene' = [vwScene EXCEPT !.failures = @ - 1] /\ Read(q, "500", "left", {})
    BY <1>1, <1>16, <2>1, <2>3, ReadSets DEF Fields, Frames, At
  <2> QED BY <1>16, <2>2, <2>3 DEF Write
<1>17. CASE ExportUsers(q)
  <2>1. PICK next : /\ next = [vwJob EXCEPT ![q].at = "list", ![q].users = vwWorld.users]
                    /\ Write(q, ExportNPSClients(vwWorld.users), next)
    BY <1>17 DEF ExportUsers
  <2>2. /\ DOMAIN next = Views /\ \A r \in Views : DOMAIN next[r] = Fields
        /\ \A r \in Views : r # q => next[r] = vwJob[r]
        /\ next[q].at = "list"
    BY <1>1, <2>1 DEF Fields
  <2>3. At(q) # "end"
    BY <1>17 DEF ExportUsers, ViewAt, At
  <2>4. Write(q, ExportNPSClients(vwWorld.users), next) /\ next[q].at # "new"
    BY <2>1, <2>2
  <2> QED BY <1>16, <2>2, <2>3, <2>4
<1>18. CASE ExportUser(q)
  <2>1. CASE vwJob[q].users = {}
    BY <1>18, <2>1, ReadSets DEF ExportUser, Answer, Fields, Frames, ViewAt, reading, At
  <2>2. CASE vwJob[q].users # {}
    <3>1. PICK u, next :
            /\ u \in vwJob[q].users
            /\ next = [vwJob EXCEPT ![q].at = "node",
                     ![q].tuns = {t \in vwWorld.tuns : t.user = u.name},
                     ![q].left = {[u |-> u, n |-> n] : n \in vwJob[q].nodes}]
            /\ Write(q, RenderNPCCommand(u, "", "control"), next)
      BY <1>18, <2>2 DEF ExportUser
    <3>2. /\ DOMAIN next = Views /\ \A r \in Views : DOMAIN next[r] = Fields
          /\ \A r \in Views : r # q => next[r] = vwJob[r]
          /\ next[q].at = "node"
      BY <1>1, <3>1 DEF Fields
    <3>3. At(q) # "end"
      BY <1>18 DEF ExportUser, ViewAt, At
    <3>4. Write(q, RenderNPCCommand(u, "", "control"), next) /\ next[q].at # "new"
      BY <3>1, <3>2
    <3> QED BY <1>16, <3>2, <3>3, <3>4
  <2> QED BY <2>1, <2>2
<1>19. CASE ExportNode(q)
  <2>1. PICK x, rest, next :
          /\ x \in vwJob[q].left
          /\ next = [vwJob EXCEPT ![q].left = rest,
                                 ![q].at = IF rest = {} THEN "user" ELSE "node",
                                 ![q].users = IF rest = {} THEN @ \ {x.u} ELSE @]
          /\ \/ Write(q, RenderNPCCommand(x.u, x.n.id, addrIn({x.n}, x.n.id)), next)
             \/ reading /\ vwJob' = next
    BY <1>19 DEF ExportNode
  <2>2. /\ DOMAIN next = Views /\ \A r \in Views : DOMAIN next[r] = Fields
        /\ \A r \in Views : r # q => next[r] = vwJob[r]
    BY <1>1, <2>1
  <2>3. next[q].at # "new"
    BY <1>1, <2>1 DEF Fields
  <2>4. At(q) # "end"
    BY <1>19 DEF ExportNode, ViewAt, At
  <2>5. CASE reading /\ vwJob' = next
    BY <2>2, <2>3, <2>4, <2>5 DEF Frames, reading, At
  <2>6. CASE Write(q, RenderNPCCommand(x.u, x.n.id, addrIn({x.n}, x.n.id)), next)
    BY <1>16, <2>2, <2>3, <2>4, <2>6
  <2> QED BY <2>1, <2>5, <2>6
<1> QED BY <1>2, <1>3, <1>4, <1>5, <1>6, <1>7, <1>8, <1>9, <1>10, <1>11, <1>12, <1>13, <1>14,
           <1>15, <1>17, <1>18, <1>19 DEF ViewStep

\* What is of two parts that are in order is.
LEMMA PartOfTwo ==
  ASSUME NEW p, NEW a, NEW b, PartOK(p, a), PartOK(p, b), NEW c, c \subseteq a \cup b
  PROVE  PartOK(p, c)
<1>1. IsFiniteSet(a) /\ IsFiniteSet(b) => IsFiniteSet(c)
  BY FS_Union, FS_Subset
<1>2. p = "live" => LiveOK(c)
  <2> SUFFICES ASSUME p = "live" PROVE LiveOK(c)
    OBVIOUS
  <2>1. LiveOK(a) /\ LiveOK(b)
    BY DEF PartOK
  <2> QED BY <1>1, <2>1 DEF LiveOK
<1>3. p = "tuns" => IsFiniteSet(c)
  BY <1>1 DEF PartOK
<1>4. p = "users" => \A u \in c : IsFiniteSet(u.ports) /\ u.name # ""
  BY DEF PartOK
<1>5. p = "nodes" => \A n \in c : n.id # ""
  BY DEF PartOK
<1> QED BY <1>2, <1>3, <1>4, <1>5 DEF PartOK

LEMMA LiveOfTwo ==
  ASSUME NEW a, NEW b, LiveOK(a), LiveOK(b), NEW c, c \subseteq a \cup b
  PROVE  LiveOK(c)
<1>1. IsFiniteSet(c)
  BY FS_Union, FS_Subset DEF LiveOK
<1> QED BY <1>1 DEF LiveOK

\* A change of the world, and a report of a node.
LEMMA WorldFrames ==
  ASSUME NEW s, SceneOK(s), FrameInv(s), Change \/ setRemoteClientStatuses
  PROVE  FrameInv(s)' /\ Views' = Views /\ vwJob' = vwJob /\ vwFiles' = vwFiles
<1>1. /\ DOMAIN vwScene = DOMAIN NoView /\ vwScene.asks = s.asks /\ vwScene.edits \subseteq s.edits
      /\ DOMAIN vwWorld = WorldParts /\ Keyed(vwWorld) /\ LiveOK(vwKnown)
      /\ \A p \in WorldParts : PartOK(p, vwWorld[p])
      /\ DOMAIN vwJob = Views /\ \A q \in Views : DOMAIN vwJob[q] = Fields
  BY DEF FrameInv
<1>2. /\ DOMAIN vwScene' = DOMAIN NoView /\ vwScene'.asks = s.asks
      /\ vwScene'.edits \subseteq s.edits
  BY <1>1 DEF Change, setRemoteClientStatuses, NoView
<1>3. vwJob' = vwJob /\ vwFiles' = vwFiles /\ Views' = Views
  BY <1>1, <1>2 DEF Change, setRemoteClientStatuses, Views
<1>4. CASE Change
  <2>1. PICK e \in s.edits :
          /\ vwWorld' = [vwWorld EXCEPT ![e.part] = (@ \ e.out) \cup e.in]
          /\ Keyed(vwWorld') /\ vwKnown' = vwKnown
    BY <1>1, <1>4 DEF Change
  <2>2. e.part \in WorldParts /\ PartOK(e.part, e.in)
    BY DEF SceneOK
  <2>3. PartOK(e.part, (vwWorld[e.part] \ e.out) \cup e.in)
    BY <1>1, <2>2, PartOfTwo
  <2>4. DOMAIN vwWorld' = WorldParts /\ \A p \in WorldParts : PartOK(p, vwWorld'[p])
    <3>1. ASSUME NEW p \in WorldParts PROVE PartOK(p, vwWorld'[p])
      <4>1. CASE p = e.part
        <5>1. vwWorld'[p] = (vwWorld[e.part] \ e.out) \cup e.in
          BY <1>1, <2>1, <4>1
        <5> QED BY <2>3, <4>1, <5>1
      <4>2. CASE p # e.part
        <5>1. vwWorld'[p] = vwWorld[p]
          BY <1>1, <2>1, <4>2
        <5> QED BY <1>1, <5>1
      <4> QED BY <4>1, <4>2
    <3> QED BY <1>1, <2>1, <3>1
  <2>5. DOMAIN vwJob' = Views' /\ \A q \in Views' : DOMAIN vwJob'[q] = Fields
    BY <1>1, <1>3
  <2>6. Keyed(vwWorld)' /\ LiveOK(vwKnown)'
    BY <1>1, <2>1 DEF LiveOK, Keyed
  <2>7. (\A p \in WorldParts : PartOK(p, vwWorld[p]))'
    BY <2>4 DEF PartOK, LiveOK
  <2> QED BY <1>2, <1>3, <2>4, <2>5, <2>6, <2>7 DEF FrameInv
<1>5. CASE setRemoteClientStatuses
  <2>1. vwWorld' = vwWorld /\ vwKnown' \subseteq vwKnown \cup vwWorld.live
    BY <1>5 DEF setRemoteClientStatuses, Of
  <2>2. LiveOK(vwWorld.live)
    BY <1>1 DEF WorldParts, Parts, PartOK
  <2>3. LiveOK(vwKnown')
    BY <1>1, <2>1, <2>2, LiveOfTwo
  <2>4. DOMAIN vwJob' = Views' /\ \A q \in Views' : DOMAIN vwJob'[q] = Fields
    BY <1>1, <1>3
  <2>5. Keyed(vwWorld)' /\ LiveOK(vwKnown)' /\ DOMAIN vwWorld' = WorldParts
    BY <1>1, <2>1, <2>3 DEF LiveOK, Keyed
  <2>6. (\A p \in WorldParts : PartOK(p, vwWorld[p]))'
    BY <1>1, <2>1 DEF PartOK, LiveOK
  <2> QED BY <1>2, <1>3, <2>4, <2>5, <2>6 DEF FrameInv
<1> QED BY <1>3, <1>4, <1>5

\* A step of a handler.
LEMMA HandlerFrames ==
  ASSUME NEW s, FrameInv(s), NEW q \in Views, ViewStep(q)
  PROVE  FrameInv(s)' /\ Views' = Views
<1>1. /\ DOMAIN vwScene = DOMAIN NoView /\ vwScene.asks = s.asks /\ vwScene.edits \subseteq s.edits
      /\ DOMAIN vwWorld = WorldParts /\ Keyed(vwWorld) /\ LiveOK(vwKnown)
      /\ \A p \in WorldParts : PartOK(p, vwWorld[p])
  BY DEF FrameInv
<1>2. /\ vwWorld' = vwWorld /\ vwKnown' = vwKnown /\ DOMAIN vwScene' = DOMAIN vwScene
      /\ vwScene'.asks = vwScene.asks /\ vwScene'.edits = vwScene.edits
      /\ DOMAIN vwJob' = Views /\ \A r \in Views : DOMAIN vwJob'[r] = Fields
  BY StepFrames DEF Frames
<1>3. Views' = Views
  BY <1>2 DEF Views
<1>4. Keyed(vwWorld)' /\ LiveOK(vwKnown)' /\ (\A p \in WorldParts : PartOK(p, vwWorld[p]))'
  BY <1>1, <1>2 DEF Keyed, LiveOK, PartOK
<1> QED BY <1>1, <1>2, <1>3, <1>4 DEF FrameInv

LEMMA FrameStep ==
  ASSUME NEW s, SceneOK(s), FrameInv(s), ViewNext
  PROVE  FrameInv(s)' /\ Views' = Views
BY WorldFrames, HandlerFrames DEF ViewNext

\* What held at some time grows with time, what held all the time shrinks, and what holds
\* now is between them.
Grows(q) == \A p \in Parts : vwEver[q][p] \subseteq vwEver[q][p]' /\ vwAlways[q][p]' \subseteq vwAlways[q][p]
Holds(q) == \A p \in Parts : Now[p]' \subseteq vwEver[q][p]' /\ vwAlways[q][p]' \subseteq Now[p]'
Ghosts(q) == (At(q) # "new" => Grows(q)) /\ (At(q) # "end" => Holds(q))
               /\ (At(q)' = "end" \/ At(q) # "end")
               /\ (At(q) = "end" => vwEver'[q] = vwEver[q] /\ vwAlways'[q] = vwAlways[q])

LEMMA GhostStep ==
  ASSUME NEW s, SceneOK(s), FrameInv(s), GhostInv, ViewNext
  PROVE  GhostInv' /\ \A q \in Views : Ghosts(q)
<1>1. Watch /\ FrameInv(s)' /\ Views' = Views
  BY FrameStep DEF ViewNext
<1>2. InOrder(vwWorld')
  BY <1>1 DEF FrameInv, WorldParts, Parts, PartOK, InOrder, Keyed
<1> SUFFICES ASSUME NEW q \in Views
             PROVE  /\ Ghosts(q)
                    /\ \A p \in Parts :
                         /\ At(q)' # "end" => Now[p]' \subseteq vwEver[q][p]' /\ vwAlways[q][p]' \subseteq Now[p]'
                         /\ At(q)' = "new" => vwEver[q][p]' = Now[p]' /\ vwAlways[q][p]' = Now[p]'
                    /\ InOrder(vwAlways[q])'
  BY <1>1 DEF GhostInv
<1>3. /\ At(q)' = "new" => At(q) = "new"
      /\ At(q)' # "end" => At(q) # "end"
  <2>1. CASE Change \/ setRemoteClientStatuses
    BY <2>1, WorldFrames DEF At
  <2>2. CASE \E r \in Views : ViewStep(r)
    <3>1. PICK r \in Views : ViewStep(r)
      BY <2>2
    <3>2. Frames(r)
      BY <3>1, StepFrames
    <3> QED BY <3>2 DEF Frames, At
  <2> QED BY <2>1, <2>2 DEF ViewNext
<1> DEFINE now == Now'
<1>4. now = Holding(vwWorld', vwKnown')
  BY DEF Now, Holding
<1>5. /\ At(q) = "new" => vwEver'[q] = now /\ vwAlways'[q] = now
      /\ At(q) = "end" => vwEver'[q] = vwEver[q] /\ vwAlways'[q] = vwAlways[q]
      /\ At(q) \notin {"new", "end"} =>
           \A p \in Parts : /\ vwEver'[q][p] = vwEver[q][p] \cup now[p]
                            /\ vwAlways'[q][p] = vwAlways[q][p] \cap now[p]
  BY <1>1, <1>4 DEF Watch, At
<1>6. now.users = vwWorld'.users /\ now.nodes = vwWorld'.nodes
  BY <1>4 DEF Holding, Parts
<1> HIDE DEF now
<1>7. Ghosts(q)
  BY <1>3, <1>5 DEF Ghosts, Grows, Holds, now
<1>8. ASSUME NEW p \in Parts
      PROVE  /\ At(q)' # "end" => now[p] \subseteq vwEver[q][p]' /\ vwAlways[q][p]' \subseteq now[p]
             /\ At(q)' = "new" => vwEver[q][p]' = now[p] /\ vwAlways[q][p]' = now[p]
  BY <1>3, <1>5
<1>9. InOrder(vwAlways'[q])
  <2>1. CASE At(q) = "new"
    BY <1>2, <1>5, <1>6, <2>1 DEF InOrder, Keyed
  <2>2. CASE At(q) # "new"
    <3>1. InOrder(vwAlways[q])
      BY DEF GhostInv
    <3>2. "users" \in Parts /\ "nodes" \in Parts
      BY DEF Parts
    <3>3. /\ vwAlways'[q].users \subseteq vwAlways[q].users
          /\ vwAlways'[q].nodes \subseteq vwAlways[q].nodes
      BY <1>5, <2>2, <3>2
    <3> QED BY <3>1, <3>3 DEF InOrder, Keyed
  <2> QED BY <2>1, <2>2
<1>10. InOrder(vwAlways[q])'
  BY <1>9 DEF InOrder, Keyed
<1> QED BY <1>7, <1>8, <1>10 DEF now

-----------------------------------------------------------------------------
(* A request that makes no step keeps what it is.                          *)

FilesGrow == \A f \in vwFiles : \E g \in vwFiles' : g.user = f.user /\ g.node = f.node
Keeps(q) == vwJob'[q] = vwJob[q] /\ Asked(q)' = Asked(q) /\ Ghosts(q) /\ FilesGrow

LEMMA GrowsParts ==
  ASSUME NEW q, Grows(q)
  PROVE  /\ vwEver[q].users \subseteq vwEver'[q].users /\ vwAlways'[q].users \subseteq vwAlways[q].users
         /\ vwEver[q].tuns \subseteq vwEver'[q].tuns /\ vwAlways'[q].tuns \subseteq vwAlways[q].tuns
         /\ vwEver[q].nodes \subseteq vwEver'[q].nodes /\ vwAlways'[q].nodes \subseteq vwAlways[q].nodes
         /\ vwEver[q].live \subseteq vwEver'[q].live /\ vwAlways'[q].live \subseteq vwAlways[q].live
         /\ vwEver[q].open \subseteq vwEver'[q].open /\ vwAlways'[q].open \subseteq vwAlways[q].open
         /\ vwEver[q].known \subseteq vwEver'[q].known /\ vwAlways'[q].known \subseteq vwAlways[q].known
         /\ MaySee(q) \subseteq MaySee(q)' /\ MustSee(q)' \subseteq MustSee(q)
<1>1. {"users", "tuns", "nodes", "live", "open", "known"} \subseteq Parts
  BY DEF Parts
<1> QED BY <1>1 DEF Grows, MaySee, MustSee, Of

LEMMA FilesStay ==
  ASSUME FilesGrow, NEW name, NEW id, HasFile(name, id)
  PROVE  HasFile(name, id)'
BY DEF FilesGrow, HasFile

LEMMA KeepRead ==
  ASSUME NEW q \in Views, ReadInv(q), Keeps(q)
  PROVE  ReadInv(q)'
<1> SUFFICES ASSUME Asked(q).kind \in ListViews PROVE ReadInv(q)'
  BY DEF Keeps, ReadInv
<1>1. vwJob'[q] = vwJob[q] /\ Asked(q)' = Asked(q) /\ At(q)' = At(q)
  BY DEF Keeps, At
<1>2. LiveOK(vwJob[q].live)' = LiveOK(vwJob[q].live)
  BY <1>1 DEF LiveOK
<1>3. CASE At(q) = "new"
  BY <1>1, <1>2, <1>3 DEF ReadInv
<1>4. CASE At(q) # "new"
  <2>1. /\ vwEver[q].tuns \subseteq vwEver'[q].tuns /\ vwAlways'[q].tuns \subseteq vwAlways[q].tuns
        /\ vwEver[q].live \subseteq vwEver'[q].live /\ vwAlways'[q].live \subseteq vwAlways[q].live
        /\ MaySee(q) \subseteq MaySee(q)' /\ MustSee(q)' \subseteq MustSee(q)
    BY <1>4, GrowsParts DEF Keeps, Ghosts
  <2> QED BY <1>1, <1>2, <1>4, <2>1 DEF ReadInv, Mine, Of
<1> QED BY <1>3, <1>4

\* What is true of an address and of a state stays so.
LEMMA TrueStays ==
  ASSUME NEW q, Grows(q)
  PROVE  /\ \A a : TrueState(q, a) => TrueState(q, a)'
         /\ \A r : TrueAddr(q, r) => TrueAddr(q, r)'
<1>1. /\ vwEver[q].tuns \subseteq vwEver'[q].tuns
      /\ vwEver[q].nodes \subseteq vwEver'[q].nodes /\ vwAlways'[q].nodes \subseteq vwAlways[q].nodes
      /\ vwEver[q].open \subseteq vwEver'[q].open /\ vwAlways'[q].open \subseteq vwAlways[q].open
      /\ MaySee(q) \subseteq MaySee(q)' /\ MustSee(q)' \subseteq MustSee(q)
  BY GrowsParts
<1>2. \A id : Addrs(vwEver[q].nodes, id) \subseteq Addrs(vwEver'[q].nodes, id)
  BY <1>1 DEF Addrs
<1>3. ASSUME NEW a, TrueState(q, a) PROVE TrueState(q, a)'
  BY <1>1, <1>2, <1>3 DEF TrueState, Of2
<1>4. ASSUME NEW r, TrueAddr(q, r) PROVE TrueAddr(q, r)'
  BY <1>1, <1>2, <1>4 DEF TrueAddr
<1> QED BY <1>3, <1>4

LEMMA KeepAvail ==
  ASSUME NEW q \in Views, AvailInv(q), Keeps(q)
  PROVE  AvailInv(q)'
<1> SUFFICES ASSUME Asked(q).kind = "availability" PROVE AvailInv(q)'
  BY DEF Keeps, AvailInv
<1>1. vwJob'[q] = vwJob[q] /\ Asked(q)' = Asked(q) /\ At(q)' = At(q)
  BY DEF Keeps, At
<1>2. CASE At(q) = "new"
  BY <1>1, <1>2 DEF AvailInv
<1>3. CASE At(q) # "new"
  <2>1. Grows(q) /\ vwEver[q].tuns \subseteq vwEver'[q].tuns
    BY <1>3, GrowsParts DEF Keeps, Ghosts
  <2>2. /\ \A a : TrueState(q, a) => TrueState(q, a)'
        /\ \A r : TrueAddr(q, r) => TrueAddr(q, r)'
    BY <2>1, TrueStays
  <2> QED BY <1>1, <2>1, <2>2 DEF AvailInv
<1> QED BY <1>2, <1>3

LEMMA KeepClient ==
  ASSUME NEW q \in Views, ClientInv(q), Keeps(q)
  PROVE  ClientInv(q)'
<1> SUFFICES ASSUME Asked(q).kind = "clients", At(q) = "end" PROVE ClientInv(q)'
  BY DEF Keeps, ClientInv, At
<1>1. vwJob'[q] = vwJob[q] /\ Asked(q)' = Asked(q) /\ At(q)' = At(q)
  BY DEF Keeps, At
<1>2. MaySee(q) \subseteq MaySee(q)' /\ MustSee(q)' \subseteq MustSee(q)
  BY GrowsParts DEF Keeps, Ghosts
<1> QED BY <1>1, <1>2 DEF ClientInv, ClientOn

LEMMA KeepBoot ==
  ASSUME NEW q \in Views, BootInv(q), Keeps(q)
  PROVE  BootInv(q)'
<1> SUFFICES ASSUME Asked(q).kind = "bootstrap" PROVE BootInv(q)'
  BY DEF Keeps, BootInv
<1>1. vwJob'[q] = vwJob[q] /\ Asked(q)' = Asked(q) /\ At(q)' = At(q)
  BY DEF Keeps, At
<1>2. CASE At(q) = "new"
  BY <1>1, <1>2 DEF BootInv
<1>3. CASE At(q) # "new"
  <2>1. /\ vwEver[q].tuns \subseteq vwEver'[q].tuns /\ vwAlways'[q].tuns \subseteq vwAlways[q].tuns
        /\ vwEver[q].nodes \subseteq vwEver'[q].nodes /\ vwAlways'[q].nodes \subseteq vwAlways[q].nodes
    BY <1>3, GrowsParts DEF Keeps, Ghosts
  <2>2. /\ ServedOf(q, vwEver[q]) \subseteq ServedOf(q, vwEver[q])'
        /\ ServedOf(q, vwAlways[q])' \subseteq ServedOf(q, vwAlways[q])
    BY <1>1, <2>1 DEF ServedOf
  <2>3. \A id : Addrs(vwEver[q].nodes, id) \subseteq Addrs(vwEver'[q].nodes, id)
    BY <2>1 DEF Addrs
  <2> QED BY <1>1, <1>3, <2>1, <2>2, <2>3 DEF BootInv
<1> QED BY <1>2, <1>3

LEMMA KeepUsage ==
  ASSUME NEW q \in Views, UsageInv(q), Keeps(q)
  PROVE  UsageInv(q)'
<1> SUFFICES ASSUME Asked(q).kind = "diagnostics", At(q) = "end" PROVE UsageInv(q)'
  BY DEF Keeps, UsageInv, At
<1>1. vwJob'[q] = vwJob[q] /\ Asked(q)' = Asked(q) /\ At(q)' = At(q)
  BY DEF Keeps, At
<1>2. vwEver'[q] = vwEver[q] /\ vwAlways'[q] = vwAlways[q]
  BY DEF Keeps, Ghosts
<1> QED BY <1>1, <1>2 DEF UsageInv

LEMMA KeepExport ==
  ASSUME NEW q \in Views, ExportInv(q), Keeps(q)
  PROVE  ExportInv(q)'
<1> SUFFICES ASSUME Asked(q).kind = "export" PROVE ExportInv(q)'
  BY DEF Keeps, ExportInv
<1>1. vwJob'[q] = vwJob[q] /\ Asked(q)' = Asked(q) /\ At(q)' = At(q)
  BY DEF Keeps, At
<1>2. CASE At(q) = "new"
  BY <1>1, <1>2 DEF ExportInv
<1>3. CASE At(q) # "new"
  <2>1. /\ vwEver[q].users \subseteq vwEver'[q].users /\ vwAlways'[q].users \subseteq vwAlways[q].users
        /\ vwEver[q].nodes \subseteq vwEver'[q].nodes /\ vwAlways'[q].nodes \subseteq vwAlways[q].nodes
        /\ vwAlways'[q].tuns \subseteq vwAlways[q].tuns
    BY <1>3, GrowsParts DEF Keeps, Ghosts
  <2>2. \A name, id : HasFile(name, id) => HasFile(name, id)'
    BY FilesStay DEF Keeps
  <2>3. \A u : HasFiles(q, u) => HasFiles(q, u)'
    BY <2>1, <2>2 DEF HasFiles
  <2> QED BY <1>1, <1>3, <2>1, <2>2, <2>3 DEF ExportInv
<1> QED BY <1>2, <1>3

-----------------------------------------------------------------------------
(* What is computed of what was read.                                      *)

\* Of finitely many clients one is the best.
LEMMA BestIsThere ==
  ASSUME NEW live, LiveOK(live), live # {}
  PROVE  best(live) \in live /\ \A r \in live : ~betterClientStatus(r, best(live))
<1> DEFINE D(x) == {y \in live : betterClientStatus(y, x)}
           F == {D(x) : x \in live}
           R == StrictSubsetOrdering(live)
<1>1. F \subseteq FiniteSubsetsOf(live) /\ F # {}
  <2>1. \A x \in live : D(x) \subseteq live /\ IsFiniteSet(D(x))
    BY FS_Subset DEF LiveOK
  <2> QED BY <2>1 DEF FiniteSubsetsOf
<1>2. IsWellFoundedOn(R, FiniteSubsetsOf(live))
  BY FS_StrictSubsetOrderingWellFounded
<1> HIDE DEF R
<1>3. \E d \in F : \A e \in F : ~(<<e, d>> \in R)
  <2> HIDE DEF F
  <2> QED BY <1>1, <1>2, WFMin
<1>4. PICK x \in live : \A y \in live : ~(<<D(y), D(x)>> \in R)
  BY <1>3
<1>5. ASSUME NEW y \in live, betterClientStatus(y, x) PROVE FALSE
  <2>1. \A z \in live : betterClientStatus(z, y) => betterClientStatus(z, x)
    BY <1>5 DEF betterClientStatus, LiveOK
  <2>2. ~betterClientStatus(y, y)
    BY DEF betterClientStatus, LiveOK
  <2>3. D(y) \subseteq D(x) /\ y \in D(x) /\ y \notin D(y)
    BY <1>5, <2>1, <2>2
  <2>4. D(y) \in SUBSET live /\ D(x) \in SUBSET live /\ D(y) # D(x)
    BY <2>3
  <2>5. <<D(y), D(x)>> \in R
    BY <2>3, <2>4 DEF R, StrictSubsetOrdering
  <2> QED BY <1>4, <2>5
<1>6. \E b \in live : \A r \in live : ~betterClientStatus(r, b)
  BY <1>5
<1> QED BY <1>6 DEF best

\* Somebody is online if one of the clients is.
LEMMA OnlineIfOne ==
  ASSUME NEW live, LiveOK(live), NEW embedded
  PROVE  (stateOf(live, embedded) = "online") <=> \E x \in live : x.online
<1>1. CASE live = {}
  BY <1>1 DEF stateOf
<1>2. CASE live # {}
  <2>1. best(live) \in live /\ \A r \in live : ~betterClientStatus(r, best(live))
    BY <1>2, BestIsThere
  <2>2. (\E x \in live : x.online) => best(live).online
    BY <2>1 DEF betterClientStatus, LiveOK
  <2>3. (stateOf(live, embedded) = "online") <=> best(live).online
    BY <1>2 DEF stateOf
  <2> QED BY <2>1, <2>2, <2>3
<1> QED BY <1>1, <1>2

LEMMA SomeLive ==
  ASSUME NEW live, LiveOK(live), NEW few, few \subseteq live
  PROVE  LiveOK(few)
BY FS_Subset DEF LiveOK

\* The address read is that of the node.
LEMMA AddrOfNode ==
  ASSUME NEW nodes, NEW id, \A n, m \in nodes : n.id = m.id => n = m
  PROVE  /\ addrIn(nodes, id) \in Addrs(nodes, id) \cup {"control"}
         /\ \A n \in nodes : n.id = id => addrIn(nodes, id) = addrIn({n}, id)
<1>1. ASSUME NEW n \in nodes, n.id = id PROVE addrIn(nodes, id) = addrIn({n}, id)
  <2>1. (CHOOSE m \in nodes : m.id = id) = n /\ (CHOOSE m \in {n} : m.id = id) = n
    BY <1>1
  <2> QED BY <1>1, <2>1 DEF addrIn
<1>2. CASE \E n \in nodes : n.id = id
  BY <1>1, <1>2 DEF Addrs
<1>3. CASE ~\E n \in nodes : n.id = id
  BY <1>3 DEF addrIn
<1> QED BY <1>1, <1>2, <1>3

\* What held between two times did at some time, and what holds all the time did.
LEMMA HoldsParts ==
  ASSUME NEW q, Holds(q), vwWorld' = vwWorld, vwKnown' = vwKnown
  PROVE  /\ vwWorld.users \subseteq vwEver'[q].users /\ vwAlways'[q].users \subseteq vwWorld.users
         /\ vwWorld.tuns \subseteq vwEver'[q].tuns /\ vwAlways'[q].tuns \subseteq vwWorld.tuns
         /\ vwWorld.nodes \subseteq vwEver'[q].nodes /\ vwAlways'[q].nodes \subseteq vwWorld.nodes
         /\ vwWorld.live \subseteq vwEver'[q].live /\ vwAlways'[q].live \subseteq vwWorld.live
         /\ vwWorld.open \subseteq vwEver'[q].open /\ vwAlways'[q].open \subseteq vwWorld.open
         /\ vwKnown \subseteq vwEver'[q].known /\ vwAlways'[q].known \subseteq vwKnown
<1> DEFINE now == Now'
<1>1. now = Holding(vwWorld', vwKnown')
  BY DEF Now, Holding
<1>2. /\ now.users = vwWorld.users /\ now.tuns = vwWorld.tuns /\ now.nodes = vwWorld.nodes
      /\ now.live = vwWorld.live /\ now.open = vwWorld.open /\ now.known = vwKnown
  BY <1>1 DEF Holding, Parts
<1>3. \A p \in Parts : now[p] \subseteq vwEver'[q][p] /\ vwAlways'[q][p] \subseteq now[p]
  BY DEF Holds
<1>4. {"users", "tuns", "nodes", "live", "open", "known"} \subseteq Parts
  BY DEF Parts
<1> HIDE DEF now
<1> QED BY <1>2, <1>3, <1>4

\* The tables of a world in order.
LEMMA WorldOK ==
  ASSUME NEW s, FrameInv(s)
  PROVE  /\ LiveOK(vwWorld.live) /\ LiveOK(vwKnown) /\ Keyed(vwWorld) /\ IsFiniteSet(vwWorld.tuns)
         /\ \A u \in vwWorld.users : IsFiniteSet(u.ports) /\ u.name # ""
         /\ \A n \in vwWorld.nodes : n.id # ""
BY DEF FrameInv, PartOK, WorldParts, Parts

-----------------------------------------------------------------------------
(* The lists: what they read.                                              *)

ListInv(q) == ReadInv(q) /\ AvailInv(q) /\ ClientInv(q) /\ UsageInv(q)

LEMMA UsersReads ==
  ASSUME NEW s, FrameInv(s), NEW q \in Views, ListInv(q), Frames(q), Ghosts(q), Users(q)
  PROVE  ListInv(q)'
<1>1. /\ Asked(q)' = Asked(q) /\ Asked(q).kind \in ListViews /\ At(q) = "new"
      /\ Read(q, "tuns", "users", filterUsersByName(q, vwWorld.users))
  BY DEF Frames, Asked, Users, ViewAt, At
<1>2. "users" \in Fields \ {"at"} /\ {"live", "answer", "nodes"} \subseteq Fields \ {"at", "users"}
  BY DEF Fields
<1>3. /\ vwJob'[q].at = "tuns" /\ vwJob'[q].users = filterUsersByName(q, vwWorld.users)
      /\ vwJob'[q].live = vwJob[q].live /\ vwJob'[q].answer = vwJob[q].answer
      /\ vwJob'[q].nodes = vwJob[q].nodes
  BY <1>1, <1>2, ReadSets
<1>4. \A u \in vwJob'[q].users : IsFiniteSet(u.ports) /\ (Asked(q).admin \/ u.name = Asked(q).who)
  BY <1>3, WorldOK DEF filterUsersByName
<1>5. vwJob'[q].live = {} /\ LiveOK({})
  BY <1>1, <1>3, FS_EmptySet DEF ListInv, ReadInv, LiveOK
<1>6. ReadInv(q)'
  BY <1>1, <1>3, <1>4, <1>5 DEF ReadInv, At, LiveOK
<1>7. AvailInv(q)'
  BY <1>1, <1>3 DEF AvailInv, At, ListInv
<1>8. ClientInv(q)' /\ UsageInv(q)'
  BY <1>3 DEF ClientInv, UsageInv, At
<1> QED BY <1>6, <1>7, <1>8 DEF ListInv

LEMMA TunnelsRead ==
  ASSUME NEW s, FrameInv(s), NEW q \in Views, ListInv(q), Frames(q), Ghosts(q), ListTunnels(q)
  PROVE  ListInv(q)'
<1> DEFINE at == IF Asked(q).kind = "diagnostics" THEN "add" ELSE "frp"
<1>1. /\ Asked(q)' = Asked(q) /\ Asked(q).kind \in ListViews /\ At(q) = "tuns"
      /\ Read(q, at, "tuns", filterTunnelsByUser(q, vwWorld.tuns))
      /\ vwWorld' = vwWorld /\ vwKnown' = vwKnown
  BY DEF Frames, Asked, ListTunnels, ViewAt, At
<1>2. /\ at \in {"add", "frp"} /\ (Asked(q).kind # "diagnostics" => at = "frp")
  OBVIOUS
<1> HIDE DEF at
<1>3. "tuns" \in Fields \ {"at"}
      /\ {"live", "answer", "nodes", "users"} \subseteq Fields \ {"at", "tuns"}
  BY DEF Fields
<1>4. /\ vwJob'[q].at = at /\ vwJob'[q].tuns = filterTunnelsByUser(q, vwWorld.tuns)
      /\ vwJob'[q].live = vwJob[q].live /\ vwJob'[q].answer = vwJob[q].answer
      /\ vwJob'[q].nodes = vwJob[q].nodes /\ vwJob'[q].users = vwJob[q].users
  BY <1>1, <1>3, ReadSets
<1>5. vwWorld.tuns \subseteq vwEver'[q].tuns /\ vwAlways'[q].tuns \subseteq vwWorld.tuns
  BY <1>1, HoldsParts DEF Ghosts
<1>6. /\ vwJob'[q].tuns \subseteq vwWorld.tuns /\ IsFiniteSet(vwJob'[q].tuns)
      /\ Mine(q, vwAlways'[q].tuns) \subseteq vwJob'[q].tuns
  <2>1. vwJob'[q].tuns \subseteq vwWorld.tuns
    BY <1>4 DEF filterTunnelsByUser
  <2>2. IsFiniteSet(vwWorld.tuns)
    BY WorldOK
  <2> QED BY <1>4, <1>5, <2>1, <2>2, FS_Subset DEF filterTunnelsByUser, Mine
<1>7. /\ vwJob'[q].live = {} /\ LiveOK({})
      /\ \A u \in vwJob'[q].users : IsFiniteSet(u.ports) /\ (Asked(q).admin \/ u.name = Asked(q).who)
  BY <1>1, <1>4, FS_EmptySet DEF ListInv, ReadInv, LiveOK
<1>8. ReadInv(q)'
  BY <1>1, <1>2, <1>4, <1>5, <1>6, <1>7 DEF ReadInv, At, LiveOK, Mine
<1>9. AvailInv(q)'
  BY <1>1, <1>2, <1>4 DEF AvailInv, At, ListInv
<1>10. ClientInv(q)' /\ UsageInv(q)'
  BY <1>2, <1>4 DEF ClientInv, UsageInv, At
<1> QED BY <1>8, <1>9, <1>10 DEF ListInv

LEMMA ClientsRead ==
  ASSUME NEW s, FrameInv(s), NEW q \in Views, ListInv(q), Frames(q), Ghosts(q),
         FRPClientStatuses(q) \/ NPSClientStatuses(q)
  PROVE  ListInv(q)'
<1> DEFINE few(e) == {x \in Of("local", vwWorld.live) : x.engine = e}
           at == IF At(q) = "frp" THEN "nps" ELSE "remote"
           live == IF At(q) = "frp" THEN few("frp") ELSE vwJob[q].live \cup few("nps")
<1>1. /\ Asked(q)' = Asked(q) /\ Asked(q).kind \in ListViews /\ At(q) \in {"frp", "nps"}
      /\ Read(q, at, "live", live)
      /\ vwWorld' = vwWorld /\ vwKnown' = vwKnown
  BY DEF Frames, Asked, FRPClientStatuses, NPSClientStatuses, ViewAt, At
<1>2. "live" \in Fields \ {"at"}
      /\ {"tuns", "answer", "nodes", "users"} \subseteq Fields \ {"at", "live"}
  BY DEF Fields
<1>3. (at = "nps" /\ At(q) = "frp") \/ (at = "remote" /\ At(q) = "nps")
  BY <1>1
<1>4. /\ vwJob'[q].at = at /\ vwJob'[q].live = live
      /\ vwJob'[q].tuns = vwJob[q].tuns /\ vwJob'[q].answer = vwJob[q].answer
      /\ vwJob'[q].nodes = vwJob[q].nodes /\ vwJob'[q].users = vwJob[q].users
  <2> HIDE DEF at, live
  <2> QED BY <1>1, <1>2, ReadSets
<1>5. /\ vwWorld.live \subseteq vwEver'[q].live /\ vwAlways'[q].live \subseteq vwWorld.live
      /\ LiveOK(vwWorld.live)
  BY <1>1, HoldsParts, WorldOK DEF Ghosts
<1>6. /\ vwEver[q].tuns \subseteq vwEver'[q].tuns /\ vwAlways'[q].tuns \subseteq vwAlways[q].tuns
      /\ vwEver[q].live \subseteq vwEver'[q].live /\ vwAlways'[q].live \subseteq vwAlways[q].live
  BY <1>1, GrowsParts DEF Ghosts
<1>7. LiveOK(live)
  <2>1. \A e : LiveOK(few(e))
    BY <1>5, SomeLive DEF Of
  <2>2. LiveOK(vwJob[q].live)
    BY <1>1 DEF ListInv, ReadInv
  <2>3. LiveOK(vwJob[q].live \cup few("nps"))
    <3> HIDE DEF few
    <3> QED BY <2>1, <2>2, LiveOfTwo
  <2> QED BY <2>1, <2>3
<1>8. live \subseteq Of("local", vwEver'[q].live)
  BY <1>1, <1>5, <1>6 DEF ListInv, ReadInv, Of
<1>9. /\ At(q) = "frp" => \A x \in Of("local", vwAlways'[q].live) : x.engine = "frp" => x \in live
      /\ At(q) = "nps" => Of("local", vwAlways'[q].live) \subseteq live
  <2>1. \A x \in vwAlways'[q].live : x.engine = "frp" \/ x.engine = "nps"
    BY <1>5 DEF LiveOK
  <2> QED BY <1>1, <1>5, <1>6, <2>1 DEF ListInv, ReadInv, Of
<1> HIDE DEF live, at
<1>10. ReadInv(q)'
  <2>1. LiveOK(vwJob[q].live)'
    BY <1>4, <1>7 DEF LiveOK
  <2>2. /\ vwJob[q].tuns \subseteq vwEver'[q].tuns /\ Mine(q, vwAlways'[q].tuns) \subseteq vwJob[q].tuns
        /\ IsFiniteSet(vwJob[q].tuns)
        /\ \A u \in vwJob[q].users : IsFiniteSet(u.ports) /\ (Asked(q).admin \/ u.name = Asked(q).who)
    BY <1>1, <1>6 DEF ListInv, ReadInv, Mine
  <2> QED BY <1>1, <1>3, <1>4, <1>8, <1>9, <2>1, <2>2 DEF ReadInv, At, Of, Mine
<1>11. AvailInv(q)'
  BY <1>1, <1>3, <1>4 DEF AvailInv, At, ListInv
<1>12. ClientInv(q)' /\ UsageInv(q)'
  BY <1>3, <1>4 DEF ClientInv, UsageInv, At
<1> QED BY <1>10, <1>11, <1>12 DEF ListInv

LEMMA RemoteRead ==
  ASSUME NEW s, FrameInv(s), NEW q \in Views, ListInv(q), Frames(q), Ghosts(q), allClientStatuses(q)
  PROVE  ListInv(q)'
<1> DEFINE at == IF Asked(q).kind = "clients" THEN "add" ELSE "probe"
           live == vwJob[q].live \cup vwKnown
<1>1. /\ Asked(q)' = Asked(q) /\ Asked(q).kind \in ListViews /\ At(q) = "remote"
      /\ vwWorld' = vwWorld /\ vwKnown' = vwKnown
  BY DEF Frames, Asked, allClientStatuses, ViewAt, At
<1>2. /\ vwJob'[q].at = at /\ vwJob'[q].live = live /\ vwJob'[q].left = vwJob[q].tuns
      /\ vwJob'[q].tuns = vwJob[q].tuns /\ vwJob'[q].answer = vwJob[q].answer
      /\ vwJob'[q].nodes = vwJob[q].nodes /\ vwJob'[q].users = vwJob[q].users
  BY DEF allClientStatuses, FrameInv, Fields
<1>3. /\ vwWorld.live \subseteq vwEver'[q].live /\ vwAlways'[q].live \subseteq vwWorld.live
      /\ vwKnown \subseteq vwEver'[q].known /\ vwAlways'[q].known \subseteq vwKnown
      /\ LiveOK(vwKnown)
  BY <1>1, HoldsParts, WorldOK DEF Ghosts
<1>4. /\ vwEver[q].tuns \subseteq vwEver'[q].tuns /\ vwAlways'[q].tuns \subseteq vwAlways[q].tuns
      /\ vwEver[q].live \subseteq vwEver'[q].live /\ vwAlways'[q].live \subseteq vwAlways[q].live
  BY <1>1, GrowsParts DEF Ghosts
<1>5. LiveOK(live)
  BY <1>1, <1>3, LiveOfTwo DEF ListInv, ReadInv
<1>6. live \subseteq MaySee(q)' /\ MustSee(q)' \subseteq live
  BY <1>1, <1>3, <1>4 DEF ListInv, ReadInv, Of, MaySee, MustSee
<1>7. at \in {"add", "probe"}
  OBVIOUS
<1> HIDE DEF live, at
<1>8. ReadInv(q)'
  <2>1. LiveOK(vwJob[q].live)'
    BY <1>2, <1>5 DEF LiveOK
  <2>2. /\ vwJob[q].tuns \subseteq vwEver'[q].tuns /\ Mine(q, vwAlways'[q].tuns) \subseteq vwJob[q].tuns
        /\ IsFiniteSet(vwJob[q].tuns)
        /\ \A u \in vwJob[q].users : IsFiniteSet(u.ports) /\ (Asked(q).admin \/ u.name = Asked(q).who)
    BY <1>1, <1>4 DEF ListInv, ReadInv, Mine
  <2> QED BY <1>1, <1>2, <1>6, <1>7, <2>1, <2>2 DEF ReadInv, At, Mine
<1>9. AvailInv(q)'
  BY <1>1, <1>2, <1>4 DEF AvailInv, At, ListInv, ReadInv
<1>10. ClientInv(q)' /\ UsageInv(q)'
  BY <1>2, <1>7 DEF ClientInv, UsageInv, At
<1> QED BY <1>8, <1>9, <1>10 DEF ListInv

-----------------------------------------------------------------------------
(* Availability.                                                           *)

\* A state that is summed up of clients that may have been and of an entry probed now.
LEMMA StateIsTrue ==
  ASSUME NEW s, FrameInv(s), NEW q \in Views, ReadInv(q), Asked(q).kind = "availability",
         At(q) = "probe", Frames(q), Ghosts(q), NEW r, TrueAddr(q, r)', NEW state, r.t.on,
         state = summarizeTunnelAvailability(clientStatusForTunnel(r.t, vwJob[q].live),
                                             probeTunnelEntry(r.t, r.addr))
  PROVE  TrueState(q, [t |-> r.t, state |-> state])'
<1> DEFINE t == r.t
           few == {x \in vwJob[q].live : x.user = t.user /\ x.engine = t.engine /\ x.node = t.node}
           client == clientStatusForTunnel(t, vwJob[q].live)
           entry == probeTunnelEntry(t, r.addr)
           answers == {o \in vwWorld.open : o.addr = r.addr /\ o.port = t.port}
<1>1. /\ vwWorld.open \subseteq vwEver'[q].open /\ vwAlways'[q].open \subseteq vwWorld.open
  BY HoldsParts DEF Ghosts, Frames
<1>2. /\ LiveOK(vwJob[q].live)
      /\ vwJob[q].live \subseteq MaySee(q)' /\ MustSee(q)' \subseteq vwJob[q].live
  BY GrowsParts DEF ReadInv, ListViews, Ghosts
<1>3. LiveOK(few)
  BY <1>2, SomeLive
<1>4. /\ (client = "online") <=> \E x \in few : x.online
      /\ client \in {"online", "offline", "unknown"}
  <2>1. (stateOf(few, t.node = "local") = "online") <=> \E x \in few : x.online
    BY <1>3, OnlineIfOne
  <2>2. client = stateOf(few, t.node = "local")
    BY DEF clientStatusForTunnel
  <2>3. client \in {"online", "offline", "unknown"}
    BY <2>2 DEF stateOf
  <2> QED BY <2>1, <2>2, <2>3
<1>5. entry = CASE t.mode = "udp" -> "unknown"
                [] answers = {} -> "down"
                [] t.mode = "http" /\ \E o \in answers : o.fails -> "warning"
                [] OTHER -> "ok"
  BY DEF probeTunnelEntry
<1>6. /\ entry = "ok" => answers # {} /\ (t.mode = "http" => \A o \in answers : ~o.fails)
      /\ entry = "down" => answers = {}
  <2>1. CASE t.mode = "udp"
    BY <1>5, <2>1
  <2>2. CASE t.mode # "udp" /\ answers = {}
    BY <1>5, <2>2
  <2>3. CASE t.mode # "udp" /\ answers # {}
    <3> HIDE DEF answers
    <3> QED BY <1>5, <2>3
  <2> QED BY <2>1, <2>2, <2>3
<1>7. /\ state = "ok" => client = "online" /\ entry = "ok"
      /\ state = "down" => client = "offline" \/ entry = "down"
  <2> HIDE DEF client, entry
  <2>1. state = summarizeTunnelAvailability(client, entry)
    BY DEF client, entry
  <2> QED BY <2>1 DEF summarizeTunnelAvailability
<1> HIDE DEF client, entry
<1>8. ASSUME state = "ok"
      PROVE  /\ t \in vwEver'[q].tuns /\ t.on
             /\ \E x \in MaySee(q)' : Of2(t, x) /\ x.online
             /\ \E o \in vwEver'[q].open :
                  /\ o.port = t.port /\ (t.mode = "http" => ~o.fails)
                  /\ o.addr \in Addrs(vwEver'[q].nodes, t.node) \cup {"control"}
  <2>1. \E x \in few : x.online
    BY <1>4, <1>7, <1>8
  <2>2. PICK o \in answers : t.mode = "http" => ~o.fails
    BY <1>6, <1>7, <1>8
  <2>3. t \in vwEver'[q].tuns /\ r.addr \in Addrs(vwEver'[q].nodes, t.node) \cup {"control"}
    BY DEF TrueAddr
  <2>4. \E x \in MaySee(q)' : Of2(t, x) /\ x.online
    BY <1>2, <2>1 DEF Of2
  <2>5. o \in vwEver'[q].open /\ o.port = t.port /\ o.addr = r.addr
    BY <1>1
  <2> QED BY <2>2, <2>3, <2>4, <2>5
<1>9. ASSUME state = "down", \E x \in MustSee(q)' : Of2(t, x) /\ x.online,
             NEW o \in vwAlways'[q].open, NEW n \in vwAlways'[q].nodes,
             n.id = t.node, o.port = t.port, o.addr = addrIn({n}, t.node)
      PROVE  FALSE
  <2>1. client = "online"
    BY <1>2, <1>4, <1>9 DEF Of2
  <2>2. answers = {}
    BY <1>6, <1>7, <1>9, <2>1
  <2>3. o.addr = r.addr
    BY <1>9 DEF TrueAddr
  <2> QED BY <1>1, <1>9, <2>2, <2>3
<1> QED BY <1>8, <1>9 DEF TrueState, Of2

LEMMA AvailStep ==
  ASSUME NEW s, FrameInv(s), NEW q \in Views, ListInv(q), Frames(q), Ghosts(q),
         runtimeForTunnel(q) \/ checkTunnelAvailability(q) \/ listAvailability(q)
  PROVE  ListInv(q)'
<1>1. /\ Asked(q)' = Asked(q) /\ Asked(q).kind = "availability" /\ At(q) = "probe"
      /\ vwWorld' = vwWorld /\ vwKnown' = vwKnown
  BY DEF Frames, Asked, runtimeForTunnel, checkTunnelAvailability, listAvailability, ViewAt, At
<1>2. DOMAIN vwJob = Views /\ DOMAIN vwJob[q] = Fields
  BY DEF FrameInv
<1>3. /\ vwJob'[q].at \in {"probe", "end"} /\ vwJob'[q].live = vwJob[q].live
      /\ vwJob'[q].tuns = vwJob[q].tuns /\ vwJob'[q].users = vwJob[q].users
  <2>1. CASE runtimeForTunnel(q)
    BY <1>1, <1>2, <2>1 DEF runtimeForTunnel, Fields, At
  <2>2. CASE checkTunnelAvailability(q)
    BY <1>1, <1>2, <2>2, ZenonT(60) DEF checkTunnelAvailability, Fields, At
  <2>3. CASE listAvailability(q)
    <3>1. Read(q, "end", "answer", vwJob[q].answer)
      BY <2>3 DEF listAvailability, Answer
    <3>2. "answer" \in Fields \ {"at"} /\ {"live", "tuns", "users"} \subseteq Fields \ {"at", "answer"}
      BY DEF Fields
    <3> QED BY <3>1, <3>2, ReadSets
  <2> QED BY <2>1, <2>2, <2>3
<1>4. Grows(q) /\ Holds(q) /\ vwEver[q].tuns \subseteq vwEver'[q].tuns
  BY <1>1, GrowsParts DEF Ghosts
<1>5. ReadInv(q)'
  <2>1. LiveOK(vwJob[q].live)'
    BY <1>1, <1>3 DEF LiveOK, ListInv, ReadInv, ListViews
  <2>2. /\ MaySee(q) \subseteq MaySee(q)' /\ MustSee(q)' \subseteq MustSee(q)
        /\ vwAlways'[q].tuns \subseteq vwAlways[q].tuns
    BY <1>4, GrowsParts
  <2> QED BY <1>1, <1>3, <1>4, <2>1, <2>2 DEF ReadInv, At, ListInv, ListViews, Mine
<1>6. ClientInv(q)' /\ UsageInv(q)'
  BY <1>1 DEF ClientInv, UsageInv
<1>7. /\ \A a : TrueState(q, a) => TrueState(q, a)'
      /\ \A r : TrueAddr(q, r) => TrueAddr(q, r)'
  BY <1>4, TrueStays
<1>8. /\ vwJob[q].left \subseteq vwEver'[q].tuns
      /\ \A r \in vwJob[q].nodes : TrueAddr(q, r)'
      /\ \A a \in vwJob[q].answer : TrueState(q, a)'
  BY <1>1, <1>4, <1>7 DEF AvailInv, ListInv
<1>9. CASE runtimeForTunnel(q)
  <2>1. PICK t, r :
          /\ t \in vwJob[q].left
          /\ r = [t |-> t, addr |-> addrIn(vwWorld.nodes, t.node)]
          /\ vwJob' = [vwJob EXCEPT ![q].left = @ \ {t}, ![q].nodes = @ \cup {r}]
    BY <1>9 DEF runtimeForTunnel
  <2>2. /\ vwJob'[q].left \subseteq vwJob[q].left /\ vwJob'[q].nodes = vwJob[q].nodes \cup {r}
        /\ vwJob'[q].at = "probe" /\ vwJob'[q].answer = vwJob[q].answer
    BY <1>1, <1>2, <2>1 DEF Fields, At
  <2>3. TrueAddr(q, r)'
    <3>1. \A n, m \in vwWorld.nodes : n.id = m.id => n = m
      BY WorldOK DEF Keyed
    <3>2. /\ r.addr \in Addrs(vwWorld.nodes, t.node) \cup {"control"}
          /\ \A n \in vwWorld.nodes : n.id = t.node => r.addr = addrIn({n}, t.node)
      BY <2>1, <3>1, AddrOfNode
    <3>3. vwWorld.nodes \subseteq vwEver'[q].nodes /\ vwAlways'[q].nodes \subseteq vwWorld.nodes
      BY <1>1, <1>4, HoldsParts
    <3>4. Addrs(vwWorld.nodes, t.node) \subseteq Addrs(vwEver'[q].nodes, t.node)
      BY <3>3 DEF Addrs
    <3>5. r.t = t /\ t \in vwEver'[q].tuns
      BY <1>8, <2>1
    <3> QED BY <3>2, <3>3, <3>4, <3>5 DEF TrueAddr
  <2>4. AvailInv(q)'
    BY <1>1, <1>8, <2>2, <2>3 DEF AvailInv, At
  <2> QED BY <1>5, <1>6, <2>4 DEF ListInv
<1>10. CASE checkTunnelAvailability(q)
  <2>1. PICK r, state :
          /\ r \in vwJob[q].nodes
          /\ state = IF r.t.on
                     THEN summarizeTunnelAvailability(clientStatusForTunnel(r.t, vwJob[q].live),
                                                      probeTunnelEntry(r.t, r.addr))
                     ELSE "disabled"
          /\ vwJob' = [vwJob EXCEPT ![q].nodes = @ \ {r},
                         ![q].answer = @ \cup {[t |-> r.t, state |-> state]}]
    BY <1>10 DEF checkTunnelAvailability
  <2>2. /\ vwJob'[q].nodes \subseteq vwJob[q].nodes /\ vwJob'[q].at = "probe"
        /\ vwJob'[q].answer = vwJob[q].answer \cup {[t |-> r.t, state |-> state]}
        /\ vwJob'[q].left = vwJob[q].left
    BY <1>1, <1>2, <2>1 DEF Fields, At
  <2>3. TrueState(q, [t |-> r.t, state |-> state])'
    <3>1. CASE r.t.on
      <4>1. TrueAddr(q, r)' /\ ReadInv(q)
        BY <1>8, <2>1 DEF ListInv
      <4>2. state = summarizeTunnelAvailability(clientStatusForTunnel(r.t, vwJob[q].live),
                                                probeTunnelEntry(r.t, r.addr))
        BY <2>1, <3>1
      <4> QED BY <1>1, <3>1, <4>1, <4>2, StateIsTrue
    <3>2. CASE ~r.t.on
      BY <2>1, <3>2 DEF TrueState
    <3> QED BY <3>1, <3>2
  <2>4. AvailInv(q)'
    BY <1>1, <1>8, <2>2, <2>3 DEF AvailInv, At
  <2> QED BY <1>5, <1>6, <2>4 DEF ListInv
<1>11. CASE listAvailability(q)
  <2>1. vwJob'[q].at = "end" /\ vwJob'[q].answer = vwJob[q].answer
    <3>1. Read(q, "end", "answer", vwJob[q].answer)
      BY <1>11 DEF listAvailability, Answer
    <3>2. "answer" \in Fields \ {"at"}
      BY DEF Fields
    <3> QED BY <3>1, <3>2, ReadSets
  <2>2. AvailInv(q)'
    BY <1>1, <1>8, <2>1 DEF AvailInv, At
  <2> QED BY <1>5, <1>6, <2>2 DEF ListInv
<1> QED BY <1>9, <1>10, <1>11

-----------------------------------------------------------------------------
(* Clients, diagnostics, bootstrap.                                        *)

LiveFor(q, n, e) == {x \in vwJob[q].live : x.user = n /\ x.engine = e}
ClientOf(q, n, e) ==
  [user |-> n, engine |-> e, online |-> stateOf(LiveFor(q, n, e), TRUE) = "online"]

LEMMA ClientOfOnline ==
  ASSUME NEW q, NEW n, NEW e, LiveOK(vwJob[q].live)
  PROVE  ClientOf(q, n, e).online <=> \E x \in LiveFor(q, n, e) : x.online
<1>1. LiveOK(LiveFor(q, n, e))
  BY SomeLive DEF LiveFor
<1>2. ClientOf(q, n, e).online <=> stateOf(LiveFor(q, n, e), TRUE) = "online"
  BY DEF ClientOf
<1>3. (stateOf(LiveFor(q, n, e), TRUE) = "online") <=> \E x \in LiveFor(q, n, e) : x.online
  <2>1. \A live : LiveOK(live) =>
          ((stateOf(live, TRUE) = "online") <=> \E x \in live : x.online)
    <3> SUFFICES ASSUME NEW live, LiveOK(live)
                 PROVE  (stateOf(live, TRUE) = "online") <=> \E x \in live : x.online
      OBVIOUS
    <3>1. CASE live = {}
      BY <3>1 DEF stateOf
    <3>2. CASE live # {}
      <4>1. best(live) \in live /\ \A r \in live : ~betterClientStatus(r, best(live))
        BY <3>2, BestIsThere
      <4>2. (\E x \in live : x.online) => best(live).online
        BY <4>1 DEF betterClientStatus, LiveOK
      <4>3. (stateOf(live, TRUE) = "online") <=> best(live).online
        BY <3>2 DEF stateOf
      <4> QED BY <4>1, <4>2, <4>3
    <3> QED BY <3>1, <3>2
  <2> QED BY <1>1, <2>1
<1> QED BY <1>2, <1>3

LEMMA ClientsStep ==
  ASSUME NEW s, FrameInv(s), NEW q \in Views, ListInv(q), Frames(q), Ghosts(q), clientStatusesFor(q)
  PROVE  ListInv(q)'
<1> DEFINE out == {ClientOf(q, u.name, e) : u \in vwJob[q].users, e \in {"frp", "nps"}}
<1>1. /\ Asked(q)' = Asked(q) /\ Asked(q).kind = "clients" /\ At(q) = "add"
      /\ Read(q, "end", "answer", out)
  BY DEF Frames, Asked, clientStatusesFor, Answer, ViewAt, At, ClientOf, LiveFor
<1>2. "answer" \in Fields \ {"at"} /\ {"tuns", "live", "users"} \subseteq Fields \ {"at", "answer"}
  BY DEF Fields
<1>3. /\ vwJob'[q].at = "end" /\ vwJob'[q].answer = out /\ vwJob'[q].live = vwJob[q].live
      /\ vwJob'[q].tuns = vwJob[q].tuns /\ vwJob'[q].users = vwJob[q].users
  <2> HIDE DEF out
  <2> QED BY <1>1, <1>2, ReadSets
<1>4. /\ vwEver[q].tuns \subseteq vwEver'[q].tuns /\ vwAlways'[q].tuns \subseteq vwAlways[q].tuns
      /\ MaySee(q) \subseteq MaySee(q)' /\ MustSee(q)' \subseteq MustSee(q)
  BY <1>1, GrowsParts DEF Ghosts
<1>5. /\ LiveOK(vwJob[q].live) /\ vwJob[q].live \subseteq MaySee(q)' /\ MustSee(q)' \subseteq vwJob[q].live
  BY <1>1, <1>4 DEF ListInv, ReadInv, ListViews
<1>6. ASSUME NEW a \in out
      PROVE  (ClientOn(MustSee(q)', a) => a.online) /\ (a.online => ClientOn(MaySee(q)', a))
  <2>1. PICK n, e : a = ClientOf(q, n, e)
    OBVIOUS
  <2>2. a.online <=> \E x \in LiveFor(q, n, e) : x.online
    BY <1>5, <2>1, ClientOfOnline
  <2>3. a.user = n /\ a.engine = e
    BY <2>1 DEF ClientOf
  <2> QED BY <1>5, <2>2, <2>3 DEF ClientOn, LiveFor
<1> HIDE DEF out
<1>7. ClientInv(q)'
  BY <1>3, <1>6 DEF ClientInv, ClientOn
<1>8. ReadInv(q)'
  <2>1. LiveOK(vwJob[q].live)'
    BY <1>3, <1>5 DEF LiveOK
  <2> QED BY <1>1, <1>3, <1>4, <2>1 DEF ReadInv, At, ListInv, ListViews, Mine
<1>9. AvailInv(q)' /\ UsageInv(q)'
  BY <1>1 DEF AvailInv, UsageInv
<1> QED BY <1>7, <1>8, <1>9 DEF ListInv

\* A port is free where more are allowed than used.
LEMMA FreeIsFree ==
  ASSUME NEW ports, NEW used, IsFiniteSet(ports), IsFiniteSet(used)
  PROVE  /\ freeCount(Cardinality(ports), Cardinality(used)) >= 0
         /\ freeCount(Cardinality(ports), Cardinality(used)) > 0 => ports \ used # {}
<1>1. Cardinality(ports) \in Nat /\ Cardinality(used) \in Nat
  BY FS_CardinalityType
<1>2. ports \subseteq used => Cardinality(ports) <= Cardinality(used)
  BY FS_Subset
<1>3. ports \ used = {} => ports \subseteq used
  OBVIOUS
<1> QED BY <1>1, <1>2, <1>3 DEF freeCount

LEMMA PortsFinite ==
  ASSUME NEW tuns, IsFiniteSet(tuns), NEW u, NEW modes
  PROVE  IsFiniteSet(PortsUsed(tuns, u, modes))
<1> DEFINE S == {x \in tuns : x.user = u.name /\ x.on /\ x.mode \in modes}
           T == PortsUsed(tuns, u, modes)
           f == [t \in S |-> t.port]
<1>1. IsFiniteSet(S)
  BY FS_Subset
<1>2. T = {t.port : t \in S}
  BY DEF PortsUsed
<1>3. f \in Surjection(S, T)
  BY <1>2 DEF Surjection
<1> HIDE DEF S, T, f
<1>4. IsFiniteSet(T)
  BY <1>1, <1>3, FS_Surjection
<1> QED BY <1>4 DEF T

LEMMA UsageStep ==
  ASSUME NEW s, FrameInv(s), NEW q \in Views, ListInv(q), Frames(q), Ghosts(q), resourceUsageFor(q)
  PROVE  ListInv(q)'
<1> DEFINE tuns == vwJob[q].tuns
           free(u, mode) == freeCount(Cardinality(u.ports), Cardinality(PortsUsed(tuns, u, {mode})))
<1>1. /\ Asked(q)' = Asked(q) /\ Asked(q).kind = "diagnostics" /\ At(q) = "add"
  BY DEF Frames, Asked, resourceUsageFor, ViewAt, At
<1>2. PICK out :
        /\ Read(q, "end", "answer", out)
        /\ \A a \in out : \E u \in vwJob[q].users :
             a.user = u /\ a.tcpFree = free(u, "tcp") /\ a.udpFree = free(u, "udp")
  <2> DEFINE o == {[user |-> u,
         tcpFree |-> freeCount(Cardinality(u.ports), Cardinality(PortsUsed(tuns, u, {"tcp"}))),
         udpFree |-> freeCount(Cardinality(u.ports), Cardinality(PortsUsed(tuns, u, {"udp"}))),
         tunnelFree |-> IF u.max = 0 THEN -1
                      ELSE freeCount(u.max, Cardinality({t \in tuns : t.user = u.name}))] :
          u \in vwJob[q].users}
  <2>1. Read(q, "end", "answer", o)
    BY DEF resourceUsageFor, Answer
  <2>2. \A a \in o : \E u \in vwJob[q].users :
             a.user = u /\ a.tcpFree = free(u, "tcp") /\ a.udpFree = free(u, "udp")
    <3> SUFFICES ASSUME NEW a \in o
                 PROVE  \E u \in vwJob[q].users :
                          a.user = u /\ a.tcpFree = free(u, "tcp") /\ a.udpFree = free(u, "udp")
      OBVIOUS
    <3>1. PICK u, more :
            /\ u \in vwJob[q].users
            /\ a = [user |-> u, tcpFree |-> free(u, "tcp"), udpFree |-> free(u, "udp"),
                 tunnelFree |-> more]
      OBVIOUS
    <3> HIDE DEF o, free
    <3> QED BY <3>1
  <2> HIDE DEF o
  <2> QED BY <2>1, <2>2
<1>3. "answer" \in Fields \ {"at"} /\ {"tuns", "live", "users"} \subseteq Fields \ {"at", "answer"}
  BY DEF Fields
<1>4. /\ vwJob'[q].at = "end" /\ vwJob'[q].answer = out /\ vwJob'[q].live = vwJob[q].live
      /\ vwJob'[q].tuns = tuns /\ vwJob'[q].users = vwJob[q].users
  BY <1>2, <1>3, ReadSets
<1>5. /\ vwEver[q].tuns \subseteq vwEver'[q].tuns /\ vwAlways'[q].tuns \subseteq vwAlways[q].tuns
  BY <1>1, GrowsParts DEF Ghosts
<1>6. /\ tuns \subseteq vwEver'[q].tuns /\ Mine(q, vwAlways'[q].tuns) \subseteq tuns /\ IsFiniteSet(tuns)
      /\ \A u \in vwJob[q].users : IsFiniteSet(u.ports) /\ (Asked(q).admin \/ u.name = Asked(q).who)
      /\ LiveOK(vwJob[q].live)
  BY <1>1, <1>5 DEF ListInv, ReadInv, ListViews, Mine
<1>7. ASSUME NEW u \in vwJob[q].users, vwEver'[q] = vwAlways'[q], NEW mode
      PROVE  /\ free(u, mode) >= 0
             /\ free(u, mode) > 0 => u.ports \ PortsUsed(vwEver'[q].tuns, u, {mode}) # {}
  <2>1. \A x \in vwEver'[q].tuns : x.user = u.name => x \in tuns
    BY <1>6, <1>7 DEF Mine
  <2>2. {x \in vwEver'[q].tuns : x.user = u.name /\ x.on /\ x.mode \in {mode}}
          = {x \in tuns : x.user = u.name /\ x.on /\ x.mode \in {mode}}
    BY <1>6, <2>1
  <2>3. PortsUsed(vwEver'[q].tuns, u, {mode}) = PortsUsed(tuns, u, {mode})
    BY <2>2 DEF PortsUsed
  <2>4. IsFiniteSet(PortsUsed(tuns, u, {mode})) /\ IsFiniteSet(u.ports)
    BY <1>6, PortsFinite
  <2> QED BY <2>3, <2>4, FreeIsFree
<1> HIDE DEF free
<1>8. UsageInv(q)'
  <2> SUFFICES ASSUME NEW a \in out, vwEver'[q] = vwAlways'[q]
      PROVE  /\ a.tcpFree >= 0
             /\ a.tcpFree > 0 => a.user.ports \ PortsUsed(vwEver'[q].tuns, a.user, {"tcp"}) # {}
             /\ a.udpFree >= 0
             /\ a.udpFree > 0 => a.user.ports \ PortsUsed(vwEver'[q].tuns, a.user, {"udp"}) # {}
    BY <1>4 DEF UsageInv
  <2> QED BY <1>2, <1>7
<1>9. ReadInv(q)'
  <2>1. LiveOK(vwJob[q].live)'
    BY <1>4, <1>6 DEF LiveOK
  <2> QED BY <1>1, <1>4, <1>6, <2>1 DEF ReadInv, At, ListViews, Mine
<1>10. AvailInv(q)' /\ ClientInv(q)'
  BY <1>1 DEF AvailInv, ClientInv
<1> QED BY <1>8, <1>9, <1>10 DEF ListInv

LEMMA BootStep ==
  ASSUME NEW s, FrameInv(s), NEW q \in Views, BootInv(q), Frames(q), Ghosts(q),
         GetUser(q) \/ BootstrapTunnels(q) \/ clientBootstrap(q)
  PROVE  BootInv(q)'
<1>1. /\ Asked(q)' = Asked(q) /\ Asked(q).kind = "bootstrap"
      /\ vwWorld' = vwWorld /\ vwKnown' = vwKnown
  BY DEF Frames, Asked, GetUser, BootstrapTunnels, clientBootstrap, ViewAt
<1>2. /\ vwWorld.tuns \subseteq vwEver'[q].tuns /\ vwAlways'[q].tuns \subseteq vwWorld.tuns
      /\ vwWorld.nodes \subseteq vwEver'[q].nodes /\ vwAlways'[q].nodes \subseteq vwWorld.nodes
  BY <1>1, HoldsParts DEF Frames, Ghosts
<1>3. CASE GetUser(q)
  <2>1. vwJob'[q].at \in {"tuns", "404"}
    BY <1>3, ReadSets DEF GetUser, Answer, Fields
  <2> QED BY <2>1 DEF BootInv, At
<1>4. CASE BootstrapTunnels(q)
  <2>1. vwJob'[q].at = "nodes" /\ vwJob'[q].tuns = {t \in vwWorld.tuns : t.user = Asked(q).who}
    BY <1>4, ReadSets DEF BootstrapTunnels, Fields
  <2> QED BY <1>1, <1>2, <2>1 DEF BootInv, At
<1>5. CASE clientBootstrap(q)
  <2> DEFINE told == {x \in vwJob[q].tuns : x.on /\ \E n \in vwWorld.nodes : n.id = x.node /\ n.on}
             out == {[t |-> t, addr |-> addrIn(vwWorld.nodes, t.node)] : t \in told}
  <2>1. At(q) = "nodes" /\ Read(q, "end", "answer", out)
    BY <1>5 DEF clientBootstrap, Answer, ViewAt, At
  <2>2. vwJob'[q].at = "end" /\ vwJob'[q].answer = out
    <3>1. "answer" \in Fields \ {"at"}
      BY DEF Fields
    <3> HIDE DEF out
    <3> QED BY <2>1, <3>1, ReadSets
  <2>3. /\ vwEver[q].tuns \subseteq vwEver'[q].tuns /\ vwAlways'[q].tuns \subseteq vwAlways[q].tuns
    BY <2>1, GrowsParts DEF Ghosts
  <2>4. {a.t : a \in out} = told
    <3> HIDE DEF told
    <3>1. ASSUME NEW t \in told PROVE t \in {a.t : a \in out}
      <4>1. [t |-> t, addr |-> addrIn(vwWorld.nodes, t.node)] \in out
        OBVIOUS
      <4> HIDE DEF out
      <4> QED BY <4>1
    <3>2. ASSUME NEW a \in out PROVE a.t \in told
      OBVIOUS
    <3> QED BY <3>1, <3>2
  <2>5. ServedOf(q, vwAlways'[q]) \subseteq told /\ told \subseteq ServedOf(q, vwEver'[q])
    BY <1>1, <1>2, <2>1, <2>3 DEF BootInv, ServedOf
  <2>6. ASSUME NEW a \in out PROVE a.addr \in Addrs(vwEver'[q].nodes, a.t.node)
    <3>1. PICK t \in told : a = [t |-> t, addr |-> addrIn(vwWorld.nodes, t.node)]
      OBVIOUS
    <3>2. PICK n \in vwWorld.nodes : n.id = t.node
      OBVIOUS
    <3>3. \A m, l \in vwWorld.nodes : m.id = l.id => m = l
      BY WorldOK DEF Keyed
    <3>4. addrIn(vwWorld.nodes, t.node) = addrIn({n}, t.node)
      BY <3>2, <3>3, AddrOfNode
    <3>5. a.t = t /\ a.addr = addrIn({n}, t.node) /\ n \in vwEver'[q].nodes
      BY <1>2, <3>1, <3>2, <3>4
    <3> QED BY <3>2, <3>5 DEF Addrs
  <2>7. /\ ServedOf(q, vwAlways[q])' = ServedOf(q, vwAlways'[q])
        /\ ServedOf(q, vwEver[q])' = ServedOf(q, vwEver'[q])
    BY <1>1 DEF ServedOf
  <2> HIDE DEF told, out
  <2> QED BY <2>2, <2>4, <2>5, <2>6, <2>7 DEF BootInv, At
<1> QED BY <1>3, <1>4, <1>5

-----------------------------------------------------------------------------
(* Export.                                                                 *)

\* A file replaces that of the same user and node, and no other.
LEMMA PutKeeps ==
  ASSUME NEW file, vwFiles' = Put(file)
  PROVE  /\ FilesGrow /\ file \in vwFiles' /\ \A f \in vwFiles' : f \in vwFiles \/ f = file
         /\ HasFile(file.user, file.node)'
BY DEF Put, FilesGrow, HasFile

LEMMA SameFiles ==
  ASSUME vwFiles' = vwFiles
  PROVE  FilesGrow /\ \A name, id : HasFile(name, id) => HasFile(name, id)'
BY DEF FilesGrow, HasFile

\* A write: it fails, and the request ends, or the file is there.
LEMMA Writes ==
  ASSUME NEW s, FrameInv(s), NEW q \in Views, NEW file, NEW next, Write(q, file, next)
  PROVE  /\ FilesGrow /\ \A f \in vwFiles' : f \in vwFiles \/ f = file
         /\ \/ vwJob'[q].at = "500"
            \/ vwJob' = next /\ HasFile(file.user, file.node)'
<1>1. CASE vwFiles' = Put(file) /\ vwJob' = next
  BY <1>1, PutKeeps
<1>2. CASE Read(q, "500", "left", {}) /\ vwFiles' = vwFiles
  <2>1. vwJob'[q].at = "500"
    BY <1>2, ReadSets DEF Fields
  <2> QED BY <1>2, <2>1, SameFiles
<1> QED BY <1>1, <1>2 DEF Write

LEMMA FileFields ==
  ASSUME NEW u, NEW id, NEW addr
  PROVE  LET f == RenderNPCCommand(u, id, addr) IN
         f.user = u.name /\ f.node = id /\ f.addr = addr /\ f.key = {u.key}
BY DEF RenderNPCCommand

\* What a step of an export adds is made of what it has seen.
Adds(q) == FilesGrow /\ \A f \in vwFiles' : f \in vwFiles \/ MadeOf(f)'

LEMMA ListsExport ==
  ASSUME NEW s, FrameInv(s), NEW q \in Views, ExportInv(q), Frames(q), Ghosts(q),
         ExportUsers(q) \/ ListNodes(q)
  PROVE  ExportInv(q)' /\ Adds(q)
<1>1. /\ Asked(q)' = Asked(q) /\ Asked(q).kind = "export"
      /\ vwWorld' = vwWorld /\ vwKnown' = vwKnown
  BY DEF Frames, Asked, ExportUsers, ListNodes, ViewAt
<1>2. /\ vwWorld.users \subseteq vwEver'[q].users /\ vwAlways'[q].users \subseteq vwWorld.users
      /\ vwWorld.nodes \subseteq vwEver'[q].nodes /\ vwAlways'[q].nodes \subseteq vwWorld.nodes
  BY <1>1, HoldsParts DEF Frames, Ghosts
<1>3. (\A u \in vwWorld.users : u.name # "") /\ \A n \in vwWorld.nodes : n.id # ""
  BY WorldOK
<1>4. CASE ExportUsers(q)
  <2>1. PICK file, next : /\ file = ExportNPSClients(vwWorld.users)
                          /\ next = [vwJob EXCEPT ![q].at = "list", ![q].users = vwWorld.users]
                          /\ Write(q, file, next)
    BY <1>4 DEF ExportUsers
  <2>2. /\ FilesGrow /\ \A f \in vwFiles' : f \in vwFiles \/ f = file
        /\ vwJob'[q].at = "500" \/ vwJob' = next
    <3>1. Write(q, file, next)
      BY <2>1
    <3> QED BY <3>1, Writes
  <2>3. MadeOf(file)'
    <3>1. file.user = ""
      BY <2>1 DEF ExportNPSClients
    <3> QED BY <3>1 DEF MadeOf
  <2>4. Adds(q)
    BY <2>2, <2>3 DEF Adds
  <2>5. next[q].at = "list" /\ next[q].users = vwWorld.users
    BY <2>1 DEF FrameInv, Fields
  <2>6. ExportInv(q)'
    BY <1>2, <1>3, <2>2, <2>5 DEF ExportInv, At
  <2> QED BY <2>4, <2>6
<1>5. CASE ListNodes(q)
  <2>1. /\ vwJob'[q].at = "user" /\ vwJob'[q].nodes = vwWorld.nodes
        /\ vwJob'[q].users = vwJob[q].users /\ vwFiles' = vwFiles /\ At(q) = "list"
    BY <1>5, ReadSets DEF ListNodes, Fields, reading, ViewAt, At
  <2>2. /\ vwEver[q].users \subseteq vwEver'[q].users /\ vwAlways'[q].users \subseteq vwAlways[q].users
    BY <2>1, GrowsParts DEF Ghosts
  <2>3. ExportInv(q)'
    BY <1>1, <1>2, <1>3, <2>1, <2>2 DEF ExportInv, At
  <2> QED BY <2>1, <2>3, SameFiles DEF Adds
<1> QED BY <1>4, <1>5

\* What an export keeps of the ghosts and of the files.
LEMMA ExportKeeps ==
  ASSUME NEW q, At(q) # "new", Ghosts(q), FilesGrow
  PROVE  /\ vwEver[q].users \subseteq vwEver'[q].users /\ vwAlways'[q].users \subseteq vwAlways[q].users
         /\ vwEver[q].nodes \subseteq vwEver'[q].nodes /\ vwAlways'[q].nodes \subseteq vwAlways[q].nodes
         /\ vwAlways'[q].tuns \subseteq vwAlways[q].tuns
         /\ \A name, id : HasFile(name, id) => HasFile(name, id)'
         /\ \A u : HasFiles(q, u) => HasFiles(q, u)'
<1>1. /\ vwEver[q].users \subseteq vwEver'[q].users /\ vwAlways'[q].users \subseteq vwAlways[q].users
      /\ vwEver[q].nodes \subseteq vwEver'[q].nodes /\ vwAlways'[q].nodes \subseteq vwAlways[q].nodes
      /\ vwAlways'[q].tuns \subseteq vwAlways[q].tuns
  BY GrowsParts DEF Ghosts
<1>2. \A name, id : HasFile(name, id) => HasFile(name, id)'
  BY FilesStay
<1>3. \A u : HasFiles(q, u) => HasFiles(q, u)'
  BY <1>1, <1>2 DEF HasFiles
<1> QED BY <1>1, <1>2, <1>3

LEMMA UserExported ==
  ASSUME NEW s, FrameInv(s), NEW q \in Views, ExportInv(q), Frames(q), Ghosts(q), ExportUser(q)
  PROVE  ExportInv(q)' /\ Adds(q)
<1>1. /\ Asked(q)' = Asked(q) /\ Asked(q).kind = "export" /\ At(q) = "user"
      /\ vwWorld' = vwWorld /\ vwKnown' = vwKnown /\ At(q)' # "new" /\ Views' = Views
  BY DEF Frames, Asked, ExportUser, ViewAt, At, Views
<1>2. CASE vwJob[q].users = {}
  <2>1. vwJob'[q].at = "end" /\ vwFiles' = vwFiles
    <3>1. vwFiles' = vwFiles /\ Read(q, "end", "answer", {})
      BY <1>2 DEF ExportUser, Answer, reading
    <3>2. "answer" \in Fields \ {"at"}
      BY DEF Fields
    <3> QED BY <3>1, <3>2, ReadSets
  <2>2. FilesGrow
    BY <2>1, SameFiles
  <2>3. /\ vwAlways'[q].users \subseteq vwAlways[q].users
        /\ \A u : HasFiles(q, u) => HasFiles(q, u)'
    BY <1>1, <2>2, ExportKeeps
  <2>4. \A u \in vwAlways'[q].users : HasFiles(q, u)'
    BY <1>1, <1>2, <2>3 DEF ExportInv
  <2>5. ExportInv(q)'
    BY <2>1, <2>4 DEF ExportInv, At
  <2> QED BY <2>1, <2>2, <2>5 DEF Adds
<1>3. CASE vwJob[q].users # {}
  <2>1. PICK u, file, next :
          /\ u \in vwJob[q].users
          /\ file = RenderNPCCommand(u, "", "control")
          /\ next = [vwJob EXCEPT ![q].at = "node",
                     ![q].tuns = {t \in vwWorld.tuns : t.user = u.name},
                     ![q].left = {[u |-> u, n |-> n] : n \in vwJob[q].nodes}]
          /\ Write(q, file, next)
    BY <1>3 DEF ExportUser
  <2>2. file.user = u.name /\ file.node = "" /\ file.key = {u.key}
    <3>1. file = RenderNPCCommand(u, "", "control")
      BY <2>1
    <3> QED BY <3>1 DEF RenderNPCCommand
  <2>3. /\ FilesGrow /\ \A f \in vwFiles' : f \in vwFiles \/ f = file
        /\ \/ vwJob'[q].at = "500"
           \/ vwJob' = next /\ HasFile(file.user, file.node)'
    <3>1. Write(q, file, next)
      BY <2>1
    <3> QED BY <3>1, Writes
  <2>4. /\ vwEver[q].users \subseteq vwEver'[q].users /\ vwAlways'[q].users \subseteq vwAlways[q].users
        /\ vwEver[q].nodes \subseteq vwEver'[q].nodes /\ vwAlways'[q].nodes \subseteq vwAlways[q].nodes
        /\ \A w : HasFiles(q, w) => HasFiles(q, w)'
    BY <1>1, <2>3, ExportKeeps
  <2>5. MadeOf(file)'
    <3>1. u \in vwEver'[q].users
      BY <1>1, <2>1, <2>4 DEF ExportInv
    <3> QED BY <1>1, <2>2, <3>1 DEF MadeOf
  <2>6. Adds(q)
    BY <2>3, <2>5 DEF Adds
  <2>7. CASE vwJob'[q].at = "500"
    BY <2>6, <2>7 DEF ExportInv, At
  <2>8. CASE vwJob' = next /\ HasFile(u.name, "")'
    <3>1. /\ vwJob'[q].at = "node" /\ vwJob'[q].users = vwJob[q].users
          /\ vwJob'[q].nodes = vwJob[q].nodes
          /\ vwJob'[q].tuns = {t \in vwWorld.tuns : t.user = u.name}
          /\ vwJob'[q].left = {[u |-> u, n |-> n] : n \in vwJob[q].nodes}
      BY <2>1, <2>8 DEF FrameInv, Fields
    <3>2. vwAlways'[q].tuns \subseteq vwWorld.tuns
      BY <1>1, HoldsParts DEF Frames, Ghosts
    <3>3. /\ \A t \in vwAlways'[q].tuns : t.user = u.name => t \in vwJob'[q].tuns
          /\ vwJob'[q].left \subseteq {[u |-> u, n |-> n] : n \in vwJob'[q].nodes}
          /\ \A t \in vwJob'[q].tuns, n \in vwJob'[q].nodes :
               n.id = t.node => [u |-> u, n |-> n] \in vwJob'[q].left \/ HasFile(u.name, n.id)'
      BY <3>1, <3>2
    <3>4. \A w \in vwAlways'[q].users : HasFiles(q, w)' \/ w \in vwJob'[q].users
      BY <1>1, <2>4, <3>1 DEF ExportInv
    <3>5. /\ \A w \in vwJob'[q].users : w \in vwEver'[q].users /\ w.name # ""
          /\ \A n \in vwJob'[q].nodes : n \in vwEver'[q].nodes /\ n.id # ""
          /\ vwAlways'[q].nodes \subseteq vwJob'[q].nodes
      BY <1>1, <2>4, <3>1 DEF ExportInv
    <3>6. vwJob'[q].at = "node" /\ u \in vwJob'[q].users
      BY <2>1, <3>1
    <3>7. ExportInv(q)'
      BY <2>8, <3>3, <3>4, <3>5, <3>6 DEF ExportInv, At
    <3> QED BY <2>6, <3>7
  <2> QED BY <2>2, <2>3, <2>7, <2>8
<1> QED BY <1>2, <1>3

LEMMA NodeExported ==
  ASSUME NEW s, FrameInv(s), NEW q \in Views, ExportInv(q), Frames(q), Ghosts(q), ExportNode(q)
  PROVE  ExportInv(q)' /\ Adds(q)
<1>1. /\ Asked(q)' = Asked(q) /\ Asked(q).kind = "export" /\ At(q) = "node"
      /\ vwWorld' = vwWorld /\ vwKnown' = vwKnown /\ At(q)' # "new" /\ Views' = Views
  BY DEF Frames, Asked, ExportNode, ViewAt, At, Views
<1>2. PICK x, rest, next :
        /\ x \in vwJob[q].left
        /\ rest = vwJob[q].left \ {x}
        /\ next = [vwJob EXCEPT ![q].left = rest,
                                ![q].at = IF rest = {} THEN "user" ELSE "node",
                                ![q].users = IF rest = {} THEN @ \ {x.u} ELSE @]
        /\ \/ /\ \E t \in vwJob[q].tuns : t.node = x.n.id
              /\ Write(q, RenderNPCCommand(x.u, x.n.id, addrIn({x.n}, x.n.id)), next)
           \/ /\ ~\E t \in vwJob[q].tuns : t.node = x.n.id
              /\ vwFiles' = vwFiles /\ vwJob' = next
  BY DEF ExportNode, reading
<1>3. PICK u \in vwJob[q].users :
        /\ \A t \in vwAlways[q].tuns : t.user = u.name => t \in vwJob[q].tuns
        /\ vwJob[q].left \subseteq {[u |-> u, n |-> n] : n \in vwJob[q].nodes}
        /\ HasFile(u.name, "")
        /\ \A t \in vwJob[q].tuns, n \in vwJob[q].nodes :
             n.id = t.node => [u |-> u, n |-> n] \in vwJob[q].left \/ HasFile(u.name, n.id)
  BY <1>1 DEF ExportInv
<1>4. x.u = u /\ x.n \in vwJob[q].nodes /\ x = [u |-> u, n |-> x.n]
  <2>1. x \in {[u |-> u, n |-> n] : n \in vwJob[q].nodes}
    BY <1>2, <1>3
  <2>2. PICK n \in vwJob[q].nodes : x = [u |-> u, n |-> n]
    BY <2>1
  <2> QED BY <2>2
<1>5. PICK file : file = RenderNPCCommand(u, x.n.id, addrIn({x.n}, x.n.id))
  OBVIOUS
<1>6. /\ file.user = u.name /\ file.node = x.n.id /\ file.key = {u.key}
      /\ file.addr = addrIn({x.n}, x.n.id)
  BY <1>5, FileFields
<1>7. /\ FilesGrow /\ \A f \in vwFiles' : f \in vwFiles \/ f = file
      /\ \/ vwJob'[q].at = "500"
         \/ /\ vwJob' = next
            /\ (\E t \in vwJob[q].tuns : t.node = x.n.id) => HasFile(u.name, x.n.id)'
  <2>1. CASE /\ ~\E t \in vwJob[q].tuns : t.node = x.n.id
             /\ vwFiles' = vwFiles /\ vwJob' = next
    BY <2>1, SameFiles
  <2>2. CASE Write(q, RenderNPCCommand(x.u, x.n.id, addrIn({x.n}, x.n.id)), next)
    <3>1. Write(q, file, next)
      BY <1>4, <1>5, <2>2
    <3>2. /\ FilesGrow /\ \A f \in vwFiles' : f \in vwFiles \/ f = file
          /\ \/ vwJob'[q].at = "500"
             \/ vwJob' = next /\ HasFile(file.user, file.node)'
      BY <3>1, Writes
    <3> QED BY <1>6, <3>2
  <2> QED BY <1>2, <2>1, <2>2
<1>8. /\ vwEver[q].users \subseteq vwEver'[q].users /\ vwAlways'[q].users \subseteq vwAlways[q].users
      /\ vwEver[q].nodes \subseteq vwEver'[q].nodes /\ vwAlways'[q].nodes \subseteq vwAlways[q].nodes
      /\ vwAlways'[q].tuns \subseteq vwAlways[q].tuns
      /\ \A name, id : HasFile(name, id) => HasFile(name, id)'
      /\ \A w : HasFiles(q, w) => HasFiles(q, w)'
  BY <1>1, <1>7, ExportKeeps
<1>9. MadeOf(file)'
  <2>1. u \in vwEver'[q].users /\ x.n \in vwEver'[q].nodes
    BY <1>1, <1>4, <1>8 DEF ExportInv
  <2> QED BY <1>1, <1>6, <2>1 DEF MadeOf
<1>10. Adds(q)
  BY <1>7, <1>9 DEF Adds
<1>11. CASE vwJob'[q].at = "500"
  BY <1>10, <1>11 DEF ExportInv, At
<1>12. CASE /\ vwJob' = next
            /\ (\E t \in vwJob[q].tuns : t.node = x.n.id) => HasFile(u.name, x.n.id)'
  <2>1. /\ vwJob'[q].left = rest /\ vwJob'[q].at = IF rest = {} THEN "user" ELSE "node"
        /\ vwJob'[q].users = IF rest = {} THEN vwJob[q].users \ {u} ELSE vwJob[q].users
        /\ vwJob'[q].nodes = vwJob[q].nodes /\ vwJob'[q].tuns = vwJob[q].tuns
    BY <1>2, <1>4, <1>12 DEF FrameInv, Fields
  <2>2. \A t \in vwJob[q].tuns, n \in vwJob[q].nodes :
          n.id = t.node => [u |-> u, n |-> n] \in rest \/ HasFile(u.name, n.id)'
    <3> SUFFICES ASSUME NEW t \in vwJob[q].tuns, NEW n \in vwJob[q].nodes, n.id = t.node,
                        [u |-> u, n |-> n] \notin rest
                 PROVE  HasFile(u.name, n.id)'
      OBVIOUS
    <3>1. CASE [u |-> u, n |-> n] = x
      <4>1. n = x.n
        BY <3>1
      <4> QED BY <1>12, <4>1
    <3>2. CASE [u |-> u, n |-> n] # x
      BY <1>2, <1>3, <1>8, <3>2
    <3> QED BY <3>1, <3>2
  <2>3. /\ \A t \in vwAlways'[q].tuns : t.user = u.name => t \in vwJob[q].tuns
        /\ rest \subseteq {[u |-> u, n |-> n] : n \in vwJob[q].nodes}
        /\ HasFile(u.name, "")'
    BY <1>2, <1>3, <1>8
  <2>4. /\ \A w \in vwJob[q].users : w \in vwEver'[q].users /\ w.name # ""
        /\ \A n \in vwJob[q].nodes : n \in vwEver'[q].nodes /\ n.id # ""
        /\ vwAlways'[q].nodes \subseteq vwJob[q].nodes
        /\ \A w \in vwAlways'[q].users : HasFiles(q, w)' \/ w \in vwJob[q].users
    BY <1>1, <1>8 DEF ExportInv
  <2>5. CASE rest # {}
    <3>1. vwJob'[q].at = "node" /\ vwJob'[q].users = vwJob[q].users
      BY <2>1, <2>5
    <3>2. ExportInv(q)'
      BY <2>1, <2>2, <2>3, <2>4, <3>1 DEF ExportInv, At
    <3> QED BY <1>10, <3>2
  <2>6. CASE rest = {}
    <3>1. vwJob'[q].at = "user" /\ vwJob'[q].users = vwJob[q].users \ {u}
      BY <2>1, <2>6
    <3>2. HasFiles(q, u)'
      BY <2>2, <2>3, <2>4, <2>6 DEF HasFiles
    <3>3. \A w \in vwAlways'[q].users : HasFiles(q, w)' \/ w \in vwJob'[q].users
      BY <2>4, <3>1, <3>2
    <3>4. ExportInv(q)'
      BY <2>1, <2>4, <3>1, <3>3 DEF ExportInv, At
    <3> QED BY <1>10, <3>4
  <2> QED BY <2>5, <2>6
<1> QED BY <1>7, <1>11, <1>12

-----------------------------------------------------------------------------
(* Every step, and what follows.                                           *)

OwnInv(q) == ListInv(q) /\ BootInv(q) /\ ExportInv(q)

\* Of a request that makes a step.
LEMMA OwnStep ==
  ASSUME NEW s, FrameInv(s), NEW q \in Views, OwnInv(q), Frames(q), Ghosts(q), ViewStep(q)
  PROVE  OwnInv(q)' /\ Adds(q)
<1>1. Asked(q)' = Asked(q)
  BY DEF Frames, Asked
<1>2. ASSUME ListInv(q)', Asked(q).kind \in ListViews, vwFiles' = vwFiles
      PROVE  OwnInv(q)' /\ Adds(q)
  <2>1. BootInv(q)' /\ ExportInv(q)'
    BY <1>1, <1>2 DEF ListViews, BootInv, ExportInv
  <2> QED BY <1>2, <2>1, SameFiles DEF OwnInv, Adds
<1>3. CASE Users(q)
  BY <1>2, <1>3, UsersReads DEF OwnInv, Users, ViewAt, reading
<1>4. CASE ListTunnels(q)
  BY <1>2, <1>4, TunnelsRead DEF OwnInv, ListTunnels, ViewAt, reading
<1>5. CASE FRPClientStatuses(q) \/ NPSClientStatuses(q)
  BY <1>2, <1>5, ClientsRead DEF OwnInv, FRPClientStatuses, NPSClientStatuses, ViewAt, reading
<1>6. CASE allClientStatuses(q)
  BY <1>2, <1>6, RemoteRead DEF OwnInv, allClientStatuses, ViewAt, reading
<1>7. CASE runtimeForTunnel(q) \/ checkTunnelAvailability(q) \/ listAvailability(q)
  <2>1. Asked(q).kind \in ListViews /\ vwFiles' = vwFiles
    BY <1>7 DEF runtimeForTunnel, checkTunnelAvailability, listAvailability, ViewAt, reading,
                ListViews
  <2>2. ListInv(q)'
    BY <1>7, AvailStep DEF OwnInv
  <2> QED BY <1>2, <2>1, <2>2
<1>8. CASE clientStatusesFor(q)
  <2>1. Asked(q).kind \in ListViews /\ vwFiles' = vwFiles
    BY <1>8 DEF clientStatusesFor, ViewAt, reading, ListViews
  <2>2. ListInv(q)'
    BY <1>8, ClientsStep DEF OwnInv
  <2> QED BY <1>2, <2>1, <2>2
<1>9. CASE resourceUsageFor(q)
  BY <1>2, <1>9, UsageStep DEF OwnInv, resourceUsageFor, ViewAt, reading, ListViews
<1>10. CASE GetUser(q) \/ BootstrapTunnels(q) \/ clientBootstrap(q)
  <2>1. Asked(q).kind = "bootstrap" /\ vwFiles' = vwFiles
    BY <1>10 DEF GetUser, BootstrapTunnels, clientBootstrap, ViewAt, reading
  <2>2. BootInv(q)'
    BY <1>10, BootStep DEF OwnInv
  <2>3. ListInv(q)' /\ ExportInv(q)'
    BY <1>1, <2>1 DEF ListInv, ReadInv, AvailInv, ClientInv, UsageInv, ExportInv, ListViews
  <2> QED BY <2>1, <2>2, <2>3, SameFiles DEF OwnInv, Adds
<1>11. CASE ExportUsers(q) \/ ListNodes(q) \/ ExportUser(q) \/ ExportNode(q)
  <2>1. Asked(q).kind = "export"
    BY <1>11 DEF ExportUsers, ListNodes, ExportUser, ExportNode, ViewAt
  <2>2. ExportInv(q)' /\ Adds(q)
    BY <1>11, ListsExport, UserExported, NodeExported DEF OwnInv
  <2>3. ListInv(q)' /\ BootInv(q)'
    BY <1>1, <2>1 DEF ListInv, ReadInv, AvailInv, ClientInv, UsageInv, BootInv, ListViews
  <2> QED BY <2>2, <2>3 DEF OwnInv
<1> QED BY <1>3, <1>4, <1>5, <1>6, <1>7, <1>8, <1>9, <1>10, <1>11 DEF ViewStep

\* Of a request that does not.
LEMMA OthersKeep ==
  ASSUME NEW q \in Views, OwnInv(q), Keeps(q)
  PROVE  OwnInv(q)'
BY KeepRead, KeepAvail, KeepClient, KeepUsage, KeepBoot, KeepExport DEF OwnInv, ListInv

\* A file is still made of what was seen.
LEMMA MadeStays ==
  ASSUME NEW f, MadeOf(f), Views' = Views,
         \A r \in Views : Asked(r)' = Asked(r) /\ Ghosts(r) /\ (At(r)' = "new" => At(r) = "new")
  PROVE  MadeOf(f)'
<1>1. CASE f.user = ""
  BY <1>1 DEF MadeOf
<1>2. CASE f.user # ""
  <2>1. PICK r \in Views : /\ Asked(r).kind = "export" /\ At(r) # "new"
       /\ \E u \in vwEver[r].users : f.user = u.name /\ f.key = {u.key}
       /\ \/ f.node = ""
          \/ \E n \in vwEver[r].nodes : f.node = n.id /\ f.addr = addrIn({n}, n.id)
    BY <1>2 DEF MadeOf
  <2>2. vwEver[r].users \subseteq vwEver'[r].users /\ vwEver[r].nodes \subseteq vwEver'[r].nodes
    BY <2>1, GrowsParts DEF Ghosts
  <2>3. r \in Views' /\ (Asked(r).kind = "export" /\ At(r) # "new")'
    BY <2>1
  <2>4. /\ \E u \in vwEver'[r].users : f.user = u.name /\ f.key = {u.key}
        /\ \/ f.node = ""
           \/ \E n \in vwEver'[r].nodes : f.node = n.id /\ f.addr = addrIn({n}, n.id)
    BY <2>1, <2>2
  <2> QED BY <2>3, <2>4 DEF MadeOf
<1> QED BY <1>1, <1>2

LEMMA ViewNextKeeps ==
  ASSUME NEW s, SceneOK(s), FrameInv(s), GhostInv, FilesInv, \A q \in Views : OwnInv(q), ViewNext
  PROVE  FilesInv' /\ \A q \in Views : OwnInv(q)'
<1>1. Views' = Views /\ \A q \in Views : Ghosts(q)
  BY FrameStep, GhostStep
<1>2. CASE Change \/ setRemoteClientStatuses
  <2>1. vwJob' = vwJob /\ vwFiles' = vwFiles /\ vwScene'.asks = vwScene.asks
    BY <1>2, WorldFrames DEF FrameInv
  <2>2. \A r \in Views : Asked(r)' = Asked(r) /\ Ghosts(r) /\ (At(r)' = "new" => At(r) = "new")
    BY <1>1, <2>1 DEF Asked, At
  <2>3. \A r \in Views : Keeps(r)
    BY <2>1, <2>2, SameFiles DEF Keeps
  <2>4. \A f \in vwFiles' : MadeOf(f)'
    BY <1>1, <2>1, <2>2, MadeStays DEF FilesInv
  <2> QED BY <2>3, <2>4, OthersKeep DEF FilesInv
<1>3. CASE \E q \in Views : ViewStep(q)
  <2>1. PICK q \in Views : ViewStep(q)
    BY <1>3
  <2>2. Frames(q)
    BY <2>1, StepFrames
  <2>3. OwnInv(q)' /\ Adds(q)
    BY <1>1, <2>1, <2>2, OwnStep
  <2>4. \A r \in Views : Asked(r)' = Asked(r) /\ Ghosts(r) /\ (At(r)' = "new" => At(r) = "new")
    BY <1>1, <2>2 DEF Frames, Asked, At
  <2>5. \A r \in Views : r # q => Keeps(r)
    BY <2>2, <2>3, <2>4 DEF Frames, Keeps, Adds
  <2>6. \A f \in vwFiles' : MadeOf(f)'
    BY <1>1, <2>3, <2>4, MadeStays DEF FilesInv, Adds
  <2> QED BY <2>3, <2>5, <2>6, OthersKeep DEF FilesInv
<1> QED BY <1>2, <1>3 DEF ViewNext

LEMMA ViewStart ==
  ASSUME NEW s, SceneOK(s), ViewInit(s)
  PROVE  ViewInv(s)
<1>1. /\ vwScene = s /\ vwWorld = s.world /\ vwKnown = {} /\ vwFiles = {}
      /\ vwJob = [q \in DOMAIN s.asks |->
                [at |-> "new", users |-> {}, tuns |-> {}, nodes |-> {}, live |-> {},
                 left |-> {}, answer |-> {}]]
      /\ vwEver = [q \in DOMAIN s.asks |-> Holding(s.world, {})]
      /\ vwAlways = [q \in DOMAIN s.asks |-> Holding(s.world, {})]
  BY DEF ViewInit
<1>2. Views = DOMAIN s.asks /\ LiveOK({}) /\ LiveOK(vwKnown)
  BY <1>1, FS_EmptySet DEF Views, LiveOK
<1>3. DOMAIN vwJob = Views /\ \A q \in Views : DOMAIN vwJob[q] = Fields
  BY <1>1, <1>2 DEF Fields
<1>4. FrameInv(s)
  BY <1>1, <1>2, <1>3 DEF FrameInv, SceneOK
<1>5. Now = Holding(s.world, {})
  BY <1>1 DEF Now, Holding
<1>6. GhostInv
  <2>1. ASSUME NEW q \in Views
        PROVE  vwEver[q] = Now /\ vwAlways[q] = Now
    BY <1>1, <1>2, <1>5
  <2>2. Now.users = vwWorld.users /\ Now.nodes = vwWorld.nodes
    BY <1>1, <1>5 DEF Holding, Parts
  <2>3. InOrder(Now)
    BY <1>4, <2>2, WorldOK DEF InOrder, Keyed
  <2> QED BY <2>1, <2>3 DEF GhostInv
<1>7. FilesInv
  BY <1>1 DEF FilesInv
<1>8. ASSUME NEW q \in Views PROVE OwnInv(q)
  <2>1. /\ At(q) = "new" /\ vwJob[q].users = {} /\ vwJob[q].live = {} /\ vwJob[q].nodes = {}
        /\ vwJob[q].answer = {}
    BY <1>1, <1>2 DEF At
  <2>2. ReadInv(q)
    BY <1>2, <2>1 DEF ReadInv
  <2>3. AvailInv(q) /\ ClientInv(q) /\ BootInv(q) /\ UsageInv(q) /\ ExportInv(q)
    BY <2>1 DEF AvailInv, ClientInv, BootInv, UsageInv, ExportInv
  <2> QED BY <2>2, <2>3 DEF OwnInv, ListInv
<1> QED BY <1>4, <1>6, <1>7, <1>8 DEF ViewInv, OwnInv, ListInv

LEMMA ViewSteps ==
  ASSUME NEW s, SceneOK(s)
  PROVE  ViewInv(s) /\ [ViewNext]_viewVars => ViewInv(s)'
<1> SUFFICES ASSUME ViewInv(s), [ViewNext]_viewVars PROVE ViewInv(s)'
  OBVIOUS
<1>1. CASE ViewNext
  <2>1. FrameInv(s) /\ GhostInv /\ FilesInv /\ \A q \in Views : OwnInv(q)
    BY DEF ViewInv, OwnInv, ListInv
  <2>2. FrameInv(s)' /\ GhostInv' /\ Views' = Views
    BY <1>1, <2>1, FrameStep, GhostStep
  <2>3. FilesInv' /\ \A q \in Views : OwnInv(q)'
    BY <1>1, <2>1, ViewNextKeeps
  <2> QED BY <2>2, <2>3 DEF ViewInv, OwnInv, ListInv
<1>2. CASE UNCHANGED viewVars
  <2>1. /\ vwScene' = vwScene /\ vwWorld' = vwWorld /\ vwKnown' = vwKnown /\ vwJob' = vwJob
        /\ vwFiles' = vwFiles /\ vwEver' = vwEver /\ vwAlways' = vwAlways
    BY <1>2 DEF viewVars
  <2>2. FrameInv(s)' /\ GhostInv' /\ FilesInv'
    <3>1. FrameInv(s)'
      BY <2>1 DEF ViewInv, FrameInv, Views, PartOK, LiveOK, Keyed
    <3>2. GhostInv'
      <4>1. Now' = Now
        BY <2>1 DEF Now, Holding
      <4> QED BY <2>1, <4>1, ZenonT(60) DEF ViewInv, GhostInv, Views, At, InOrder, Keyed
    <3>3. FilesInv'
      BY <2>1 DEF ViewInv, FilesInv, MadeOf, Views, At, Asked
    <3> QED BY <3>1, <3>2, <3>3
  <2>3. Views' = Views /\ \A q \in Views : OwnInv(q)
    BY <2>1 DEF ViewInv, OwnInv, ListInv, Views
  <2>4. ASSUME NEW q \in Views PROVE OwnInv(q)'
    <3>1. Ghosts(q)
      <4>1. Now' = Now
        BY <2>1 DEF Now, Holding
      <4>2. \A p \in Parts : At(q) # "end" => Now[p] \subseteq vwEver[q][p] /\ vwAlways[q][p] \subseteq Now[p]
        BY DEF ViewInv, GhostInv
      <4> QED BY <2>1, <4>1, <4>2 DEF Ghosts, Grows, Holds, At
    <3>2. Keeps(q)
      BY <2>1, <3>1, SameFiles DEF Keeps, Asked
    <3> QED BY <2>3, <3>2, OthersKeep
  <2> QED BY <2>2, <2>3, <2>4 DEF ViewInv, OwnInv, ListInv
<1> QED BY <1>1, <1>2

\* The files of the users, when nothing changed while they were made.
LEMMA ExportIsTrue ==
  ASSUME GhostInv, FilesInv, NEW q \in Views, ExportInv(q), Ended(q, "export"),
         \A r \in Views : Asked(r).kind = "export" =>
                            vwEver[r] = vwEver[q] /\ vwAlways[r] = vwEver[q]
  PROVE  \A u \in vwEver[q].users :
           /\ \E f \in vwFiles : f.user = u.name /\ f.node = "" /\ f.key = {u.key}
           /\ \A t \in vwEver[q].tuns : t.user = u.name =>
                \A n \in vwEver[q].nodes : n.id = t.node =>
                  \E f \in vwFiles : /\ f.user = u.name /\ f.node = n.id /\ f.key = {u.key}
                                     /\ f.addr = addrIn({n}, n.id)
<1>1. /\ Asked(q).kind = "export" /\ At(q) = "end"
      /\ vwAlways[q] = vwEver[q] /\ InOrder(vwEver[q])
  BY DEF GhostInv, Ended, ViewAt, At
<1> SUFFICES ASSUME NEW u \in vwEver[q].users
    PROVE  /\ \E f \in vwFiles : f.user = u.name /\ f.node = "" /\ f.key = {u.key}
           /\ \A t \in vwEver[q].tuns : t.user = u.name =>
                \A n \in vwEver[q].nodes : n.id = t.node =>
                  \E f \in vwFiles : /\ f.user = u.name /\ f.node = n.id /\ f.key = {u.key}
                                     /\ f.addr = addrIn({n}, n.id)
  OBVIOUS
<1>2. /\ HasFile(u.name, "")
      /\ \A t \in vwEver[q].tuns, n \in vwEver[q].nodes :
           t.user = u.name /\ n.id = t.node => HasFile(u.name, n.id)
  BY <1>1 DEF ExportInv, HasFiles
<1>3. ASSUME NEW f \in vwFiles, f.user = u.name
      PROVE  /\ f.key = {u.key}
             /\ \A n \in vwEver[q].nodes : f.node = n.id => f.addr = addrIn({n}, n.id)
  <2>1. u.name # "" /\ \A n \in vwEver[q].nodes : n.id # ""
    BY <1>1 DEF InOrder
  <2>2. PICK r \in Views : /\ Asked(r).kind = "export" /\ At(r) # "new"
       /\ \E w \in vwEver[r].users : f.user = w.name /\ f.key = {w.key}
       /\ \/ f.node = ""
          \/ \E n \in vwEver[r].nodes : f.node = n.id /\ f.addr = addrIn({n}, n.id)
    BY <1>3, <2>1 DEF FilesInv, MadeOf
  <2>3. vwEver[r] = vwEver[q]
    BY <2>2
  <2>4. \A v, w \in vwEver[q].users : v.name = w.name => v = w
    BY <1>1 DEF InOrder, Keyed
  <2>5. \A n, m \in vwEver[q].nodes : n.id = m.id => n = m
    BY <1>1 DEF InOrder, Keyed
  <2>6. f.key = {u.key}
    BY <1>3, <2>2, <2>3, <2>4
  <2>7. \A n \in vwEver[q].nodes : f.node = n.id => f.addr = addrIn({n}, n.id)
    BY <2>1, <2>2, <2>3, <2>5
  <2> QED BY <2>6, <2>7
<1> QED BY <1>2, <1>3 DEF HasFile

LEMMA AnswersTrue ==
  ASSUME NEW s, ViewInv(s)
  PROVE  ViewsSound
<1>1. GhostInv /\ FilesInv /\ \A q \in Views : OwnInv(q)
  BY DEF ViewInv, OwnInv, ListInv
<1>2. AvailabilityTrue
  BY <1>1 DEF OwnInv, ListInv, AvailInv, TrueState, AvailabilityTrue, Ended, ViewAt, At
<1>3. ClientsTrue
  BY <1>1 DEF OwnInv, ListInv, ClientInv, ClientOn, ClientsTrue, Ended, ViewAt, At
<1>4. BootstrapTrue
  BY <1>1 DEF OwnInv, BootInv, ServedOf, BootstrapTrue, Ended, ViewAt, At
<1>5. UsageTrue
  BY <1>1 DEF OwnInv, ListInv, UsageInv, UsageTrue, Ended, ViewAt, At
<1>6. ExportTrue
  BY <1>1, ExportIsTrue DEF OwnInv, ExportTrue
<1> QED BY <1>2, <1>3, <1>4, <1>5, <1>6 DEF ViewsSound

\* What the control tells was so, whatever changes while a request reads: the state of a
\* tunnel, who is online, what a client starts with, how many ports are free, and the
\* files of the users.  For any number of requests, users, nodes, tunnels and changes.
THEOREM ViewsSoundHolds ==
  ASSUME NEW s, SceneOK(s)
  PROVE  ViewInit(s) /\ [][ViewNext]_viewVars => []ViewsSound
<1>1. ViewInit(s) => ViewInv(s)
  BY ViewStart
<1>2. ViewInv(s) /\ [ViewNext]_viewVars => ViewInv(s)'
  BY ViewSteps
<1>3. ViewInv(s) => ViewsSound
  BY AnswersTrue
<1> QED BY <1>1, <1>2, <1>3, PTL

-----------------------------------------------------------------------------
(* The log.                                                                *)

Line(piece) == piece[1]
Begins(text) == text[1]

\* What is still to be read: texts that go on from each other.
ChunksGoOn(chunks) ==
  /\ \A k \in DOMAIN chunks : GoesOn(chunks[k]) /\ chunks[k] # <<>>
  /\ \A k \in DOMAIN chunks : k > 1 => No(Begins(chunks[k])) = No(Last(chunks[k - 1])) + 1
LogTypes ==
  /\ lbScene \in [chunks : Seq(Seq(Piece)), max : Nat \ {0}, clears : Nat]
  /\ ChunksGoOn(lbScene.chunks) /\ lbNext \in Nat
  /\ GoesOn(lbText) /\ GoesOn(lbLines) /\ GoesOn(lbPartial)
  /\ lbText = <<>> \/ lbLines = <<>>
  /\ lbPartial # <<>> => Len(lbPartial) = 1 /\ ~Complete(Begins(lbPartial))
  /\ lbLines # <<>> => Complete(Last(lbLines))
  /\ lbAdded \in Seq(Seq(Piece) \ {<<>>})
  /\ lbEntries \in Seq([id : Int, line : Seq(Piece)])

\* A text that does not begin with the begin of a line lost it to a clear.
Whole(text, torn) ==
  text # <<>> /\ Complete(Begins(text)) => Line(Begins(text)) \in torn

\* What comes next continues the text at hand, or the piece kept of the line before.
Onward ==
  /\ Whole(lbText, lbTorn) /\ Whole(lbLines, lbTorn)
  /\ lbScene.chunks # <<>> =>
       LET next == Head(lbScene.chunks) IN
       IF lbText # <<>> THEN No(Begins(next)) = No(Last(lbText)) + 1
       ELSE IF lbPartial # <<>> THEN No(Begins(next)) = No(Begins(lbPartial)) + 1
       ELSE Whole(next, lbTorn)

\* No line of the log is as late as a line that is on its way.
Before(added, text) == text # <<>> => \A i \in DOMAIN added : Line(Last(added[i])) < Line(Begins(text))
After(text) == text # <<>> /\ lbLines # <<>> => Line(Last(lbLines)) < Line(Begins(text))
Coming(chunks) == IF chunks = <<>> THEN <<>> ELSE Head(chunks)
Ordered ==
  /\ \A i, j \in DOMAIN lbAdded : i < j => Line(Last(lbAdded[i])) < Line(Last(lbAdded[j]))
  /\ Before(lbAdded, lbText) /\ Before(lbAdded, lbLines)
  /\ lbText = <<>> =>
       /\ Before(lbAdded, lbPartial) /\ Before(lbAdded, Coming(lbScene.chunks))
       /\ After(lbPartial) /\ After(Coming(lbScene.chunks))

\* A line has both of its pieces, or was torn.
BothPieces(line, torn) ==
  line = << <<Line(Last(line)), 1>>, <<Line(Last(line)), 2>> >> \/ Line(Last(line)) \in torn
\* Some entries are the last of the lines added, with the last numbers.
HoldsLast(entries, added, next) ==
  LET n == Len(added)  k == Len(entries) IN
  /\ k <= n /\ k <= lbScene.max /\ (k = n \/ k = lbScene.max)
  /\ \A i \in DOMAIN entries :
       entries[i].line = added[n - k + i] /\ entries[i].id = next - k + i
Kept ==
  HoldsLast(lbEntries, lbAdded, lbNext) /\ \A i \in DOMAIN lbAdded : BothPieces(lbAdded[i], lbTorn)

LogInv == LogTypes /\ Onward /\ Ordered /\ Kept
LEMMA MaxIs ==
  ASSUME NEW n \in Nat, NEW S, S \subseteq 0..n, S # {}
  PROVE  Max(S) \in S /\ \A y \in S : y <= Max(S)
<1> DEFINE D(x) == {y \in S : y > x}
           F == {D(x) : x \in S}
           R == StrictSubsetOrdering(S)
<1>1. F \subseteq FiniteSubsetsOf(S) /\ F # {}
  <2>1. IsFiniteSet(S)
    <3>1. IsFiniteSet(0..n)
      BY FS_Interval
    <3> QED BY <3>1, FS_Subset
  <2>2. \A x \in S : D(x) \subseteq S /\ IsFiniteSet(D(x))
    BY <2>1, FS_Subset
  <2> QED BY <2>2 DEF FiniteSubsetsOf
<1>2. IsWellFoundedOn(R, FiniteSubsetsOf(S))
  BY FS_StrictSubsetOrderingWellFounded
<1> HIDE DEF R
<1>3. \E d \in F : \A e \in F : ~(<<e, d>> \in R)
  <2> HIDE DEF F
  <2> QED BY <1>1, <1>2, WFMin
<1>4. PICK x \in S : \A y \in S : ~(<<D(y), D(x)>> \in R)
  BY <1>3
<1>5. ASSUME NEW y \in S, y > x PROVE FALSE
  <2>1. x \in Int /\ y \in Int /\ \A z \in S : z \in Int
    OBVIOUS
  <2>2. D(y) \subseteq D(x) /\ y \in D(x) /\ y \notin D(y)
    <3>1. \A z \in S : z > y => z > x
      BY <1>5, <2>1
    <3>2. ~(y > y)
      BY <2>1
    <3> QED BY <1>5, <3>1, <3>2
  <2>3. D(y) \in SUBSET S /\ D(x) \in SUBSET S /\ D(y) # D(x)
    BY <2>2
  <2>4. <<D(y), D(x)>> \in R
    BY <2>2, <2>3 DEF R, StrictSubsetOrdering
  <2> QED BY <1>4, <2>4
<1>6. \A y \in S : x >= y
  <2>1. \A y \in S : y \in Int
    OBVIOUS
  <2> QED BY <1>5, <2>1
<1>7. PICK m : m = Max(S)
  OBVIOUS
<1>8. m \in S /\ \A y \in S : m >= y
  BY <1>6, <1>7 DEF Max
<1> QED BY <1>7, <1>8


LEMMA MinIs ==
  ASSUME NEW K \in SUBSET Nat, K # {}
  PROVE  Min(K) \in K /\ \A m \in K : Min(K) <= m
<1>1. PICK n \in K : TRUE
  OBVIOUS
<1>2. n \in Nat
  OBVIOUS
<1>3. PICK S : S = {n - m : m \in {x \in K : x <= n}}
  OBVIOUS
<1>4. S \subseteq 0..n /\ S # {}
  <2>1. ASSUME NEW s \in S PROVE s \in 0..n
    <3>1. PICK m \in K : m <= n /\ s = n - m
      BY <1>3
    <3>2. m \in Nat
      OBVIOUS
    <3> QED BY <3>1, <3>2, <1>2
  <2>2. n - n \in S
    BY <1>1, <1>2, <1>3
  <2> QED BY <2>1, <2>2
<1>5. PICK g : g = Max(S)
  OBVIOUS
<1>6. g \in S /\ \A y \in S : y <= g
  BY <1>2, <1>4, <1>5, MaxIs
<1>7. PICK i \in K : i <= n /\ g = n - i
  BY <1>3, <1>6
<1>8. ASSUME NEW m \in K PROVE i <= m
  <2>1. i \in Nat /\ m \in Nat /\ n \in Nat
    BY <1>2
  <2>2. CASE m <= n
    <3>1. n - m \in S
      BY <2>2, <1>3
    <3>2. n - m <= n - i
      BY <3>1, <1>6, <1>7
    <3> QED BY <3>2, <2>1
  <2>3. CASE ~(m <= n)
    BY <2>1, <2>3, <1>7
  <2> QED BY <2>2, <2>3
<1>9. \E k \in K : \A m \in K : k <= m
  BY <1>8
<1> QED BY <1>9 DEF Min


\* Pieces and their numbers.
LEMMA Pieces ==
  ASSUME NEW p \in Piece
  PROVE  /\ No(p) \in Nat /\ Line(p) \in Nat \ {0} /\ p = <<Line(p), p[2]>>
         /\ IF Complete(p) THEN p[2] = 2 /\ No(p) = 2 * Line(p) + 2
            ELSE p[2] = 1 /\ No(p) = 2 * Line(p) + 1
BY DEF Piece, No, Line, Complete

LEMMA PieceAfter ==
  ASSUME NEW p \in Piece, NEW q \in Piece, No(q) = No(p) + 1
  PROVE  /\ Complete(p) => ~Complete(q) /\ Line(q) = Line(p) + 1
         /\ ~Complete(p) => Complete(q) /\ Line(q) = Line(p)
BY Pieces

LEMMA LaterPiece ==
  ASSUME NEW p \in Piece, NEW q \in Piece, No(p) <= No(q)
  PROVE  Line(p) <= Line(q)
BY Pieces

LEMMA TextIs ==
  ASSUME NEW t, GoesOn(t)
  PROVE  /\ t \in Seq(Piece) /\ Len(t) \in Nat /\ DOMAIN t = 1..Len(t) /\ (t = <<>> <=> Len(t) = 0)
         /\ \A i \in 1..Len(t) : t[i] \in Piece /\ No(t[i]) = No(t[1]) + i - 1
<1>1. t \in Seq(Piece) /\ \A i \in DOMAIN t : No(t[i]) = No(t[1]) + i - 1
  BY DEF GoesOn
<1>2. t = <<>> <=> Len(t) = 0
  BY <1>1, EmptySeq
<1>3. Len(t) \in Nat /\ DOMAIN t = 1..Len(t) /\ \A i \in 1..Len(t) : t[i] \in Piece
  BY <1>1, ElementOfSeq
<1> QED BY <1>1, <1>2, <1>3

LEMMA TextEnds ==
  ASSUME NEW t, GoesOn(t), t # <<>>
  PROVE  /\ Len(t) \in Nat \ {0} /\ Begins(t) \in Piece /\ Last(t) \in Piece /\ Last(t) = t[Len(t)]
         /\ No(Last(t)) = No(Begins(t)) + Len(t) - 1
         /\ Line(Begins(t)) <= Line(Last(t))
<1>1. Len(t) \in Nat \ {0} /\ 1 \in 1..Len(t) /\ Len(t) \in 1..Len(t)
  BY TextIs
<1>2. Begins(t) \in Piece /\ Last(t) \in Piece /\ Last(t) = t[Len(t)]
  BY <1>1, TextIs DEF Begins, Last
<1>3. No(Last(t)) = No(Begins(t)) + Len(t) - 1
  BY <1>1, <1>2, TextIs DEF Begins
<1>4. No(Begins(t)) <= No(Last(t))
  BY <1>1, <1>2, <1>3, Pieces
<1> QED BY <1>1, <1>2, <1>3, <1>4, LaterPiece

LEMMA Joined ==
  ASSUME NEW s, NEW t, GoesOn(s), GoesOn(t), s # <<>>, t # <<>>,
         No(Begins(t)) = No(Last(s)) + 1
  PROVE  GoesOn(s \o t) /\ s \o t # <<>> /\ Begins(s \o t) = Begins(s) /\ Last(s \o t) = Last(t)
<1> DEFINE u == s \o t
<1>1. /\ s \in Seq(Piece) /\ t \in Seq(Piece) /\ Len(s) \in Nat \ {0} /\ Len(t) \in Nat \ {0}
      /\ DOMAIN s = 1..Len(s) /\ DOMAIN t = 1..Len(t)
  BY TextIs, TextEnds
<1>2. u \in Seq(Piece) /\ Len(u) = Len(s) + Len(t) /\ DOMAIN u = 1..Len(u)
  BY <1>1
<1>3. \A i \in 1..Len(s) : u[i] = s[i]
  BY <1>1
<1>4. \A i \in 1..Len(u) : i > Len(s) => u[i] = t[i - Len(s)] /\ i - Len(s) \in 1..Len(t)
  BY <1>1, <1>2
<1>5. u[1] = s[1] /\ u[Len(u)] = t[Len(t)]
  BY <1>1, <1>2, <1>3, <1>4
<1>6. ASSUME NEW i \in 1..Len(u) PROVE No(u[i]) = No(u[1]) + i - 1
  <2>1. CASE i <= Len(s)
    BY <1>1, <1>3, <1>5, <2>1, TextIs
  <2>2. CASE i > Len(s)
    <3>1. PICK j : j = i - Len(s)
      OBVIOUS
    <3>2. u[i] = t[j] /\ j \in 1..Len(t)
      BY <1>4, <2>2, <3>1
    <3>3. No(t[j]) = No(t[1]) + j - 1
      BY <3>2, TextIs
    <3>4. No(t[1]) = No(Last(s)) + 1 /\ No(Last(s)) = No(s[1]) + Len(s) - 1
      BY TextEnds DEF Begins
    <3>5. No(s[1]) \in Nat
      BY TextEnds, Pieces DEF Begins
    <3> QED BY <1>1, <1>2, <1>5, <3>1, <3>2, <3>3, <3>4, <3>5
  <2> QED BY <1>1, <1>2, <2>1, <2>2
<1>7. GoesOn(u)
  BY <1>2, <1>6 DEF GoesOn
<1>8. u # <<>> /\ Last(u) = Last(t)
  BY <1>1, <1>2, <1>5 DEF Last
<1> QED BY <1>5, <1>7, <1>8 DEF Begins

\* Piece m to piece n of a text.
Slice(t, m, n, u) ==
  /\ GoesOn(u) /\ Len(u) = n - m + 1 /\ (u = <<>> <=> m = n + 1)
  /\ m <= n => Begins(u) = t[m] /\ Last(u) = t[n]

LEMMA PartOfText ==
  ASSUME NEW t, GoesOn(t), NEW m \in Nat, NEW n \in Nat, 1 <= m, m <= n + 1, n <= Len(t)
  PROVE  Slice(t, m, n, SubSeq(t, m, n))
<1> DEFINE u == SubSeq(t, m, n)
<1>1. t \in Seq(Piece) /\ Len(t) \in Nat /\ DOMAIN t = 1..Len(t) /\ m \in Nat \ {0}
  BY TextIs
<1>2. Len(u) = n - m + 1 /\ DOMAIN u = 1..Len(u) /\ u \in Seq(Piece)
  <2>1. u = [i \in 1..(1 + n - m) |-> t[i + m - 1]]
    BY <1>1 DEF SubSeq
  <2>2. 1 + n - m \in Nat
    BY <1>1
  <2>3. \A i \in 1..(1 + n - m) : i + m - 1 \in 1..Len(t)
    BY <1>1
  <2>4. \A i \in 1..(1 + n - m) : t[i + m - 1] \in Piece
    BY <2>3, TextIs
  <2>5. u \in Seq(Piece)
    BY <2>1, <2>2, <2>4, SeqDef
  <2>6. DOMAIN u = 1..(1 + n - m)
    BY <2>1
  <2>7. Len(u) = 1 + n - m
    BY <2>2, <2>6, <2>5, LenProperties
  <2> QED BY <1>1, <2>5, <2>6, <2>7
<1>3. \A i \in 1..Len(u) : u[i] = t[i + m - 1] /\ i + m - 1 \in 1..Len(t)
  BY <1>1, <1>2 DEF SubSeq
<1>4. ASSUME NEW i \in 1..Len(u) PROVE No(u[i]) = No(u[1]) + i - 1
  <2>1. 1 \in 1..Len(u) /\ 1 \in 1..Len(t)
    BY <1>1, <1>2
  <2>2. u[i] = t[i + m - 1] /\ i + m - 1 \in 1..Len(t) /\ u[1] = t[m] /\ m \in 1..Len(t)
    BY <1>1, <1>3, <2>1
  <2>3. No(t[i + m - 1]) = No(t[1]) + (i + m - 1) - 1 /\ No(t[m]) = No(t[1]) + m - 1
    BY <2>2, TextIs
  <2>4. No(t[1]) \in Nat
    BY <2>1, TextIs, Pieces
  <2> QED BY <1>1, <1>2, <2>2, <2>3, <2>4
<1>5. GoesOn(u)
  BY <1>2, <1>4 DEF GoesOn
<1>6. u = <<>> <=> m = n + 1
  BY <1>1, <1>2, EmptySeq
<1>7. ASSUME m <= n PROVE Begins(u) = t[m] /\ Last(u) = t[n]
  <2>1. 1 \in 1..Len(u) /\ Len(u) \in 1..Len(u) /\ 1 + m - 1 = m /\ Len(u) + m - 1 = n
    BY <1>1, <1>2, <1>7
  <2> QED BY <1>3, <2>1 DEF Begins, Last
<1> QED BY <1>2, <1>5, <1>6, <1>7 DEF Slice

\* Where the last line of a text ends, and the first one.
LEMMA LastEnd ==
  ASSUME NEW t, GoesOn(t), t # <<>>
  PROVE  lastEnd(t) = IF Complete(Last(t)) THEN Len(t) ELSE Len(t) - 1
<1>1. PICK n : n = Len(t)
  OBVIOUS
<1>2. n \in Nat \ {0} /\ DOMAIN t = 1..n /\ Last(t) = t[n]
  BY <1>1, TextIs, TextEnds
<1>3. \A i \in ends(t) : i \in 1..n /\ Complete(t[i])
  BY <1>2 DEF ends
<1>4. CASE Complete(Last(t))
  <2>1. n \in ends(t) /\ \A i \in ends(t) : n >= i
    BY <1>2, <1>3, <1>4 DEF ends
  <2>2. \A x \in ends(t) : (\A y \in ends(t) : x >= y) => x = n
    BY <1>2, <1>3, <2>1
  <2>3. Max(ends(t)) = n
    BY <2>1, <2>2 DEF Max
  <2> QED BY <1>1, <1>4, <2>1, <2>3 DEF lastEnd
<1>5. CASE ~Complete(Last(t)) /\ n = 1
  <2>1. ends(t) = {}
    BY <1>2, <1>3, <1>5
  <2> QED BY <1>1, <1>5, <2>1 DEF lastEnd
<1>6. CASE ~Complete(Last(t)) /\ n # 1
  <2>1. n - 1 \in 1..n /\ n \in 1..n
    BY <1>2, <1>6
  <2>2. t[n - 1] \in Piece /\ t[n] \in Piece /\ No(t[n]) = No(t[n - 1]) + 1
    <3>1. No(t[n - 1]) = No(t[1]) + (n - 1) - 1 /\ No(t[n]) = No(t[1]) + n - 1 /\ t[1] \in Piece
      BY <1>1, <1>2, <2>1, TextIs
    <3>2. No(t[1]) \in Nat
      BY <3>1, Pieces
    <3>3. t[n - 1] \in Piece /\ t[n] \in Piece
      BY <1>1, <2>1, TextIs
    <3> QED BY <1>2, <3>1, <3>2, <3>3
  <2>3. Complete(t[n - 1])
    BY <1>2, <1>6, <2>2, PieceAfter
  <2>4. n - 1 \in ends(t) /\ \A i \in ends(t) : n - 1 >= i
    BY <1>2, <1>3, <1>6, <2>1, <2>3 DEF ends
  <2>5. \A x \in ends(t) : (\A y \in ends(t) : x >= y) => x = n - 1
    BY <1>2, <1>3, <2>4
  <2>6. Max(ends(t)) = n - 1
    BY <2>4, <2>5 DEF Max
  <2> QED BY <1>1, <1>6, <2>4, <2>6 DEF lastEnd
<1> QED BY <1>4, <1>5, <1>6

LEMMA FirstEnd ==
  ASSUME NEW t, GoesOn(t), t # <<>>, Complete(Last(t))
  PROVE  /\ Min(ends(t)) = IF Complete(Begins(t)) THEN 1 ELSE 2
         /\ ~Complete(Begins(t)) => /\ Len(t) >= 2 /\ Complete(t[2])
                                    /\ Line(t[2]) = Line(Begins(t))
<1>1. PICK n : n = Len(t)
  OBVIOUS
<1>2. n \in Nat \ {0} /\ DOMAIN t = 1..n /\ Last(t) = t[n]
  BY <1>1, TextIs, TextEnds
<1>3. \A i \in ends(t) : i \in 1..n /\ Complete(t[i])
  BY <1>2 DEF ends
<1>4. CASE Complete(Begins(t))
  <2>1. 1 \in ends(t) /\ \A i \in ends(t) : 1 <= i
    BY <1>2, <1>3, <1>4 DEF ends, Begins
  <2>2. \A x \in ends(t) : (\A y \in ends(t) : x <= y) => x = 1
    BY <1>2, <1>3, <2>1
  <2>3. Min(ends(t)) = 1
    BY <2>1, <2>2 DEF Min
  <2> QED BY <1>4, <2>3
<1>5. CASE ~Complete(Begins(t))
  <2>1. n # 1
    BY <1>2, <1>5 DEF Begins
  <2>2. 2 \in 1..n /\ 1 \in 1..n
    BY <1>2, <2>1
  <2>3. t[2] \in Piece /\ Begins(t) \in Piece /\ No(t[2]) = No(Begins(t)) + 1
    <3>1. t[2] \in Piece /\ t[1] \in Piece /\ No(t[2]) = No(t[1]) + 2 - 1
      BY <1>1, <2>2, TextIs
    <3>2. No(t[1]) \in Nat
      BY <3>1, Pieces
    <3> QED BY <3>1, <3>2 DEF Begins
  <2>4. Complete(t[2]) /\ Line(t[2]) = Line(Begins(t))
    BY <1>5, <2>3, PieceAfter
  <2>5. 2 \in ends(t) /\ \A i \in ends(t) : 2 <= i
    BY <1>2, <1>3, <1>5, <2>2, <2>4 DEF ends, Begins
  <2>6. \A x \in ends(t) : (\A y \in ends(t) : x <= y) => x = 2
    BY <1>2, <1>3, <2>5
  <2>7. Min(ends(t)) = 2
    BY <2>5, <2>6 DEF Min
  <2> QED BY <1>1, <1>2, <1>5, <2>2, <2>4, <2>7
<1> QED BY <1>4, <1>5

\* What addChunk keeps of a text and what it adds: the begin of a line, and whole lines.
Cut(t, rest, lines) ==
  /\ GoesOn(rest) /\ GoesOn(lines)
  /\ lines # <<>> => Begins(lines) = Begins(t) /\ Complete(Last(lines))
  /\ Complete(Last(t)) => rest = <<>> /\ lines # <<>> /\ Last(lines) = Last(t)
  /\ ~Complete(Last(t)) => /\ rest # <<>> /\ Len(rest) = 1 /\ Begins(rest) = Last(t)
                           /\ lines # <<>> => No(Last(t)) = No(Last(lines)) + 1

LEMMA CutIs ==
  ASSUME NEW t, GoesOn(t), t # <<>>
  PROVE  Cut(t, afterLast(t), linesOf(t))
<1>1. PICK e : e = lastEnd(t)
  OBVIOUS
<1>2. PICK n : n = Len(t)
  OBVIOUS
<1>3. n \in Nat \ {0} /\ Last(t) = t[n] /\ Begins(t) = t[1]
  BY <1>2, TextEnds DEF Begins
<1>4. IF Complete(Last(t)) THEN e = n ELSE e = n - 1
  BY <1>1, <1>2, LastEnd
<1>5. e \in Nat /\ e <= n /\ e + 1 \in Nat /\ 1 <= e + 1
  BY <1>3, <1>4
<1>6. PICK u : u = SubSeq(t, 1, e)
  OBVIOUS
<1>7. GoesOn(u) /\ (u = <<>> <=> 1 = e + 1) /\ (1 <= e => Begins(u) = t[1] /\ Last(u) = t[e])
  <2>1. Slice(t, 1, e, u)
    BY <1>2, <1>3, <1>5, <1>6, PartOfText
  <2> QED BY <1>5, <2>1 DEF Slice
<1>8. PICK r : r = SubSeq(t, e + 1, n)
  OBVIOUS
<1>9. /\ GoesOn(r) /\ Len(r) = n - (e + 1) + 1 /\ (r = <<>> <=> e + 1 = n + 1)
      /\ e + 1 <= n => Begins(r) = t[e + 1] /\ Last(r) = t[n]
  <2>1. Slice(t, e + 1, n, r)
    BY <1>2, <1>3, <1>4, <1>5, <1>8, PartOfText
  <2> QED BY <2>1 DEF Slice
<1>10. linesOf(t) = u /\ afterLast(t) = r
  BY <1>1, <1>2, <1>6, <1>8 DEF linesOf, afterLast
<1>11. CASE Complete(Last(t))
  <2>1. r = <<>> /\ u # <<>> /\ Begins(u) = Begins(t) /\ Last(u) = Last(t)
    BY <1>3, <1>4, <1>5, <1>7, <1>9, <1>11
  <2> QED BY <1>7, <1>9, <1>10, <1>11, <2>1 DEF Cut
<1>12. CASE ~Complete(Last(t))
  <2>1. r # <<>> /\ Len(r) = 1 /\ Begins(r) = Last(t)
    BY <1>3, <1>4, <1>5, <1>9, <1>12
  <2>2. ASSUME u # <<>>
        PROVE  Begins(u) = Begins(t) /\ Complete(Last(u)) /\ No(Last(t)) = No(Last(u)) + 1
    <3>1. Begins(u) = Begins(t) /\ Last(u) = t[e] /\ e >= 1 /\ e = n - 1
      BY <1>3, <1>4, <1>5, <1>7, <1>12, <2>2
    <3>2. e \in 1..n /\ n \in 1..n /\ 1 \in 1..n
      BY <1>3, <3>1
    <3>3. No(t[e]) = No(t[1]) + e - 1 /\ No(t[n]) = No(t[1]) + n - 1 /\ t[1] \in Piece
      BY <1>2, <3>2, TextIs
    <3>4. t[e] \in Piece /\ t[n] \in Piece
      BY <1>2, <3>2, TextIs
    <3>5. No(t[1]) \in Nat
      BY <3>3, Pieces
    <3>6. No(t[n]) = No(t[e]) + 1
      BY <1>3, <3>1, <3>3, <3>5
    <3>7. Complete(t[e])
      BY <1>3, <1>12, <3>4, <3>6, PieceAfter
    <3> QED BY <1>3, <3>1, <3>6, <3>7
  <2> QED BY <1>7, <1>9, <1>10, <1>12, <2>1, <2>2 DEF Cut
<1> QED BY <1>11, <1>12

\* The first of some lines and the others.
Parts2(t, first, others) ==
  /\ GoesOn(first) /\ first # <<>> /\ GoesOn(others) /\ Complete(Last(first))
  /\ Line(Last(first)) = Line(Begins(t))
  /\ ~Complete(Begins(t)) => first = << <<Line(Begins(t)), 1>>, <<Line(Begins(t)), 2>> >>
  /\ others # <<>> => Last(others) = Last(t) /\ No(Begins(others)) = No(Last(first)) + 1

LEMMA FirstIs ==
  ASSUME NEW t, GoesOn(t), t # <<>>, Complete(Last(t))
  PROVE  Parts2(t, firstLine(t), otherLines(t))
<1>1. PICK m : m = Min(ends(t))
  OBVIOUS
<1>2. PICK n : n = Len(t)
  OBVIOUS
<1>3. n \in Nat \ {0} /\ Last(t) = t[n] /\ Begins(t) = t[1] /\ Begins(t) \in Piece
  BY <1>2, TextEnds DEF Begins
<1>4. /\ Complete(Begins(t)) => m = 1
      /\ ~Complete(Begins(t)) => m = 2 /\ n >= 2 /\ Complete(t[2]) /\ Line(t[2]) = Line(Begins(t))
  BY <1>1, <1>2, FirstEnd
<1>5. m \in Nat \ {0} /\ m <= n /\ m + 1 \in Nat /\ 1 <= m + 1
  BY <1>3, <1>4
<1>6. Complete(t[m]) /\ Line(t[m]) = Line(Begins(t))
  BY <1>3, <1>4
<1>7. PICK f : f = SubSeq(t, 1, m)
  OBVIOUS
<1>8. GoesOn(f) /\ f # <<>> /\ Len(f) = m /\ Begins(f) = t[1] /\ Last(f) = t[m]
  <2>1. Slice(t, 1, m, f)
    BY <1>2, <1>3, <1>5, <1>7, PartOfText
  <2> QED BY <1>3, <1>5, <2>1 DEF Slice
<1>9. PICK o : o = SubSeq(t, m + 1, n)
  OBVIOUS
<1>10. GoesOn(o) /\ (o = <<>> <=> m + 1 = n + 1)
       /\ (m + 1 <= n => Begins(o) = t[m + 1] /\ Last(o) = t[n])
  <2>1. Slice(t, m + 1, n, o)
    BY <1>2, <1>3, <1>5, <1>9, PartOfText
  <2> QED BY <2>1 DEF Slice
<1>11. firstLine(t) = f /\ otherLines(t) = o
  BY <1>1, <1>2, <1>7, <1>9 DEF firstLine, otherLines
<1>12. ASSUME ~Complete(Begins(t))
       PROVE  f = << <<Line(Begins(t)), 1>>, <<Line(Begins(t)), 2>> >>
  <2>1. Len(f) = 2 /\ f[1] = t[1] /\ f[2] = t[2] /\ f \in Seq(Piece)
    <3>1. m = 2
      BY <1>4, <1>12
    <3>2. Last(f) = f[Len(f)] /\ Begins(f) = f[1] /\ f \in Seq(Piece)
      BY <1>8, TextEnds, TextIs DEF Begins
    <3> QED BY <1>8, <3>1, <3>2
  <2>2. t[2] \in Piece
    <3>1. 2 \in 1..n
      BY <1>3, <1>4, <1>12
    <3> QED BY <1>2, <3>1, TextIs
  <2>3. t[1] = <<Line(Begins(t)), 1>>
    <3>1. t[1] = <<Line(t[1]), t[1][2]>> /\ t[1][2] = 1
      BY <1>3, <1>12, Pieces
    <3> QED BY <1>3, <3>1
  <2>4. t[2] = <<Line(Begins(t)), 2>>
    <3>1. t[2] = <<Line(t[2]), t[2][2]>> /\ t[2][2] = 2
      BY <1>4, <1>12, <2>2, Pieces
    <3> QED BY <1>4, <1>12, <3>1
  <2> QED BY <2>1, <2>3, <2>4
<1>13. ASSUME o # <<>>
       PROVE  Last(o) = Last(t) /\ No(Begins(o)) = No(Last(f)) + 1
  <2>1. m + 1 <= n /\ Begins(o) = t[m + 1] /\ Last(o) = t[n]
    BY <1>3, <1>5, <1>10, <1>13
  <2>2. m \in 1..n /\ m + 1 \in 1..n /\ 1 \in 1..n
    BY <1>3, <1>5, <2>1
  <2>3. /\ No(t[m + 1]) = No(t[1]) + (m + 1) - 1 /\ No(t[m]) = No(t[1]) + m - 1
        /\ t[1] \in Piece
    BY <1>2, <2>2, TextIs
  <2>4. No(t[1]) \in Nat
    BY <2>3, Pieces
  <2> QED BY <1>3, <1>5, <1>8, <2>1, <2>3, <2>4
<1> QED BY <1>6, <1>8, <1>10, <1>11, <1>12, <1>13 DEF Parts2

\* What the pipe still carries, when a chunk was read.
LEMMA Reads ==
  ASSUME NEW c \in Seq(Seq(Piece)), ChunksGoOn(c), c # <<>>
  PROVE  /\ GoesOn(Head(c)) /\ Head(c) # <<>> /\ Tail(c) \in Seq(Seq(Piece)) /\ ChunksGoOn(Tail(c))
         /\ Tail(c) # <<>> => No(Begins(Head(Tail(c)))) = No(Last(Head(c))) + 1
<1>1. PICK n : n = Len(c)
  OBVIOUS
<1>2. n \in Nat \ {0} /\ DOMAIN c = 1..n /\ Head(c) = c[1]
  BY <1>1, EmptySeq
<1>3. GoesOn(Head(c)) /\ Head(c) # <<>>
  BY <1>2 DEF ChunksGoOn
<1>4. PICK d : d = Tail(c)
  OBVIOUS
<1>5. d \in Seq(Seq(Piece)) /\ DOMAIN d = 1..n - 1 /\ \A i \in 1..n - 1 : d[i] = c[i + 1]
  BY <1>1, <1>2, <1>4, HeadTailProperties
<1>6. \A k \in DOMAIN d : GoesOn(d[k]) /\ d[k] # <<>>
  <2>1. \A k \in DOMAIN c : GoesOn(c[k]) /\ c[k] # <<>>
    BY DEF ChunksGoOn
  <2>2. \A k \in DOMAIN d : k + 1 \in DOMAIN c /\ d[k] = c[k + 1]
    BY <1>2, <1>5
  <2> HIDE <1>5
  <2> QED BY <2>1, <2>2
<1>7. \A k \in DOMAIN d : No(Begins(d[k])) = No(Last(c[k])) + 1
  <2>1. SUFFICES ASSUME NEW k \in DOMAIN d PROVE No(Begins(d[k])) = No(Last(c[k])) + 1
    OBVIOUS
  <2>2. PICK j : j = k + 1
    OBVIOUS
  <2>3. j \in DOMAIN c /\ j > 1 /\ j - 1 = k /\ d[k] = c[j]
    BY <1>2, <1>5, <2>2
  <2>4. No(Begins(c[j])) = No(Last(c[j - 1])) + 1
    BY <2>3 DEF ChunksGoOn
  <2> QED BY <2>3, <2>4
<1>8. \A k \in DOMAIN d : k > 1 => No(Begins(d[k])) = No(Last(d[k - 1])) + 1
  <2>1. SUFFICES ASSUME NEW k \in DOMAIN d, k > 1 PROVE d[k - 1] = c[k]
    BY <1>7
  <2>2. k - 1 \in 1..n - 1 /\ (k - 1) + 1 = k
    BY <1>2, <1>5, <2>1
  <2> QED BY <1>5, <2>2
<1>9. ASSUME d # <<>> PROVE No(Begins(Head(d))) = No(Last(Head(c))) + 1
  <2>1. 1 \in DOMAIN d /\ Head(d) = d[1]
    <3>1. n - 1 # 0
      BY <1>2, <1>5, <1>9, EmptySeq
    <3> QED BY <1>2, <1>5, <3>1
  <2> QED BY <1>2, <1>7, <2>1
<1> QED BY <1>3, <1>4, <1>5, <1>6, <1>8, <1>9 DEF ChunksGoOn

LEMMA LogStarts == ASSUME NEW s, LogSceneOK(s), LogInit(s) PROVE LogInv
<1>1. /\ lbScene = s /\ lbText = <<>> /\ lbLines = <<>> /\ lbPartial = <<>>
      /\ lbEntries = <<>> /\ lbNext = 0 /\ lbAdded = <<>> /\ lbTorn = {}
  BY DEF LogInit
<1>2. s \in [chunks : Seq(Seq(Piece) \ {<<>>}), max : Nat \ {0}, clears : Nat]
  BY DEF LogSceneOK
<1>3. PICK c : c = s.chunks
  OBVIOUS
<1>4. c \in Seq(Seq(Piece) \ {<<>>}) /\ c \in Seq(Seq(Piece)) /\ s.max \in Nat \ {0}
      /\ s \in [chunks : Seq(Seq(Piece)), max : Nat \ {0}, clears : Nat]
  BY <1>2, <1>3
<1>5. ChunksGoOn(c)
  <2>1. \A k \in DOMAIN c : c[k] # <<>>
    BY <1>4
  <2>2. \A k \in DOMAIN c : GoesOn(c[k])
    BY <1>3 DEF LogSceneOK
  <2>3. \A k \in DOMAIN c : k > 1 => No(Begins(c[k])) = No(Last(c[k - 1])) + 1
    BY <1>3 DEF LogSceneOK, Begins
  <2> QED BY <2>1, <2>2, <2>3 DEF ChunksGoOn
<1>6. GoesOn(<<>>)
  BY EmptySeq DEF GoesOn
<1>7. LogTypes
  <2>1. lbAdded \in Seq(Seq(Piece) \ {<<>>}) /\ lbEntries \in Seq([id : Int, line : Seq(Piece)])
    BY <1>1
  <2> QED BY <1>1, <1>3, <1>4, <1>5, <1>6, <2>1 DEF LogTypes
<1>8. Onward
  <2>1. ASSUME c # <<>> PROVE Whole(Head(c), {})
    <3>1. 1 \in DOMAIN c /\ Head(c) = c[1]
      BY <1>4, <2>1
    <3>2. Begins(Head(c)) = <<1, 1>>
      BY <1>3, <3>1 DEF LogSceneOK, Begins
    <3> QED BY <3>2 DEF Whole, Complete
  <2> QED BY <1>1, <1>3, <2>1 DEF Onward, Whole
<1>9. Len(<<>>) = 0 /\ DOMAIN <<>> = {}
  OBVIOUS
<1>10. Ordered
  BY <1>1, <1>9 DEF Ordered, Before, After
<1>11. Kept
  BY <1>1, <1>4, <1>9 DEF Kept, HoldsLast
<1> QED BY <1>7, <1>8, <1>10, <1>11 DEF LogInv

LEMMA ReadPartialKeeps == LogInv /\ ReadPartial => LogInv'
<1> SUFFICES ASSUME LogInv, ReadPartial PROVE LogInv'
  OBVIOUS
<1> PICK c : c = lbScene.chunks
  OBVIOUS
<1> PICK h : h = Head(c)
  OBVIOUS
<1> PICK d : d = Tail(c)
  OBVIOUS
<1>1. /\ lbText = <<>> /\ lbLines = <<>> /\ c # <<>>
      /\ lbScene' = [lbScene EXCEPT !.chunks = Tail(@)] /\ lbText' = lbPartial \o h
      /\ lbLines' = lbLines /\ lbPartial' = lbPartial /\ lbEntries' = lbEntries
      /\ lbNext' = lbNext /\ lbAdded' = lbAdded /\ lbTorn' = lbTorn
  BY DEF ReadPartial
<1>2. /\ lbScene \in [chunks : Seq(Seq(Piece)), max : Nat \ {0}, clears : Nat]
      /\ c \in Seq(Seq(Piece)) /\ ChunksGoOn(c) /\ GoesOn(lbPartial)
      /\ lbPartial # <<>> => Len(lbPartial) = 1 /\ ~Complete(Begins(lbPartial))
  BY DEF LogInv, LogTypes
<1>3. /\ GoesOn(h) /\ h # <<>> /\ d \in Seq(Seq(Piece)) /\ ChunksGoOn(d)
      /\ d # <<>> => No(Begins(Head(d))) = No(Last(h)) + 1
  BY <1>1, <1>2, Reads
<1>4. lbScene' \in [chunks : Seq(Seq(Piece)), max : Nat \ {0}, clears : Nat]
      /\ lbScene'.chunks = d /\ lbScene'.max = lbScene.max
  BY <1>1, <1>2, <1>3
<1>5. /\ lbPartial # <<>> => No(Begins(h)) = No(Begins(lbPartial)) + 1
      /\ lbPartial = <<>> => Whole(h, lbTorn)
  BY <1>1 DEF LogInv, Onward
<1>6. /\ GoesOn(lbText') /\ lbText' # <<>> /\ Last(lbText') = Last(h) /\ Whole(lbText', lbTorn)
      /\ Begins(lbText') = IF lbPartial = <<>> THEN Begins(h) ELSE Begins(lbPartial)
  <2>1. CASE lbPartial = <<>>
    <3>1. lbText' = h
      <4>1. h \in Seq(Piece)
        BY <1>3, TextIs
      <4> QED BY <1>1, <2>1, <4>1
    <3> QED BY <1>3, <1>5, <2>1, <3>1
  <2>2. CASE lbPartial # <<>>
    <3>1. Last(lbPartial) = Begins(lbPartial)
      BY <1>2, <2>2 DEF Last, Begins
    <3>2. No(Begins(h)) = No(Last(lbPartial)) + 1
      BY <1>5, <2>2, <3>1
    <3>3. /\ GoesOn(lbText') /\ lbText' # <<>> /\ Begins(lbText') = Begins(lbPartial)
          /\ Last(lbText') = Last(h)
      BY <1>1, <1>2, <1>3, <2>2, <3>2, Joined
    <3>4. Whole(lbText', lbTorn)
      BY <1>2, <2>2, <3>3 DEF Whole
    <3> QED BY <2>2, <3>3, <3>4
  <2> QED BY <2>1, <2>2
<1>7. LogTypes'
  BY <1>1, <1>2, <1>3, <1>4, <1>6 DEF LogInv, LogTypes
<1>8. Onward'
  BY <1>1, <1>3, <1>4, <1>6 DEF LogInv, Onward
<1>9. Ordered'
  <2>1. Before(lbAdded, lbPartial) /\ Before(lbAdded, h)
    BY <1>1 DEF LogInv, Ordered, Coming
  <2>2. Before(lbAdded, lbText')
    BY <1>3, <1>6, <2>1 DEF Before
  <2> QED BY <1>1, <1>6, <2>2 DEF LogInv, Ordered
<1>10. Kept'
  BY <1>1, <1>4 DEF LogInv, Kept, HoldsLast
<1> QED BY <1>7, <1>8, <1>9, <1>10 DEF LogInv

LEMMA WritePartialKeeps == LogInv /\ WritePartial => LogInv'
<1> SUFFICES ASSUME LogInv, WritePartial PROVE LogInv'
  OBVIOUS
<1> PICK t : t = lbText
  OBVIOUS
<1> PICK c : c = lbScene.chunks
  OBVIOUS
<1> PICK r : r = lbPartial'
  OBVIOUS
<1> PICK u : u = lbLines'
  OBVIOUS
<1>1. /\ t # <<>> /\ r = afterLast(t) /\ u = linesOf(t) /\ lbText' = <<>>
      /\ lbScene' = lbScene /\ lbEntries' = lbEntries
      /\ lbNext' = lbNext /\ lbAdded' = lbAdded /\ lbTorn' = lbTorn
  BY DEF WritePartial
<1>2. /\ lbScene \in [chunks : Seq(Seq(Piece)), max : Nat \ {0}, clears : Nat]
      /\ c \in Seq(Seq(Piece)) /\ ChunksGoOn(c) /\ GoesOn(t) /\ GoesOn(lbLines)
      /\ lbLines = <<>>
  BY <1>1 DEF LogInv, LogTypes
<1>3. Cut(t, r, u)
  BY <1>1, <1>2, CutIs
<1>4. Begins(t) \in Piece /\ Last(t) \in Piece /\ Line(Begins(t)) <= Line(Last(t))
      /\ Line(Begins(t)) \in Nat /\ Line(Last(t)) \in Nat
  BY <1>1, <1>2, TextEnds, Pieces
<1>5. /\ r # <<>> => Begins(r) = Last(t) /\ Len(r) = 1 /\ ~Complete(Begins(r))
      /\ r = <<>> => Complete(Last(t))
  BY <1>3 DEF Cut
<1>6. /\ GoesOn(r) /\ GoesOn(u) /\ (u # <<>> => Complete(Last(u)) /\ Begins(u) = Begins(t))
  BY <1>3 DEF Cut
<1>7. ASSUME u # <<>>
      PROVE  /\ Last(u) \in Piece /\ Line(Last(u)) <= Line(Last(t)) /\ Line(Last(u)) \in Nat
             /\ r # <<>> => Line(Last(u)) < Line(Last(t))
  <2>1. Last(u) \in Piece /\ Line(Last(u)) \in Nat
    BY <1>6, <1>7, TextEnds, Pieces
  <2>2. CASE r = <<>>
    <3>1. Last(u) = Last(t)
      BY <1>3, <1>5, <2>2 DEF Cut
    <3> QED BY <1>4, <2>1, <2>2, <3>1
  <2>3. CASE r # <<>>
    <3>1. No(Last(t)) = No(Last(u)) + 1 /\ Complete(Last(u))
      BY <1>3, <1>5, <1>7, <2>3 DEF Cut
    <3>2. Line(Last(t)) = Line(Last(u)) + 1
      BY <1>4, <2>1, <3>1, PieceAfter
    <3> QED BY <1>4, <2>1, <3>2
  <2> QED BY <2>2, <2>3
<1>8. ASSUME c # <<>>
      PROVE  /\ No(Begins(Head(c))) = No(Last(t)) + 1 /\ Begins(Head(c)) \in Piece
             /\ Line(Begins(Head(c))) \in Nat /\ Line(Last(t)) <= Line(Begins(Head(c)))
             /\ r = <<>> => /\ ~Complete(Begins(Head(c)))
                            /\ Line(Last(t)) < Line(Begins(Head(c)))
  <2>1. No(Begins(Head(c))) = No(Last(t)) + 1
    BY <1>1, <1>8 DEF LogInv, Onward
  <2>2. GoesOn(Head(c)) /\ Head(c) # <<>>
    BY <1>2, <1>8, Reads
  <2>3. Begins(Head(c)) \in Piece /\ Line(Begins(Head(c))) \in Nat
    BY <2>2, TextEnds, Pieces
  <2>4. CASE Complete(Last(t))
    <3>1. ~Complete(Begins(Head(c))) /\ Line(Begins(Head(c))) = Line(Last(t)) + 1
      BY <1>4, <2>1, <2>3, <2>4, PieceAfter
    <3> QED BY <1>4, <2>1, <2>3, <3>1
  <2>5. CASE ~Complete(Last(t))
    <3>1. Line(Begins(Head(c))) = Line(Last(t))
      BY <1>4, <2>1, <2>3, <2>5, PieceAfter
    <3>2. r # <<>>
      BY <1>5, <2>5
    <3> QED BY <1>4, <2>1, <2>3, <3>1, <3>2
  <2> QED BY <2>4, <2>5
<1>9. LogTypes'
  <2>1. GoesOn(<<>>)
    BY EmptySeq DEF GoesOn
  <2> QED BY <1>1, <1>2, <1>5, <1>6, <2>1 DEF LogInv, LogTypes
<1>10. Onward'
  <2>1. Whole(u, lbTorn)
    BY <1>1, <1>6 DEF LogInv, Onward, Whole
  <2>2. c # <<>> => IF r # <<>> THEN No(Begins(Head(c))) = No(Begins(r)) + 1
                    ELSE Whole(Head(c), lbTorn)
    BY <1>5, <1>8 DEF Whole
  <2> QED BY <1>1, <2>1, <2>2 DEF Onward, Whole
<1>11. Ordered'
  <2>1. \A i \in DOMAIN lbAdded : Line(Last(lbAdded[i])) < Line(Begins(t))
    BY <1>1 DEF LogInv, Ordered, Before
  <2>2. \A i \in DOMAIN lbAdded : Line(Last(lbAdded[i])) \in Nat
    <3>1. \A x \in Seq(Piece) \ {<<>>} : Line(Last(x)) \in Nat
      <4> SUFFICES ASSUME NEW x \in Seq(Piece), x # <<>> PROVE Line(Last(x)) \in Nat
        OBVIOUS
      <4>1. Last(x) \in Piece
        <5>1. Len(x) \in 1..Len(x)
          BY EmptySeq
        <5> QED BY <5>1 DEF Last
      <4> QED BY <4>1, Pieces
    <3>2. lbAdded \in Seq(Seq(Piece) \ {<<>>})
      BY DEF LogInv, LogTypes
    <3> QED BY <3>1, <3>2
  <2>3. \A i \in DOMAIN lbAdded : Line(Last(lbAdded[i])) < Line(Last(t))
    BY <1>4, <2>1, <2>2
  <2>4. Before(lbAdded, u) /\ Before(lbAdded, r)
    BY <1>5, <1>6, <2>1, <2>3 DEF Before
  <2>5. ASSUME c # <<>>
        PROVE  \A i \in DOMAIN lbAdded : Line(Last(lbAdded[i])) < Line(Begins(Head(c)))
    BY <1>4, <1>8, <2>2, <2>3, <2>5
  <2>6. Before(lbAdded, Coming(c))
    BY <2>5 DEF Before, Coming
  <2>7. r # <<>> /\ u # <<>> => Line(Last(u)) < Line(Begins(r))
    BY <1>5, <1>7
  <2>8. c # <<>> /\ u # <<>> => Line(Last(u)) < Line(Begins(Head(c)))
    BY <1>4, <1>7, <1>8
  <2>9. After(r)' /\ After(Coming(c))'
    BY <2>7, <2>8 DEF After, Coming
  <2> QED BY <1>1, <2>4, <2>6, <2>9 DEF LogInv, Ordered, Before
<1>12. Kept'
  BY <1>1 DEF LogInv, Kept, HoldsLast
<1> QED BY <1>9, <1>10, <1>11, <1>12 DEF LogInv

\* A line that is added, and the entries then.
LEMMA LastOfLine ==
  ASSUME NEW x \in Seq(Piece), x # <<>>
  PROVE  Last(x) \in Piece /\ Line(Last(x)) \in Nat
<1>1. Len(x) \in 1..Len(x)
  BY EmptySeq
<1>2. Last(x) \in Piece
  BY <1>1 DEF Last
<1> QED BY <1>2, Pieces

EndOf(G, F, R) ==
  /\ F \in Seq(R) /\ Len(F) \in Nat /\ Len(F) <= Len(G)
  /\ IF Len(G) > lbScene.max THEN Len(F) = lbScene.max ELSE Len(F) = Len(G)
  /\ \A i \in 1..Len(F) : F[i] = G[Len(G) - Len(F) + i]

LEMMA keepIs ==
  ASSUME NEW R, NEW G \in Seq(R), lbScene.max \in Nat \ {0} PROVE EndOf(G, keep(G), R)
<1>F. PICK F : F = keep(G)
  OBVIOUS
<1>n. PICK g : g = Len(G)
  OBVIOUS
<1>m. PICK m : m = lbScene.max
  OBVIOUS
<1>1. g \in Nat /\ m \in Nat \ {0} /\ DOMAIN G = 1..g /\ \A i \in 1..g : G[i] \in R
  BY <1>n, <1>m
<1>2. CASE g > m
  <2>0. PICK a : a = g - m + 1
    OBVIOUS
  <2>1. F = SubSeq(G, a, g) /\ a \in Nat /\ 1 + g - a = m
    <3>1. F = SubSeq(G, Len(G) - lbScene.max + 1, Len(G))
      BY <1>2, <1>n, <1>m, <1>F DEF keep
    <3>2. F = SubSeq(G, a, g)
      BY <3>1, <1>n, <1>m, <2>0
    <3> QED BY <1>1, <1>2, <2>0, <3>2
  <2>2. \A i \in 1..m : i + a - 1 = g - m + i /\ g - m + i \in 1..g
    BY <1>1, <1>2, <2>0
  <2>3. F = [i \in 1..m |-> G[g - m + i]]
    <3>1. F = [i \in 1..(1 + g - a) |-> G[i + a - 1]]
      BY <1>1, <2>1 DEF SubSeq
    <3>2. F = [i \in 1..m |-> G[i + a - 1]]
      BY <2>1, <3>1, Zenon
    <3>3. \A i \in 1..m : G[i + a - 1] = G[g - m + i]
      BY <2>2, Zenon
    <3> QED BY <3>2, <3>3, Zenon
  <2>4. \A i \in 1..m : G[g - m + i] \in R
    BY <1>1, <2>2
  <2>5. F \in Seq(R)
    BY <1>1, <2>3, <2>4, SeqDef
  <2>6. DOMAIN F = 1..m
    BY <2>3
  <2>7. Len(F) = m
    BY <1>1, <2>5, <2>6, LenProperties
  <2>8. \A i \in 1..m : F[i] = G[g - m + i]
    BY <2>3
  <2>9. Len(F) \in Nat /\ Len(F) <= Len(G) /\ Len(G) > lbScene.max /\ Len(F) = lbScene.max
    BY <1>1, <1>2, <1>n, <1>m, <2>7
  <2>10. \A i \in 1..Len(F) : F[i] = G[Len(G) - Len(F) + i]
    BY <1>n, <2>7, <2>8, Zenon
  <2> QED BY <2>5, <2>9, <2>10, <1>F DEF EndOf
<1>3. CASE ~(g > m)
  <2>1. F = G
    BY <1>3, <1>n, <1>m, <1>F DEF keep
  <2>2. \A i \in 1..g : g - g + i = i
    BY <1>1
  <2>3. \A i \in 1..g : F[i] = G[g - g + i]
    BY <2>1, <2>2
  <2>4. F \in Seq(R) /\ Len(F) \in Nat /\ Len(F) <= Len(G) /\ ~(Len(G) > lbScene.max) /\ Len(F) = Len(G)
    BY <1>1, <1>3, <1>n, <1>m, <2>1
  <2>5. \A i \in 1..Len(F) : F[i] = G[Len(G) - Len(F) + i]
    BY <1>n, <2>1, <2>3
  <2> QED BY <2>4, <2>5, <1>F DEF EndOf
<1> QED BY <1>2, <1>3, <1>F

LEMMA EntriesOf ==
  ASSUME NEW A \in Seq(Seq(Piece) \ {<<>>}), NEW E \in Seq([id : Int, line : Seq(Piece)]),
         NEW next \in Nat, NEW f \in Seq(Piece) \ {<<>>}, lbScene.max \in Nat \ {0},
         HoldsLast(E, A, next)
  PROVE  LET F == keep(Append(E, [id |-> next + 1, line |-> f])) IN
         F \in Seq([id : Int, line : Seq(Piece)]) /\ HoldsLast(F, Append(A, f), next + 1)
<1>R. PICK R : R = [id : Int, line : Seq(Piece)]
  OBVIOUS
<1>w. PICK new : new = [id |-> next + 1, line |-> f]
  OBVIOUS
<1>G. PICK G : G = Append(E, new)
  OBVIOUS
<1>F. PICK F : F = keep(G)
  OBVIOUS
<1>B. PICK B : B = Append(A, f)
  OBVIOUS
<1>n. PICK n : n = Len(A)
  OBVIOUS
<1>k. PICK k : k = Len(E)
  OBVIOUS
<1>m. PICK m : m = lbScene.max
  OBVIOUS
<1>1. new \in R /\ new.line = f /\ new.id = next + 1 /\ E \in Seq(R)
  BY <1>R, <1>w
<1>2. n \in Nat /\ k \in Nat /\ m \in Nat \ {0} /\ DOMAIN A = 1..n /\ DOMAIN E = 1..k
  BY <1>R, <1>1, <1>n, <1>k, <1>m
<1>3. k <= n /\ k <= m /\ (k = n \/ k = m)
  BY <1>n, <1>k, <1>m DEF HoldsLast
<1>4. /\ B \in Seq(Seq(Piece) \ {<<>>}) /\ Len(B) = n + 1 /\ B[n + 1] = f
      /\ \A i \in 1..n : B[i] = A[i]
  BY <1>2, <1>B, <1>n
<1>5. /\ G \in Seq(R) /\ Len(G) = k + 1 /\ DOMAIN G = 1..k + 1 /\ G[k + 1] = new
      /\ \A i \in 1..k : G[i] = E[i]
  BY <1>1, <1>2, <1>G, <1>k
<1>6. \A i \in 1..k : E[i].line = A[n - k + i] /\ E[i].id = next - k + i
  BY <1>2, <1>n, <1>k DEF HoldsLast
<1>7. ASSUME NEW i \in 1..k + 1 PROVE G[i].line = B[n - k + i] /\ G[i].id = next - k + i
  <2>1. i \in 1..k \/ i = k + 1
    BY <1>2
  <2>2. CASE i \in 1..k
    <3>1. n - k + i \in 1..n
      BY <1>2, <1>3, <2>2
    <3> QED BY <1>4, <1>5, <1>6, <2>2, <3>1
  <2>3. CASE i = k + 1
    <3>1. n - k + i = n + 1 /\ next - k + i = next + 1
      BY <1>2, <2>3
    <3> QED BY <1>1, <1>4, <1>5, <2>3, <3>1
  <2> QED BY <2>1, <2>2, <2>3
<1>8. PICK j : j = Len(F)
  OBVIOUS
<1>9. /\ F \in Seq(R) /\ j \in Nat /\ j <= k + 1 /\ IF k + 1 > m THEN j = m ELSE j = k + 1
      /\ \A i \in 1..j : F[i] = G[(k + 1) - j + i]
  <2>1. EndOf(G, F, R)
    BY <1>5, <1>F, keepIs
  <2>2. lbScene.max = m /\ Len(G) = k + 1 /\ Len(F) = j
    BY <1>5, <1>8, <1>m
  <2> HIDE <1>5, <1>8, <1>m
  <2> QED BY <2>1, <2>2 DEF EndOf
<1>10. ASSUME NEW i \in 1..j
       PROVE  F[i].line = B[(n + 1) - j + i] /\ F[i].id = next + 1 - j + i
  <2>1. PICK p : p = (k + 1) - j + i
    OBVIOUS
  <2>2. p \in 1..k + 1 /\ n - k + p = (n + 1) - j + i /\ next - k + p = next + 1 - j + i
    BY <1>2, <1>9, <2>1
  <2>3. F[i] = G[p]
    BY <1>9, <2>1
  <2> QED BY <1>7, <2>2, <2>3
<1>11. j <= n + 1 /\ j <= m /\ (j = n + 1 \/ j = m) /\ DOMAIN F = 1..j
  BY <1>2, <1>3, <1>8, <1>9
<1>12. HoldsLast(F, B, next + 1)
  <2>1. Len(B) = n + 1 /\ Len(F) = j /\ lbScene.max = m
    BY <1>4, <1>8, <1>m
  <2>2. \A i \in DOMAIN F :
          F[i].line = B[Len(B) - Len(F) + i] /\ F[i].id = next + 1 - Len(F) + i
    BY <1>10, <1>11, <2>1
  <2>3. Len(F) <= Len(B) /\ Len(F) <= lbScene.max /\ (Len(F) = Len(B) \/ Len(F) = lbScene.max)
    BY <1>11, <2>1
  <2> QED BY <2>2, <2>3 DEF HoldsLast
<1> QED BY <1>9, <1>12, <1>B, <1>F, <1>G, <1>R, <1>w

LEMMA addLineKeeps == LogInv /\ addLine => LogInv'
<1> SUFFICES ASSUME LogInv, addLine PROVE LogInv'
  OBVIOUS
<1> PICK t : t = lbLines
  OBVIOUS
<1> PICK f : f = firstLine(t)
  OBVIOUS
<1> PICK o : o = otherLines(t)
  OBVIOUS
<1> PICK B : B = lbAdded'
  OBVIOUS
<1> PICK n : n = Len(lbAdded)
  OBVIOUS
<1>1. /\ t # <<>> /\ lbLines' = o /\ lbNext' = lbNext + 1
      /\ lbEntries' = keep(Append(lbEntries, [id |-> lbNext + 1, line |-> f]))
      /\ B = Append(lbAdded, f)
      /\ lbScene' = lbScene /\ lbText' = lbText /\ lbPartial' = lbPartial /\ lbTorn' = lbTorn
  BY DEF addLine
<1>2. /\ GoesOn(t) /\ Complete(Last(t)) /\ lbText = <<>> /\ lbNext \in Nat
      /\ lbScene.max \in Nat \ {0}
      /\ lbAdded \in Seq(Seq(Piece) \ {<<>>}) /\ lbEntries \in Seq([id : Int, line : Seq(Piece)])
  BY <1>1 DEF LogInv, LogTypes
<1>3. Parts2(t, f, o)
  BY <1>1, <1>2, FirstIs
<1>4. /\ GoesOn(f) /\ f \in Seq(Piece) \ {<<>>} /\ GoesOn(o)
      /\ Complete(Last(f)) /\ Line(Last(f)) = Line(Begins(t))
      /\ o # <<>> => Last(o) = Last(t) /\ No(Begins(o)) = No(Last(f)) + 1
  BY <1>3, TextIs DEF Parts2
<1>5. /\ Begins(t) \in Piece /\ Last(t) \in Piece /\ Line(Begins(t)) <= Line(Last(t))
      /\ Line(Begins(t)) \in Nat /\ Line(Last(t)) \in Nat /\ Last(f) \in Piece
  BY <1>1, <1>2, <1>4, TextEnds, Pieces
<1>6. ASSUME o # <<>>
      PROVE  /\ Begins(o) \in Piece /\ ~Complete(Begins(o))
             /\ Line(Begins(o)) = Line(Begins(t)) + 1 /\ Line(Begins(o)) \in Nat
  <2>1. Begins(o) \in Piece
    BY <1>4, <1>6, TextEnds
  <2> QED BY <1>4, <1>5, <1>6, <2>1, PieceAfter, Pieces
<1>7. BothPieces(f, lbTorn)
  <2>1. Complete(Begins(t)) => Line(Begins(t)) \in lbTorn
    BY <1>1 DEF LogInv, Onward, Whole
  <2>2. ~Complete(Begins(t)) => f = << <<Line(Begins(t)), 1>>, <<Line(Begins(t)), 2>> >>
    BY <1>3 DEF Parts2
  <2> QED BY <1>4, <2>1, <2>2 DEF BothPieces
<1>8. /\ B \in Seq(Seq(Piece) \ {<<>>}) /\ DOMAIN B = 1..n + 1 /\ n \in Nat
      /\ DOMAIN lbAdded = 1..n /\ B[n + 1] = f /\ \A i \in 1..n : B[i] = lbAdded[i]
  BY <1>1, <1>2, <1>4
<1>9. lbEntries' \in Seq([id : Int, line : Seq(Piece)]) /\ HoldsLast(lbEntries', B, lbNext + 1)
  <2>1. HoldsLast(lbEntries, lbAdded, lbNext)
    BY DEF LogInv, Kept
  <2> QED BY <1>1, <1>2, <1>4, <2>1, EntriesOf
<1>10. LogTypes'
  <2>1. o # <<>> => Complete(Last(o))
    BY <1>2, <1>4
  <2>2. lbNext + 1 \in Nat
    BY <1>2
  <2> QED BY <1>1, <1>2, <1>4, <1>8, <1>9, <2>1, <2>2 DEF LogInv, LogTypes
<1>11. Onward'
  <2>1. Whole(o, lbTorn)
    BY <1>6 DEF Whole
  <2> QED BY <1>1, <2>1 DEF LogInv, Onward
<1>12. Ordered'
  <2>1. \A i \in 1..n : Line(Last(lbAdded[i])) < Line(Begins(t))
    BY <1>1, <1>8 DEF LogInv, Ordered, Before
  <2>2. \A i \in 1..n : lbAdded[i] \in Seq(Piece) /\ lbAdded[i] # <<>>
    BY <1>2, <1>8
  <2>3. \A i \in 1..n : Line(Last(lbAdded[i])) \in Nat
    BY <2>2, LastOfLine
  <2>4. \A i \in 1..n + 1 : Line(Last(B[i])) \in Nat /\ Line(Last(B[i])) <= Line(Begins(t))
    <3>1. \A i \in 1..n : Line(Last(B[i])) \in Nat /\ Line(Last(B[i])) <= Line(Begins(t))
      BY <1>5, <1>8, <2>1, <2>3
    <3>2. Line(Last(B[n + 1])) \in Nat /\ Line(Last(B[n + 1])) <= Line(Begins(t))
      BY <1>4, <1>5, <1>8
    <3>3. \A i \in 1..n + 1 : i \in 1..n \/ i = n + 1
      BY <1>8
    <3> QED BY <3>1, <3>2, <3>3
  <2>5. ASSUME NEW i \in 1..n + 1, NEW j \in 1..n + 1, i < j
        PROVE  Line(Last(B[i])) < Line(Last(B[j]))
    <3>1. i \in 1..n /\ (j \in 1..n \/ j = n + 1)
      BY <1>8, <2>5
    <3>2. CASE j \in 1..n
      <4>1. Line(Last(lbAdded[i])) < Line(Last(lbAdded[j]))
        BY <1>8, <2>5, <3>1, <3>2 DEF LogInv, Ordered
      <4> QED BY <1>8, <3>1, <3>2, <4>1
    <3>3. CASE j = n + 1
      BY <1>4, <1>8, <2>1, <3>1, <3>3
    <3> QED BY <3>1, <3>2, <3>3
  <2>6. Before(B, o)
    BY <1>5, <1>6, <1>8, <2>4 DEF Before
  <2>7. ASSUME NEW x, x # <<>>, Line(Last(t)) < Line(Begins(x)), Begins(x) \in Piece
        PROVE  Before(B, x) /\ (o # <<>> => Line(Last(o)) < Line(Begins(x)))
    <3>1. Line(Begins(x)) \in Nat
      BY <2>7, Pieces
    <3>2. \A i \in 1..n + 1 : Line(Last(B[i])) < Line(Begins(x))
      BY <1>5, <2>4, <2>7, <3>1
    <3> QED BY <1>4, <1>8, <2>7, <3>2 DEF Before
  <2>8. Before(B, lbPartial) /\ (lbPartial # <<>> /\ o # <<>> => Line(Last(o)) < Line(Begins(lbPartial)))
    <3>1. lbPartial # <<>> => Line(Last(t)) < Line(Begins(lbPartial)) /\ Begins(lbPartial) \in Piece
      <4>1. GoesOn(lbPartial) /\ (lbPartial # <<>> => Line(Last(t)) < Line(Begins(lbPartial)))
        BY <1>1, <1>2 DEF LogInv, LogTypes, Ordered, After
      <4> QED BY <4>1, TextEnds
    <3> QED BY <2>7, <3>1 DEF Before
  <2>9. LET h == Coming(lbScene.chunks) IN
        Before(B, h) /\ (h # <<>> /\ o # <<>> => Line(Last(o)) < Line(Begins(h)))
    <3> PICK h : h = Coming(lbScene.chunks)
      OBVIOUS
    <3>1. h # <<>> => Line(Last(t)) < Line(Begins(h))
      BY <1>1, <1>2 DEF LogInv, Ordered, After
    <3>2. h # <<>> => Begins(h) \in Piece
      <4>1. lbScene.chunks \in Seq(Seq(Piece)) /\ ChunksGoOn(lbScene.chunks)
        BY DEF LogInv, LogTypes
      <4>2. h # <<>> => lbScene.chunks # <<>> /\ h = Head(lbScene.chunks)
        BY DEF Coming
      <4>3. h # <<>> => GoesOn(h)
        BY <4>1, <4>2, Reads
      <4> QED BY <4>3, TextEnds
    <3> QED BY <2>7, <3>1, <3>2 DEF Before
  <2>10. Before(B, <<>>)
    BY DEF Before
  <2> QED BY <1>1, <1>2, <1>8, <2>5, <2>6, <2>8, <2>9, <2>10 DEF Ordered, After
<1>13. Kept'
  <2>1. \A i \in DOMAIN B : BothPieces(B[i], lbTorn)
    <3>1. \A i \in 1..n : BothPieces(lbAdded[i], lbTorn)
      BY <1>8 DEF LogInv, Kept
    <3>2. \A i \in 1..n + 1 : i \in 1..n \/ i = n + 1
      BY <1>8
    <3> QED BY <1>7, <1>8, <3>1, <3>2
  <2> QED BY <1>1, <1>9, <2>1 DEF Kept, HoldsLast
<1> QED BY <1>10, <1>11, <1>12, <1>13 DEF LogInv

LEMMA clearKeeps == LogInv /\ clear => LogInv'
<1> SUFFICES ASSUME LogInv, clear PROVE LogInv'
  OBVIOUS
<1>1. /\ lbScene.clears > 0 /\ lbScene' = [lbScene EXCEPT !.clears = @ - 1]
      /\ lbEntries' = <<>> /\ lbPartial' = <<>> /\ lbAdded' = <<>>
      /\ lbTorn' = lbTorn \cup {lbPartial[i][1] : i \in DOMAIN lbPartial}
      /\ lbText' = lbText /\ lbLines' = lbLines /\ lbNext' = lbNext
  BY DEF clear
<1> PICK c : c = lbScene.chunks
  OBVIOUS
<1>2. /\ lbScene \in [chunks : Seq(Seq(Piece)), max : Nat \ {0}, clears : Nat]
      /\ c \in Seq(Seq(Piece)) /\ ChunksGoOn(c) /\ GoesOn(lbPartial)
      /\ lbPartial # <<>> => Len(lbPartial) = 1 /\ ~Complete(Begins(lbPartial))
  BY DEF LogInv, LogTypes
<1>3. lbScene' \in [chunks : Seq(Seq(Piece)), max : Nat \ {0}, clears : Nat]
      /\ lbScene'.chunks = c /\ lbScene'.max = lbScene.max
  BY <1>1, <1>2
<1>4. GoesOn(<<>>) /\ Len(<<>>) = 0 /\ DOMAIN <<>> = {}
  BY EmptySeq DEF GoesOn
<1>5. LogTypes'
  BY <1>1, <1>2, <1>3, <1>4 DEF LogInv, LogTypes
<1>6. Onward'
  <2>1. \A x : Whole(x, lbTorn) => Whole(x, lbTorn')
    BY <1>1 DEF Whole
  <2>2. ASSUME c # <<>>, lbText = <<>>, lbPartial # <<>> PROVE Whole(Head(c), lbTorn')
    <3>1. Begins(lbPartial) \in Piece /\ 1 \in DOMAIN lbPartial /\ lbPartial[1] = Begins(lbPartial)
      BY <1>2, <2>2, TextIs, TextEnds DEF Begins
    <3>2. Begins(Head(c)) \in Piece
      BY <1>2, <2>2, Reads, TextEnds
    <3>3. No(Begins(Head(c))) = No(Begins(lbPartial)) + 1
      BY <2>2 DEF LogInv, Onward
    <3>4. Line(Begins(Head(c))) = lbPartial[1][1]
      BY <1>2, <2>2, <3>1, <3>2, <3>3, PieceAfter DEF Line
    <3> QED BY <1>1, <3>1, <3>4 DEF Whole
  <2>3. ASSUME c # <<>>, lbText = <<>>, lbPartial = <<>> PROVE Whole(Head(c), lbTorn')
    BY <2>1, <2>3 DEF LogInv, Onward
  <2>4. ASSUME c # <<>>, lbText # <<>> PROVE No(Begins(Head(c))) = No(Last(lbText)) + 1
    BY <2>4 DEF LogInv, Onward
  <2>5. Whole(lbText, lbTorn') /\ Whole(lbLines, lbTorn')
    BY <2>1 DEF LogInv, Onward
  <2> QED BY <1>1, <1>3, <2>2, <2>3, <2>4, <2>5 DEF Onward
<1>7. Ordered'
  <2>1. lbText = <<>> => After(Coming(c))
    BY DEF LogInv, Ordered
  <2> QED BY <1>1, <1>3, <1>4, <2>1 DEF Ordered, Before, After
<1>8. Kept'
  BY <1>1, <1>2, <1>3, <1>4 DEF Kept, HoldsLast
<1> QED BY <1>5, <1>6, <1>7, <1>8 DEF LogInv

LEMMA LogStep == LogInv /\ [LogNext]_logVars => LogInv'
<1>1. LogInv /\ UNCHANGED logVars => LogInv'
  BY DEF logVars, LogInv, LogTypes, Onward, Ordered, Kept, HoldsLast, After
<1> QED BY <1>1, ReadPartialKeeps, WritePartialKeeps, addLineKeeps, clearKeeps DEF LogNext

LEMMA LogIsTrue == LogInv => LogTrue
<1> SUFFICES ASSUME LogInv PROVE LogTrue
  OBVIOUS
<1>n. PICK n : n = Len(lbAdded)
  OBVIOUS
<1>k. PICK k : k = Len(lbEntries)
  OBVIOUS
<1>m. PICK m : m = lbScene.max
  OBVIOUS
<1>A. PICK A : A = lbAdded
  OBVIOUS
<1>E. PICK E : E = lbEntries
  OBVIOUS
<1>1. A \in Seq(Seq(Piece) \ {<<>>}) /\ E \in Seq([id : Int, line : Seq(Piece)]) /\ m \in Nat \ {0}
      /\ lbNext \in Nat
  BY <1>A, <1>E, <1>m DEF LogInv, LogTypes
<1>2. n \in Nat /\ k \in Nat /\ DOMAIN A = 1..n /\ DOMAIN E = 1..k
  BY <1>1, <1>n, <1>k, <1>A, <1>E
<1>3. k <= n /\ k <= m /\ (k = n \/ k = m)
  BY <1>n, <1>k, <1>m DEF LogInv, Kept, HoldsLast
<1>4. \A i \in 1..k : E[i].line = A[n - k + i] /\ E[i].id = lbNext - k + i
  BY <1>2, <1>n, <1>k, <1>A, <1>E DEF LogInv, Kept, HoldsLast
<1>5. [i \in DOMAIN E |-> E[i].line] = SubSeq(A, n - k + 1, n)
  <2>1. PICK a : a = n - k + 1
    OBVIOUS
  <2>2. a \in Nat /\ 1 + n - a = k /\ \A i \in 1..k : i + a - 1 = n - k + i
    BY <1>2, <1>3, <2>1
  <2>3. SubSeq(A, a, n) = [i \in 1..(1 + n - a) |-> A[i + a - 1]]
    BY <1>1, <1>2, <2>2 DEF SubSeq
  <2>4. SubSeq(A, a, n) = [i \in 1..k |-> A[i + a - 1]]
    BY <2>2, <2>3, Zenon
  <2>5. \A i \in 1..k : E[i].line = A[i + a - 1]
    BY <1>4, <2>2, Zenon
  <2> QED BY <1>2, <2>1, <2>4, <2>5, Zenon
<1>6. k = Min({n, m})
  <2>1. k \in {n, m} /\ \A y \in {n, m} : k <= y
    BY <1>1, <1>2, <1>3
  <2>2. \A x \in {n, m} : (\A y \in {n, m} : x <= y) => x = k
    BY <1>1, <1>2, <1>3
  <2> QED BY <2>1, <2>2 DEF Min
<1>7. ASSUME NEW i \in 1..k
      PROVE  LET l == Last(E[i].line)[1] IN
             E[i].line = << <<l, 1>>, <<l, 2>> >> \/ l \in lbTorn
  <2>1. n - k + i \in 1..n
    BY <1>2, <1>3
  <2>2. BothPieces(A[n - k + i], lbTorn)
    BY <1>2, <1>A, <2>1 DEF LogInv, Kept
  <2>3. BothPieces(E[i].line, lbTorn)
    BY <1>4, <2>2
  <2> QED BY <2>3 DEF BothPieces, Line
<1>8. \A i, j \in DOMAIN A : i < j => Last(A[i])[1] < Last(A[j])[1]
  BY <1>A DEF LogInv, Ordered, Line
<1> QED BY <1>2, <1>4, <1>5, <1>6, <1>7, <1>8, <1>n, <1>k, <1>m, <1>A, <1>E DEF LogTrue

\* A list that goes back from the newest entry, of the entries in M, of which room fit.
Lists(M, room, out) ==
  /\ Cardinality(out) <= room
  /\ M \subseteq out \/ Cardinality(out) = room
  /\ \A i \in out, j \in M \ out : j < i

Since(M, k) == {i \in M : k <= i}

LEMMA Listed ==
  ASSUME NEW n \in Nat, NEW M \in SUBSET (1..n), NEW room \in Nat
  PROVE  Lists(M, room, Since(M, Min({k \in 1..(n + 1) : Cardinality(Since(M, k)) <= room})))
<1>K. PICK K : K = {k \in 1..(n + 1) : Cardinality(Since(M, k)) <= room}
  OBVIOUS
<1>i. \A k : \A i : i \in Since(M, k) <=> i \in M /\ k <= i
  BY DEF Since
<1>1. ASSUME NEW k
      PROVE  /\ Since(M, k) \subseteq M /\ IsFiniteSet(Since(M, k))
             /\ Cardinality(Since(M, k)) \in Nat
  <2>1. IsFiniteSet(1..n)
    BY FS_Interval
  <2>2. Since(M, k) \subseteq 1..n /\ Since(M, k) \subseteq M
    BY <1>i
  <2>3. IsFiniteSet(Since(M, k))
    BY <2>1, <2>2, FS_Subset
  <2> QED BY <2>2, <2>3, FS_CardinalityType
<1>2. n + 1 \in K
  <2>1. Since(M, n + 1) = {}
    <3>1. \A i \in M : i \in Int /\ ~(n + 1 <= i)
      OBVIOUS
    <3> QED BY <1>i, <3>1
  <2>2. Cardinality(Since(M, n + 1)) = 0
    BY <2>1, FS_EmptySet
  <2> QED BY <1>K, <2>2
<1>m. PICK m : m = Min(K)
  OBVIOUS
<1>3. m \in K /\ \A k \in K : m <= k
  <2>1. K \in SUBSET Nat /\ K # {}
    BY <1>2, <1>K
  <2> QED BY <2>1, <1>m, MinIs
<1>4. m \in 1..(n + 1) /\ Cardinality(Since(M, m)) <= room
  BY <1>3, <1>K
<1>5. CASE m = 1
  <2>1. M \subseteq Since(M, m)
    BY <1>5, <1>i
  <2> QED BY <1>4, <1>m, <1>K, <2>1 DEF Lists
<1>6. CASE m # 1
  <2>1. PICK p : p = m - 1
    OBVIOUS
  <2>2. p \in 1..(n + 1) /\ p < m /\ ~(m <= p) /\ p + 1 = m
    BY <1>4, <1>6, <2>1
  <2>3. ~(Cardinality(Since(M, p)) <= room)
    <3>1. p \notin K
      BY <1>3, <2>2
    <3> QED BY <1>K, <2>2, <3>1
  <2>4. PICK T : T = Since(M, m) \cup {p}
    OBVIOUS
  <2>5. Since(M, p) \subseteq T
    <3>1. \A i \in M : p <= i => m <= i \/ i = p
      BY <2>2
    <3> QED BY <1>i, <2>4, <3>1
  <2>6. IsFiniteSet(T) /\ Cardinality(T) <= Cardinality(Since(M, m)) + 1 /\ Cardinality(T) \in Nat
    <3>1. IsFiniteSet(Since(M, m)) /\ Cardinality(Since(M, m)) \in Nat
      BY <1>1
    <3>2. IsFiniteSet(T) /\ (Cardinality(T) = Cardinality(Since(M, m)) \/ Cardinality(T) = Cardinality(Since(M, m)) + 1)
      BY <2>4, <3>1, FS_AddElement
    <3> QED BY <3>1, <3>2
  <2>7. Cardinality(Since(M, p)) <= Cardinality(T)
    BY <2>5, <2>6, FS_Subset
  <2>8. Cardinality(Since(M, p)) \in Nat /\ Cardinality(Since(M, m)) \in Nat
    BY <1>1
  <2>9. Cardinality(Since(M, m)) = room
    BY <1>4, <2>3, <2>6, <2>7, <2>8
  <2>10. \A i \in Since(M, m), j \in M \ Since(M, m) : j < i
    <3>1. \A i \in M, j \in M : m <= i /\ ~(m <= j) => j < i
      BY <1>4
    <3> QED BY <1>i, <3>1
  <2> QED BY <1>m, <1>K, <1>4, <2>9, <2>10 DEF Lists
<1> QED BY <1>5, <1>6

LEMMA ListIsTrue == LogInv => ListTrue
<1> SUFFICES ASSUME LogInv, NEW limit \in 0..3, NEW matching \in SUBSET ToSet(lbEntries)
             PROVE  Lists(places(matching), atMost(limit), list(limit, matching))
  BY DEF ListTrue, Lists
<1>1. lbScene.max \in Nat /\ Len(lbEntries) \in Nat /\ DOMAIN lbEntries = 1..Len(lbEntries)
  <2>1. lbScene.max \in Nat /\ lbEntries \in Seq([id : Int, line : Seq(Piece)])
    BY DEF LogInv, LogTypes
  <2> QED BY <2>1
<1>2. atMost(limit) \in Nat
  BY <1>1 DEF atMost
<1>3. places(matching) \in SUBSET (1..Len(lbEntries))
  BY <1>1 DEF places
<1> QED BY <1>1, <1>2, <1>3, Listed DEF list, Since

\* The log holds the last lines since it was cleared, whole but for those a clear tore,
\* and a list of it the newest that match.  For any chunks of the pipe, any size of the
\* log and any number of clears.
THEOREM LogSoundHolds ==
  ASSUME NEW s, LogSceneOK(s) PROVE LogInit(s) /\ [][LogNext]_logVars => []LogSound
<1>1. LogInit(s) => LogInv
  BY LogStarts
<1>2. LogInv => LogSound
  BY LogIsTrue, ListIsTrue DEF LogSound
<1> QED BY <1>1, <1>2, LogStep, PTL

-----------------------------------------------------------------------------
(* All of them.                                                            *)

\* The answers of the scene that is played, or of no scene.
SomeView == \E s \in MCViews \cup {NoView} : ViewInv(s)

LEMMA SomeViewSteps == SomeView /\ [ViewNext]_viewVars => SomeView'
<1> SUFFICES ASSUME SomeView, [ViewNext]_viewVars PROVE SomeView'
  OBVIOUS
<1>1. PICK s \in MCViews \cup {NoView} : ViewInv(s)
  BY DEF SomeView
<1>2. SceneOK(s)
  BY ViewsAssumption
<1>3. ViewInv(s)'
  BY <1>1, <1>2, ViewSteps
<1> QED BY <1>3 DEF SomeView

\* DeskSound, in the specification the run checks: what is billed was carried, what the
\* console tells was so, the process of an engine that is kept is the only one, and the
\* log is true.  The scenes are those of MCDesk; ViewsSoundHolds, EngineSoundHolds and
\* LogSoundHolds say the same of every other.
THEOREM DeskSoundHolds == SceneSpec => []DeskSound
<1>1. SceneInit => SomeView /\ EngineInv /\ LogInv
  <2> SUFFICES ASSUME SceneInit PROVE SomeView /\ EngineInv /\ LogInv
    OBVIOUS
  <2>1. PICK s \in Scenes("views", MCViews, NoView) : ViewInit(s)
    BY DEF SceneInit
  <2>2. s \in MCViews \cup {NoView}
    BY DEF Scenes
  <2>3. SceneOK(s)
    BY <2>2, ViewsAssumption
  <2>4. SomeView
    BY <2>1, <2>2, <2>3, ViewStart DEF SomeView
  <2>5. PICK e : EngineInit(e)
    BY DEF SceneInit
  <2>6. PICK l \in Scenes("log", MCLogs, NoLog) : LogInit(l)
    BY DEF SceneInit
  <2>7. l \in MCLogs \cup {NoLog}
    BY DEF Scenes
  <2>8. LogInv
    BY <2>6, <2>7, LogsAssumption, LogStarts
  <2> QED BY <2>4, <2>5, <2>8, EngineStarts
<1>2. SomeView /\ EngineInv /\ LogInv /\ [SceneNext]_allVars
        => SomeView' /\ EngineInv' /\ LogInv'
  BY SomeViewSteps, EngineStep, LogStep DEF SceneNext, allVars
<1>3. SomeView => ViewsSound
  BY AnswersTrue DEF SomeView
<1>4. EngineInv => EngineSound
  BY DEF EngineInv, EngineSound, OneProcess, ShownIsKept
<1>5. LogInv => LogSound
  BY LogIsTrue, ListIsTrue DEF LogSound
<1>6. BillingSound /\ ViewsSound /\ EngineSound /\ LogSound => DeskSound
  BY DEF DeskSound
<1> QED BY <1>1, <1>2, <1>3, <1>4, <1>5, <1>6, BillingSoundHolds, PTL DEF SceneSpec
=============================================================================

----------------------------- MODULE FrpcProofs -----------------------------
(***************************************************************************)
(* Proofs about frpc, for every scene: the configuration that its admin    *)
(* API changes (FrpConf), its UDP proxies with frps' end of them (FrpUdp), *)
(* the holes that its visitors make (NatHole), and its service with the    *)
(* controls and the proxies (FrpClient).                                   *)
(***************************************************************************)
EXTENDS MCFrpClient, FiniteSetTheorems, WellFoundedInduction, TLAPS

-----------------------------------------------------------------------------
(* Partial maps.                                                           *)

\* A map of entries: none of its values means that there is no entry.
IsMap(m) == m = [x \in DOMAIN m |-> m[x]] /\ \A x \in DOMAIN m : m[x] # Absent

\* What the store makes of an entry that is put.
LEMMA PutEntry ==
  ASSUME NEW m, IsMap(m), NEW k, NEW e, e # Absent
  PROVE  /\ IsMap(With(m, k, e)) /\ Get(With(m, k, e), k) = e
         /\ \A x : x # k => Get(With(m, k, e), x) = Get(m, x)
<1> DEFINE n == With(m, k, e)
<1>1. n = [x \in DOMAIN m \cup {k} |-> IF x = k THEN e ELSE m[x]]
  BY DEF With
<1> HIDE DEF n
<1>2. DOMAIN n = DOMAIN m \cup {k} /\ \A x \in DOMAIN n : n[x] = IF x = k THEN e ELSE m[x]
  BY <1>1
<1>3. n = [x \in DOMAIN n |-> n[x]]
  BY <1>1
<1> QED BY <1>2, <1>3 DEF IsMap, Get, n

\* What it makes of one that is removed.
LEMMA RemoveEntry ==
  ASSUME NEW m, IsMap(m), NEW k
  PROVE  /\ IsMap(Without(m, k)) /\ Get(Without(m, k), k) = Absent
         /\ \A x : x # k => Get(Without(m, k), x) = Get(m, x)
<1> DEFINE n == Without(m, k)
<1>1. n = [x \in DOMAIN m \ {k} |-> m[x]]
  BY DEF Without
<1> HIDE DEF n
<1>2. DOMAIN n = DOMAIN m \ {k} /\ \A x \in DOMAIN n : n[x] = m[x]
  BY <1>1
<1>3. n = [x \in DOMAIN n |-> n[x]]
  BY <1>1
<1> QED BY <1>2, <1>3 DEF IsMap, Get, n

\* Maps with the same entries are the same.
LEMMA SameEntries ==
  ASSUME NEW m, NEW n, IsMap(m), IsMap(n), \A x : Get(m, x) = Get(n, x)
  PROVE  m = n
<1>1. DOMAIN m = DOMAIN n
  BY DEF IsMap, Get
<1>2. \A x \in DOMAIN m : m[x] = n[x]
  BY <1>1 DEF Get
<1> QED BY <1>1, <1>2 DEF IsMap

-----------------------------------------------------------------------------
(* The configuration: the invariant.                                       *)

\* Any scene: calls that put entries, a file, a store, failures and crashes.
IsConfScene(s) ==
  /\ DOMAIN s = {"calls", "conf", "disk", "faults", "crashes"}
  /\ DOMAIN s.calls \subseteq Call /\ \A c \in DOMAIN s.calls : s.calls[c].ent # Absent
  /\ IsMap(s.disk)
ConfSpec == (\E s : IsConfScene(s) /\ ConfInit(s)) /\ [][ConfNext]_confVars

Held == {"mutate", "write", "rename", "apply", "replace"}
Free == {"new", "call", "lock", "put", "done"}
Key(c) == request(c).key
\* What the call wants its key to be.
Wanted(c) == IF request(c).op = "delete" THEN Absent ELSE request(c).ent

Fields(r) == DOMAIN r = {"at", "res", "old", "read"}
CallShape == call = [c \in Call |-> call[c]] /\ \A c \in Call : Fields(call[c])

\* Who has the mutex is under way, and nobody else is past the taking of it.
CallsOK ==
  /\ CallShape
  /\ \A c \in Call :
       /\ call[c].at \in Held \cup Free /\ (call[c].at \in Held <=> lock = c)
       /\ call[c].at # "new" => c \in DOMAIN cscene.calls
       /\ call[c].res = "lost" => call[c].at = "done"
  /\ lock \in Call \cup {""} /\ running \in {"up", "stopped", "down"}
  /\ running # "up" => lock = ""

\* A call that writes has changed its own key in memory, and knows what it was.
Writing(c) ==
  call[c].at \in {"write", "rename"} =>
    /\ Get(store, Key(c)) = Wanted(c) /\ call[c].old = Get(disk, Key(c))
    /\ \A k : k # Key(c) => Get(store, k) = Get(disk, k)

StoreOK ==
  /\ IsMap(store)
  /\ (\A c \in Call : call[c].at \notin {"write", "rename"}) => store = disk
  /\ (\A c \in Call : call[c].at # "apply") =>
       applied = filtered(aggregated(src, disk), common)
  /\ \A c \in Call : Writing(c)

\* A call that is to be applied has its key in the file; of every other key the file
\* is what was answered, unless a call was lost.
Open(c, k) == Key(c) = k /\ (call[c].at = "apply" \/ call[c].res = "lost")
AckedOK ==
  /\ \A c \in Call : call[c].at = "apply" => Get(disk, Key(c)) = Wanted(c)
  /\ \A k : Get(disk, k) = Get(acked, k) \/ \E c \in DOMAIN cscene.calls : Open(c, k)

ConfInv ==
  /\ IsConfScene(cscene) /\ CallsOK /\ IsMap(disk) /\ IsMap(acked)
  /\ running = "up" => StoreOK
  /\ AckedOK

\* What the run checks follows from the invariant.
LEMMA ConfInvSound == ConfInv => ConfSound
<1> SUFFICES ASSUME ConfInv PROVE ConfSound
  OBVIOUS
<1> USE DEF ConfInv
<1>1. ConfTypeOK
  BY DEF ConfTypeOK, CallsOK, Held, Free
<1>2. ASSUME running = "up", lock = "" PROVE store = disk /\ applied = merged
  <2>1. \A c \in Call : call[c].at \notin Held
    BY <1>2, ConfAssumption DEF CallsOK
  <2> QED BY <1>2, <2>1 DEF StoreOK, Held, merged
<1>3. AnswersKept
  BY DEF AnswersKept, AckedOK, Open, Key
<1> QED BY <1>1, <1>2, <1>3 DEF ConfSound, MemoryIsDisk, InSync

\* A scene starts with what the file of the store holds.
LEMMA ConfInvInit ==
  ASSUME NEW s, IsConfScene(s), ConfInit(s)
  PROVE  ConfInv
<1> USE DEF ConfInit
<1>1. CallsOK
  <2>1. call = [c \in Call |-> NewCall] /\ lock = "" /\ running = "up"
    OBVIOUS
  <2>2. Fields(NewCall) /\ NewCall.at = "new" /\ NewCall.res = ""
    BY DEF Fields, NewCall
  <2> HIDE DEF ConfInit
  <2> QED BY <2>1, <2>2, ConfAssumption DEF CallsOK, CallShape, Held, Free
<1>2. \A c \in Call : call[c].at = "new" /\ call[c].res = ""
  BY DEF NewCall
<1>3. IsMap(disk) /\ store = disk /\ acked = disk /\ cscene = s
  BY DEF IsConfScene
<1>4. applied = filtered(aggregated(src, disk), common)
  OBVIOUS
<1> HIDE DEF ConfInit
<1>5. StoreOK
  BY <1>2, <1>3, <1>4 DEF StoreOK, Writing
<1>6. AckedOK
  BY <1>2, <1>3 DEF AckedOK
<1> QED BY <1>1, <1>3, <1>5, <1>6 DEF ConfInv

-----------------------------------------------------------------------------
(* The configuration: what a step does to a call.                          *)

\* Call c is now at a stage, with an answer; the others are where they were.
Becomes(c, at, res) ==
  /\ CallShape' /\ call'[c].at = at /\ call'[c].res = res
  /\ call'[c].old = call[c].old /\ \A d \in Call \ {c} : call'[d] = call[d]

\* What moves a call, moves that call.
LEMMA CallMoves ==
  ASSUME CallShape, NEW c \in Call, NEW r, Fields(r), call' = [call EXCEPT ![c] = r]
  PROVE  CallShape' /\ call'[c] = r /\ \A d \in Call \ {c} : call'[d] = call[d]
<1>1. /\ DOMAIN call = Call /\ call' = [d \in Call |-> IF d = c THEN r ELSE call[d]]
  BY DEF CallShape
<1>2. call'[c] = r /\ \A d \in Call \ {c} : call'[d] = call[d]
  BY <1>1
<1>3. \A d \in Call : Fields(call'[d])
  BY <1>2 DEF CallShape
<1>4. call' = [d \in Call |-> call'[d]]
  BY <1>1
<1> QED BY <1>2, <1>3, <1>4 DEF CallShape

\* A call goes on.
LEMMA GotoIs ==
  ASSUME CallShape, NEW c \in Call, NEW at, CallGoto(c, at)
  PROVE  Becomes(c, at, call[c].res)
<1> DEFINE r == [call[c] EXCEPT !.at = at]
<1>1. Fields(r) /\ r.at = at /\ r.res = call[c].res /\ r.old = call[c].old
  BY DEF CallShape, Fields
<1>2. call' = [call EXCEPT ![c] = r]
  BY DEF CallGoto
<1> HIDE DEF r
<1> QED BY <1>1, <1>2, CallMoves DEF Becomes

\* A call is answered.
LEMMA ReplyIs ==
  ASSUME CallShape, NEW c \in Call, NEW res, Reply(c, res)
  PROVE  Becomes(c, "done", res)
<1> DEFINE r == [call[c] EXCEPT !.at = "done", !.res = res]
<1>1. Fields(r) /\ r.at = "done" /\ r.res = res /\ r.old = call[c].old
  BY DEF CallShape, Fields
<1>2. call' = [call EXCEPT ![c] = r]
  BY DEF Reply
<1> HIDE DEF r
<1> QED BY <1>1, <1>2, CallMoves DEF Becomes

-----------------------------------------------------------------------------
(* The configuration: steps outside the mutex.                             *)

\* A step that takes a call from one stage outside the mutex to another.
LEMMA TalkKeeps ==
  ASSUME ConfInv, NEW c \in Call, c \in DOMAIN cscene.calls,
         call[c].at \in Free \ {"done"}, NEW at \in Free \ {"new"}, NEW res, res # "lost",
         CallShape' /\ call'[c].at = at /\ call'[c].res = res,
         \A d \in Call \ {c} : call'[d] = call[d],
         UNCHANGED <<cscene, mem, disk, running, lock, acked>>
  PROVE  ConfInv'
<1> USE DEF ConfInv
<1>1. CallsOK'
  BY DEF CallsOK, Held, Free
<1>2. \A d \in Call : /\ call'[d].at \in Held \cup {"new"} => call'[d] = call[d]
                      /\ call[d].at \in Held \cup {"new"} /\ d # c => call'[d] = call[d]
                      /\ call[d].at \in Held => call'[d] = call[d]
  BY DEF Held, Free
<1>3. ASSUME StoreOK PROVE StoreOK'
  BY <1>2, <1>3 DEF StoreOK, Writing, Held, mem, Key, request, Wanted
<1>4. AckedOK'
  <2>1. \A d \in DOMAIN cscene.calls : \A k : Open(d, k) => Open(d, k)'
    BY DEF Open, Key, request, IsConfScene, CallsOK, Free
  <2> QED BY <1>2, <2>1 DEF AckedOK, Held, Key, request, Wanted
<1> QED BY <1>1, <1>3, <1>4 DEF mem

\* The mutex is free, and nobody writes or applies.
LEMMA Nobody ==
  ASSUME ConfInv, lock = ""
  PROVE  \A c \in Call : call[c].at \in Free
BY ConfAssumption DEF ConfInv, CallsOK

\* Who has it is alone with it.
LEMMA Alone ==
  ASSUME ConfInv, NEW c \in Call, call[c].at \in Held
  PROVE  /\ lock = c /\ lock # "" /\ running = "up" /\ StoreOK /\ c \in DOMAIN cscene.calls
         /\ call[c].res # "lost"
         /\ \A d \in Call \ {c} : call[d].at \in Free
BY ConfAssumption DEF ConfInv, CallsOK, Held, Free, Key

\* A call takes the mutex of the service or of the store.
LEMMA LockKeeps ==
  ASSUME ConfInv, NEW c \in Call, Lock(c)
  PROVE  ConfInv'
<1> USE DEF ConfInv
<1>1. CallShape /\ c \in DOMAIN cscene.calls /\ call[c].res # "lost"
  BY DEF Lock, CallsOK
<1>2. CASE running = "stopped"
  <2>1. Becomes(c, "done", "404") /\ lock' = lock
    BY <1>1, <1>2, ReplyIs DEF Lock
  <2> QED BY <1>1, <2>1, TalkKeeps DEF Lock, rest, Becomes, Free
<1>3. CASE running # "stopped"
  <2>1. PICK at \in {"replace", "mutate"} : lock' = c /\ CallGoto(c, at)
    BY <1>3 DEF Lock
  <2>2. Becomes(c, at, call[c].res) /\ UNCHANGED <<cscene, mem, disk, running, acked>>
    BY <1>1, <2>1, GotoIs DEF Lock, rest
  <2>3. running = "up" /\ \A d \in Call : call[d].at \in Free
    BY <1>3, Nobody DEF Lock, CallsOK
  <2>4. CallsOK'
    BY <1>1, <2>1, <2>2, <2>3, ConfAssumption DEF CallsOK, Held, Free, Becomes
  <2>5. StoreOK'
    BY <2>1, <2>2, <2>3 DEF StoreOK, Writing, Becomes, Free, mem
  <2>6. AckedOK'
    <3>1. \A d \in DOMAIN cscene.calls : \A k : Open(d, k) => Open(d, k)'
      BY <1>1, <2>1, <2>2, <2>3 DEF Open, Key, request, IsConfScene, Free, Becomes
    <3> QED BY <2>1, <2>2, <2>3, <3>1 DEF AckedOK, Becomes, Free
  <2> QED BY <2>2, <2>4, <2>5, <2>6 DEF mem
<1> QED BY <1>2, <1>3

-----------------------------------------------------------------------------
(* The configuration: steps under the mutex.                               *)

\* A refusal gives the mutex back and leaves everything as it was.
LEMMA RefusesKeeps ==
  ASSUME ConfInv, NEW c \in Call, call[c].at = "mutate", NEW res, res # "lost",
         Refuses(c, res), UNCHANGED <<cscene, src, common, applied, disk, running, acked>>
  PROVE  ConfInv'
<1> USE DEF ConfInv
<1>1. /\ lock = c /\ running = "up" /\ StoreOK /\ c \in DOMAIN cscene.calls
      /\ call[c].res # "lost" /\ \A d \in Call \ {c} : call[d].at \in Free
  BY Alone DEF Held
<1>2. Becomes(c, "done", res) /\ lock' = "" /\ store' = store
  BY ReplyIs DEF Refuses, CallsOK
<1>3. CallsOK'
  BY <1>1, <1>2, ConfAssumption DEF CallsOK, Held, Free, Becomes
<1>4. StoreOK'
  BY <1>1, <1>2 DEF StoreOK, Writing, Becomes, Free
<1>5. AckedOK'
  <2>1. \A d \in DOMAIN cscene.calls : \A k : Open(d, k) => Open(d, k)'
    BY <1>1, <1>2 DEF Open, Key, request, IsConfScene, Free, Becomes
  <2> QED BY <1>1, <1>2, <2>1 DEF AckedOK, Becomes, Free
<1> QED BY <1>1, <1>3, <1>4, <1>5

\* A change of one key in memory, which is to be written.
LEMMA ChangesKeeps ==
  ASSUME ConfInv, NEW c \in Call, call[c].at = "mutate", NEW m, Changes(c, m), IsMap(m),
         Get(m, Key(c)) = Wanted(c), \A k : k # Key(c) => Get(m, k) = Get(store, k),
         UNCHANGED <<cscene, src, common, applied, disk, running, acked>>
  PROVE  ConfInv'
<1> USE DEF ConfInv
<1>1. /\ lock = c /\ running = "up" /\ StoreOK /\ c \in DOMAIN cscene.calls
      /\ call[c].res # "lost" /\ \A d \in Call \ {c} : call[d].at \in Free
  BY Alone DEF Held
<1>2. /\ CallShape' /\ call'[c].at = "write" /\ call'[c].res = call[c].res
      /\ call'[c].old = Get(store, Key(c)) /\ \A d \in Call \ {c} : call'[d] = call[d]
      /\ lock' = lock /\ store' = m
  <2> DEFINE r == [call[c] EXCEPT !.at = "write", !.old = Get(store, Key(c))]
  <2>1. /\ CallShape /\ Fields(r) /\ r.at = "write" /\ r.res = call[c].res
        /\ r.old = Get(store, Key(c))
    BY DEF CallsOK, CallShape, Fields
  <2>2. call' = [call EXCEPT ![c] = r]
    BY DEF Changes, Key
  <2> HIDE DEF r
  <2> QED BY <2>1, <2>2, CallMoves DEF Changes
<1>3. CallsOK'
  BY <1>1, <1>2 DEF CallsOK, Held, Free
<1>4. StoreOK'
  <2>1. store = disk /\ applied = filtered(aggregated(src, disk), common)
    BY <1>1 DEF StoreOK, Free
  <2> QED BY <1>1, <1>2, <2>1 DEF StoreOK, Writing, Free, Key, request, Wanted
<1>5. AckedOK'
  <2>1. \A d \in DOMAIN cscene.calls : \A k : Open(d, k) => Open(d, k)'
    BY <1>1, <1>2 DEF Open, Key, request, IsConfScene, Free
  <2> QED BY <1>1, <1>2, <2>1 DEF AckedOK, Free
<1> QED BY <1>1, <1>3, <1>4, <1>5

\* The store's memory is changed under its mutex, before the file.
LEMMA MutateKeeps ==
  ASSUME ConfInv, NEW c \in Call,
         addStoreEntry(c) \/ updateStoreEntry(c) \/ removeStoreEntry(c)
  PROVE  ConfInv'
<1> USE DEF ConfInv
<1>1. /\ call[c].at = "mutate"
      /\ UNCHANGED <<cscene, src, common, applied, disk, running, acked>>
  BY DEF addStoreEntry, updateStoreEntry, removeStoreEntry
<1>2. IsMap(store) /\ request(c).ent # Absent
  BY <1>1, Alone DEF Held, StoreOK, IsConfScene, request
<1>3. \/ Refuses(c, "409") \/ Refuses(c, "404")
      \/ request(c).op # "delete" /\ Changes(c, With(store, Key(c), request(c).ent))
      \/ request(c).op = "delete" /\ Changes(c, Without(store, Key(c)))
  BY DEF addStoreEntry, updateStoreEntry, removeStoreEntry, Key
<1>4. CASE Refuses(c, "409") \/ Refuses(c, "404")
  BY <1>1, <1>4, RefusesKeeps
<1>5. CASE request(c).op # "delete" /\ Changes(c, With(store, Key(c), request(c).ent))
  <2>1. Wanted(c) = request(c).ent
    BY <1>5 DEF Wanted
  <2> QED BY <1>1, <1>2, <1>5, <2>1, PutEntry, ChangesKeeps
<1>6. CASE request(c).op = "delete" /\ Changes(c, Without(store, Key(c)))
  <2>1. Wanted(c) = Absent
    BY <1>6 DEF Wanted
  <2> QED BY <1>1, <1>2, <1>6, <2>1, RemoveEntry, ChangesKeeps
<1> QED BY <1>3, <1>4, <1>5, <1>6

\* saveToFileUnlocked: the temporary file, then the rename.
LEMMA SaveKeeps ==
  ASSUME ConfInv, NEW c \in Call, saveTemp(c) \/ renameTemp(c)
  PROVE  ConfInv'
<1> USE DEF ConfInv
<1>1. call[c].at \in {"write", "rename"} /\ CallShape
  BY DEF saveTemp, renameTemp, CallsOK
<1>2. /\ lock = c /\ running = "up" /\ StoreOK /\ c \in DOMAIN cscene.calls
      /\ call[c].res # "lost" /\ \A d \in Call \ {c} : call[d].at \in Free
  BY <1>1, Alone DEF Held
<1>3. CASE saveTemp(c)
  <2>1. Becomes(c, "rename", call[c].res)
    BY <1>1, <1>3, GotoIs DEF saveTemp
  <2>2. UNCHANGED <<cscene, mem, disk, running, lock, acked>> /\ call[c].at = "write"
    BY <1>3 DEF saveTemp
  <2>3. CallsOK'
    BY <1>2, <2>1, <2>2 DEF CallsOK, Held, Free, Becomes
  <2>4. StoreOK'
    BY <1>2, <2>1, <2>2 DEF StoreOK, Writing, Free, Key, request, Wanted, Becomes, mem
  <2>5. AckedOK'
    <3>1. \A d \in DOMAIN cscene.calls : \A k : Open(d, k) => Open(d, k)'
      BY <1>2, <2>1, <2>2 DEF Open, Key, request, IsConfScene, Free, Becomes
    <3> QED BY <1>2, <2>1, <2>2, <3>1 DEF AckedOK, Free, Becomes
  <2> QED BY <2>2, <2>3, <2>4, <2>5
<1>4. CASE renameTemp(c)
  <2>1. Becomes(c, "apply", call[c].res) /\ call[c].at = "rename"
    BY <1>1, <1>4, GotoIs DEF renameTemp
  <2>2. UNCHANGED <<cscene, mem, running, lock, acked>> /\ disk' = store
    BY <1>4 DEF renameTemp
  <2>3. CallsOK'
    BY <1>2, <2>1, <2>2 DEF CallsOK, Held, Free, Becomes
  <2>4. StoreOK' /\ IsMap(disk)'
    BY <1>2, <2>1, <2>2 DEF StoreOK, Writing, Free, Becomes, mem
  <2>5. AckedOK'
    <3>1. \A d \in DOMAIN cscene.calls : \A k : Open(d, k) => Open(d, k)'
      BY <1>2, <2>1, <2>2 DEF Open, Key, request, IsConfScene, Free, Becomes
    <3>2. Open(c, Key(c))' /\ Key(c)' = Key(c)
      BY <2>1, <2>2 DEF Open, Key, request, Becomes
    <3>3. Get(disk', Key(c)) = Wanted(c) /\ \A k : k # Key(c) => Get(disk', k) = Get(disk, k)
      BY <1>2, <2>1, <2>2 DEF StoreOK, Writing
    <3>4. \A d \in Call : call'[d].at = "apply" => d = c
      BY <1>2, <2>1 DEF Becomes, Free
    <3>5. \A k : Get(disk, k)' = Get(acked, k)' \/ \E d \in DOMAIN cscene.calls : Open(d, k)'
      BY <1>2, <2>2, <3>1, <3>2, <3>3 DEF AckedOK
    <3>6. Wanted(c)' = Wanted(c)
      BY <2>2 DEF Wanted, request
    <3> QED BY <2>2, <3>2, <3>3, <3>4, <3>5, <3>6 DEF AckedOK
  <2> QED BY <2>2, <2>3, <2>4, <2>5
<1> QED BY <1>3, <1>4

\* A save fails, and what was changed in memory is taken back.
LEMMA SaveFailsKeeps ==
  ASSUME ConfInv, NEW c \in Call, saveFails(c)
  PROVE  ConfInv'
<1> USE DEF ConfInv
<1>1. call[c].at \in {"write", "rename"} /\ CallShape
  BY DEF saveFails, CallsOK
<1>2. /\ lock = c /\ running = "up" /\ StoreOK /\ c \in DOMAIN cscene.calls
      /\ call[c].res # "lost" /\ \A d \in Call \ {c} : call[d].at \in Free
  BY <1>1, Alone DEF Held
<1>3. /\ Becomes(c, "done", "500") /\ lock' = "" /\ store' = rolledBack(c)
      /\ UNCHANGED <<conf, src, common, applied, disk, running, acked>>
  BY <1>1, ReplyIs DEF saveFails
<1>4. IsConfScene(cscene') /\ cscene'.calls = cscene.calls
  BY DEF saveFails, IsConfScene
<1>5. rolledBack(c) = disk
  <2>1. /\ IsMap(store) /\ call[c].old = Get(disk, Key(c))
        /\ \A k : k # Key(c) => Get(store, k) = Get(disk, k)
    BY <1>1, <1>2 DEF StoreOK, Writing
  <2>2. CASE call[c].old = Absent
    <3>1. rolledBack(c) = Without(store, Key(c))
      BY <2>2 DEF rolledBack, Key
    <3>2. /\ IsMap(Without(store, Key(c))) /\ Get(Without(store, Key(c)), Key(c)) = Absent
          /\ \A k : k # Key(c) => Get(Without(store, Key(c)), k) = Get(store, k)
      BY <2>1, RemoveEntry
    <3>3. IsMap(rolledBack(c)) /\ \A k : Get(rolledBack(c), k) = Get(disk, k)
      BY <2>1, <2>2, <3>1, <3>2
    <3> QED BY <3>3, SameEntries
  <2>3. CASE call[c].old # Absent
    <3>1. rolledBack(c) = With(store, Key(c), call[c].old)
      BY <2>3 DEF rolledBack, Key
    <3>2. IsMap(rolledBack(c)) /\ \A k : Get(rolledBack(c), k) = Get(disk, k)
      BY <2>1, <2>3, <3>1, PutEntry
    <3> QED BY <3>2, SameEntries
  <2> QED BY <2>2, <2>3
<1>6. CallsOK'
  BY <1>2, <1>3, <1>4, ConfAssumption DEF CallsOK, Held, Free, Becomes
<1>7. StoreOK'
  <2>1. \A d \in Call : call'[d].at \in Free
    BY <1>2, <1>3 DEF Becomes, Free
  <2>2. applied = filtered(aggregated(src, disk), common)
    BY <1>1, <1>2 DEF StoreOK, Free
  <2> QED BY <1>3, <1>5, <2>1, <2>2 DEF StoreOK, Writing, Free
<1>8. AckedOK'
  <2>1. \A d \in DOMAIN cscene.calls : \A k : Open(d, k) => Open(d, k)'
    BY <1>1, <1>2, <1>3, <1>4 DEF Open, Key, request, IsConfScene, Free, Becomes
  <2>2. \A d \in Call : call'[d].at # "apply"
    BY <1>2, <1>3 DEF Becomes, Free
  <2> QED BY <1>3, <1>4, <2>1, <2>2 DEF AckedOK
<1> QED BY <1>2, <1>3, <1>4, <1>6, <1>7, <1>8

\* What was changed is applied, and the call answered.
LEMMA ReloadStoreKeeps ==
  ASSUME ConfInv, NEW c \in Call, reloadStore(c)
  PROVE  ConfInv'
<1> USE DEF ConfInv
<1>1. call[c].at = "apply" /\ CallShape
  BY DEF reloadStore, CallsOK
<1>2. /\ lock = c /\ running = "up" /\ StoreOK /\ c \in DOMAIN cscene.calls
      /\ call[c].res # "lost" /\ \A d \in Call \ {c} : call[d].at \in Free
  BY <1>1, Alone DEF Held
<1>3. /\ Becomes(c, "done", "200") /\ lock' = "" /\ applied' = merged
      /\ UNCHANGED <<cscene, conf, src, common, store, disk, running>>
      /\ acked' = IF request(c).op = "delete" THEN Without(acked, Key(c))
                  ELSE With(acked, Key(c), request(c).ent)
  BY <1>1, ReplyIs DEF reloadStore, Key
<1>4. CallsOK'
  BY <1>2, <1>3, ConfAssumption DEF CallsOK, Held, Free, Becomes
<1>5. StoreOK'
  <2>1. \A d \in Call : call'[d].at \in Free
    BY <1>2, <1>3 DEF Becomes, Free
  <2>2. store = disk
    BY <1>1, <1>2 DEF StoreOK, Free
  <2> QED BY <1>2, <1>3, <2>1, <2>2 DEF StoreOK, Writing, Free, merged
<1>6. /\ IsMap(acked)' /\ Get(acked', Key(c)) = Wanted(c)
      /\ \A k : k # Key(c) => Get(acked', k) = Get(acked, k)
  <2>1. request(c).ent # Absent
    BY <1>2 DEF IsConfScene, request
  <2>2. CASE request(c).op = "delete"
    <3>1. acked' = Without(acked, Key(c)) /\ Wanted(c) = Absent
      BY <1>3, <2>2 DEF Wanted
    <3> QED BY <3>1, RemoveEntry
  <2>3. CASE request(c).op # "delete"
    <3>1. acked' = With(acked, Key(c), request(c).ent) /\ Wanted(c) = request(c).ent
      BY <1>3, <2>3 DEF Wanted
    <3> QED BY <2>1, <3>1, PutEntry
  <2> QED BY <2>2, <2>3
<1>7. AckedOK'
  <2>1. Get(disk, Key(c)) = Wanted(c)
    BY <1>1 DEF AckedOK
  <2>2. \A d \in DOMAIN cscene.calls : \A k : d # c /\ Open(d, k) => Open(d, k)'
    BY <1>3 DEF Open, Key, request, IsConfScene, Becomes
  <2>3. \A k : k # Key(c) => ~Open(c, k)
    BY DEF Open
  <2>4. \A d \in Call : call'[d].at # "apply"
    BY <1>2, <1>3 DEF Becomes, Free
  <2>5. \A k : Get(disk, k)' = Get(acked, k)' \/ \E d \in DOMAIN cscene.calls : Open(d, k)'
    BY <1>3, <1>6, <2>1, <2>2, <2>3 DEF AckedOK
  <2> QED BY <1>3, <2>4, <2>5 DEF AckedOK
<1> QED BY <1>3, <1>4, <1>5, <1>6, <1>7

\* The configuration file replaces what was applied.
LEMMA UpdateConfigSourceKeeps ==
  ASSUME ConfInv, NEW c \in Call, UpdateConfigSource(c)
  PROVE  ConfInv'
<1> USE DEF ConfInv
<1>1. call[c].at = "replace" /\ CallShape
  BY DEF UpdateConfigSource, CallsOK
<1>2. /\ lock = c /\ running = "up" /\ StoreOK /\ c \in DOMAIN cscene.calls
      /\ call[c].res # "lost" /\ \A d \in Call \ {c} : call[d].at \in Free
  BY <1>1, Alone DEF Held
<1>3. /\ Becomes(c, "done", "200") /\ lock' = ""
      /\ applied' = filtered(aggregated(src', store), common')
      /\ UNCHANGED <<cscene, store, disk, running, acked>>
  BY <1>1, ReplyIs DEF UpdateConfigSource
<1>4. CallsOK'
  BY <1>2, <1>3, ConfAssumption DEF CallsOK, Held, Free, Becomes
<1>5. StoreOK'
  <2>1. \A d \in Call : call'[d].at \in Free
    BY <1>2, <1>3 DEF Becomes, Free
  <2>2. store = disk
    BY <1>1, <1>2 DEF StoreOK, Free
  <2> QED BY <1>2, <1>3, <2>1, <2>2 DEF StoreOK, Writing, Free
<1>6. AckedOK'
  <2>1. \A d \in DOMAIN cscene.calls : \A k : Open(d, k) => Open(d, k)'
    BY <1>1, <1>2, <1>3 DEF Open, Key, request, IsConfScene, Free, Becomes
  <2> QED BY <1>2, <1>3, <2>1 DEF AckedOK, Free, Becomes
<1> QED BY <1>2, <1>3, <1>4, <1>5, <1>6

-----------------------------------------------------------------------------
(* The configuration: the calls outside the mutex, and the process.        *)

\* A handler reads its request and looks whether it may go on.
LEMMA AskKeeps ==
  ASSUME ConfInv, NEW c \in Call, ConfAsk(c), ~StopService(c)
  PROVE  ConfInv'
<1> USE DEF ConfInv
<1>1. /\ call[c].at = "new" /\ c \in DOMAIN cscene.calls /\ CallShape /\ call[c].res # "lost"
      /\ UNCHANGED <<cscene, mem, disk, running, lock, acked>>
  BY DEF ConfAsk, askCreateProxy, askUpdateProxy, askDeleteProxy, askCreateVisitor,
     askUpdateVisitor, askDeleteVisitor, Asked, ReloadFromFile, PutConfig, New, rest, CallsOK
<1>2. CASE ReloadFromFile(c)
  <2> DEFINE ok == conf.ok /\ \A k \in DOMAIN conf.ents : conf.ents[k].val # "bad"
             r == IF ok THEN [call[c] EXCEPT !.at = "lock", !.read = conf]
                  ELSE [call[c] EXCEPT !.at = "done", !.res = "400"]
  <2>1. call' = [call EXCEPT ![c] = r]
    BY <1>2 DEF ReloadFromFile
  <2>2. Fields(r) /\ r.at \in {"lock", "done"} /\ r.res # "lost"
    BY <1>1 DEF CallShape, Fields
  <2> HIDE DEF r
  <2>3. CallShape' /\ call'[c] = r /\ \A d \in Call \ {c} : call'[d] = call[d]
    BY <1>1, <2>1, <2>2, CallMoves
  <2>4. call[c].at \in Free \ {"done"} /\ r.at \in Free \ {"new"}
    BY <1>1, <2>2 DEF Free
  <2> QED BY <1>1, <2>2, <2>3, <2>4, TalkKeeps
<1>3. CASE ~ReloadFromFile(c)
  <2>1. \/ Reply(c, "400") \/ CallGoto(c, "call") \/ CallGoto(c, "put")
    BY <1>3 DEF ConfAsk, askCreateProxy, askUpdateProxy, askDeleteProxy, askCreateVisitor,
       askUpdateVisitor, askDeleteVisitor, Asked, PutConfig
  <2>2. PICK at, res : at \in {"done", "call", "put"} /\ Becomes(c, at, res) /\ res # "lost"
    BY <1>1, <2>1, GotoIs, ReplyIs
  <2> QED BY <1>1, <2>2, TalkKeeps DEF Free, Becomes
<1> QED BY <1>2, <1>3

\* The manager is called.
LEMMA ManagesKeeps ==
  ASSUME ConfInv, NEW c \in Call, NEW op, NEW kind, NEW ok, Manages(c, op, kind, ok)
  PROVE  ConfInv'
<1> USE DEF ConfInv
<1>1. /\ call[c].at = "call" /\ c \in DOMAIN cscene.calls /\ CallShape /\ call[c].res # "lost"
      /\ UNCHANGED <<cscene, mem, disk, running, lock, acked>>
  BY DEF Manages, rest, CallsOK
<1>2. CallGoto(c, "lock") \/ Reply(c, "400")
  BY DEF Manages
<1>3. PICK at, res : at \in {"done", "lock"} /\ Becomes(c, at, res) /\ res # "lost"
  BY <1>1, <1>2, GotoIs, ReplyIs
<1> QED BY <1>1, <1>3, TalkKeeps DEF Free, Becomes

\* A configuration file has been written, or not.
LEMMA PutDoneKeeps ==
  ASSUME ConfInv, NEW c \in Call, PutDone(c)
  PROVE  ConfInv'
<1> USE DEF ConfInv
<1>1. /\ call[c].at = "put" /\ c \in DOMAIN cscene.calls /\ CallShape
      /\ UNCHANGED <<cscene, mem, disk, running, lock, acked>> /\ Reply(c, "200")
  BY DEF PutDone, CallsOK
<1>2. Becomes(c, "done", "200")
  BY <1>1, ReplyIs
<1> QED BY <1>1, <1>2, TalkKeeps DEF Free, Becomes

\* frpc is told to stop.
LEMMA StopKeeps ==
  ASSUME ConfInv, NEW c \in Call, StopService(c)
  PROVE  ConfInv'
<1> USE DEF ConfInv
<1>1. /\ call[c].at = "new" /\ c \in DOMAIN cscene.calls /\ CallShape /\ call[c].res # "lost"
      /\ UNCHANGED <<cscene, mem, disk, lock, acked>> /\ running' = "stopped" /\ lock = ""
      /\ Reply(c, "200")
  BY DEF StopService, New, CallsOK
<1>2. Becomes(c, "done", "200")
  BY <1>1, ReplyIs
<1>3. CallsOK'
  BY <1>1, <1>2, ConfAssumption DEF CallsOK, Held, Free, Becomes
<1>4. AckedOK'
  <2>1. \A d \in DOMAIN cscene.calls : \A k : Open(d, k) => Open(d, k)'
    BY <1>1, <1>2 DEF Open, Key, request, IsConfScene, Becomes
  <2> QED BY <1>1, <1>2, <2>1 DEF AckedOK, Becomes, Key, request, Wanted
<1> QED BY <1>1, <1>3, <1>4

\* frpc dies: calls under way are lost, the file stays.
LEMMA CrashKeeps ==
  ASSUME ConfInv, Crash
  PROVE  ConfInv'
<1> USE DEF ConfInv
<1>1. /\ running' = "down" /\ lock' = "" /\ UNCHANGED <<disk, acked>>
      /\ IsConfScene(cscene') /\ cscene'.calls = cscene.calls
  BY DEF Crash, IsConfScene
<1>2. /\ call' = [c \in Call |-> call'[c]] /\ \A c \in Call : Fields(call'[c])
      /\ \A c \in Call : IF call[c].at \in {"new", "done"} THEN call'[c] = call[c]
                         ELSE call'[c].at = "done" /\ call'[c].res = "lost"
  <2> DEFINE r(c) == IF call[c].at \in {"new", "done"} THEN call[c]
                     ELSE [call[c] EXCEPT !.at = "done", !.res = "lost"]
  <2>1. call' = [c \in Call |-> r(c)]
    BY DEF Crash
  <2>2. \A c \in Call : /\ Fields(r(c))
                        /\ IF call[c].at \in {"new", "done"} THEN r(c) = call[c]
                           ELSE r(c).at = "done" /\ r(c).res = "lost"
    BY DEF CallsOK, CallShape, Fields
  <2> HIDE DEF r
  <2> QED BY <2>1, <2>2
<1>3. CallsOK'
  BY <1>1, <1>2, ConfAssumption DEF CallsOK, CallShape, Held, Free
<1>4. AckedOK'
  <2>1. \A d \in DOMAIN cscene.calls : \A k : Open(d, k) => Open(d, k)'
    BY <1>1, <1>2 DEF Open, Key, request, IsConfScene, CallsOK
  <2> QED BY <1>1, <1>2, <2>1 DEF AckedOK
<1> QED BY <1>1, <1>3, <1>4


\* frpc starts again with its two files.
LEMMA RestartKeeps ==
  ASSUME ConfInv, Restart
  PROVE  ConfInv'
<1> USE DEF ConfInv
<1>1. /\ UNCHANGED <<cscene, disk, lock, call, acked>> /\ running = "down" /\ running' = "up"
      /\ store' = disk /\ applied' = filtered(aggregated(src', store'), common')
  BY DEF Restart
<1>2. lock = "" /\ \A c \in Call : call[c].at \in Free
  BY <1>1, Nobody DEF CallsOK
<1>3. CallsOK'
  BY <1>1, <1>2 DEF CallsOK, CallShape
<1>4. StoreOK'
  BY <1>1, <1>2 DEF StoreOK, Writing, Free
<1>5. AckedOK'
  BY <1>1 DEF AckedOK, Open, Key, request, Wanted
<1> QED BY <1>1, <1>3, <1>4, <1>5

\* Every step keeps the invariant.
LEMMA ConfInvStep == ConfInv /\ [ConfNext]_confVars => ConfInv'
<1> SUFFICES ASSUME ConfInv, [ConfNext]_confVars PROVE ConfInv'
  OBVIOUS
<1>1. CASE UNCHANGED confVars
  <2> USE <1>1 DEF confVars, mem, ConfInv
  <2>1. CallsOK'
    BY DEF CallsOK, CallShape
  <2>2. StoreOK => StoreOK'
    BY DEF StoreOK, Writing, Key, request, Wanted
  <2>3. AckedOK'
    <3>1. \A d \in DOMAIN cscene.calls : \A k : Open(d, k) => Open(d, k)'
      BY DEF Open, Key, request
    <3>2. \A d \in Call : Key(d)' = Key(d) /\ Wanted(d)' = Wanted(d)
      BY DEF Key, request, Wanted
    <3> QED BY <3>1, <3>2 DEF AckedOK
  <2> QED BY <2>1, <2>2, <2>3
<1>2. ASSUME NEW c \in Call, ConfStep(c) PROVE ConfInv'
  <2>1. CASE addStoreEntry(c) \/ updateStoreEntry(c) \/ removeStoreEntry(c)
    BY <2>1, MutateKeeps
  <2>2. CASE saveTemp(c) \/ renameTemp(c)
    BY <2>2, SaveKeeps
  <2>3. CASE \/ CreateStoreProxy(c) \/ UpdateStoreProxy(c) \/ DeleteStoreProxy(c)
             \/ CreateStoreVisitor(c) \/ UpdateStoreVisitor(c) \/ DeleteStoreVisitor(c)
    BY <2>3, ManagesKeeps DEF CreateStoreProxy, UpdateStoreProxy, DeleteStoreProxy,
       CreateStoreVisitor, UpdateStoreVisitor, DeleteStoreVisitor
  <2> QED BY <1>2, <2>1, <2>2, <2>3, SaveFailsKeeps, ReloadStoreKeeps,
             UpdateConfigSourceKeeps, PutDoneKeeps DEF ConfStep
<1> QED BY <1>1, <1>2, LockKeeps, AskKeeps, StopKeeps, CrashKeeps, RestartKeeps DEF ConfNext

\* Whatever calls of the admin API meet, whichever writes fail and wherever the process
\* crashes: memory and file agree whenever the mutex is free, what is applied is what
\* the sources make, and the file has what was answered (StoreSource, config_manager.go).
THEOREM ConfSoundHolds == ConfSpec => []ConfSound
<1>1. (\E s : IsConfScene(s) /\ ConfInit(s)) => ConfInv
  BY ConfInvInit
<1> QED BY <1>1, ConfInvStep, ConfInvSound, PTL DEF ConfSpec

-----------------------------------------------------------------------------
(* The UDP proxy: the invariant.                                           *)

\* Any scene with a number for each work connection.
IsUdpScene(s) == s \in UdpScene /\ 1..s.wires \subseteq Wires
UdpSpec == (\E s : IsUdpScene(s) /\ UdpInit(s)) /\ [][UdpNext]_udpVars

Work == [up: BOOLEAN, out: Seq(Peer), in: Seq(Peer), rd: {"run", "notify", "end"},
         sd: {"run", "off", "end"}]
End == [in: {"none", "start", "set", "done"}, rd: {"run", "end"}, sd: {"run", "end"},
        hb: {"run", "end"}, ch: {"none", "open", "closed"}, socks: SUBSET Peer]
Loop == [open: BOOLEAN, loop: {"get", "wait", "end"}, cur: Wires \cup {0}]
Client == [cur: Wires \cup {0}, closed: BOOLEAN, shut: BOOLEAN, late: BOOLEAN]

\* Every work connection but the one in use is done with, and between two all are; a
\* reader that tells the loop has seen its connection end, and a sender is cancelled
\* after that or at the end of the proxy.
DoneWith(w) == ~w.up /\ w.rd = "end" /\ w.sd # "run"
WorkOK ==
  /\ work \in [Wires -> Work] /\ pxyS \in Loop
  /\ \A c \in Wires : /\ c # pxyS.cur \/ pxyS.loop = "get" => DoneWith(work[c])
                      /\ work[c].rd = "notify" => ~work[c].up
                      /\ work[c].sd = "off" => ~work[c].up \/ ~pxyS.open

FrpcOK == end \in [Wires -> End] /\ cli \in Client

FrontOK ==
  /\ IsUdpScene(udpScene) /\ fwd \in Peer \cup {"read", "end", "panic"}
  /\ sendCh \in Seq(Peer) /\ Len(sendCh) <= Cap
  /\ bound \in {"free", "proxy", "rival"} /\ got \subseteq Peer

UdpInv == FrontOK /\ WorkOK /\ FrpcOK

\* What the run checks follows from the invariant.
LEMMA UdpInvSound == UdpInv => UdpSound
<1> SUFFICES ASSUME UdpInv PROVE UdpSound
  OBVIOUS
<1>1. UdpTypeOK
  BY DEF UdpInv, FrontOK, WorkOK, FrpcOK, UdpTypeOK, IsUdpScene, Work, End, Loop, Client
<1>2. OneWorkConn
  BY DEF UdpInv, WorkOK, OneWorkConn, live, DoneWith
<1> QED BY <1>1, <1>2 DEF UdpSound

\* A scene starts without a work connection.
LEMMA UdpInvInit ==
  ASSUME NEW s, IsUdpScene(s), UdpInit(s)
  PROVE  UdpInv
<1> USE DEF UdpInit
<1>1. FrontOK
  BY UdpAssumption DEF FrontOK
<1>2. WorkOK
  BY DEF WorkOK, NoWire, Work, Loop, DoneWith
<1>3. FrpcOK
  BY DEF FrpcOK, NoEnd, End, Client
<1> QED BY <1>1, <1>2, <1>3 DEF UdpInv

-----------------------------------------------------------------------------
(* The UDP proxy: what a step does to a work connection.                   *)

\* Nothing about a work connection begins again by itself.
Calmer(w, v) ==
  /\ v.up => w.up /\ v.rd # "notify"
  /\ v.rd = "run" => w.rd = "run"
  /\ v.rd = "notify" => w.rd # "end"
  /\ v.sd = "run" => w.sd = "run"
  /\ v.sd = "off" => w.sd = "off"

\* A connection on which less goes on than before.
LEMMA CalmerKeeps ==
  ASSUME WorkOK, NEW c \in Wires, NEW w \in Work, Calmer(work[c], w),
         work' = [work EXCEPT ![c] = w], pxyS' \in Loop,
         pxyS'.cur = pxyS.cur /\ pxyS'.loop = pxyS.loop, pxyS'.open => pxyS.open
  PROVE  WorkOK'
<1>1. work' \in [Wires -> Work] /\ work'[c] = w /\ \A d \in Wires \ {c} : work'[d] = work[d]
  BY DEF WorkOK
<1>2. w.rd \in {"run", "notify", "end"} /\ w.sd \in {"run", "off", "end"} /\ w.up \in BOOLEAN
  BY DEF Work
<1> QED BY <1>1, <1>2 DEF WorkOK, Calmer, DoneWith

\* A step that leaves the connections, and at most stops asking for one.
LEMMA WorkSame ==
  ASSUME WorkOK, work' = work, pxyS' \in Loop,
         pxyS'.cur = pxyS.cur /\ (pxyS'.loop = "get" => pxyS.loop = "get"),
         pxyS'.open => pxyS.open
  PROVE  WorkOK'
BY DEF WorkOK

\* A connection is cut.
LEMMA CutKeeps ==
  ASSUME WorkOK, NEW c \in Wires, work' = [work EXCEPT ![c].up = FALSE], pxyS' \in Loop,
         pxyS'.cur = pxyS.cur /\ pxyS'.loop = pxyS.loop, pxyS'.open => pxyS.open
  PROVE  WorkOK'
<1> DEFINE w == [work[c] EXCEPT !.up = FALSE]
<1>1. w \in Work /\ Calmer(work[c], w) /\ work' = [work EXCEPT ![c] = w]
  BY DEF WorkOK, Work, Calmer
<1> QED BY <1>1, CalmerKeeps

\* The proxy takes its next work connection, after the last one is done with.
LEMMA GetWorkKeeps ==
  ASSUME UdpInv, GetWork
  PROVE  UdpInv'
<1> USE DEF UdpInv
<1> DEFINE c == pxyS.cur + 1
           w == [NoWire EXCEPT !.up = TRUE, !.rd = "run", !.sd = "run"]
           old == [work[pxyS.cur] EXCEPT !.up = FALSE]
<1>1. c \in Wires /\ c # pxyS.cur
  <2>1. pxyS.cur \in Nat /\ c <= udpScene.wires /\ udpScene.wires \in Nat
    BY UdpAssumption DEF GetWork, WorkOK, Loop, FrontOK, IsUdpScene, UdpScene
  <2> QED BY <2>1 DEF FrontOK, IsUdpScene
<1>2. /\ pxyS' \in Loop /\ pxyS'.cur = c /\ pxyS'.loop = "wait"
      /\ UNCHANGED <<udpScene, fwd, sendCh, cli, bound, rival, got>>
  BY <1>1 DEF GetWork, WorkOK, Loop
<1>3. w \in Work /\ w.rd = "run" /\ w.sd = "run"
  <2>1. <<>> \in Seq(Peer)
    OBVIOUS
  <2>2. NoWire \in Work
    BY <2>1 DEF NoWire, Work
  <2> HIDE DEF NoWire
  <2>3. w \in Work /\ w.rd = "run" /\ w.sd = "run"
    BY <2>2 DEF Work
  <2> QED BY <2>3
<1>4. /\ work' = [d \in Wires |-> IF d = c THEN w ELSE IF d = pxyS.cur THEN old ELSE work[d]]
      /\ pxyS.loop = "get"
  BY DEF GetWork
<1>5. pxyS.cur \in Wires => old \in Work /\ DoneWith(old)
  BY <1>4 DEF WorkOK, Work, DoneWith
<1>6. \A d \in Wires : /\ work'[d] \in Work /\ d # c => DoneWith(work'[d])
                       /\ d = c => work'[d] = w
  <2> HIDE DEF c, w, old
  <2> QED BY <1>3, <1>4, <1>5 DEF WorkOK
<1>7. WorkOK'
  <2>1. work' \in [Wires -> Work]
    <3> HIDE DEF c, w, old
    <3> QED BY <1>3, <1>4, <1>5 DEF WorkOK
  <2>2. \A d \in Wires : (d # c \/ FALSE => DoneWith(work'[d])) /\ work'[d].rd # "notify"
    <3> HIDE DEF c, w, old
    <3> QED BY <1>3, <1>4, <1>5 DEF WorkOK, DoneWith
  <2>3. \A d \in Wires : work'[d].sd = "off" => ~work'[d].up
    <3>1. \A d \in Wires : d # c => ~work'[d].up
      <4> HIDE DEF c
      <4> QED BY <2>2 DEF DoneWith
    <3>2. work'[c].sd = "run"
      <4>1. work'[c] = w
        BY <1>1, <1>6
      <4> HIDE DEF c, w
      <4> QED BY <1>3, <4>1
    <3> HIDE DEF c
    <3> QED BY <3>1, <3>2
  <2> HIDE DEF c, w, old
  <2> QED BY <1>2, <2>1, <2>2, <2>3 DEF WorkOK
<1>8. FrpcOK'
  <2>1. end' = [end EXCEPT ![c] = [end[c] EXCEPT !.in = "start"]]
    BY DEF GetWork
  <2>2. [end[c] EXCEPT !.in = "start"] \in End
    BY <1>1 DEF FrpcOK, End
  <2> HIDE DEF c
  <2> QED BY <1>1, <1>2, <2>1, <2>2 DEF FrpcOK
<1>9. FrontOK'
  BY <1>2 DEF FrontOK
<1> QED BY <1>7, <1>8, <1>9

\* The loop hears that the connection has failed, and goes round.
LEMMA WaitEndsKeeps ==
  ASSUME UdpInv, WaitEnds
  PROVE  UdpInv'
<1> USE DEF UdpInv
<1> DEFINE c == pxyS.cur
           w == [work[c] EXCEPT !.sd = IF @ = "run" THEN "off" ELSE @,
                                !.rd = IF @ = "notify" THEN "end" ELSE @]
<1>1. /\ pxyS' \in Loop /\ pxyS'.cur = c /\ pxyS'.loop = (IF pxyS.open THEN "get" ELSE "end")
      /\ pxyS'.open = pxyS.open /\ (work[c].rd = "notify" \/ ~pxyS.open)
      /\ UNCHANGED <<udpScene, fwd, sendCh, cli, end, bound, rival, got>>
  BY DEF WaitEnds, WorkOK, Loop
<1>2. work' = [work EXCEPT ![c] = w]
  BY DEF WaitEnds
<1>3. ASSUME c \in Wires
      PROVE  /\ w \in Work /\ w.rd # "notify" /\ w.sd # "run" /\ w.up = work[c].up
             /\ w.rd = IF work[c].rd = "notify" THEN "end" ELSE work[c].rd
  <2>1. PICK sd : sd = IF work[c].sd = "run" THEN "off" ELSE work[c].sd
    OBVIOUS
  <2>2. PICK rd : rd = IF work[c].rd = "notify" THEN "end" ELSE work[c].rd
    OBVIOUS
  <2>3. work[c] \in Work
    BY <1>3 DEF WorkOK
  <2>4. sd \in {"off", "end"} /\ rd \in {"run", "end"}
    BY <2>1, <2>2, <2>3 DEF Work
  <2>5. w = [work[c] EXCEPT !.sd = sd, !.rd = rd]
    BY <2>1, <2>2, <2>3 DEF Work
  <2>6. [work[c] EXCEPT !.sd = sd, !.rd = rd] \in Work
    BY <2>3, <2>4 DEF Work
  <2>7. w.sd = sd /\ w.rd = rd /\ w.up = work[c].up
    BY <2>3, <2>5 DEF Work
  <2> HIDE DEF w
  <2> QED BY <2>2, <2>4, <2>5, <2>6, <2>7
<1>4. WorkOK'
  <2>1. CASE c \in Wires
    <3>1. work' \in [Wires -> Work] /\ work'[c] = w /\ \A d \in Wires \ {c} : work'[d] = work[d]
      BY <1>2, <1>3, <2>1 DEF WorkOK
    <3>2. pxyS.open => DoneWith(w)
      BY <1>1, <1>3, <2>1 DEF WorkOK, DoneWith
    <3>3. w.up => ~pxyS'.open
      BY <1>1, <1>3, <2>1 DEF WorkOK
    <3> HIDE DEF w
    <3> QED BY <1>1, <1>3, <2>1, <3>1, <3>2, <3>3 DEF WorkOK
  <2>2. CASE c \notin Wires
    <3>1. work' = work
      BY <1>2, <2>2 DEF WorkOK
    <3> QED BY <1>1, <2>2, <3>1 DEF WorkOK
  <2> QED BY <2>1, <2>2
<1> QED BY <1>1, <1>4 DEF FrontOK, FrpcOK

\* The sender of a connection writes a datagram, or ends.
LEMMA SendKeeps ==
  ASSUME UdpInv, NEW c \in Wires, SendWork(c)
  PROVE  UdpInv'
<1> USE DEF UdpInv
<1>1. work[c] \in Work /\ sendCh \in Seq(Peer) /\ pxyS \in Loop
  BY DEF WorkOK, FrontOK
<1>2. UNCHANGED <<udpScene, fwd, pxyS, cli, end, bound, rival, got>>
  BY DEF SendWork
<1>3. sendCh' \in Seq(Peer) /\ Len(sendCh') <= Cap
  BY <1>1, UdpAssumption, SMTT(30) DEF SendWork, FrontOK
<1>4. PICK w \in Work : Calmer(work[c], w) /\ work' = [work EXCEPT ![c] = w]
  <2>1. CASE sendCh # <<>> /\ sendCh' # sendCh
    <3>1. Head(sendCh) \in Peer
      BY <1>1, <2>1
    <3>2. Append(work[c].out, Head(sendCh)) \in Seq(Peer)
      BY <1>1, <3>1 DEF Work
    <3>3. CASE work[c].up
      <4> DEFINE w == [work[c] EXCEPT !.out = Append(@, Head(sendCh))]
      <4>1. w \in Work /\ Calmer(work[c], w)
        BY <1>1, <3>2, <3>3 DEF Work, Calmer, WorkOK
      <4>2. work' = [work EXCEPT ![c] = w]
        BY <2>1, <3>3 DEF SendWork
      <4> QED BY <4>1, <4>2
    <3>4. CASE ~work[c].up
      <4> DEFINE w == [work[c] EXCEPT !.sd = "end"]
      <4>1. w \in Work /\ Calmer(work[c], w)
        BY <1>1, <3>4 DEF Work, Calmer, WorkOK
      <4>2. work' = [work EXCEPT ![c] = w]
        BY <2>1, <3>4 DEF SendWork
      <4> QED BY <4>1, <4>2
    <3> QED BY <3>3, <3>4
  <2>2. CASE work' = [work EXCEPT ![c].sd = "end"]
    <3> DEFINE w == [work[c] EXCEPT !.sd = "end"]
    <3>1. w \in Work /\ Calmer(work[c], w)
      BY <1>1 DEF Work, Calmer, WorkOK
    <3>2. work' = [work EXCEPT ![c] = w]
      BY <2>2 DEF SendWork
    <3> QED BY <3>1, <3>2
  <2>3. sendCh # <<>> /\ sendCh' = Tail(sendCh) => sendCh' # sendCh
    BY <1>1
  <2> QED BY <2>1, <2>2, <2>3 DEF SendWork
<1>5. WorkOK'
  BY <1>1, <1>2, <1>4, CalmerKeeps
<1> QED BY <1>2, <1>3, <1>5 DEF FrontOK, FrpcOK

\* The reader of a connection passes a datagram on, or fails.
LEMMA ReadKeeps ==
  ASSUME UdpInv, NEW c \in Wires, ReadWork(c)
  PROVE  UdpInv'
<1> USE DEF UdpInv
<1>1. work[c] \in Work /\ pxyS \in Loop /\ work[c].in \in Seq(Peer) /\ got \subseteq Peer
  BY DEF WorkOK, FrontOK, Work
<1>2. UNCHANGED <<udpScene, srvUdp, cli, end, bound, rival>> /\ work[c].rd = "run"
  BY DEF ReadWork
<1>3. CASE work[c].in # <<>> /\ pxyS.open
  <2> DEFINE w == [work[c] EXCEPT !.in = Tail(@)]
  <2>1. Tail(work[c].in) \in Seq(Peer) /\ Head(work[c].in) \in Peer
    BY <1>1, <1>3
  <2>2. w \in Work /\ Calmer(work[c], w)
    BY <1>1, <2>1 DEF Work, Calmer, WorkOK
  <2>3. work' = [work EXCEPT ![c] = w] /\ got' = got \cup {Head(work[c].in)}
    BY <1>3 DEF ReadWork
  <2>4. WorkOK'
    BY <1>1, <1>2, <2>2, <2>3, CalmerKeeps DEF srvUdp
  <2> QED BY <1>1, <1>2, <2>1, <2>3, <2>4 DEF FrontOK, FrpcOK, srvUdp
<1>4. CASE work[c].in # <<>> /\ ~pxyS.open
  <2> DEFINE w == [work[c] EXCEPT !.up = FALSE, !.in = <<>>, !.rd = "end"]
  <2>1. w \in Work /\ Calmer(work[c], w)
    <3> DEFINE e == <<>>
    <3>1. e \in Seq(Peer)
      OBVIOUS
    <3>2. w = [work[c] EXCEPT !.up = FALSE, !.in = e, !.rd = "end"]
      OBVIOUS
    <3> HIDE DEF e, w
    <3> QED BY <1>1, <3>1, <3>2 DEF Work, Calmer
  <2>2. work' = [work EXCEPT ![c] = w] /\ got' = got
    BY <1>4 DEF ReadWork
  <2>3. WorkOK'
    BY <1>1, <1>2, <2>1, <2>2, CalmerKeeps DEF srvUdp
  <2> QED BY <1>1, <1>2, <2>2, <2>3 DEF FrontOK, FrpcOK, srvUdp
<1>5. CASE work[c].in = <<>>
  <2> DEFINE w == [work[c] EXCEPT !.rd = IF pxyS.open THEN "notify" ELSE "end"]
  <2>1. work' = [work EXCEPT ![c] = w] /\ got' = got /\ ~work[c].up
    BY <1>5 DEF ReadWork
  <2>2. w \in Work /\ Calmer(work[c], w)
    BY <1>1, <1>2, <2>1 DEF Work, Calmer
  <2>3. WorkOK'
    BY <1>1, <1>2, <2>1, <2>2, CalmerKeeps DEF srvUdp
  <2> QED BY <1>1, <1>2, <2>1, <2>3 DEF FrontOK, FrpcOK, srvUdp
<1> QED BY <1>3, <1>4, <1>5

\* A reader that gives up, and a connection that breaks.
LEMMA BreakKeeps ==
  ASSUME UdpInv, NEW c \in Wires, ReadTimeout(c) \/ NotifyFails(c) \/ BreakWire(c)
  PROVE  UdpInv'
<1> USE DEF UdpInv
<1>1. /\ work[c] \in Work /\ pxyS \in Loop /\ pxyS' = pxyS
      /\ UNCHANGED <<sendCh, fwd, cli, end, bound, got>>
  BY DEF WorkOK, ReadTimeout, NotifyFails, BreakWire, srvUdp
<1>2. IsUdpScene(udpScene')
  BY DEF FrontOK, IsUdpScene, UdpScene, ReadTimeout, NotifyFails, BreakWire
<1>3. PICK w \in Work : Calmer(work[c], w) /\ work' = [work EXCEPT ![c] = w]
  <2>1. CASE ReadTimeout(c)
    <3> DEFINE w == [work[c] EXCEPT !.up = FALSE, !.rd = IF pxyS.open THEN "notify" ELSE "end"]
    <3>1. w \in Work /\ Calmer(work[c], w) /\ work' = [work EXCEPT ![c] = w]
      BY <1>1, <2>1 DEF ReadTimeout, Work, Calmer
    <3> QED BY <3>1
  <2>2. CASE NotifyFails(c)
    <3> DEFINE w == [work[c] EXCEPT !.rd = "end"]
    <3>1. w \in Work /\ Calmer(work[c], w) /\ work' = [work EXCEPT ![c] = w]
      BY <1>1, <2>2 DEF NotifyFails, Work, Calmer, WorkOK
    <3> QED BY <3>1
  <2>3. CASE BreakWire(c)
    <3> DEFINE w == [work[c] EXCEPT !.up = FALSE]
    <3>1. w \in Work /\ Calmer(work[c], w) /\ work' = [work EXCEPT ![c] = w]
      BY <1>1, <2>3 DEF BreakWire, Work, Calmer
    <3> QED BY <3>1
  <2> QED BY <2>1, <2>2, <2>3
<1>4. WorkOK'
  BY <1>1, <1>3, CalmerKeeps
<1> QED BY <1>1, <1>2, <1>4 DEF FrontOK, FrpcOK

\* Datagrams between users and frps' port.
LEMMA FrontKeeps ==
  ASSUME UdpInv, PushUser \/ FwdEnds \/ GetNone \/ ReadUser \/ CloseUdp \/ Rival
  PROVE  UdpInv'
<1> USE DEF UdpInv
<1>1. UNCHANGED <<cli, end, got>> /\ pxyS \in Loop /\ sendCh \in Seq(Peer)
  BY DEF WorkOK, FrontOK, PushUser, FwdEnds, GetNone, ReadUser, CloseUdp, Rival
<1>2. CASE PushUser
  <2>1. UNCHANGED <<udpScene, pxyS, work, bound>> /\ fwd' \in {"read", "panic"} /\ fwd \in Peer
    BY <1>2 DEF PushUser
  <2>2. sendCh' \in Seq(Peer) /\ Len(sendCh') <= Cap
    BY <1>1, <1>2, UdpAssumption DEF PushUser, FrontOK
  <2> QED BY <1>1, <2>1, <2>2, WorkSame DEF FrontOK, FrpcOK
<1>3. CASE FwdEnds \/ Rival
  <2>1. UNCHANGED <<udpScene, pxyS, work, sendCh>> /\ fwd' \in {"end", fwd}
        /\ bound' \in {"free", "rival"}
    BY <1>3 DEF FwdEnds, Rival, srvUdp
  <2> QED BY <1>1, <2>1, WorkSame DEF FrontOK, FrpcOK
<1>4. CASE GetNone
  <2>1. UNCHANGED <<udpScene, fwd, sendCh, work, bound>> /\ pxyS' \in Loop
        /\ pxyS'.cur = pxyS.cur /\ pxyS'.loop = "end" /\ pxyS'.open = pxyS.open
    BY <1>1, <1>4 DEF GetNone, Loop
  <2> QED BY <1>1, <2>1, WorkSame DEF FrontOK, FrpcOK
<1>5. CASE ReadUser
  <2>1. UNCHANGED <<sendCh, pxyS, work, bound>> /\ fwd' \in Peer /\ IsUdpScene(udpScene')
    BY <1>5 DEF ReadUser, FrontOK, IsUdpScene, UdpScene
  <2> QED BY <1>1, <2>1, WorkSame DEF FrontOK, FrpcOK
<1>6. CASE CloseUdp
  <2>1. UNCHANGED <<fwd, sendCh>> /\ bound' = "free" /\ IsUdpScene(udpScene')
        /\ pxyS' = [pxyS EXCEPT !.open = FALSE]
    BY <1>6 DEF CloseUdp, FrontOK, IsUdpScene, UdpScene
  <2>2. pxyS' \in Loop /\ pxyS'.cur = pxyS.cur /\ pxyS'.loop = pxyS.loop /\ ~pxyS'.open
    BY <1>1, <2>1 DEF Loop
  <2>3. WorkOK'
    <3>1. CASE pxyS.cur = 0
      <4>1. work' = work
        BY <1>6, <3>1 DEF CloseUdp
      <4> QED BY <2>2, <4>1, WorkSame
    <3>2. CASE pxyS.cur # 0
      <4>1. pxyS.cur \in Wires /\ work' = [work EXCEPT ![pxyS.cur].up = FALSE]
        BY <1>1, <1>6, <3>2 DEF CloseUdp, Loop
      <4> QED BY <2>2, <4>1, CutKeeps
    <3> QED BY <3>1, <3>2
  <2> QED BY <1>1, <2>1, <2>3 DEF FrontOK, FrpcOK
<1> QED BY <1>2, <1>3, <1>4, <1>5, <1>6

-----------------------------------------------------------------------------
(* The UDP proxy: frpc.                                                    *)

\* What belongs to the old connection is closed.
LEMMA CloseOfKeeps ==
  ASSUME UdpInv
  PROVE  /\ closeOf(cli.cur) \in [Wires -> End]
         /\ work' = cutOf(cli.cur) /\ pxyS' = pxyS => WorkOK'
<1> USE DEF UdpInv
<1>1. /\ cli.cur \in Wires \cup {0} /\ pxyS \in Loop /\ end \in [Wires -> End]
      /\ 0 \notin Wires
  BY UdpAssumption DEF FrpcOK, Client, WorkOK
<1>2. CASE cli.cur = 0
  <2>1. closeOf(cli.cur) = end /\ cutOf(cli.cur) = work
    BY <1>2 DEF closeOf, cutOf
  <2> QED BY <1>1, <2>1, WorkSame
<1>3. CASE cli.cur # 0
  <2> DEFINE e == [end[cli.cur] EXCEPT !.ch = IF @ = "open" THEN "closed" ELSE @]
  <2>1. /\ closeOf(cli.cur) = [end EXCEPT ![cli.cur] = e]
        /\ cutOf(cli.cur) = [work EXCEPT ![cli.cur].up = FALSE]
    BY <1>3 DEF closeOf, cutOf
  <2>2. e \in End
    BY <1>1, <1>3 DEF End
  <2>3. closeOf(cli.cur) \in [Wires -> End]
    <3> HIDE DEF e
    <3> QED BY <1>1, <2>1, <2>2
  <2> QED BY <1>1, <1>3, <2>1, <2>3, CutKeeps
<1> QED BY <1>2, <1>3

\* frpc closes its proxy.
LEMMA CloseClientKeeps ==
  ASSUME UdpInv, CloseClientUdp
  PROVE  UdpInv'
<1> USE DEF UdpInv
<1>1. /\ UNCHANGED <<srvUdp, bound, got>> /\ IsUdpScene(udpScene')
      /\ cli \in Client /\ end \in [Wires -> End] /\ pxyS \in Loop
  BY DEF CloseClientUdp, FrontOK, IsUdpScene, UdpScene, FrpcOK, WorkOK
<1>2. cli' \in Client
  BY <1>1 DEF CloseClientUdp, Client
<1>3. end' \in [Wires -> End]
  BY <1>1, CloseOfKeeps DEF CloseClientUdp
<1>4. WorkOK'
  <2>1. (work' = work \/ work' = cutOf(cli.cur)) /\ pxyS' = pxyS
    BY <1>1 DEF CloseClientUdp, srvUdp
  <2> QED BY <1>1, <2>1, WorkSame, CloseOfKeeps
<1> QED BY <1>1, <1>2, <1>3, <1>4 DEF FrontOK, FrpcOK, srvUdp

\* One of the fields of frpc's end of a connection.
LEMMA InMoves ==
  ASSUME NEW e \in [Wires -> End], NEW c \in Wires
  PROVE  [e EXCEPT ![c].in = "set"] \in [Wires -> End]
<1> DEFINE x == [e[c] EXCEPT !.in = "set"]
<1>1. x \in End
  BY DEF End
<1>2. [e EXCEPT ![c] = x] \in [Wires -> End]
  <2> HIDE DEF x
  <2> QED BY <1>1
<1> QED BY <1>2

\* A work connection arrives at frpc.
LEMMA InWorkConnKeeps ==
  ASSUME UdpInv, NEW c \in Wires, InWorkConn(c)
  PROVE  UdpInv'
<1> USE DEF UdpInv
<1>1. /\ UNCHANGED <<udpScene, srvUdp, bound, got>>
      /\ pxyS \in Loop /\ end \in [Wires -> End] /\ cli \in Client
  BY DEF InWorkConn, FrontOK, FrpcOK, WorkOK
<1>2. cli' \in Client
  BY <1>1 DEF InWorkConn, Client
<1>3. end' \in [Wires -> End]
  BY <1>1, CloseOfKeeps, InMoves DEF InWorkConn
<1>4. WorkOK'
  <2>1. (work' = work \/ work' = cutOf(cli.cur)) /\ pxyS' = pxyS
    BY <1>1 DEF InWorkConn, srvUdp
  <2> QED BY <1>1, <2>1, WorkSame, CloseOfKeeps
<1> QED BY <1>1, <1>2, <1>3, <1>4 DEF FrontOK, FrpcOK, srvUdp

\* One of frpc's ends of the connections changes.
LEMMA EndMoves ==
  ASSUME end \in [Wires -> End], NEW c \in Wires, NEW x \in End, end' = [end EXCEPT ![c] = x]
  PROVE  end' \in [Wires -> End]
OBVIOUS

\* The four goroutines of a connection at frpc.
LEMMA FrpcKeeps ==
  ASSUME UdpInv, NEW c \in Wires,
         SetWorkConn(c) \/ ClientReads(c) \/ ClientAnswers(c) \/ ClientSenderEnds(c)
           \/ HeartbeatEnds(c)
  PROVE  UdpInv'
<1> USE DEF UdpInv
<1>1. /\ UNCHANGED <<udpScene, fwd, sendCh, pxyS, bound, got>>
      /\ pxyS \in Loop /\ end \in [Wires -> End] /\ cli \in Client
      /\ end[c] \in End /\ work[c] \in Work
  BY DEF SetWorkConn, ClientReads, ClientAnswers, ClientSenderEnds, HeartbeatEnds, FrpcOK, WorkOK,
     srvUdp
<1>2. FrontOK'
  BY <1>1 DEF FrontOK
<1>3. CASE SetWorkConn(c)
  <2> DEFINE x == [in |-> "done", rd |-> "run", sd |-> "run", hb |-> "run", ch |-> "open",
                   socks |-> {}]
  <2>1. x \in End /\ end' = [end EXCEPT ![c] = x] /\ work' = work
    BY <1>3 DEF SetWorkConn, End
  <2>2. cli' \in Client
    <3> DEFINE l == cli.late \/ cli.shut \/ ~cli.closed \/ cli.cur > c
    <3>1. cli' = [cli EXCEPT !.cur = c, !.closed = FALSE, !.late = l] /\ l \in BOOLEAN
      BY <1>3 DEF SetWorkConn
    <3> HIDE DEF l
    <3> QED BY <1>1, <3>1 DEF Client
  <2> HIDE DEF x
  <2> QED BY <1>1, <1>2, <2>1, <2>2, EndMoves, WorkSame DEF FrpcOK
<1>4. CASE ClientReads(c)
  <2>1. CASE work[c].out # <<>>
    <3> DEFINE w == [work[c] EXCEPT !.out = Tail(@)]
               x == IF end[c].ch = "open"
                    THEN [end[c] EXCEPT !.socks = @ \cup {Head(work[c].out)}]
                    ELSE [end[c] EXCEPT !.rd = "end"]
    <3>1. work[c].out \in Seq(Peer)
      BY <1>1 DEF Work
    <3>2. Tail(work[c].out) \in Seq(Peer) /\ Head(work[c].out) \in Peer
      BY <2>1, <3>1
    <3>3. w \in Work /\ Calmer(work[c], w)
      BY <1>1, <3>2 DEF Work, Calmer, WorkOK
    <3>4. x \in End
      BY <1>1, <3>2 DEF End
    <3>5. work' = [work EXCEPT ![c] = w] /\ end' = [end EXCEPT ![c] = x] /\ cli' = cli
      BY <1>4, <2>1 DEF ClientReads
    <3> HIDE DEF w, x
    <3> QED BY <1>1, <1>2, <3>3, <3>4, <3>5, EndMoves, CalmerKeeps DEF FrpcOK
  <2>2. CASE work[c].out = <<>>
    <3> DEFINE x == [end[c] EXCEPT !.rd = "end"]
    <3>1. x \in End /\ end' = [end EXCEPT ![c] = x] /\ work' = work /\ cli' = cli
      BY <1>1, <1>4, <2>2 DEF ClientReads, End
    <3> HIDE DEF x
    <3> QED BY <1>1, <1>2, <3>1, EndMoves, WorkSame DEF FrpcOK
  <2> QED BY <2>1, <2>2
<1>5. CASE ClientAnswers(c)
  <2>1. PICK p \in end[c].socks :
          /\ end' = [end EXCEPT ![c].socks = @ \ {p}] /\ cli' = cli
          /\ work' = work \/ (work' = [work EXCEPT ![c].in = Append(@, p)])
    BY <1>5 DEF ClientAnswers
  <2> DEFINE x == [end[c] EXCEPT !.socks = @ \ {p}]
             w == [work[c] EXCEPT !.in = Append(@, p)]
  <2>2. x \in End /\ p \in Peer
    BY <1>1 DEF End
  <2>3. end' = [end EXCEPT ![c] = x] /\ (work' = work \/ work' = [work EXCEPT ![c] = w])
    BY <2>1
  <2>4. w \in Work /\ Calmer(work[c], w)
    <3>1. work[c].in \in Seq(Peer)
      BY <1>1 DEF Work
    <3>2. Append(work[c].in, p) \in Seq(Peer)
      BY <2>2, <3>1
    <3> QED BY <1>1, <3>2 DEF Work, Calmer, WorkOK
  <2> HIDE DEF x, w
  <2> QED BY <1>1, <1>2, <2>1, <2>2, <2>3, <2>4, EndMoves, WorkSame, CalmerKeeps DEF FrpcOK
<1>6. CASE ClientSenderEnds(c) \/ HeartbeatEnds(c)
  <2>1. PICK x \in End : end' = [end EXCEPT ![c] = x]
    <3>1. CASE ClientSenderEnds(c)
      <4>1. [end[c] EXCEPT !.sd = "end"] \in End
            /\ end' = [end EXCEPT ![c] = [end[c] EXCEPT !.sd = "end"]]
        BY <1>1, <3>1 DEF ClientSenderEnds, End
      <4> QED BY <4>1
    <3>2. CASE HeartbeatEnds(c)
      <4>1. [end[c] EXCEPT !.hb = "end"] \in End
            /\ end' = [end EXCEPT ![c] = [end[c] EXCEPT !.hb = "end"]]
        BY <1>1, <3>2 DEF HeartbeatEnds, End
      <4> QED BY <4>1
    <3> QED BY <1>6, <3>1, <3>2
  <2>2. work' = work /\ cli' = cli
    BY <1>6 DEF ClientSenderEnds, HeartbeatEnds
  <2> QED BY <1>1, <1>2, <2>1, <2>2, EndMoves, WorkSame DEF FrpcOK
<1> QED BY <1>3, <1>4, <1>5, <1>6

\* Every step keeps the invariant.
LEMMA UdpInvStep == UdpInv /\ [UdpNext]_udpVars => UdpInv'
<1> SUFFICES ASSUME UdpInv, [UdpNext]_udpVars PROVE UdpInv'
  OBVIOUS
<1>1. CASE UNCHANGED udpVars
  BY <1>1 DEF udpVars, srvUdp, UdpInv, FrontOK, WorkOK, FrpcOK
<1>2. ASSUME NEW c \in Wires,
             \/ SendWork(c) \/ ReadWork(c) \/ NotifyFails(c) \/ InWorkConn(c)
             \/ SetWorkConn(c) \/ ClientReads(c) \/ ClientAnswers(c) \/ ClientSenderEnds(c)
             \/ HeartbeatEnds(c) \/ BreakWire(c) \/ ReadTimeout(c)
      PROVE  UdpInv'
  BY <1>2, SendKeeps, ReadKeeps, BreakKeeps, InWorkConnKeeps, FrpcKeeps
<1> QED BY <1>1, <1>2, FrontKeeps, GetWorkKeeps, WaitEndsKeeps, CloseClientKeeps
        DEF UdpNext, UdpStep

\* However connections break, time out, are replaced and closed, at most one work
\* connection of a UDP proxy is open and has a sender that goes on; one that was cancelled
\* has nothing to send on, but for the last one of a closed proxy (server/proxy/udp.go:
\* "there are always only one workConn at the same time").
THEOREM UdpSoundHolds == UdpSpec => []UdpSound
<1>1. (\E s : IsUdpScene(s) /\ UdpInit(s)) => UdpInv
  BY UdpInvInit
<1> QED BY <1>1, UdpInvStep, UdpInvSound, PTL DEF UdpSpec

-----------------------------------------------------------------------------
(* The holes: the invariant.                                               *)

\* Any scene with a number for each attempt.
IsHoleScene(s) == s \in Scene /\ 1..s.tries \subseteq Tries
HoleSpec == (\E s : IsHoleScene(s) /\ HoleInit(s)) /\ [][HoleNext]_holeVars

Caller == [at: {"off", "first", "new", "open", "failed", "signal", "wait", "tick", "joined",
                "closed", "moved"}, left: Nat, via: Tries \cup {0}]
Tunnel == [cur: Tries \cup {0}, live: SUBSET Tries, over: SUBSET Tries]
HoleLoop == [at: {"idle", "pre", "exch", "hole", "init", "nap", "end"}, k: Tries \cup {0},
             off: BOOLEAN]
Sockets == [v: SUBSET Tries, c: SUBSET Tries]
Session == {"none", "sid", "wait", "notified", "vAnswered", "cAnswered", "answered",
            "refused", "gone"}
AtClient == {"none", "sid", "sent", "hole", "listen", "serve", "end"}

\* The visitor: its loop works on an attempt, and a socket belongs to that attempt, to
\* the tunnel in use or to one that was replaced.
VisitorOK ==
  /\ IsHoleScene(scene) /\ ask \in [Callers -> Caller]
  /\ tun \in Tunnel /\ loop \in HoleLoop /\ sock \in Sockets
  /\ loop.at \in {"pre", "exch", "hole", "init"} => loop.k \in Tries
  /\ \A k \in sock.v \ tun.over :
       k = tun.cur \/ (k = loop.k /\ loop.at \in {"exch", "hole", "init"})

\* frps and the client: the client hears of an attempt once, and not before frps gave
\* the sid to the proxy.
ServerOK ==
  /\ role \in [Tries -> {"none", "visitor", "client"}] /\ hsess \in [Tries -> Session]
  /\ pxy \in [up: BOOLEAN, has: Tries \cup {0}] /\ cl \in [Tries -> AtClient]
  /\ \A k \in Tries :
       /\ hsess[k] \in {"none", "sid", "refused"} => cl[k] = "none" /\ pxy.has # k
       /\ pxy.has = k => cl[k] = "none"
  /\ \A k \in sock.c : cl[k] \in {"sent", "hole", "listen", "serve"}

HoleInv == VisitorOK /\ ServerOK

\* What the run checks follows from the invariant.
LEMMA HoleInvSound == HoleInv => HoleSound
<1> SUFFICES ASSUME HoleInv PROVE HoleSound
  OBVIOUS
<1>1. HoleTypeOK
  BY DEF HoleInv, VisitorOK, ServerOK, HoleTypeOK, IsHoleScene, Caller, Tunnel, HoleLoop, Sockets,
     Session, AtClient
<1>2. SocketsAccounted
  BY DEF HoleInv, VisitorOK, ServerOK, SocketsAccounted, K
<1> QED BY <1>1, <1>2 DEF HoleSound

\* A scene starts without attempts and sockets.
LEMMA HoleInvInit ==
  ASSUME NEW s, IsHoleScene(s), HoleInit(s)
  PROVE  HoleInv
<1> USE DEF HoleInit
<1>1. ask \in [Callers -> Caller]
  BY DEF Caller, IsHoleScene, Scene
<1>2. /\ tun \in Tunnel /\ loop \in HoleLoop /\ sock \in Sockets /\ sock.v = {} /\ sock.c = {}
      /\ loop.at = "idle" /\ scene = s
  BY DEF Tunnel, HoleLoop, Sockets
<1>3. VisitorOK
  BY <1>1, <1>2 DEF VisitorOK
<1>4. ServerOK
  BY <1>2, HoleAssumption DEF ServerOK, Session, AtClient
<1> QED BY <1>3, <1>4 DEF HoleInv

-----------------------------------------------------------------------------
(* The holes: frames.                                                      *)

\* A step that leaves the attempts of frps and the client, and the client's sockets.
LEMMA ServerSame ==
  ASSUME ServerOK, UNCHANGED <<role, hsess, pxy, cl>>, sock'.c = sock.c
  PROVE  ServerOK'
BY DEF ServerOK

\* A step that leaves the visitor.
LEMMA VisitorSame ==
  ASSUME VisitorOK, UNCHANGED visVars, IsHoleScene(scene'), sock' \in Sockets, sock'.v = sock.v
  PROVE  VisitorOK'
BY DEF VisitorOK, visVars

\* A step that counts down a fault.
LEMMA GoesIs ==
  ASSUME IsHoleScene(scene), NEW well \in BOOLEAN, Goes(well)
  PROVE  IsHoleScene(scene')
BY DEF IsHoleScene, Scene, Goes

\* A session that is closed takes its socket along.
LEMMA CloseTunnelIs ==
  ASSUME tun \in Tunnel, sock \in Sockets, closeTunnel
  PROVE  /\ tun' \in Tunnel /\ sock' \in Sockets /\ sock'.c = sock.c
         /\ tun'.over = tun.over /\ sock'.v = sock.v \ {tun.cur}
BY DEF closeTunnel, Tunnel, Sockets

\* A caller goes on.
LEMMA AskIs ==
  ASSUME ask \in [Callers -> Caller], NEW u \in Callers, NEW at, askTo(u, at),
         at \in {"open", "failed", "signal", "wait", "tick", "joined", "closed", "moved"}
  PROVE  ask' \in [Callers -> Caller]
<1> DEFINE r == [ask[u] EXCEPT !.at = at]
<1>1. r \in Caller
  BY DEF Caller
<1>2. ask' = [ask EXCEPT ![u] = r]
  BY DEF askTo
<1> HIDE DEF r
<1> QED BY <1>1, <1>2

\* The next attempt.
LEMMA StartIs ==
  ASSUME VisitorOK, listens, startTunnel
  PROVE  /\ loop' \in HoleLoop /\ loop'.k \in Tries /\ loop'.at = "pre"
         /\ \A k \in sock.v \ tun.over : k = tun.cur
<1>1. loop.k \in Nat
  <2>1. loop.k \in Tries \cup {0}
    BY DEF VisitorOK, HoleLoop
  <2>2. \A k \in Tries : k \in Nat
    BY HoleAssumption
  <2> QED BY <2>1, <2>2
<1>3. scene.tries \in Nat /\ loop.k < scene.tries
  BY DEF VisitorOK, IsHoleScene, Scene, listens, K
<1>4. loop.k + 1 \in 1..scene.tries
  BY <1>1, <1>3
<1>2. loop.k + 1 \in Tries
  BY <1>4 DEF VisitorOK, IsHoleScene
<1> QED BY <1>2 DEF VisitorOK, HoleLoop, startTunnel, listens

-----------------------------------------------------------------------------
(* The holes: the visitor.                                                 *)

\* A user's connection asks for a tunnel.
LEMMA AskKeepsHole ==
  ASSUME HoleInv, NEW u \in Callers, AskStep(u) \/ Accept(u)
  PROVE  HoleInv'
<1> USE DEF HoleInv
<1>1. /\ UNCHANGED <<scene, role, hsess, pxy, cl>>
      /\ ask \in [Callers -> Caller] /\ tun \in Tunnel /\ loop \in HoleLoop /\ sock \in Sockets
  BY DEF AskStep, Accept, OpenConn, CloseSession, Signal, Retry, GiveUp, JoinEnds, VisitorOK
<1>2. ask' \in [Callers -> Caller]
  <2>1. CASE OpenConn(u)
    <3> DEFINE r == IF tun.cur # 0 /\ serving(tun.cur)
                    THEN [ask[u] EXCEPT !.at = IF u = Keeper THEN "tick" ELSE "joined",
                                        !.via = tun.cur]
                    ELSE [ask[u] EXCEPT !.at = "failed"]
    <3>1. r \in Caller
      BY <1>1 DEF Caller, Tunnel
    <3>2. ask' = [ask EXCEPT ![u] = r]
      BY <2>1 DEF OpenConn
    <3> HIDE DEF r
    <3> QED BY <1>1, <3>1, <3>2
  <2>2. CASE Retry(u)
    <3> DEFINE r == [ask[u] EXCEPT !.at = "open", !.left = @ - 1]
    <3>1. ask[u] \in Caller /\ ask[u].left - 1 \in Nat
      BY <1>1, <2>2 DEF Retry, Caller
    <3>2. r \in Caller
      BY <3>1 DEF Caller
    <3>3. ask' = [ask EXCEPT ![u] = r]
      BY <2>2 DEF Retry
    <3> HIDE DEF r
    <3> QED BY <1>1, <3>2, <3>3
  <2>3. CASE ~OpenConn(u) /\ ~Retry(u)
    <3>1. \E at \in {"open", "signal", "wait", "tick", "closed", "moved"} : askTo(u, at)
      BY <2>3 DEF AskStep, Accept, CloseSession, Signal, GiveUp, JoinEnds
    <3> QED BY <1>1, <3>1, AskIs
  <2> QED BY <2>1, <2>2, <2>3
<1>3. CASE CloseSession(u)
  <2>1. closeTunnel /\ loop' = loop
    BY <1>3 DEF CloseSession
  <2>2. VisitorOK'
    BY <1>1, <1>2, <2>1, CloseTunnelIs DEF VisitorOK
  <2> QED BY <1>1, <2>1, <2>2, CloseTunnelIs, ServerSame
<1>4. CASE Signal(u)
  <2>1. UNCHANGED <<tun, sock>> /\ (loop' = loop \/ (listens /\ startTunnel))
    BY <1>4 DEF Signal
  <2>2. VisitorOK'
    BY <1>1, <1>2, <2>1, StartIs DEF VisitorOK
  <2> QED BY <1>1, <2>1, <2>2, ServerSame
<1>5. CASE ~CloseSession(u) /\ ~Signal(u)
  <2>1. UNCHANGED <<tun, loop, sock>>
    BY <1>5 DEF AskStep, Accept, OpenConn, Retry, GiveUp, JoinEnds
  <2> QED BY <1>1, <1>2, <2>1, ServerSame DEF VisitorOK
<1> QED BY <1>3, <1>4, <1>5

\* The worker that keeps a tunnel open asks for one.
LEMMA KeeperKeeps ==
  ASSUME HoleInv, KeeperFirst \/ Tick
  PROVE  HoleInv'
<1> USE DEF HoleInv
<1>1. /\ UNCHANGED <<scene, tun, sock, role, hsess, pxy, cl>>
      /\ ask \in [Callers -> Caller] /\ Keeper \in Callers
      /\ loop' = loop \/ (listens /\ startTunnel)
  BY DEF KeeperFirst, Tick, VisitorOK, Callers
<1>2. \E at \in {"tick", "closed", "open"} : askTo(Keeper, at)
  BY DEF KeeperFirst, Tick
<1>3. ask' \in [Callers -> Caller]
  BY <1>1, <1>2, AskIs
<1>4. VisitorOK'
  BY <1>1, <1>3, StartIs DEF VisitorOK
<1> QED BY <1>1, <1>4, ServerSame

\* The visitor is closed, and its session with it.
LEMMA CloseVisitorKeeps ==
  ASSUME HoleInv, CloseVisitor
  PROVE  HoleInv'
<1> USE DEF HoleInv
<1>1. /\ closeTunnel /\ UNCHANGED <<ask, role, hsess, pxy, cl>> /\ IsHoleScene(scene')
      /\ loop' \in HoleLoop /\ loop'.at = loop.at /\ loop'.k = loop.k
      /\ tun \in Tunnel /\ sock \in Sockets
  BY DEF CloseVisitor, VisitorOK, IsHoleScene, Scene, HoleLoop
<1>2. VisitorOK'
  BY <1>1, CloseTunnelIs DEF VisitorOK
<1> QED BY <1>1, <1>2, CloseTunnelIs, ServerSame

\* The loop's step from one stage of an attempt to another.
LEMMA LoopIs ==
  ASSUME loop \in HoleLoop, NEW at \in {"idle", "exch", "hole", "init", "nap", "end"}, loopTo(at)
  PROVE  loop' \in HoleLoop /\ loop'.at = at /\ loop'.k = loop.k
BY DEF HoleLoop, loopTo

\* makeNatHole at the visitor, from stage to stage.
LEMMA LoopKeeps ==
  ASSUME HoleInv, LoopStep
  PROVE  HoleInv'
<1> USE DEF HoleInv
<1>1. /\ UNCHANGED <<ask, role, hsess, pxy>> /\ IsHoleScene(scene)
      /\ loop \in HoleLoop /\ tun \in Tunnel /\ sock \in Sockets
  BY DEF LoopStep, PreCheck, ExchangeFails, Exchanged, MakeHole, InitSession, Wake, VisitorOK
<1>2. CASE PreCheck
  <2>1. PICK well \in BOOLEAN :
          /\ Goes(well)
          /\ \/ loopTo("exch") /\ sock' = [sock EXCEPT !.v = @ \cup {loop.k}]
             \/ loopTo("nap") /\ sock' = sock
    BY <1>2 DEF PreCheck, K
  <2>2. IsHoleScene(scene') /\ UNCHANGED <<tun, cl>> /\ loop.at = "pre" /\ loop.k \in Tries
    BY <1>1, <1>2, <2>1, GoesIs DEF PreCheck, VisitorOK
  <2>3. /\ sock' \in Sockets /\ sock'.c = sock.c
        /\ sock'.v = sock.v \/ (loopTo("exch") /\ sock'.v = sock.v \cup {loop.k})
    BY <1>1, <2>1, <2>2 DEF Sockets
  <2>4. loop' \in HoleLoop /\ loop'.at \in {"exch", "nap"} /\ loop'.k = loop.k
        /\ (loopTo("exch") => loop'.at = "exch")
    BY <1>1, <2>1, LoopIs
  <2>5. VisitorOK'
    BY <1>1, <2>2, <2>3, <2>4 DEF VisitorOK
  <2> QED BY <1>1, <2>2, <2>3, <2>5, ServerSame
<1>3. CASE ExchangeFails \/ Exchanged \/ MakeHole \/ Wake
  <2>1. UNCHANGED <<tun, cl>> /\ IsHoleScene(scene')
    <3>1. scene' = scene \/ \E well \in BOOLEAN : Goes(well)
      BY <1>3 DEF ExchangeFails, Exchanged, MakeHole, Wake
    <3> QED BY <1>1, <1>3, <3>1, GoesIs DEF ExchangeFails, Exchanged, MakeHole, Wake
  <2>2. \/ /\ closeSocket /\ loopTo("nap")
        \/ sock' = sock /\ loop.at \in {"exch", "hole"} /\ (loopTo("hole") \/ loopTo("init"))
        \/ sock' = sock /\ loop.at = "nap" /\ (loopTo("idle") \/ loopTo("end"))
    BY <1>3 DEF ExchangeFails, Exchanged, MakeHole, Wake
  <2>3. sock' \in Sockets /\ sock'.c = sock.c /\ sock'.v \subseteq sock.v
        /\ (closeSocket => loop.k \notin sock'.v)
    BY <1>1, <2>2 DEF Sockets, closeSocket, K
  <2>4. /\ loop' \in HoleLoop /\ loop'.k = loop.k
        /\ loop'.at \in {"exch", "hole", "init"} => loop.at \in {"exch", "hole", "init"}
        /\ loop'.at # "pre"
        /\ closeSocket \/ loop.at = "nap" \/ loop'.at \in {"hole", "init"}
    BY <1>1, <2>2, LoopIs
  <2>5. VisitorOK'
    BY <1>1, <2>1, <2>3, <2>4 DEF VisitorOK
  <2> QED BY <1>1, <2>1, <2>3, <2>5, ServerSame
<1>4. CASE InitSession
  <2>1. /\ loop' \in HoleLoop /\ loop'.k = loop.k /\ loop'.at = "nap" /\ loop.k \in Tries
    BY <1>1, <1>4, LoopIs DEF InitSession, VisitorOK
  <2>2. CASE cl[loop.k] = "listen" /\ cl' = [cl EXCEPT ![loop.k] = "serve"] /\ scene' = scene
             /\ tun' = [cur |-> loop.k, live |-> tun.live \cup {loop.k},
                        over |-> tun.over \cup ({tun.cur} \ {0})]
             /\ sock' = sock
    <3>1. tun' \in Tunnel /\ tun'.cur = loop.k /\ tun'.over = tun.over \cup ({tun.cur} \ {0})
      BY <1>1, <2>1, <2>2 DEF Tunnel
    <3>2. VisitorOK'
      <4>1. \A k \in sock.v : k # 0
        BY <1>1, HoleAssumption DEF Sockets
      <4> QED BY <1>1, <2>1, <2>2, <3>1, <4>1 DEF VisitorOK
    <3>3. cl' \in [Tries -> AtClient] /\ \A k \in Tries : cl[k] # cl'[k] => k = loop.k
      BY <2>1, <2>2 DEF ServerOK, AtClient
    <3>4. cl'[loop.k] = "serve"
      BY <2>1, <2>2 DEF ServerOK
    <3>5. ServerOK'
      BY <1>1, <2>1, <2>2, <3>3, <3>4 DEF ServerOK, Sockets
    <3> QED BY <3>2, <3>5
  <2>3. CASE Goes(cl[loop.k] = "end") /\ cl' = cl /\ tun' = tun /\ closeSocket
    <3>1. IsHoleScene(scene')
      BY <1>1, <2>3, GoesIs
    <3>2. sock' \in Sockets /\ sock'.c = sock.c /\ sock'.v = sock.v \ {loop.k}
      BY <1>1, <2>3 DEF Sockets, closeSocket, K
    <3>3. VisitorOK'
      BY <1>1, <2>1, <2>3, <3>1, <3>2 DEF VisitorOK
    <3> QED BY <1>1, <2>3, <3>2, <3>3, ServerSame
  <2> QED BY <1>4, <2>2, <2>3 DEF InitSession, K
<1> QED BY <1>2, <1>3, <1>4 DEF LoopStep

-----------------------------------------------------------------------------
(* The holes: frps and the client.                                         *)

\* frps opens a session for the attempt, or refuses it.
LEMMA HandleVisitorKeeps ==
  ASSUME HoleInv, HandleVisitor
  PROVE  HoleInv'
<1> USE DEF HoleInv
<1>1. /\ UNCHANGED <<scene, visVars, sock, role, pxy, cl>> /\ IsHoleScene(scene')
      /\ loop.k \in Tries /\ hsess[loop.k] = "none" /\ sock \in Sockets
  BY DEF HandleVisitor, VisitorOK, K
<1>2. PICK at \in {"sid", "refused"} : hsess' = [hsess EXCEPT ![loop.k] = at]
  BY DEF HandleVisitor, srvTo, K
<1>3. VisitorOK'
  BY <1>1, VisitorSame
<1>4. hsess' \in [Tries -> Session]
      /\ \A k \in Tries : hsess'[k] = hsess[k] \/ (k = loop.k /\ hsess[k] = "none")
  BY <1>1, <1>2 DEF ServerOK, Session
<1>5. ServerOK'
  BY <1>1, <1>4 DEF ServerOK
<1> QED BY <1>3, <1>5

\* The proxy's goroutine writes the sid it has taken.
LEMMA SendSidKeeps ==
  ASSUME HoleInv, SendSid
  PROVE  HoleInv'
<1> USE DEF HoleInv
<1>1. /\ UNCHANGED <<visVars, sock, role, hsess>> /\ pxy.has \in Tries /\ sock \in Sockets
      /\ pxy' = [pxy EXCEPT !.has = 0]
  BY DEF SendSid, VisitorOK, ServerOK
<1>2. PICK well \in BOOLEAN :
        Goes(well) /\ cl' = IF well THEN [cl EXCEPT ![pxy.has] = "sid"] ELSE cl
  BY DEF SendSid
<1>3. IsHoleScene(scene')
  BY <1>2, GoesIs DEF VisitorOK
<1>4. VisitorOK'
  BY <1>1, <1>3, VisitorSame
<1>5. /\ cl' \in [Tries -> AtClient] /\ \A k \in Tries : cl'[k] = cl[k] \/ k = pxy.has
      /\ pxy' \in [up: BOOLEAN, has: Tries \cup {0}] /\ pxy'.has = 0
  BY <1>1, <1>2 DEF ServerOK, AtClient
<1>6. \A k \in sock.c : cl'[k] = cl[k]
  BY <1>1, <1>5 DEF ServerOK, Sockets
<1>7. \A k \in Tries : pxy'.has # k
  BY <1>5, HoleAssumption
<1>8. ServerOK'
  BY <1>1, <1>5, <1>6, <1>7 DEF ServerOK
<1> QED BY <1>4, <1>8

\* A session of frps goes on, or is forgotten.
LEMMA SrvStepKeeps ==
  ASSUME HoleInv, NEW k \in Tries, SrvStep(k)
  PROVE  HoleInv'
<1> USE DEF HoleInv
<1>1. /\ UNCHANGED <<scene, visVars, sock, cl>> /\ IsHoleScene(scene') /\ sock \in Sockets
  BY DEF SrvStep, GiveSid, SessionTimeout, HandleClient, Answer, DeleteSession, VisitorOK
<1>2. VisitorOK'
  BY <1>1, VisitorSame
<1>3. PICK at \in {"wait", "gone", "notified", "vAnswered", "cAnswered", "answered"} :
        hsess' = [hsess EXCEPT ![k] = at]
  BY DEF SrvStep, GiveSid, SessionTimeout, HandleClient, Answer, DeleteSession, srvTo
<1>4. hsess' \in [Tries -> Session]
      /\ \A j \in Tries : hsess'[j] \in {"none", "sid", "refused"} => hsess'[j] = hsess[j] /\ j # k
  BY <1>3 DEF ServerOK, Session
<1>5. role' \in [Tries -> {"none", "visitor", "client"}]
  BY DEF SrvStep, GiveSid, SessionTimeout, HandleClient, Answer, DeleteSession, ServerOK
<1>6. /\ pxy' \in [up: BOOLEAN, has: Tries \cup {0}]
      /\ pxy'.has = pxy.has \/ (pxy'.has = k /\ cl[k] = "none")
  BY DEF SrvStep, GiveSid, SessionTimeout, HandleClient, Answer, DeleteSession, ServerOK
<1>7. ServerOK'
  BY <1>1, <1>4, <1>5, <1>6 DEF ServerOK
<1> QED BY <1>2, <1>7

\* The proxy of the client is closed.
LEMMA ProxyGoneKeeps ==
  ASSUME HoleInv, ProxyGone
  PROVE  HoleInv'
<1> USE DEF HoleInv
<1>1. /\ UNCHANGED <<visVars, sock, role, hsess, cl>> /\ IsHoleScene(scene') /\ sock \in Sockets
  BY DEF ProxyGone, VisitorOK, IsHoleScene, Scene
<1>2. pxy' \in [up: BOOLEAN, has: Tries \cup {0}] /\ pxy'.has = pxy.has
  BY DEF ProxyGone, ServerOK
<1> QED BY <1>1, <1>2, VisitorSame DEF ServerOK

\* InWorkConn at the client, from stage to stage.
LEMMA ClStepKeeps ==
  ASSUME HoleInv, NEW k \in Tries, ClStep(k)
  PROVE  HoleInv'
<1> USE DEF HoleInv
<1>1. /\ UNCHANGED <<visVars, role, hsess, pxy>> /\ sock \in Sockets /\ IsHoleScene(scene)
      /\ cl[k] \in {"sid", "sent", "hole", "serve"}
  BY DEF ClStep, PrepareClient, ClientExchanged, ClientMakeHole, ClientEnds, VisitorOK
<1>2. scene' = scene \/ \E well \in BOOLEAN : Goes(well)
  BY DEF ClStep, PrepareClient, ClientExchanged, ClientMakeHole, ClientEnds
<1>3. PICK at \in {"sent", "hole", "listen", "end"} :
        /\ cl' = [cl EXCEPT ![k] = at]
        /\ \/ sock' = sock /\ (at = "end" => cl[k] = "sid")
           \/ sock' = [sock EXCEPT !.c = @ \cup {k}] /\ at = "sent"
           \/ sock' = [sock EXCEPT !.c = @ \ {k}]
  <2>1. CASE PrepareClient(k)
    BY <2>1 DEF PrepareClient, clTo
  <2>2. CASE ClientExchanged(k) \/ ClientMakeHole(k) \/ ClientEnds(k)
    BY <2>2 DEF ClientExchanged, ClientMakeHole, ClientEnds, closeClient, clTo
  <2> QED BY <2>1, <2>2 DEF ClStep
<1>4. IsHoleScene(scene')
  BY <1>1, <1>2, GoesIs
<1>5. /\ sock' \in Sockets /\ sock'.v = sock.v /\ sock'.c \subseteq sock.c \cup {k}
      /\ k \in sock'.c => at \in {"sent", "hole", "listen"}
  BY <1>1, <1>3 DEF Sockets, ServerOK
<1>6. VisitorOK'
  BY <1>1, <1>4, <1>5, VisitorSame
<1>7. cl' \in [Tries -> AtClient] /\ cl'[k] = at /\ \A j \in Tries : j # k => cl'[j] = cl[j]
  BY <1>3 DEF ServerOK, AtClient
<1>8. ServerOK'
  BY <1>1, <1>5, <1>7 DEF ServerOK, Sockets
<1> QED BY <1>6, <1>8

\* Every step keeps the invariant.
LEMMA HoleInvStep == HoleInv /\ [HoleNext]_holeVars => HoleInv'
<1> SUFFICES ASSUME HoleInv, [HoleNext]_holeVars PROVE HoleInv'
  OBVIOUS
<1>1. CASE UNCHANGED holeVars
  BY <1>1 DEF holeVars, visVars, HoleInv, VisitorOK, ServerOK
<1>2. CASE HoleNext
  <2>1. Keeper \in Callers /\ \A u \in Visits : u \in Callers
    BY DEF Callers
  <2>2. \/ \E u \in Callers : AskStep(u) \/ Accept(u)
        \/ KeeperFirst \/ Tick \/ CloseVisitor \/ LoopStep \/ HandleVisitor \/ SendSid
        \/ ProxyGone \/ \E k \in Tries : SrvStep(k) \/ ClStep(k)
    BY <1>2, <2>1 DEF HoleNext, HoleStep, KeeperStep
  <2> QED BY <2>2, AskKeepsHole, KeeperKeeps, CloseVisitorKeeps, LoopKeeps, HandleVisitorKeeps,
             SendSidKeeps, SrvStepKeeps, ClStepKeeps, ProxyGoneKeeps
<1> QED BY <1>1, <1>2

\* Whichever step of an attempt fails, at whichever end, and whenever the visitor is
\* closed: a socket that is open belongs to the attempt under way, to the tunnel in use or
\* to one whose place another one took (client/visitor/xtcp.go makeNatHole, client/proxy/xtcp.go InWorkConn).
THEOREM HoleSoundHolds == HoleSpec => []HoleSound
<1>1. (\E s : IsHoleScene(s) /\ HoleInit(s)) => HoleInv
  BY HoleInvInit
<1> QED BY <1>1, HoleInvStep, HoleInvSound, PTL DEF HoleSpec

-----------------------------------------------------------------------------

\* Of the two kinds of tunnels without a server's port, whatever fails and however their
\* steps interleave: a socket of a hole belongs to the attempt under way, to the tunnel
\* in use or to one whose place another one took, and of the work connections of a UDP
\* proxy one is open and has a sender that goes on (xtcp.go and udp.go of frpc and frps).
THEOREM TunnelsSoundHolds == HoleSpec /\ UdpSpec => []TunnelsSound
<1>1. HoleSound /\ UdpSound => TunnelsSound
  BY DEF TunnelsSound
<1> QED BY <1>1, HoleSoundHolds, UdpSoundHolds, PTL

-----------------------------------------------------------------------------
(* The controls of frpc: the invariant.                                    *)

\* What is under way on a control connection about a proxy begins with what frps
\* serves, as if that had been offered before the first message.
Offer(n, s, u, i) == IF i = 0 THEN s ELSE IF u[i].name = n THEN u[i].ver ELSE 0
\* There is a CloseProxy, which has version 0, behind the i-th message.
Shut(n, u, i, j) == \E k \in (i + 1)..j : u[k].name = n /\ u[k].ver = 0

\* Between two versions there is a CloseProxy, and there is one behind every offer but
\* of the version that is wanted now.
InLine(n, s, u, v) ==
  \A i \in 0..Len(u) : Offer(n, s, u, i) # 0 =>
    /\ \A j \in 0..Len(u) : i < j =>
          Offer(n, s, u, j) \in {0, Offer(n, s, u, i)} \/ Shut(n, u, i, j)
    /\ Offer(n, s, u, i) = v \/ Shut(n, u, i, Len(u))

\* What is wanted is on the way, or served.
Sought(n, s, u, v) ==
  v # 0 => \E i \in 0..Len(u) : Offer(n, s, u, i) # 0 /\ ~Shut(n, u, i, Len(u))

Message == {m \in [type: {"NewProxy", "CloseProxy"}, name: Name, ver: Nat] :
              m.type = "CloseProxy" <=> m.ver = 0}
Verdict == [name: Name, good: BOOLEAN]
\* The version that a wrapper has asked for and not withdrawn.
Wants(w) == IF w.ph \in {"new", "failed"} THEN 0 ELSE w.ver
Wrapper == [ver: Nat, ph: Phase, sick: BOOLEAN, ok: BOOLEAN, fails: Nat, streak: Nat]

LoginAt == {"dial", "dialing", "start", "pm", "vm", "swap", "check", "keep", "done", "exit", "panic"}

ClientTypes ==
  /\ use \in Setups
  /\ lg \in [at: LoginAt, c: Ctl \cup {None}, cfg: Nat, first: BOOLEAN]
  /\ rl \in [at: {"idle", "get", "vm", "pm", "panic"}, c: Ctl \cup {None}]
  /\ left \in [drops: Nat, refs: Nat, bads: Nat, late: Nat] /\ left.refs <= use.refs
  /\ cfg \in 1..Len(use.cfgs) /\ ctl \in Ctl \cup {None} /\ port \in Ctl \cup {None}
  /\ stop \in {"no", "cancelled", "sources", "done"} /\ ses \subseteq Ctl
  /\ wk \in [Ctl -> {"none", "run", "pm", "vm", "done"}]
  /\ vm \in [Ctl -> [cfg: BOOLEAN, has: BOOLEAN, keep: BOOLEAN, stopped: BOOLEAN]]
  /\ srv \in [Ctl -> [Name -> Nat]] /\ overlap \in BOOLEAN
  /\ pm \in [Ctl -> [Name -> Wrapper]]
  /\ up \in [Ctl -> Seq(Message)] /\ down \in [Ctl -> Seq(Verdict)]

\* Logins take the controls in their order, and the control in place is the last
\* that got through its login.
OrderOK ==
  /\ \A c, d \in Ctl : c < d /\ wk[d] # "none" => wk[c] # "none"
  /\ ctl # None => wk[ctl] # "none"
  /\ LoggingIn => /\ lg.c \in Ctl /\ lg.cfg \in 1..Len(use.cfgs)
                  /\ wk[lg.c] = "none" <=> lg.at = "start"
                  /\ \A d \in Ctl : d < lg.c => wk[d] # "none"
                  /\ \A d \in Ctl : lg.c < d => wk[d] = "none"
                  /\ ctl # None => ctl < lg.c
  /\ stop # "done" =>
       \A d \in Ctl : wk[d] # "none" /\ ~(LoggingIn /\ d = lg.c) => ctl # None /\ d <= ctl
  /\ \A c \in ses : wk[c] # "none" \/ (lg.at = "start" /\ c = lg.c)
  /\ \A c \in Ctl : wk[c] = "none" => \A n \in Name : pm[c][n] = NoWrapper

\* A reload holds reloadMu, for which the stop of the service waits.
ReloadOK ==
  /\ rl.at \in {"idle", "get", "vm", "pm"}
  /\ rl.at = "vm" => ctl # None
  /\ rl.at = "pm" => rl.c \in Ctl /\ wk[rl.c] # "none" /\ (~overlap => rl.c = ctl)
  /\ stop \in {"sources", "done"} => rl.at = "idle"
  /\ rl.at # "idle" /\ LoggingIn => overlap

\* The controls before the one in place hold nothing, nor will they.
OldOK ==
  \A c \in Ctl : ctl # None /\ c < ctl /\ ~overlap /\ stop # "done" =>
     /\ c \notin ses /\ port # c /\ vm[c].stopped
     /\ \A n \in Name : pm[c][n].ver = 0

\* Every proxy of every control.
LinesOK ==
  /\ \A c \in Ctl : c \notin ses => srv[c] = Served /\ up[c] = <<>> /\ down[c] = <<>>
  /\ \A c \in Ctl, n \in Name : pm[c][n].ver = 0 => pm[c][n].ph = "new"
  /\ \A c \in ses, n \in Name :
       /\ InLine(n, srv[c][n], up[c], Wants(pm[c][n]))
       /\ use.refs = 0 => Sought(n, srv[c][n], up[c], Wants(pm[c][n]))

CtlInv == ClientTypes /\ OrderOK /\ ReloadOK /\ OldOK /\ LinesOK

-----------------------------------------------------------------------------
(* The line of a proxy: what sending and taking messages does to it.       *)

\* A line t is u, and then q.
Extends(n, s, u, q, t) ==
  /\ t \in Seq(Message) /\ Len(t) = Len(u) + Len(q) /\ Len(u) \in Nat /\ Len(q) \in Nat
  /\ \A i \in 0..Len(u) : Offer(n, s, t, i) = Offer(n, s, u, i)
  /\ \A i \in 1..Len(q) : t[Len(u) + i] = q[i]
  /\ \A i \in 0..Len(u), j \in 0..Len(u) : Shut(n, t, i, j) <=> Shut(n, u, i, j)

LEMMA Longer ==
  ASSUME NEW n, NEW s \in Nat, NEW u \in Seq(Message), NEW q \in Seq(Message)
  PROVE  Extends(n, s, u, q, u \o q)
<1> DEFINE t == u \o q
<1>1. /\ t \in Seq(Message) /\ Len(t) = Len(u) + Len(q) /\ Len(u) \in Nat /\ Len(q) \in Nat
      /\ \A i \in 1..Len(u) : t[i] = u[i]
      /\ \A i \in 1..Len(q) : t[Len(u) + i] = q[i]
  OBVIOUS
<1> HIDE DEF t
<1>2. \A i \in 0..Len(u) : Offer(n, s, t, i) = Offer(n, s, u, i)
  BY <1>1 DEF Offer
<1>3. ASSUME NEW i \in 0..Len(u), NEW j \in 0..Len(u)
      PROVE  Shut(n, t, i, j) <=> Shut(n, u, i, j)
  <2>1. \A k \in (i + 1)..j : k \in 1..Len(u)
    BY <1>1
  <2> QED BY <1>1, <2>1 DEF Shut
<1> QED BY <1>1, <1>2, <1>3 DEF t, Extends

\* Messages about other proxies.
LEMMA OthersSent ==
  ASSUME NEW n, NEW s \in Nat, NEW u \in Seq(Message), NEW q \in Seq(Message), NEW v \in Nat,
         \A i \in 1..Len(q) : q[i].name # n
  PROVE  /\ InLine(n, s, u, v) => InLine(n, s, u \o q, v)
         /\ Sought(n, s, u, v) => Sought(n, s, u \o q, v)
<1> DEFINE t == u \o q
<1>0. Extends(n, s, u, q, t)
  BY Longer
<1> HIDE DEF t
<1>1. /\ Len(t) = Len(u) + Len(q) /\ Len(u) \in Nat /\ Len(q) \in Nat
      /\ \A i \in 0..Len(u) : Offer(n, s, t, i) = Offer(n, s, u, i)
      /\ \A i \in 1..Len(q) : t[Len(u) + i].name # n
      /\ \A i \in 0..Len(u), j \in 0..Len(u) : Shut(n, t, i, j) <=> Shut(n, u, i, j)
  BY <1>0 DEF Extends
<1>2. \A i \in 0..Len(t) : Len(u) < i => t[i].name # n /\ Offer(n, s, t, i) = 0
  <2> TAKE i \in 0..Len(t)
  <2>1. CASE Len(u) < i
    <3>1. i - Len(u) \in 1..Len(q) /\ Len(u) + (i - Len(u)) = i
      BY <1>1, <2>1
    <3>2. t[i].name # n
      BY <1>1, <3>1
    <3> QED BY <1>1, <2>1, <3>2 DEF Offer
  <2> QED BY <2>1
<1>3. \A i \in 0..Len(u) : Shut(n, t, i, Len(t)) <=> Shut(n, u, i, Len(u))
  <2> TAKE i \in 0..Len(u)
  <2>1. Shut(n, t, i, Len(t)) <=> Shut(n, t, i, Len(u))
    BY <1>1, <1>2 DEF Shut
  <2> QED BY <1>1, <2>1
<1>4. InLine(n, s, u, v) => InLine(n, s, t, v)
  <2> SUFFICES ASSUME InLine(n, s, u, v), NEW i \in 0..Len(t), Offer(n, s, t, i) # 0
               PROVE  /\ \A j \in 0..Len(t) : i < j =>
                            Offer(n, s, t, j) \in {0, Offer(n, s, t, i)} \/ Shut(n, t, i, j)
                      /\ Offer(n, s, t, i) = v \/ Shut(n, t, i, Len(t))
    BY DEF InLine
  <2>1. i \in 0..Len(u)
    BY <1>1, <1>2
  <2>2. \A j \in 0..Len(t) : j \in 0..Len(u) \/ Offer(n, s, t, j) = 0
    BY <1>1, <1>2
  <2> QED BY <1>1, <1>3, <2>1, <2>2 DEF InLine
<1>5. Sought(n, s, u, v) => Sought(n, s, t, v)
  <2>1. \A i \in 0..Len(u) : i \in 0..Len(t)
    BY <1>1
  <2> QED BY <1>1, <1>3, <2>1 DEF Sought
<1> QED BY <1>4, <1>5 DEF t

\* A proxy is withdrawn.
LEMMA CloseSent ==
  ASSUME NEW n, NEW s \in Nat, NEW u \in Seq(Message), NEW q \in Seq(Message), NEW v \in Nat,
         \A i \in 1..Len(q) : q[i].name = n => q[i].ver = 0,
         \E i \in 1..Len(q) : q[i].name = n,
         InLine(n, s, u, v), NEW x \in Nat
  PROVE  InLine(n, s, u \o q, x)
<1> DEFINE t == u \o q
<1>0. Extends(n, s, u, q, t)
  BY Longer
<1> HIDE DEF t
<1>1. /\ Len(t) = Len(u) + Len(q) /\ Len(u) \in Nat /\ Len(q) \in Nat
      /\ \A i \in 0..Len(u) : Offer(n, s, t, i) = Offer(n, s, u, i)
      /\ \A i \in 1..Len(q) : t[Len(u) + i] = q[i]
      /\ \A i \in 0..Len(u), j \in 0..Len(u) : Shut(n, t, i, j) <=> Shut(n, u, i, j)
  BY <1>0 DEF Extends
<1>2. \A i \in 0..Len(t) : Len(u) < i => Offer(n, s, t, i) = 0
  <2> TAKE i \in 0..Len(t)
  <2>1. CASE Len(u) < i
    <3>1. i - Len(u) \in 1..Len(q) /\ Len(u) + (i - Len(u)) = i
      BY <1>1, <2>1
    <3>2. t[i] = q[i - Len(u)]
      BY <1>1, <3>1
    <3> QED BY <1>1, <2>1, <3>1, <3>2 DEF Offer
  <2> QED BY <2>1
<1>3. PICK k \in 1..Len(q) : q[k].name = n /\ q[k].ver = 0
  OBVIOUS
<1>4. Len(u) + k \in 1..Len(t) /\ t[Len(u) + k].name = n /\ t[Len(u) + k].ver = 0
  BY <1>1, <1>3
<1>5. \A i \in 0..Len(u) : Shut(n, t, i, Len(t))
  BY <1>1, <1>4 DEF Shut
<1> SUFFICES ASSUME NEW i \in 0..Len(t), Offer(n, s, t, i) # 0
             PROVE  /\ \A j \in 0..Len(t) : i < j =>
                          Offer(n, s, t, j) \in {0, Offer(n, s, t, i)} \/ Shut(n, t, i, j)
                    /\ Offer(n, s, t, i) = x \/ Shut(n, t, i, Len(t))
  BY DEF InLine, t
<1>6. i \in 0..Len(u)
  BY <1>1, <1>2
<1>7. \A j \in 0..Len(t) : j \in 0..Len(u) \/ Offer(n, s, t, j) = 0
  BY <1>1, <1>2
<1> QED BY <1>1, <1>5, <1>6, <1>7 DEF InLine

\* A version is offered that nothing speaks against.
LEMMA OfferSent ==
  ASSUME NEW n, NEW s \in Nat, NEW u \in Seq(Message), NEW m \in Message, NEW v \in Nat,
         m.name = n, m.ver # 0, v \in {0, m.ver}, InLine(n, s, u, v)
  PROVE  InLine(n, s, u \o <<m>>, m.ver) /\ Sought(n, s, u \o <<m>>, m.ver)
<1> DEFINE q == <<m>>
           t == u \o q
<1>0. q \in Seq(Message) /\ Len(q) = 1 /\ q[1] = m
  OBVIOUS
<1> HIDE DEF q
<1>6. Extends(n, s, u, q, t)
  BY <1>0, Longer
<1>1. /\ Len(t) = Len(u) + 1 /\ Len(u) \in Nat
      /\ \A i \in 0..Len(u) : Offer(n, s, t, i) = Offer(n, s, u, i)
      /\ t[Len(u) + 1] = m
      /\ \A i \in 0..Len(u), j \in 0..Len(u) : Shut(n, t, i, j) <=> Shut(n, u, i, j)
  BY <1>0, <1>6 DEF Extends
<1> HIDE DEF t
<1>2. Offer(n, s, t, Len(t)) = m.ver /\ m.ver \in Nat
  BY <1>1 DEF Offer, Message
<1>3. \A i \in 0..Len(u) : Shut(n, t, i, Len(t)) <=> Shut(n, u, i, Len(u))
  <2> TAKE i \in 0..Len(u)
  <2>1. Shut(n, t, i, Len(t)) <=> Shut(n, t, i, Len(u))
    BY <1>1 DEF Shut
  <2> QED BY <1>1, <2>1
<1>4. InLine(n, s, t, m.ver)
  <2> SUFFICES ASSUME NEW i \in 0..Len(t), Offer(n, s, t, i) # 0
               PROVE  /\ \A j \in 0..Len(t) : i < j =>
                            Offer(n, s, t, j) \in {0, Offer(n, s, t, i)} \/ Shut(n, t, i, j)
                      /\ Offer(n, s, t, i) = m.ver \/ Shut(n, t, i, Len(t))
    BY DEF InLine
  <2>1. CASE i = Len(t)
    BY <1>2, <2>1
  <2>2. CASE i \in 0..Len(u)
    <3>1. Offer(n, s, t, i) = m.ver \/ Shut(n, t, i, Len(t))
      BY <1>1, <1>3, <2>2 DEF InLine
    <3>2. ASSUME NEW j \in 0..Len(t), i < j
          PROVE  Offer(n, s, t, j) \in {0, Offer(n, s, t, i)} \/ Shut(n, t, i, j)
      <4>1. CASE j = Len(t)
        BY <1>2, <3>1, <4>1
      <4>2. CASE j \in 0..Len(u)
        BY <1>1, <2>2, <3>2, <4>2 DEF InLine
      <4> QED BY <1>1, <4>1, <4>2
    <3> QED BY <3>1, <3>2
  <2> QED BY <1>1, <2>1, <2>2
<1>5. Sought(n, s, t, m.ver)
  <2>1. ~Shut(n, t, Len(t), Len(t)) /\ Len(t) \in 0..Len(t)
    BY <1>1 DEF Shut
  <2> QED BY <1>2, <2>1 DEF Sought
<1> QED BY <1>4, <1>5 DEF t, q

\* When every offer is shut, whatever comes to be wanted is in line.
LEMMA NoneWanted ==
  ASSUME NEW n, NEW s, NEW u, InLine(n, s, u, 0), NEW x
  PROVE  InLine(n, s, u, x)
BY DEF InLine

\* What is left of a line when its first message is taken.
LEMMA Shorter ==
  ASSUME NEW u \in Seq(Message), u # <<>>
  PROVE  /\ Tail(u) \in Seq(Message) /\ Len(Tail(u)) = Len(u) - 1 /\ Len(u) \in Nat \ {0}
         /\ \A i \in 1..Len(Tail(u)) : Tail(u)[i] = u[i + 1]
         /\ Head(u) = u[1] /\ u[1] \in Message
OBVIOUS

\* A line without its first message: what was offered and shut is so one place earlier.
LEMMA ShutEarlier ==
  ASSUME NEW n, NEW u \in Seq(Message), u # <<>>, NEW i \in Nat, NEW j \in 0..Len(u) - 1
  PROVE  Shut(n, Tail(u), i, j) <=> Shut(n, u, i + 1, j + 1)
<1> DEFINE t == Tail(u)
<1>1. Len(u) \in Nat /\ \A k \in 1..Len(u) - 1 : t[k] = u[k + 1]
  BY Shorter
<1> HIDE DEF t
<1>2. ASSUME Shut(n, t, i, j) PROVE Shut(n, u, i + 1, j + 1)
  <2>1. PICK k \in (i + 1)..j : t[k].name = n /\ t[k].ver = 0
    BY <1>2 DEF Shut
  <2>2. k + 1 \in (i + 1 + 1)..(j + 1) /\ t[k] = u[k + 1]
    BY <1>1, <2>1
  <2> QED BY <2>1, <2>2 DEF Shut
<1>3. ASSUME Shut(n, u, i + 1, j + 1) PROVE Shut(n, t, i, j)
  <2>1. PICK k \in (i + 1 + 1)..(j + 1) : u[k].name = n /\ u[k].ver = 0
    BY <1>3 DEF Shut
  <2>2. k - 1 \in (i + 1)..j /\ t[k - 1] = u[k]
    BY <1>1, <2>1
  <2> QED BY <2>1, <2>2 DEF Shut
<1> QED BY <1>2, <1>3 DEF t

\* frps takes a message about another proxy, or one that it refuses while it serves
\* nothing.
LEMMA OtherTaken ==
  ASSUME NEW n, NEW s \in Nat, NEW u \in Seq(Message), u # <<>>, NEW v \in Nat,
         u[1].name # n \/ s = 0, InLine(n, s, u, v)
  PROVE  /\ InLine(n, s, Tail(u), v)
         /\ u[1].name # n /\ Sought(n, s, u, v) => Sought(n, s, Tail(u), v)
<1> DEFINE t == Tail(u)
<1>1. /\ Len(u) \in Nat \ {0} /\ Len(t) = Len(u) - 1
      /\ \A i \in 1..Len(t) : t[i] = u[i + 1]
      /\ \A i \in Nat, j \in 0..Len(t) : Shut(n, t, i, j) <=> Shut(n, u, i + 1, j + 1)
  <2>1. /\ Len(u) \in Nat \ {0} /\ Len(t) = Len(u) - 1
        /\ \A i \in 1..Len(t) : t[i] = u[i + 1]
    BY Shorter
  <2>2. \A i \in Nat, j \in 0..Len(u) - 1 : Shut(n, t, i, j) <=> Shut(n, u, i + 1, j + 1)
    BY ShutEarlier
  <2> QED BY <2>1, <2>2
<1> HIDE DEF t
<1>2. \A i \in 1..Len(t) : Offer(n, s, t, i) = Offer(n, s, u, i + 1)
  <2> TAKE i \in 1..Len(t)
  <2>1. i # 0 /\ i + 1 # 0
    OBVIOUS
  <2>2. t[i] = u[i + 1]
    BY <1>1
  <2> QED BY <2>1, <2>2 DEF Offer
<1>3. Offer(n, s, t, 0) = s /\ Offer(n, s, u, 0) = s
  BY DEF Offer
<1>4. u[1].name # n => \A j \in 0..Len(t) : Shut(n, t, 0, j) <=> Shut(n, u, 0, j + 1)
  <2> SUFFICES ASSUME u[1].name # n, NEW j \in 0..Len(t)
               PROVE  Shut(n, t, 0, j) <=> Shut(n, u, 0, j + 1)
    OBVIOUS
  <2>1. Shut(n, t, 0, j) <=> Shut(n, u, 0 + 1, j + 1)
    BY <1>1
  <2>2. \A k \in 1..(j + 1) : k \in 2..(j + 1) \/ k = 1
    BY <1>1
  <2>3. 0 + 1 = 1 /\ 1 + 1 = 2
    OBVIOUS
  <2>4. Shut(n, u, 1, j + 1) <=> Shut(n, u, 0, j + 1)
    BY <2>2, <2>3 DEF Shut
  <2> QED BY <2>1, <2>3, <2>4
<1>5. \A i \in 0..Len(t) : Offer(n, s, t, i) # 0 =>
        \E k \in 0..Len(u) :
          /\ Offer(n, s, u, k) = Offer(n, s, t, i) /\ k = (IF i = 0 THEN 0 ELSE i + 1)
          /\ \A j \in 0..Len(t) : Shut(n, t, i, j) <=> Shut(n, u, k, j + 1)
  <2> SUFFICES ASSUME NEW i \in 0..Len(t), Offer(n, s, t, i) # 0
               PROVE  \E k \in 0..Len(u) :
                        /\ Offer(n, s, u, k) = Offer(n, s, t, i) /\ k = (IF i = 0 THEN 0 ELSE i + 1)
                        /\ \A j \in 0..Len(t) : Shut(n, t, i, j) <=> Shut(n, u, k, j + 1)
    OBVIOUS
  <2>1. CASE i = 0
    <3>1. 0 \in 0..Len(u)
      BY <1>1
    <3>2. u[1].name # n
      BY <1>3, <2>1
    <3> QED BY <1>3, <1>4, <2>1, <3>1, <3>2
  <2>2. CASE i \in 1..Len(t)
    <3>1. i + 1 \in 0..Len(u) /\ i \in Nat /\ i # 0
      BY <1>1, <2>2
    <3> QED BY <1>1, <1>2, <2>2, <3>1
  <2> QED BY <1>1, <2>1, <2>2
<1>6. InLine(n, s, t, v)
  <2> SUFFICES ASSUME NEW i \in 0..Len(t), Offer(n, s, t, i) # 0
               PROVE  /\ \A j \in 0..Len(t) : i < j =>
                            Offer(n, s, t, j) \in {0, Offer(n, s, t, i)} \/ Shut(n, t, i, j)
                      /\ Offer(n, s, t, i) = v \/ Shut(n, t, i, Len(t))
    BY DEF InLine
  <2>1. PICK k \in 0..Len(u) :
          /\ Offer(n, s, u, k) = Offer(n, s, t, i) /\ k = (IF i = 0 THEN 0 ELSE i + 1)
          /\ \A j \in 0..Len(t) : Shut(n, t, i, j) <=> Shut(n, u, k, j + 1)
    BY <1>5
  <2>2. Offer(n, s, t, i) = v \/ Shut(n, t, i, Len(t))
    <3>1. Len(t) \in 0..Len(t) /\ Len(t) + 1 = Len(u)
      BY <1>1
    <3> QED BY <2>1, <3>1 DEF InLine
  <2>3. ASSUME NEW j \in 0..Len(t), i < j
        PROVE  Offer(n, s, t, j) \in {0, Offer(n, s, t, i)} \/ Shut(n, t, i, j)
    <3>0. Len(u) \in Nat /\ Len(t) = Len(u) - 1 /\ (k = 0 \/ k = i + 1)
      BY <1>1, <2>1
    <3>1. j + 1 \in 0..Len(u) /\ k < j + 1 /\ j \in 1..Len(t)
      BY <2>3, <3>0
    <3>2. Offer(n, s, u, j + 1) \in {0, Offer(n, s, u, k)} \/ Shut(n, u, k, j + 1)
      BY <2>1, <3>1 DEF InLine
    <3> QED BY <1>2, <2>1, <3>1, <3>2
  <2> QED BY <2>2, <2>3
<1>7. ASSUME u[1].name # n, Sought(n, s, u, v), v # 0
      PROVE  \E i \in 0..Len(t) : Offer(n, s, t, i) # 0 /\ ~Shut(n, t, i, Len(t))
  <2>1. PICK k \in 0..Len(u) : Offer(n, s, u, k) # 0 /\ ~Shut(n, u, k, Len(u))
    BY <1>7 DEF Sought
  <2>2. k # 1
    BY <1>7, <2>1 DEF Offer
  <2>3. Len(t) \in 0..Len(t) /\ Len(t) + 1 = Len(u)
    BY <1>1
  <2>4. CASE k = 0
    <3>1. ~Shut(n, t, 0, Len(t)) /\ 0 \in 0..Len(t)
      BY <1>4, <1>7, <2>1, <2>3, <2>4
    <3> QED BY <1>3, <2>1, <2>4, <3>1
  <2>5. CASE k # 0
    <3>1. k - 1 \in 1..Len(t) /\ k - 1 \in Nat /\ (k - 1) + 1 = k
      BY <1>1, <2>2, <2>5
    <3>2. Offer(n, s, t, k - 1) # 0
      BY <1>2, <2>1, <3>1
    <3>3. ~Shut(n, t, k - 1, Len(t))
      BY <1>1, <2>1, <2>3, <3>1
    <3> QED BY <3>1, <3>2, <3>3
  <2> QED BY <2>4, <2>5
<1> QED BY <1>6, <1>7 DEF t, Sought

\* frps takes a message about the proxy: it serves what it served already, which is
\* what is offered, or nothing if that is a CloseProxy.
LEMMA OneTaken ==
  ASSUME NEW n, NEW s \in Nat, NEW u \in Seq(Message), u # <<>>, NEW v \in Nat,
         u[1].name = n, InLine(n, s, u, v), NEW x \in Nat,
         x = IF u[1].ver = 0 \/ s = 0 THEN u[1].ver ELSE s
  PROVE  /\ InLine(n, x, Tail(u), v)
         /\ Sought(n, s, u, v) => Sought(n, x, Tail(u), v)
<1> DEFINE t == Tail(u)
<1>1. /\ Len(u) \in Nat \ {0} /\ Len(t) = Len(u) - 1 /\ u[1].ver \in Nat
      /\ \A i \in 1..Len(t) : t[i] = u[i + 1]
      /\ \A i \in Nat, j \in 0..Len(t) : Shut(n, t, i, j) <=> Shut(n, u, i + 1, j + 1)
  <2>1. /\ Len(u) \in Nat \ {0} /\ Len(t) = Len(u) - 1 /\ u[1] \in Message
        /\ \A i \in 1..Len(t) : t[i] = u[i + 1]
    BY Shorter
  <2>2. \A i \in Nat, j \in 0..Len(u) - 1 : Shut(n, t, i, j) <=> Shut(n, u, i + 1, j + 1)
    BY ShutEarlier
  <2>3. u[1].ver \in Nat
    BY <2>1 DEF Message
  <2> QED BY <2>1, <2>2, <2>3
<1> HIDE DEF t
<1>2. x = u[1].ver
  <2>1. CASE s # 0 /\ u[1].ver # 0
    <3>1. Offer(n, s, u, 0) = s /\ Offer(n, s, u, 1) = u[1].ver /\ 0 \in 0..Len(u) /\ 1 \in 0..Len(u)
      BY <1>1 DEF Offer
    <3>2. ~Shut(n, u, 0, 1)
      BY <2>1 DEF Shut
    <3>3. u[1].ver \in {0, s}
      BY <2>1, <3>1, <3>2 DEF InLine
    <3> QED BY <2>1, <3>3
  <2> QED BY <1>1, <2>1
<1>3. \A i \in 0..Len(t) : /\ i + 1 \in 0..Len(u) /\ i \in Nat
                           /\ Offer(n, x, t, i) = Offer(n, s, u, i + 1)
  <2> TAKE i \in 0..Len(t)
  <2>1. i + 1 \in 0..Len(u) /\ i \in Nat /\ i + 1 # 0 /\ (i # 0 => t[i] = u[i + 1])
    BY <1>1
  <2> QED BY <1>2, <2>1 DEF Offer
<1>4. Len(t) \in 0..Len(t) /\ Len(t) + 1 = Len(u)
  BY <1>1
<1>5. InLine(n, x, t, v)
  <2> SUFFICES ASSUME NEW i \in 0..Len(t), Offer(n, x, t, i) # 0
               PROVE  /\ \A j \in 0..Len(t) : i < j =>
                            Offer(n, x, t, j) \in {0, Offer(n, x, t, i)} \/ Shut(n, t, i, j)
                      /\ Offer(n, x, t, i) = v \/ Shut(n, t, i, Len(t))
    BY DEF InLine
  <2>1. i + 1 \in 0..Len(u) /\ Offer(n, s, u, i + 1) # 0 /\ i \in Nat
    BY <1>3
  <2>2. Offer(n, x, t, i) = v \/ Shut(n, t, i, Len(t))
    BY <1>1, <1>3, <1>4, <2>1 DEF InLine
  <2>3. ASSUME NEW j \in 0..Len(t), i < j
        PROVE  Offer(n, x, t, j) \in {0, Offer(n, x, t, i)} \/ Shut(n, t, i, j)
    <3>1. j + 1 \in 0..Len(u) /\ i + 1 < j + 1
      BY <1>3, <2>3
    <3>2. Offer(n, s, u, j + 1) \in {0, Offer(n, s, u, i + 1)} \/ Shut(n, u, i + 1, j + 1)
      BY <2>1, <3>1 DEF InLine
    <3> QED BY <1>1, <1>3, <2>1, <3>2
  <2> QED BY <2>2, <2>3
<1>6. ASSUME Sought(n, s, u, v), v # 0
      PROVE  \E i \in 0..Len(t) : Offer(n, x, t, i) # 0 /\ ~Shut(n, t, i, Len(t))
  <2>1. PICK k \in 0..Len(u) : Offer(n, s, u, k) # 0 /\ ~Shut(n, u, k, Len(u))
    BY <1>6 DEF Sought
  <2>2. CASE k = 0
    <3>1. u[1].ver # 0
      BY <1>1, <2>1, <2>2 DEF Shut
    <3>2. Offer(n, x, t, 0) # 0 /\ 0 \in 0..Len(t)
      BY <1>1, <1>2, <3>1 DEF Offer
    <3>3. Shut(n, u, 1, Len(u)) => Shut(n, u, 0, Len(u))
      BY <1>1 DEF Shut
    <3>4. ~Shut(n, t, 0, Len(t))
      BY <1>1, <1>4, <2>1, <2>2, <3>3
    <3> QED BY <3>2, <3>4
  <2>3. CASE k # 0
    <3>1. k - 1 \in 0..Len(t) /\ k - 1 \in Nat /\ (k - 1) + 1 = k
      BY <1>1, <2>3
    <3>2. Offer(n, x, t, k - 1) # 0
      BY <1>3, <2>1, <3>1
    <3>3. ~Shut(n, t, k - 1, Len(t))
      BY <1>1, <2>1, <1>4, <3>1
    <3> QED BY <3>1, <3>2, <3>3
  <2> QED BY <2>2, <2>3
<1> QED BY <1>5, <1>6 DEF t, Sought

\* Wrapper.Stop of several proxies: a CloseProxy for each, and nothing else.
LEMMA ClosesEach ==
  ASSUME IsFiniteSet(Name), NEW ns \in SUBSET Name
  PROVE  /\ closes(ns) \in Seq(Message)
         /\ \A i \in 1..Len(closes(ns)) : closes(ns)[i].ver = 0 /\ closes(ns)[i].name \in ns
         /\ \A n \in ns : \E i \in 1..Len(closes(ns)) : closes(ns)[i].name = n
<1> DEFINE S == {CloseProxy(n) : n \in ns}
           f == [n \in ns |-> CloseProxy(n)]
<1>1. IsFiniteSet(ns)
  BY FS_Subset
<1>2. f \in Surjection(ns, S)
  BY DEF Surjection
<1>3. IsFiniteSet(S)
  BY <1>1, <1>2, FS_Surjection
<1>4. S \subseteq Message /\ \A m \in S : m.ver = 0 /\ m.name \in ns
  BY DEF CloseProxy, Message
<1>5. \A n \in ns : CloseProxy(n) \in S /\ CloseProxy(n).name = n
  BY DEF CloseProxy
<1> HIDE DEF S, f
<1>6. Cardinality(S) \in Nat /\ ExistsBijection(1..Cardinality(S), S)
  BY <1>3, FS_CardinalityType
<1>7. \E g \in [1..Cardinality(S) -> S] : IsInjective(g)
  BY <1>6 DEF ExistsBijection, Bijection, Injection
<1>8. PICK g : g = SetToSeq(S)
  OBVIOUS
<1>9. g \in [1..Cardinality(S) -> S] /\ IsInjective(g)
  BY <1>7, <1>8 DEF SetToSeq
<1>10. g \in Injection(1..Cardinality(S), S)
  BY <1>9 DEF Injection
<1>11. IsFiniteSet(1..Cardinality(S)) /\ Cardinality(1..Cardinality(S)) = Cardinality(S)
  BY <1>6, FS_Interval
<1>12. g \in Surjection(1..Cardinality(S), S)
  BY <1>3, <1>10, <1>11, FS_Injection
<1>13. \A m \in S : \E i \in 1..Cardinality(S) : g[i] = m
  BY <1>12 DEF Surjection
<1>14. g \in Seq(S) /\ Len(g) = Cardinality(S)
  BY <1>6, <1>9
<1>15. g \in Seq(Message)
  BY <1>4, <1>14
<1>16. \A i \in 1..Len(g) : g[i] \in S
  BY <1>9, <1>14
<1>17. closes(ns) = g
  BY <1>8 DEF closes, S
<1> QED BY <1>4, <1>5, <1>13, <1>14, <1>15, <1>16, <1>17

-----------------------------------------------------------------------------
(* The controls of frpc: a step keeps the invariant.                       *)

LEMMA CtlFacts ==
  /\ \A c \in Ctl : c \in Nat /\ c # None
  /\ \A u \in Setups : /\ u.cfgs \in Seq(Config) /\ u.refs \in Nat /\ Len(u.cfgs) \in Nat \ {0}
                       /\ \A k \in 1..Len(u.cfgs) : /\ u.cfgs[k].p \in [Name -> Nat]
                                                    /\ u.cfgs[k].v \in BOOLEAN
<1>1. \A c \in Ctl : c \in Nat /\ c # None
  <2>1. Cardinality(Ctl) \in Nat
    BY ClientAssumption, FS_CardinalityType DEF ClientAssumption
  <2>2. PICK k \in Nat : k = Cardinality(Ctl)
    BY <2>1
  <2> QED BY <2>2, ClientAssumption DEF ClientAssumption
<1>2. ASSUME NEW u \in Setups
      PROVE  /\ u.cfgs \in Seq(Config) /\ u.refs \in Nat /\ Len(u.cfgs) \in Nat \ {0}
             /\ \A k \in 1..Len(u.cfgs) : /\ u.cfgs[k].p \in [Name -> Nat]
                                          /\ u.cfgs[k].v \in BOOLEAN
  <2>1. u \in Setup /\ u.cfgs # <<>>
    BY ClientAssumption DEF ClientAssumption
  <2>2. u.cfgs \in Seq(Config) /\ u.refs \in Nat
    BY <2>1 DEF Setup
  <2>3. PICK s : s = u.cfgs
    OBVIOUS
  <2>4. Len(s) \in Nat \ {0} /\ \A k \in 1..Len(s) : s[k] \in Config
    BY <2>1, <2>2, <2>3
  <2> QED BY <2>2, <2>3, <2>4 DEF Config
<1> QED BY <1>1, <1>2

\* A set of controls has a first one.
LEMMA FirstOf ==
  ASSUME NEW S \in SUBSET Ctl, S # {}
  PROVE  \E c \in S : \A d \in S : c <= d
<1> DEFINE D(x) == {y \in S : y < x}
           F == {D(x) : x \in S}
           R == StrictSubsetOrdering(S)
<1>1. F \subseteq FiniteSubsetsOf(S) /\ F # {}
  <2>1. IsFiniteSet(S)
    BY ClientAssumption, FS_Subset DEF ClientAssumption
  <2>2. \A x \in S : D(x) \subseteq S /\ IsFiniteSet(D(x))
    BY <2>1, FS_Subset
  <2> QED BY <2>2 DEF FiniteSubsetsOf
<1>2. IsWellFoundedOn(R, FiniteSubsetsOf(S))
  BY FS_StrictSubsetOrderingWellFounded
<1> HIDE DEF R
<1>3. \E d \in F : \A e \in F : ~(<<e, d>> \in R)
  <2> HIDE DEF F
  <2> QED BY <1>1, <1>2, WFMin
<1>4. PICK x \in S : \A y \in S : ~(<<D(y), D(x)>> \in R)
  BY <1>3
<1>5. \A z \in S : z \in Int
  BY CtlFacts
<1>6. ASSUME NEW y \in S, y < x PROVE FALSE
  <2>1. D(y) \subseteq D(x) /\ y \in D(x) /\ y \notin D(y)
    <3>1. \A z \in S : z < y => z < x
      BY <1>5, <1>6
    <3>2. ~(y < y)
      BY <1>5
    <3> QED BY <1>6, <3>1, <3>2
  <2>2. D(y) # D(x) /\ D(y) \in SUBSET S /\ D(x) \in SUBSET S
    BY <2>1
  <2>3. <<D(y), D(x)>> \in R
    <3> HIDE DEF D
    <3> QED BY <2>1, <2>2 DEF R, StrictSubsetOrdering
  <2> QED BY <1>4, <2>3
<1>7. \A y \in S : x <= y
  BY <1>5, <1>6
<1> QED BY <1>7

LEMMA FreshIs ==
  ASSUME \E c \in Ctl : wk[c] = "none"
  PROVE  Fresh \in Ctl /\ wk[Fresh] = "none" /\ \A d \in Ctl : wk[d] = "none" => Fresh <= d
<1>1. PICK S : S = {c \in Ctl : wk[c] = "none"}
  OBVIOUS
<1>2. S \in SUBSET Ctl /\ S # {}
  BY <1>1
<1>3. \E c \in S : \A d \in S : c <= d
  BY <1>2, FirstOf
<1> QED BY <1>1, <1>3 DEF Fresh

LEMMA CtlInvInit == Init => CtlInv
<1> SUFFICES ASSUME Init PROVE CtlInv
  OBVIOUS
<1>1. use \in Setup /\ use \in Setups
  BY ClientAssumption DEF ClientAssumption, Init
<1>2. ClientTypes
  <2>1. left \in [drops: Nat, refs: Nat, bads: Nat, late: Nat] /\ left.refs <= use.refs
    BY <1>1 DEF Init, Setup
  <2>2. cfg \in 1..Len(use.cfgs)
    BY <1>1, CtlFacts DEF Init
  <2>3. /\ ctl \in Ctl \cup {None} /\ port \in Ctl \cup {None}
        /\ stop \in {"no", "cancelled", "sources", "done"} /\ ses \subseteq Ctl
    BY DEF Init
  <2>4. /\ wk \in [Ctl -> {"none", "run", "pm", "vm", "done"}]
        /\ vm \in [Ctl -> [cfg: BOOLEAN, has: BOOLEAN, keep: BOOLEAN, stopped: BOOLEAN]]
    BY DEF Init, NoVisitor
  <2>5. srv \in [Ctl -> [Name -> Nat]] /\ overlap \in BOOLEAN
    BY DEF Init, Served
  <2>6. NoWrapper \in Wrapper
    BY DEF NoWrapper, Wrapper, Phase
  <2>7. pm \in [Ctl -> [Name -> Wrapper]]
    BY <2>6 DEF Init
  <2>9. /\ lg \in [at: LoginAt, c: Ctl \cup {None}, cfg: Nat, first: BOOLEAN]
        /\ rl \in [at: {"idle", "get", "vm", "pm", "panic"}, c: Ctl \cup {None}]
    BY <1>1 DEF Init, LoginAt, Setup
  <2>8. up \in [Ctl -> Seq(Message)] /\ down \in [Ctl -> Seq(Verdict)]
    BY DEF Init
  <2> QED BY <1>1, <2>1, <2>2, <2>3, <2>4, <2>5, <2>7, <2>8, <2>9 DEF ClientTypes
<1>3. OrderOK
  BY DEF Init, OrderOK, LoggingIn
<1>4. ReloadOK
  BY DEF Init, ReloadOK
<1>5. OldOK
  BY DEF Init, OldOK
<1>6. LinesOK
  BY DEF Init, LinesOK, NoWrapper
<1> QED BY <1>2, <1>3, <1>4, <1>5, <1>6 DEF CtlInv

\* The invariant is what the run checks.
LEMMA CtlInvSound == CtlInv => ControlSound
<1> SUFFICES ASSUME CtlInv PROVE ControlSound
  OBVIOUS
<1>1. ClientTypeOK
  BY DEF CtlInv, ClientTypes, LinesOK, ClientTypeOK, Wrapper
<1>2. NoNilControl
  BY DEF CtlInv, ReloadOK, NoNilControl
<1>3. ASSUME NEW c \in ses, NEW n \in Name, quietUp(c, n)
      PROVE  /\ pm[c][n] \in Wrapper /\ srv[c][n] \in Nat
             /\ \A i \in 0..Len(up[c]) : Offer(n, srv[c][n], up[c], i) # 0 => i = 0
             /\ Offer(n, srv[c][n], up[c], 0) = srv[c][n] /\ 0 \in 0..Len(up[c])
             /\ ~Shut(n, up[c], 0, Len(up[c]))
  <2>1. c \in Ctl /\ up[c] \in Seq(Message)
    BY DEF CtlInv, ClientTypes
  <2>2. PICK u \in Seq(Message) : u = up[c]
    BY <2>1
  <2>3. Len(u) \in Nat /\ \A i \in 1..Len(u) : u[i].name # n
    BY <1>3, <2>2 DEF quietUp
  <2>4. pm[c][n] \in Wrapper /\ srv[c][n] \in Nat
    BY <2>1 DEF CtlInv, ClientTypes
  <2>5. \A i \in 0..Len(u) : Offer(n, srv[c][n], u, i) # 0 => i = 0
    BY <2>3 DEF Offer
  <2>6. Offer(n, srv[c][n], u, 0) = srv[c][n]
    BY DEF Offer
  <2>7. ~Shut(n, u, 0, Len(u))
    BY <2>3 DEF Shut
  <2> QED BY <2>2, <2>3, <2>4, <2>5, <2>6, <2>7
<1>4. ServedIsWanted
  <2> SUFFICES ASSUME NEW c \in ses, NEW n \in Name, quietUp(c, n), srv[c][n] # 0
               PROVE  pm[c][n].ver = srv[c][n] /\ pm[c][n].ph \notin {"new", "failed"}
    BY DEF ServedIsWanted
  <2>1. srv[c][n] = Wants(pm[c][n])
    BY <1>3 DEF CtlInv, LinesOK, InLine
  <2> QED BY <2>1 DEF Wants
<1>5. RunningIsServed
  <2> SUFFICES ASSUME NEW c \in ses, NEW n \in Name,
                      use.refs = 0, quiet(c, n), pm[c][n].ph = "running"
               PROVE  srv[c][n] = pm[c][n].ver
    BY DEF RunningIsServed
  <2>1. quietUp(c, n) /\ c \in Ctl
    BY DEF quiet, CtlInv, ClientTypes
  <2>2. pm[c][n].ver # 0 /\ Wants(pm[c][n]) = pm[c][n].ver
    BY <2>1 DEF CtlInv, LinesOK, Wants
  <2>3. srv[c][n] # 0
    BY <1>3, <2>1, <2>2 DEF CtlInv, LinesOK, Sought
  <2>4. srv[c][n] = Wants(pm[c][n])
    BY <1>3, <2>1, <2>3 DEF CtlInv, LinesOK, InLine
  <2> QED BY <2>2, <2>4
<1>6. OldHoldsNothing
  BY DEF CtlInv, OldOK, OldHoldsNothing
<1> QED BY <1>1, <1>2, <1>4, <1>5, <1>6 DEF ControlSound

\* Lines depend on what is sent and on the wrappers alone.
LEMMA LinesSame ==
  LinesOK /\ UNCHANGED <<use, ses, pm, wire>> => LinesOK'
BY DEF LinesOK, wire

\* A step of the login, of a reload or of the stop that touches no control.
LEMMA QuietStep ==
  CtlInv /\ UNCHANGED <<use, ctl, ses, wk, mgrs, wire>> /\ ClientTypes' /\ ReloadOK'
    /\ (overlap => overlap') /\ (stop' # "done" => stop # "done")
    /\ (lg' = lg \/ (~LoggingIn /\ lg'.at \notin {"start", "pm", "vm", "swap"}))
  => CtlInv'
<1> SUFFICES ASSUME CtlInv, UNCHANGED <<use, ctl, ses, wk, mgrs, wire>>, ClientTypes', ReloadOK',
                    overlap => overlap', stop' # "done" => stop # "done",
                    lg' = lg \/ (~LoggingIn /\ lg'.at \notin {"start", "pm", "vm", "swap"})
             PROVE  CtlInv'
  OBVIOUS
<1>1. OrderOK'
  <2>1. OrderOK /\ pm' = pm
    BY DEF CtlInv, mgrs
  <2>2. CASE lg' = lg
    BY <2>1, <2>2 DEF OrderOK, LoggingIn
  <2>3. CASE ~LoggingIn /\ lg'.at \notin {"start", "pm", "vm", "swap"}
    <3>1. lg.at # "start"
      BY <2>3 DEF LoggingIn
    <3> QED BY <2>1, <2>3, <3>1 DEF OrderOK, LoggingIn
  <2> QED BY <2>2, <2>3
<1>2. OldOK'
  BY DEF CtlInv, OldOK, mgrs
<1>3. LinesOK'
  BY LinesSame DEF CtlInv, mgrs
<1> QED BY <1>1, <1>2, <1>3 DEF CtlInv

LEMMA QuietSteps ==
  CtlInv /\ (loopLogin \/ DialFails \/ CheckControl \/ keepControllerWorking \/ ControlDone
             \/ Cancel \/ StopSources \/ ReloadGet \/ Reload)
  => CtlInv'
<1> SUFFICES ASSUME CtlInv PROVE (loopLogin \/ DialFails \/ CheckControl \/ keepControllerWorking
                      \/ ControlDone \/ Cancel \/ StopSources \/ ReloadGet \/ Reload) => CtlInv'
  OBVIOUS
<1>1. CASE loopLogin \/ CheckControl \/ keepControllerWorking \/ ControlDone
  <2>1. /\ UNCHANGED <<use, left, cfg, ctl, rl, stop, ses, wk, mgrs, wire, overlap>>
        /\ lg.at \in {"dial", "check", "keep", "done"}
    BY <1>1 DEF loopLogin, CheckControl, keepControllerWorking, ControlDone, loginOnly
  <2>2. /\ lg' \in [at: LoginAt, c: Ctl \cup {None}, cfg: Nat, first: BOOLEAN]
        /\ lg'.at \in {"dialing", "check", "exit", "keep", "panic", "done", "dial"}
    <3>1. lg \in [at: LoginAt, c: Ctl \cup {None}, cfg: Nat, first: BOOLEAN] /\ ctl \in Ctl \cup {None}
      BY DEF CtlInv, ClientTypes
    <3>2. PICK a \in {"dialing", "check", "exit", "keep", "panic", "done", "dial"} :
            lg' = [lg EXCEPT !.at = a] \/ lg' = [lg EXCEPT !.at = a, !.c = ctl]
      BY <1>1 DEF loopLogin, CheckControl, keepControllerWorking, ControlDone, Goto
    <3> QED BY <3>1, <3>2 DEF LoginAt
  <2>3. ClientTypes'
    BY <2>1, <2>2 DEF CtlInv, ClientTypes, mgrs, wire
  <2>4. ReloadOK'
    BY <2>1, <2>2 DEF CtlInv, ReloadOK, LoggingIn
  <2> QED BY <2>1, <2>2, <2>3, <2>4, QuietStep DEF LoggingIn
<1>2. CASE DialFails
  <2>1. /\ UNCHANGED <<use, cfg, ctl, rl, ses, wk, mgrs, wire, overlap>> /\ lg.at = "dialing"
        /\ stop' \in {stop, "cancelled"} /\ (stop' # stop => stop = "no")
    BY <1>2 DEF DialFails
  <2>2. /\ lg' \in [at: LoginAt, c: Ctl \cup {None}, cfg: Nat, first: BOOLEAN]
        /\ lg'.at = "dial"
    BY <1>2 DEF DialFails, Goto, CtlInv, ClientTypes, LoginAt
  <2>3. left' \in [drops: Nat, refs: Nat, bads: Nat, late: Nat] /\ left'.refs = left.refs
    <3>1. left \in [drops: Nat, refs: Nat, bads: Nat, late: Nat]
      BY DEF CtlInv, ClientTypes
    <3>2. left' = left \/ (left.drops > 0 /\ left' = [left EXCEPT !.drops = @ - 1])
      BY <1>2 DEF DialFails, Left
    <3> QED BY <3>1, <3>2
  <2>4. ClientTypes'
    BY <2>1, <2>2, <2>3 DEF CtlInv, ClientTypes, mgrs, wire
  <2>5. ReloadOK'
    BY <2>1, <2>2 DEF CtlInv, ReloadOK, LoggingIn
  <2> QED BY <2>1, <2>2, <2>4, <2>5, QuietStep DEF LoggingIn, CtlInv, ClientTypes
<1>3. CASE Cancel
  <2>1. /\ UNCHANGED <<use, left, cfg, ctl, lg, rl, ses, wk, mgrs, wire, overlap>>
        /\ stop = "no" /\ stop' = "cancelled"
    BY <1>3 DEF Cancel
  <2>2. ClientTypes'
    BY <2>1 DEF CtlInv, ClientTypes, mgrs, wire
  <2>3. ReloadOK'
    BY <2>1 DEF CtlInv, ReloadOK, LoggingIn
  <2> QED BY <2>1, <2>2, <2>3, QuietStep
<1>4. CASE StopSources
  <2>1. /\ UNCHANGED <<use, left, cfg, ctl, lg, rl, ses, wk, mgrs, wire, overlap>>
        /\ stop = "cancelled" /\ stop' = "sources" /\ rl.at = "idle"
    BY <1>4 DEF StopSources
  <2>2. ClientTypes'
    BY <2>1 DEF CtlInv, ClientTypes, mgrs, wire
  <2>3. ReloadOK'
    BY <2>1 DEF CtlInv, ReloadOK, LoggingIn
  <2> QED BY <2>1, <2>2, <2>3, QuietStep
<1>5. CASE ReloadGet
  <2>1. /\ UNCHANGED <<use, left, cfg, ctl, lg, stop, ses, wk, mgrs, wire, overlap>>
        /\ rl.at = "get"
    BY <1>5 DEF ReloadGet
  <2>2. /\ rl' \in [at: {"idle", "get", "vm", "pm", "panic"}, c: Ctl \cup {None}]
        /\ rl'.at = IF ctl = None THEN "idle" ELSE "vm"
    BY <1>5 DEF ReloadGet, CtlInv, ClientTypes
  <2>3. ClientTypes'
    BY <2>1, <2>2 DEF CtlInv, ClientTypes, mgrs, wire
  <2>4. ReloadOK'
    BY <2>1, <2>2 DEF CtlInv, ReloadOK, LoggingIn
  <2> QED BY <2>1, <2>3, <2>4, QuietStep
<1>6. CASE Reload
  <2>1. /\ UNCHANGED <<use, left, ctl, lg, stop, ses, wk, mgrs, wire>>
        /\ rl.at = "idle" /\ stop \in {"no", "cancelled"} /\ cfg < Len(use.cfgs) /\ cfg' = cfg + 1
        /\ overlap' = (overlap \/ LoggingIn)
    BY <1>6 DEF Reload
  <2>2. /\ rl' \in [at: {"idle", "get", "vm", "pm", "panic"}, c: Ctl \cup {None}]
        /\ rl'.at = "get"
    BY <1>6 DEF Reload, CtlInv, ClientTypes
  <2>3. cfg' \in 1..Len(use.cfgs)
    BY <2>1, CtlFacts DEF CtlInv, ClientTypes
  <2>4. overlap' \in BOOLEAN /\ (overlap => overlap')
    BY <2>1 DEF CtlInv, ClientTypes, LoggingIn
  <2>5. ClientTypes'
    BY <2>1, <2>2, <2>3, <2>4 DEF CtlInv, ClientTypes, mgrs, wire
  <2>6. ReloadOK'
    BY <2>1, <2>2 DEF CtlInv, ReloadOK, LoggingIn
  <2> QED BY <2>1, <2>4, <2>5, <2>6, QuietStep
<1> QED BY <1>1, <1>2, <1>3, <1>4, <1>5, <1>6

\* A new connection.
LEMMA DialKeeps == CtlInv /\ Dial => CtlInv'
<1> SUFFICES ASSUME CtlInv, Dial PROVE CtlInv'
  OBVIOUS
<1>1. PICK f : f = Fresh
  OBVIOUS
<1>2. /\ lg.at = "dialing" /\ lg' = [lg EXCEPT !.at = "start", !.c = f, !.cfg = cfg]
      /\ ses' = ses \cup {f} /\ overlap' = (overlap \/ rl.at # "idle")
      /\ UNCHANGED <<use, left, cfg, ctl, rl, stop, wk, mgrs, wire>>
  BY <1>1 DEF Dial
<1>3. f \in Ctl /\ wk[f] = "none" /\ \A d \in Ctl : wk[d] = "none" => f <= d
  BY <1>1, FreshIs DEF Dial
<1>4. /\ lg' \in [at: LoginAt, c: Ctl \cup {None}, cfg: Nat, first: BOOLEAN]
      /\ lg'.at = "start" /\ lg'.c = f /\ lg'.cfg = cfg
  <2>1. lg \in [at: LoginAt, c: Ctl \cup {None}, cfg: Nat, first: BOOLEAN] /\ cfg \in 1..Len(use.cfgs)
    BY DEF CtlInv, ClientTypes
  <2>2. cfg \in Nat
    BY <2>1
  <2> QED BY <1>2, <1>3, <2>1, <2>2 DEF LoginAt
<1>5. overlap' \in BOOLEAN
  BY <1>2 DEF CtlInv, ClientTypes
<1>6. ClientTypes'
  BY <1>2, <1>3, <1>4, <1>5 DEF CtlInv, ClientTypes, mgrs, wire
<1>7. ~LoggingIn /\ LoggingIn'
  BY <1>2, <1>4 DEF LoggingIn
<1>8. \A d \in Ctl : d \in Nat
  BY CtlFacts
<1>9. /\ \A d \in Ctl : d < f => wk[d] # "none"
      /\ \A d \in Ctl : f < d => wk[d] = "none"
      /\ ctl # None => ctl < f
  <2>1. \A d \in Ctl : d < f => wk[d] # "none"
    BY <1>3, <1>8
  <2>2. \A d \in Ctl : f < d => wk[d] = "none"
    BY <1>3 DEF CtlInv, OrderOK
  <2>3. ctl # None => ctl < f
    <3>1. ctl # None => ctl \in Ctl /\ wk[ctl] # "none"
      BY DEF CtlInv, ClientTypes, OrderOK
    <3>2. ctl # None => ~(f < ctl) /\ ctl # f
      BY <1>3, <2>2, <3>1
    <3> QED BY <1>3, <1>8, <3>1, <3>2
  <2> QED BY <2>1, <2>2, <2>3
<1>10. OrderOK'
  <2>1. OrderOK /\ cfg \in 1..Len(use.cfgs) /\ lg.at # "start"
    BY <1>2 DEF CtlInv, ClientTypes
  <2>2. wk' = wk /\ ctl' = ctl /\ stop' = stop /\ pm' = pm /\ use' = use
    BY <1>2 DEF mgrs
  <2>3. stop # "done" => \A d \in Ctl : wk[d] # "none" => ctl # None /\ d <= ctl
    BY <1>7, <2>1 DEF OrderOK
  <2>4. \A d \in ses' : wk[d] # "none" \/ (lg'.at = "start" /\ d = lg'.c)
    BY <1>2, <1>4, <2>1 DEF OrderOK
  <2> QED BY <1>3, <1>4, <1>9, <2>1, <2>2, <2>3, <2>4 DEF OrderOK
<1>11. ReloadOK'
  BY <1>2, <1>7 DEF CtlInv, ReloadOK
<1>12. OldOK'
  <2>1. ctl # None => ~(f < ctl)
    <3>1. ctl # None => ctl \in Ctl
      BY DEF CtlInv, ClientTypes
    <3> QED BY <1>3, <1>8, <1>9, <3>1
  <2> QED BY <1>2, <2>1 DEF CtlInv, OldOK, mgrs
<1>13. LinesOK'
  <2>1. /\ \A d \in Ctl : d \notin ses => srv[d] = Served /\ up[d] = <<>> /\ down[d] = <<>>
        /\ pm' = pm /\ srv' = srv /\ up' = up /\ down' = down /\ use' = use
    BY <1>2 DEF CtlInv, LinesOK, mgrs, wire
  <2>2. ASSUME NEW n \in Name, f \notin ses
        PROVE  /\ InLine(n, srv[f][n], up[f], Wants(pm[f][n]))
               /\ Sought(n, srv[f][n], up[f], Wants(pm[f][n]))
    <3>1. srv[f][n] = 0 /\ up[f] = <<>> /\ Wants(pm[f][n]) = 0
      BY <1>3, <2>1, <2>2 DEF CtlInv, OrderOK, NoWrapper, Served, Wants
    <3>2. \A i \in 0..Len(up[f]) : i = 0
      BY <3>1
    <3> QED BY <3>1, <3>2 DEF InLine, Sought, Offer
  <2> QED BY <1>2, <2>1, <2>2 DEF CtlInv, LinesOK
<1> QED BY <1>6, <1>10, <1>11, <1>12, <1>13 DEF CtlInv

LEMMA RunWorkerKeeps == CtlInv /\ RunWorker => CtlInv'
<1> SUFFICES ASSUME CtlInv, RunWorker PROVE CtlInv'
  OBVIOUS
<1>1. /\ lg.at = "start" /\ lg' = [lg EXCEPT !.at = "pm"] /\ wk' = [wk EXCEPT ![lg.c] = "run"]
      /\ UNCHANGED <<use, left, cfg, ctl, rl, stop, ses, mgrs, wire, overlap>>
  BY DEF RunWorker, Goto
<1>2. /\ lg' \in [at: LoginAt, c: Ctl \cup {None}, cfg: Nat, first: BOOLEAN]
      /\ lg'.at = "pm" /\ lg'.c = lg.c /\ lg'.cfg = lg.cfg
  BY <1>1 DEF CtlInv, ClientTypes, LoginAt
<1>3. PICK f : f = lg.c
  OBVIOUS
<1>4. LoggingIn /\ LoggingIn'
  BY <1>1, <1>2 DEF LoggingIn
<1>5. f \in Ctl /\ wk[f] = "none" /\ wk \in [Ctl -> {"none", "run", "pm", "vm", "done"}]
  BY <1>1, <1>3, <1>4 DEF CtlInv, OrderOK, ClientTypes
<1>6. /\ wk' \in [Ctl -> {"none", "run", "pm", "vm", "done"}]
      /\ wk'[f] = "run" /\ \A d \in Ctl : d # f => wk'[d] = wk[d]
  BY <1>1, <1>3, <1>5
<1>7. ClientTypes'
  BY <1>1, <1>2, <1>6 DEF CtlInv, ClientTypes, mgrs, wire
<1>8. OrderOK'
  <2>1. OrderOK /\ \A d \in Ctl : d \in Nat
    BY CtlFacts DEF CtlInv
  <2>2. ctl' = ctl /\ stop' = stop /\ pm' = pm /\ use' = use /\ ses' = ses
    BY <1>1 DEF mgrs
  <2>3. \A c, d \in Ctl : c < d /\ wk'[d] # "none" => wk'[c] # "none"
    <3> SUFFICES ASSUME NEW c \in Ctl, NEW d \in Ctl, c < d, wk'[d] # "none" PROVE wk'[c] # "none"
      OBVIOUS
    <3>1. CASE d = f
      BY <1>3, <1>4, <1>6, <2>1, <3>1 DEF OrderOK
    <3>2. CASE d # f
      BY <1>6, <2>1, <3>2 DEF OrderOK
    <3> QED BY <3>1, <3>2
  <2>4. ctl # None => wk'[ctl] # "none"
    BY <1>6, <2>1 DEF OrderOK, CtlInv, ClientTypes
  <2>5. /\ lg'.c \in Ctl /\ lg'.cfg \in 1..Len(use'.cfgs) /\ wk'[lg'.c] # "none" /\ lg'.at # "start"
        /\ \A d \in Ctl : d < lg'.c => wk'[d] # "none"
        /\ \A d \in Ctl : lg'.c < d => wk'[d] = "none"
        /\ ctl # None => ctl < lg'.c
    <3>1. lg.c \in Ctl /\ lg.cfg \in 1..Len(use.cfgs) /\ (ctl # None => ctl < lg.c)
      BY <1>4, <2>1 DEF OrderOK
    <3>2. \A d \in Ctl : d < f => wk'[d] # "none" /\ d # f
      BY <1>3, <1>4, <1>5, <1>6, <2>1 DEF OrderOK
    <3>3. \A d \in Ctl : f < d => wk'[d] = "none"
      <4> TAKE d \in Ctl
      <4>1. f < d => d # f
        BY <2>1, <1>5
      <4> QED BY <1>3, <1>4, <1>6, <2>1, <4>1 DEF OrderOK
    <3> QED BY <1>2, <1>3, <1>6, <2>2, <3>1, <3>2, <3>3
  <2>6. stop # "done" =>
          \A d \in Ctl : wk'[d] # "none" /\ ~(LoggingIn' /\ d = lg'.c) => ctl # None /\ d <= ctl
    BY <1>2, <1>3, <1>4, <1>6, <2>1 DEF OrderOK
  <2>7. \A c \in ses : wk'[c] # "none"
    <3>1. \A c \in ses : c \in Ctl /\ (wk[c] # "none" \/ c = f)
      BY <1>3, <2>1 DEF OrderOK, CtlInv, ClientTypes
    <3> QED BY <1>6, <3>1
  <2>8. \A c \in Ctl : wk'[c] = "none" => \A n \in Name : pm[c][n] = NoWrapper
    BY <1>6, <2>1 DEF OrderOK
  <2> QED BY <2>2, <2>3, <2>4, <2>5, <2>6, <2>7, <2>8 DEF OrderOK
<1>9. ReloadOK'
  BY <1>1, <1>4, <1>6, <1>5 DEF CtlInv, ReloadOK
<1>10. OldOK'
  BY <1>1 DEF CtlInv, OldOK, mgrs
<1>11. LinesOK'
  BY <1>1, LinesSame DEF CtlInv, mgrs
<1> QED BY <1>7, <1>8, <1>9, <1>10, <1>11 DEF CtlInv

LEMMA NewWrapperIs ==
  ASSUME NEW n \in Name, NEW v \in Nat
  PROVE  /\ NewWrapper(n, v) \in Wrapper
         /\ NewWrapper(n, v).ver = v /\ NewWrapper(n, v).ph = "new"
<1>1. NewWrapper(n, v).ver = v /\ NewWrapper(n, v).ph = "new"
  BY DEF NewWrapper, NoWrapper
<1>2. CASE n \in Monitored
  <2>1. NewWrapper(n, v) = [NoWrapper EXCEPT !.ver = v, !.sick = TRUE]
    BY <1>2, Zenon DEF NewWrapper
  <2>2. [NoWrapper EXCEPT !.ver = v, !.sick = TRUE] \in Wrapper
    BY DEF NoWrapper, Wrapper, Phase
  <2> QED BY <1>1, <2>1, <2>2
<1>3. CASE n \notin Monitored
  <2>1. (n \in Monitored) = FALSE
    BY <1>3
  <2>2. NewWrapper(n, v) = [NoWrapper EXCEPT !.ver = v, !.sick = FALSE]
    BY <2>1, Zenon DEF NewWrapper
  <2>3. [NoWrapper EXCEPT !.ver = v, !.sick = FALSE] \in Wrapper
    BY DEF NoWrapper, Wrapper, Phase
  <2> QED BY <1>1, <2>2, <2>3
<1> QED BY <1>2, <1>3

\* proxy.Manager.UpdateAll: what is withdrawn is closed before anything is asked again.
LEMMA UpdateKeepsLines ==
  ASSUME NEW c \in Ctl, NEW k \in 1..Len(use.cfgs)
  PROVE  CtlInv /\ UpdateAll(c, k) /\ UNCHANGED <<use, ses, down, srv>> =>
           /\ LinesOK'
           /\ pm' \in [Ctl -> [Name -> Wrapper]] /\ up' \in [Ctl -> Seq(Message)]
           /\ \A d \in Ctl : d # c => pm'[d] = pm[d]
<1> SUFFICES ASSUME CtlInv, UpdateAll(c, k), UNCHANGED <<use, ses, down, srv>>
             PROVE  /\ LinesOK'
                    /\ pm' \in [Ctl -> [Name -> Wrapper]] /\ up' \in [Ctl -> Seq(Message)]
                    /\ \A d \in Ctl : d # c => pm'[d] = pm[d]
  OBVIOUS
<1>1. PICK p : p = Cfg(k).p
  OBVIOUS
<1>2. p \in [Name -> Nat]
  BY <1>1, CtlFacts DEF Cfg, CtlInv, ClientTypes
<1>3. PICK stale : stale = {n \in Name : pm[c][n].ver \notin {0, p[n]}}
  OBVIOUS
<1>4. PICK q : q = closes(stale)
  OBVIOUS
<1>5. /\ q \in Seq(Message)
      /\ \A i \in 1..Len(q) : q[i].ver = 0 /\ q[i].name \in stale
      /\ \A n \in stale : \E i \in 1..Len(q) : q[i].name = n
  <2>1. stale \in SUBSET Name /\ IsFiniteSet(Name)
    BY <1>3, ClientAssumption DEF ClientAssumption
  <2> QED BY <1>4, <2>1, ClosesEach
<1>6. PICK P : P = [n \in Name |-> IF p[n] = 0 THEN NoWrapper
                                   ELSE IF pm[c][n].ver = p[n] THEN pm[c][n]
                                   ELSE NewWrapper(n, p[n])]
  OBVIOUS
<1>7. pm' = [pm EXCEPT ![c] = P] /\ up' = IF c \in ses THEN [up EXCEPT ![c] = @ \o q] ELSE up
  BY <1>1, <1>3, <1>4, <1>6 DEF UpdateAll, Send
<1>8. /\ pm \in [Ctl -> [Name -> Wrapper]] /\ up \in [Ctl -> Seq(Message)]
      /\ srv \in [Ctl -> [Name -> Nat]] /\ ses \subseteq Ctl /\ LinesOK
  BY DEF CtlInv, ClientTypes
<1>9. ASSUME NEW n \in Name
      PROVE  /\ P[n] \in Wrapper /\ (P[n].ver = 0 => P[n].ph = "new")
             /\ n \in stale => Wants(P[n]) = 0
             /\ n \notin stale => Wants(P[n]) = Wants(pm[c][n])
  <2>1. pm[c][n] \in Wrapper /\ p[n] \in Nat
    BY <1>2, <1>8
  <2>2. NoWrapper \in Wrapper /\ NoWrapper.ver = 0 /\ NoWrapper.ph = "new"
    BY DEF NoWrapper, Wrapper, Phase
  <2>3. /\ NewWrapper(n, p[n]) \in Wrapper /\ NewWrapper(n, p[n]).ver = p[n]
        /\ NewWrapper(n, p[n]).ph = "new"
    BY <2>1, NewWrapperIs
  <2>4. pm[c][n].ver = 0 => pm[c][n].ph = "new"
    BY <1>8 DEF LinesOK
  <2>5. CASE p[n] = 0
    <3>1. P[n] = NoWrapper /\ (n \in stale <=> pm[c][n].ver # 0)
      BY <1>3, <1>6, <2>5
    <3> QED BY <2>2, <2>4, <3>1 DEF Wants
  <2>6. CASE p[n] # 0 /\ pm[c][n].ver = p[n]
    <3>1. P[n] = pm[c][n] /\ n \notin stale
      BY <1>3, <1>6, <2>6
    <3> QED BY <2>1, <2>4, <3>1
  <2>7. CASE p[n] # 0 /\ pm[c][n].ver # p[n]
    <3>1. P[n] = NewWrapper(n, p[n]) /\ (n \in stale <=> pm[c][n].ver # 0)
      BY <1>3, <1>6, <2>7
    <3>2. P[n] \in Wrapper /\ P[n].ver # 0 /\ Wants(P[n]) = 0
      BY <2>3, <2>7, <3>1 DEF Wants
    <3>3. n \notin stale => Wants(pm[c][n]) = 0
      BY <2>4, <3>1 DEF Wants
    <3> QED BY <3>2, <3>3
  <2> QED BY <2>5, <2>6, <2>7
<1>10. P \in [Name -> Wrapper]
  BY <1>6, <1>9
<1>11. /\ pm' \in [Ctl -> [Name -> Wrapper]] /\ pm'[c] = P
       /\ \A d \in Ctl : d # c => pm'[d] = pm[d]
  BY <1>7, <1>8, <1>10
<1>12. up' \in [Ctl -> Seq(Message)]
  <2>1. up[c] \o q \in Seq(Message)
    BY <1>5, <1>8
  <2> QED BY <1>7, <1>8, <2>1
<1>13. /\ \A d \in Ctl : d # c \/ c \notin ses => up'[d] = up[d]
       /\ c \in ses => up'[c] = up[c] \o q
  BY <1>7, <1>8
<1>14. ASSUME NEW n \in Name, c \in ses
       PROVE  /\ InLine(n, srv[c][n], up[c] \o q, Wants(P[n]))
              /\ use.refs = 0 => Sought(n, srv[c][n], up[c] \o q, Wants(P[n]))
  <2>1. /\ srv[c][n] \in Nat /\ up[c] \in Seq(Message) /\ Wants(pm[c][n]) \in Nat
        /\ Wants(P[n]) \in Nat
    BY <1>8, <1>10 DEF Wants, Wrapper
  <2>2. /\ InLine(n, srv[c][n], up[c], Wants(pm[c][n]))
        /\ use.refs = 0 => Sought(n, srv[c][n], up[c], Wants(pm[c][n]))
    BY <1>8, <1>14 DEF LinesOK
  <2>3. CASE n \in stale
    <3>1. \A i \in 1..Len(q) : q[i].name = n => q[i].ver = 0
      BY <1>5
    <3>2. \E i \in 1..Len(q) : q[i].name = n
      BY <1>5, <2>3
    <3>3. InLine(n, srv[c][n], up[c] \o q, Wants(P[n]))
      BY <1>5, <2>1, <2>2, <3>1, <3>2, CloseSent
    <3> QED BY <1>9, <2>3, <3>3 DEF Sought
  <2>4. CASE n \notin stale
    <3>1. \A i \in 1..Len(q) : q[i].name # n
      BY <1>5, <2>4
    <3> QED BY <1>5, <1>9, <2>1, <2>2, <2>4, <3>1, OthersSent
  <2> QED BY <2>3, <2>4
<1>15. LinesOK'
  <2>1. UNCHANGED <<use, ses, down, srv>>
    OBVIOUS
  <2>2. \A d \in Ctl : d \notin ses => srv[d] = Served /\ up'[d] = <<>> /\ down[d] = <<>>
    BY <1>8, <1>13 DEF LinesOK
  <2>3. \A d \in Ctl, n \in Name : pm'[d][n].ver = 0 => pm'[d][n].ph = "new"
    BY <1>8, <1>9, <1>11 DEF LinesOK
  <2>4. ASSUME NEW d \in ses, NEW n \in Name
        PROVE  /\ InLine(n, srv[d][n], up'[d], Wants(pm'[d][n]))
               /\ use.refs = 0 => Sought(n, srv[d][n], up'[d], Wants(pm'[d][n]))
    <3>1. CASE d = c
      BY <1>11, <1>13, <1>14, <2>4, <3>1
    <3>2. CASE d # c
      BY <1>8, <1>11, <1>13, <3>2 DEF LinesOK
    <3> QED BY <3>1, <3>2
  <2>5. Served' = Served
    BY DEF Served
  <2> QED BY <2>1, <2>2, <2>3, <2>4, <2>5 DEF LinesOK
<1> QED BY <1>11, <1>12, <1>15

\* What a step that fills a manager leaves as it was.
LEMMA RunProxiesKeeps == CtlInv /\ RunProxies => CtlInv'
<1> SUFFICES ASSUME CtlInv, RunProxies PROVE CtlInv'
  OBVIOUS
<1>1. PICK f : f = lg.c
  OBVIOUS
<1>2. /\ lg.at = "pm" /\ lg' = [lg EXCEPT !.at = "vm"] /\ UpdateAll(f, lg.cfg)
      /\ UNCHANGED <<use, left, cfg, ctl, rl, stop, ses, wk, vm, port, down, srv, overlap>>
  BY <1>1 DEF RunProxies, Goto
<1>3. /\ lg' \in [at: LoginAt, c: Ctl \cup {None}, cfg: Nat, first: BOOLEAN]
      /\ lg'.at = "vm" /\ lg'.c = lg.c /\ lg'.cfg = lg.cfg
  BY <1>2 DEF CtlInv, ClientTypes, LoginAt
<1>4. LoggingIn /\ LoggingIn'
  BY <1>2, <1>3 DEF LoggingIn
<1>5. f \in Ctl /\ lg.cfg \in 1..Len(use.cfgs) /\ wk[f] # "none" /\ (ctl # None => ctl < f)
  BY <1>1, <1>2, <1>4 DEF CtlInv, OrderOK
<1>6. /\ LinesOK' /\ pm' \in [Ctl -> [Name -> Wrapper]] /\ up' \in [Ctl -> Seq(Message)]
      /\ \A d \in Ctl : d # f => pm'[d] = pm[d]
  BY <1>2, <1>5, UpdateKeepsLines
<1>7. ClientTypes'
  BY <1>2, <1>3, <1>6 DEF CtlInv, ClientTypes
<1>8. OrderOK'
  <2>1. OrderOK /\ lg.at # "start" /\ lg'.at # "start"
    BY <1>2, <1>3 DEF CtlInv
  <2>2. \A d \in Ctl : wk'[d] = "none" => \A n \in Name : pm'[d][n] = NoWrapper
    <3> SUFFICES ASSUME NEW d \in Ctl, wk'[d] = "none" PROVE \A n \in Name : pm'[d][n] = NoWrapper
      OBVIOUS
    <3>1. wk[d] = "none" /\ d # f
      BY <1>2, <1>5
    <3> QED BY <1>6, <2>1, <3>1 DEF OrderOK
  <2> QED BY <1>2, <1>3, <1>4, <2>1, <2>2 DEF OrderOK
<1>9. ReloadOK'
  BY <1>2, <1>4 DEF CtlInv, ReloadOK
<1>10. OldOK'
  <2>1. ctl # None => ~(f < ctl)
    BY <1>5, CtlFacts DEF CtlInv, ClientTypes
  <2> QED BY <1>2, <1>6, <2>1 DEF CtlInv, OldOK
<1> QED BY <1>6, <1>7, <1>8, <1>9, <1>10 DEF CtlInv

LEMMA ReloadProxiesKeeps == CtlInv /\ ReloadProxies => CtlInv'
<1> SUFFICES ASSUME CtlInv, ReloadProxies PROVE CtlInv'
  OBVIOUS
<1>1. PICK f : f = rl.c
  OBVIOUS
<1>2. /\ rl.at = "pm" /\ rl' = [at |-> "idle", c |-> None] /\ UpdateAll(f, cfg)
      /\ UNCHANGED <<use, left, cfg, ctl, lg, stop, ses, wk, vm, port, down, srv, overlap>>
  BY <1>1 DEF ReloadProxies
<1>3. f \in Ctl /\ cfg \in 1..Len(use.cfgs) /\ wk[f] # "none" /\ (~overlap => f = ctl)
  BY <1>1, <1>2 DEF CtlInv, ReloadOK, ClientTypes
<1>4. /\ LinesOK' /\ pm' \in [Ctl -> [Name -> Wrapper]] /\ up' \in [Ctl -> Seq(Message)]
      /\ \A d \in Ctl : d # f => pm'[d] = pm[d]
  BY <1>2, <1>3, UpdateKeepsLines
<1>5. ClientTypes'
  BY <1>2, <1>4 DEF CtlInv, ClientTypes
<1>6. OrderOK'
  <2>1. OrderOK
    BY DEF CtlInv
  <2>2. \A d \in Ctl : wk'[d] = "none" => \A n \in Name : pm'[d][n] = NoWrapper
    <3> SUFFICES ASSUME NEW d \in Ctl, wk'[d] = "none" PROVE \A n \in Name : pm'[d][n] = NoWrapper
      OBVIOUS
    <3>1. wk[d] = "none" /\ d # f
      BY <1>2, <1>3
    <3> QED BY <1>4, <2>1, <3>1 DEF OrderOK
  <2> QED BY <1>2, <2>1, <2>2 DEF OrderOK, LoggingIn
<1>7. ReloadOK'
  BY <1>2 DEF CtlInv, ReloadOK, LoggingIn
<1>8. OldOK'
  <2>1. f = ctl => ~(f < ctl)
    BY <1>3, CtlFacts
  <2> QED BY <1>2, <1>3, <1>4, <2>1 DEF CtlInv, OldOK
<1> QED BY <1>4, <1>5, <1>6, <1>7, <1>8 DEF CtlInv

\* visitor.Manager.UpdateAll: the port is taken if it is free, or given back.
LEMMA UpdateVisitorsIs ==
  ASSUME NEW c \in Ctl, NEW k \in 1..Len(use.cfgs)
  PROVE  CtlInv /\ UpdateVisitors(c, k) =>
           /\ vm' \in [Ctl -> [cfg: BOOLEAN, has: BOOLEAN, keep: BOOLEAN, stopped: BOOLEAN]]
           /\ port' \in {port, None, c} /\ \A d \in Ctl : vm'[d].stopped = vm[d].stopped
<1> SUFFICES ASSUME CtlInv, UpdateVisitors(c, k)
             PROVE  /\ vm' \in [Ctl -> [cfg: BOOLEAN, has: BOOLEAN, keep: BOOLEAN, stopped: BOOLEAN]]
                    /\ port' \in {port, None, c} /\ \A d \in Ctl : vm'[d].stopped = vm[d].stopped
  OBVIOUS
<1>1. vm \in [Ctl -> [cfg: BOOLEAN, has: BOOLEAN, keep: BOOLEAN, stopped: BOOLEAN]]
  BY DEF CtlInv, ClientTypes
<1>2. Cfg(k).v \in BOOLEAN
  BY CtlFacts DEF Cfg, CtlInv, ClientTypes
<1>3. PICK v : v = [vm[c] EXCEPT !.cfg = Cfg(k).v, !.keep = @ \/ Cfg(k).v]
  OBVIOUS
<1>4. /\ v \in [cfg: BOOLEAN, has: BOOLEAN, keep: BOOLEAN, stopped: BOOLEAN]
      /\ v.stopped = vm[c].stopped
  BY <1>1, <1>2, <1>3
<1>5. PICK x : x \in {v, [v EXCEPT !.has = TRUE], [v EXCEPT !.has = FALSE]} /\ vm' = [vm EXCEPT ![c] = x]
  BY <1>3 DEF UpdateVisitors, startVisitor
<1>6. port' \in {port, None, c}
  BY DEF UpdateVisitors, startVisitor
<1>7. /\ x \in [cfg: BOOLEAN, has: BOOLEAN, keep: BOOLEAN, stopped: BOOLEAN]
      /\ x.stopped = vm[c].stopped
  BY <1>4, <1>5
<1> QED BY <1>1, <1>5, <1>6, <1>7

LEMMA RunVisitorsKeeps == CtlInv /\ RunVisitors => CtlInv'
<1> SUFFICES ASSUME CtlInv, RunVisitors PROVE CtlInv'
  OBVIOUS
<1>1. PICK f : f = lg.c
  OBVIOUS
<1>2. /\ lg.at = "vm" /\ lg' = [lg EXCEPT !.at = "swap"] /\ UpdateVisitors(f, lg.cfg)
      /\ UNCHANGED <<use, left, cfg, ctl, rl, stop, ses, wk, pm, wire, overlap>>
  BY <1>1 DEF RunVisitors, Goto
<1>3. /\ lg' \in [at: LoginAt, c: Ctl \cup {None}, cfg: Nat, first: BOOLEAN]
      /\ lg'.at = "swap" /\ lg'.c = lg.c /\ lg'.cfg = lg.cfg
  BY <1>2 DEF CtlInv, ClientTypes, LoginAt
<1>4. LoggingIn /\ LoggingIn'
  BY <1>2, <1>3 DEF LoggingIn
<1>5. f \in Ctl /\ lg.cfg \in 1..Len(use.cfgs) /\ (ctl # None => ctl < f)
  BY <1>1, <1>2, <1>4 DEF CtlInv, OrderOK
<1>6. /\ vm' \in [Ctl -> [cfg: BOOLEAN, has: BOOLEAN, keep: BOOLEAN, stopped: BOOLEAN]]
      /\ port' \in {port, None, f} /\ \A d \in Ctl : vm'[d].stopped = vm[d].stopped
  BY <1>2, <1>5, UpdateVisitorsIs
<1>7. ClientTypes'
  BY <1>2, <1>3, <1>5, <1>6 DEF CtlInv, ClientTypes, wire
<1>8. OrderOK'
  <2>1. OrderOK /\ lg.at # "start" /\ lg'.at # "start"
    BY <1>2, <1>3 DEF CtlInv
  <2> QED BY <1>2, <1>3, <1>4, <2>1 DEF OrderOK
<1>9. ReloadOK'
  BY <1>2, <1>4 DEF CtlInv, ReloadOK
<1>10. OldOK'
  <2>1. ctl # None => ~(f < ctl)
    BY <1>5, CtlFacts DEF CtlInv, ClientTypes
  <2>2. \A c \in Ctl : c # None
    BY CtlFacts
  <2> QED BY <1>2, <1>6, <2>1, <2>2 DEF CtlInv, OldOK
<1>11. LinesOK'
  BY <1>2, LinesSame DEF CtlInv
<1> QED BY <1>7, <1>8, <1>9, <1>10, <1>11 DEF CtlInv

LEMMA ReloadVisitorsKeeps == CtlInv /\ ReloadVisitors => CtlInv'
<1> SUFFICES ASSUME CtlInv, ReloadVisitors PROVE CtlInv'
  OBVIOUS
<1>1. rl.at = "vm" /\ ctl # None /\ ctl \in Ctl /\ cfg \in 1..Len(use.cfgs)
  BY DEF ReloadVisitors, CtlInv, ReloadOK, ClientTypes
<1>2. /\ rl' = [at |-> "pm", c |-> ctl] /\ UpdateVisitors(ctl, cfg)
      /\ UNCHANGED <<use, left, cfg, ctl, lg, stop, ses, wk, pm, wire, overlap>>
  BY <1>1 DEF ReloadVisitors
<1>3. /\ vm' \in [Ctl -> [cfg: BOOLEAN, has: BOOLEAN, keep: BOOLEAN, stopped: BOOLEAN]]
      /\ port' \in {port, None, ctl} /\ \A d \in Ctl : vm'[d].stopped = vm[d].stopped
  BY <1>1, <1>2, UpdateVisitorsIs
<1>4. ClientTypes'
  BY <1>1, <1>2, <1>3 DEF CtlInv, ClientTypes, wire
<1>5. OrderOK'
  BY <1>2 DEF CtlInv, OrderOK, LoggingIn
<1>6. ReloadOK'
  <2>1. wk[ctl] # "none" /\ rl.at # "idle" /\ ReloadOK
    BY <1>1 DEF CtlInv, OrderOK
  <2> QED BY <1>1, <1>2, <2>1 DEF ReloadOK, LoggingIn
<1>7. OldOK'
  <2>1. \A c \in Ctl : c # None /\ (c < ctl => c # ctl)
    BY <1>1, CtlFacts
  <2> QED BY <1>2, <1>3, <2>1 DEF CtlInv, OldOK
<1>8. LinesOK'
  BY <1>2, LinesSame DEF CtlInv
<1> QED BY <1>4, <1>5, <1>6, <1>7, <1>8 DEF CtlInv

LEMMA KeepVisitorsKeeps ==
  ASSUME NEW c \in Ctl PROVE CtlInv /\ keepVisitorsRunning(c) => CtlInv'
<1> SUFFICES ASSUME CtlInv, keepVisitorsRunning(c) PROVE CtlInv'
  OBVIOUS
<1>1. /\ ~vm[c].stopped /\ port = None /\ port' = c
      /\ vm' = [vm EXCEPT ![c] = [vm[c] EXCEPT !.has = TRUE]]
      /\ UNCHANGED <<use, left, cfg, ctl, lg, rl, stop, ses, wk, pm, wire, overlap>>
  BY DEF keepVisitorsRunning, startVisitor
<1>2. /\ vm' \in [Ctl -> [cfg: BOOLEAN, has: BOOLEAN, keep: BOOLEAN, stopped: BOOLEAN]]
      /\ \A d \in Ctl : vm'[d].stopped = vm[d].stopped
  BY <1>1 DEF CtlInv, ClientTypes
<1>3. ClientTypes'
  BY <1>1, <1>2 DEF CtlInv, ClientTypes, wire
<1>4. OrderOK'
  BY <1>1 DEF CtlInv, OrderOK, LoggingIn
<1>5. ReloadOK'
  BY <1>1 DEF CtlInv, ReloadOK, LoggingIn
<1>6. OldOK'
  BY <1>1, <1>2 DEF CtlInv, OldOK
<1>7. LinesOK'
  BY <1>1, LinesSame DEF CtlInv
<1> QED BY <1>3, <1>4, <1>5, <1>6, <1>7 DEF CtlInv

\* The parts of Control.Close.
LEMMA CloseProxiesIs ==
  ASSUME NEW c \in Ctl
  PROVE  CtlInv /\ closeProxies(c) =>
           /\ pm' \in [Ctl -> [Name -> Wrapper]]
           /\ \A d \in Ctl : d # c => pm'[d] = pm[d]
           /\ \A n \in Name : pm'[c][n] = NoWrapper /\ pm'[c][n].ver = 0 /\ pm'[c][n].ph = "new"
<1>1. NoWrapper \in Wrapper /\ NoWrapper.ver = 0 /\ NoWrapper.ph = "new"
  BY DEF NoWrapper, Wrapper, Phase
<1> QED BY <1>1 DEF CtlInv, ClientTypes, closeProxies

LEMMA CloseVisitorsIs ==
  ASSUME NEW c \in Ctl
  PROVE  CtlInv /\ closeVisitors(c) =>
           /\ vm' \in [Ctl -> [cfg: BOOLEAN, has: BOOLEAN, keep: BOOLEAN, stopped: BOOLEAN]]
           /\ vm'[c].stopped /\ \A d \in Ctl : vm[d].stopped => vm'[d].stopped
           /\ port' \in {port, None} /\ port' # c
<1>1. c # None
  BY CtlFacts
<1>2. CtlInv => vm \in [Ctl -> [cfg: BOOLEAN, has: BOOLEAN, keep: BOOLEAN, stopped: BOOLEAN]]
  BY DEF CtlInv, ClientTypes
<1> SUFFICES ASSUME CtlInv, closeVisitors(c)
             PROVE  /\ vm' \in [Ctl -> [cfg: BOOLEAN, has: BOOLEAN, keep: BOOLEAN, stopped: BOOLEAN]]
                    /\ vm'[c].stopped /\ \A d \in Ctl : vm[d].stopped => vm'[d].stopped
                    /\ port' \in {port, None} /\ port' # c
  OBVIOUS
<1>3. vm' = [vm EXCEPT ![c] = [vm[c] EXCEPT !.stopped = TRUE]]
  BY DEF closeVisitors
<1>4. port' \in {port, None} /\ port' # c
  BY <1>1 DEF closeVisitors
<1>5. /\ [vm[c] EXCEPT !.stopped = TRUE] \in [cfg: BOOLEAN, has: BOOLEAN, keep: BOOLEAN, stopped: BOOLEAN]
      /\ [vm[c] EXCEPT !.stopped = TRUE].stopped
  BY <1>2
<1>6. /\ vm' \in [Ctl -> [cfg: BOOLEAN, has: BOOLEAN, keep: BOOLEAN, stopped: BOOLEAN]]
      /\ vm'[c] = [vm[c] EXCEPT !.stopped = TRUE] /\ \A d \in Ctl : d # c => vm'[d] = vm[d]
  BY <1>2, <1>3, <1>5
<1> QED BY <1>4, <1>5, <1>6

LEMMA EndSessionIs ==
  ASSUME NEW c \in Ctl
  PROVE  CtlInv /\ EndSession(c) =>
           /\ ses' = ses \ {c} /\ srv' \in [Ctl -> [Name -> Nat]]
           /\ up' \in [Ctl -> Seq(Message)] /\ down' \in [Ctl -> Seq(Verdict)]
           /\ srv'[c] = Served /\ up'[c] = <<>> /\ down'[c] = <<>>
           /\ \A d \in Ctl : d # c => srv'[d] = srv[d] /\ up'[d] = up[d] /\ down'[d] = down[d]
<1>1. Served \in [Name -> Nat] /\ <<>> \in Seq(Message) /\ <<>> \in Seq(Verdict)
  BY DEF Served
<1> HIDE DEF Served
<1> QED BY <1>1 DEF CtlInv, ClientTypes, EndSession

\* A control without its connection has no line.
LEMMA LinesWithout ==
  ASSUME NEW c \in Ctl
  PROVE  /\ CtlInv /\ use' = use
         /\ ses' = ses \ {c} /\ srv'[c] = Served /\ up'[c] = <<>> /\ down'[c] = <<>>
         /\ \A d \in Ctl : d # c => srv'[d] = srv[d] /\ up'[d] = up[d] /\ down'[d] = down[d]
         /\ \A d \in Ctl : d # c => pm'[d] = pm[d]
         /\ \A n \in Name : pm'[c][n].ver = 0 => pm'[c][n].ph = "new"
         => LinesOK'
<1> SUFFICES ASSUME CtlInv, use' = use, ses' = ses \ {c},
                    srv'[c] = Served /\ up'[c] = <<>> /\ down'[c] = <<>>,
                    \A d \in Ctl : d # c => srv'[d] = srv[d] /\ up'[d] = up[d] /\ down'[d] = down[d],
                    \A d \in Ctl : d # c => pm'[d] = pm[d],
                    \A n \in Name : pm'[c][n].ver = 0 => pm'[c][n].ph = "new"
             PROVE  LinesOK'
  OBVIOUS
<1>1. Served' = Served
  BY DEF Served
<1>2. \A d \in Ctl : d \notin ses' => srv'[d] = Served /\ up'[d] = <<>> /\ down'[d] = <<>>
  BY DEF CtlInv, LinesOK
<1>3. \A d \in Ctl, n \in Name : pm'[d][n].ver = 0 => pm'[d][n].ph = "new"
  BY DEF CtlInv, LinesOK
<1>4. \A d \in ses', n \in Name :
        /\ InLine(n, srv'[d][n], up'[d], Wants(pm'[d][n]))
        /\ use.refs = 0 => Sought(n, srv'[d][n], up'[d], Wants(pm'[d][n]))
  <2> TAKE d \in ses', n \in Name
  <2>1. d \in ses /\ d \in Ctl /\ d # c
    BY DEF CtlInv, ClientTypes
  <2>2. srv'[d] = srv[d] /\ up'[d] = up[d] /\ pm'[d] = pm[d]
    BY <2>1
  <2> QED BY <2>1, <2>2 DEF CtlInv, LinesOK
<1> QED BY <1>1, <1>2, <1>3, <1>4 DEF LinesOK

LEMMA DropKeeps ==
  ASSUME NEW c \in Ctl PROVE CtlInv /\ Drop(c) => CtlInv'
<1> SUFFICES ASSUME CtlInv, Drop(c) PROVE CtlInv'
  OBVIOUS
<1>1. /\ left.drops > 0 /\ left' = [left EXCEPT !.drops = @ - 1] /\ EndSession(c)
      /\ UNCHANGED <<use, cfg, ctl, lg, rl, stop, wk, mgrs, overlap>>
  BY DEF Drop, Left, Spend
<1>2. left' \in [drops: Nat, refs: Nat, bads: Nat, late: Nat] /\ left'.refs = left.refs
  <2>1. left \in [drops: Nat, refs: Nat, bads: Nat, late: Nat]
    BY DEF CtlInv, ClientTypes
  <2> QED BY <1>1, <2>1
<1>3. /\ ses' = ses \ {c} /\ srv' \in [Ctl -> [Name -> Nat]]
      /\ up' \in [Ctl -> Seq(Message)] /\ down' \in [Ctl -> Seq(Verdict)]
      /\ srv'[c] = Served /\ up'[c] = <<>> /\ down'[c] = <<>>
      /\ \A d \in Ctl : d # c => srv'[d] = srv[d] /\ up'[d] = up[d] /\ down'[d] = down[d]
  BY <1>1, EndSessionIs
<1>4. ClientTypes'
  BY <1>1, <1>2, <1>3 DEF CtlInv, ClientTypes, mgrs
<1>5. OrderOK'
  BY <1>1, <1>3 DEF CtlInv, OrderOK, LoggingIn, mgrs
<1>6. ReloadOK'
  BY <1>1 DEF CtlInv, ReloadOK, LoggingIn
<1>7. OldOK'
  BY <1>1, <1>3 DEF CtlInv, OldOK, mgrs
<1>8. LinesOK'
  <2>1. \A d \in Ctl : pm'[d] = pm[d]
    BY <1>1 DEF mgrs
  <2>2. \A n \in Name : pm'[c][n].ver = 0 => pm'[c][n].ph = "new"
    BY <2>1 DEF CtlInv, LinesOK
  <2> QED BY <1>1, <1>3, <2>1, <2>2, LinesWithout
<1> QED BY <1>4, <1>5, <1>6, <1>7, <1>8 DEF CtlInv

\* Control.worker of a connection that has ended.
LEMMA WorkerKeeps ==
  ASSUME NEW c \in Ctl PROVE CtlInv /\ worker(c) => CtlInv'
<1> SUFFICES ASSUME CtlInv, worker(c) PROVE CtlInv'
  OBVIOUS
<1>1. /\ wk[c] \in {"run", "pm", "vm"} /\ c \notin ses
      /\ UNCHANGED <<use, left, cfg, ctl, lg, rl, stop, ses, wire, overlap>>
  BY DEF worker
<1>2. PICK w \in {"pm", "vm", "done"} : wk' = [wk EXCEPT ![c] = w]
  BY DEF worker
<1>3. /\ wk' \in [Ctl -> {"none", "run", "pm", "vm", "done"}]
      /\ \A d \in Ctl : wk'[d] = "none" <=> wk[d] = "none"
  BY <1>1, <1>2 DEF CtlInv, ClientTypes
<1>4. \/ closeProxies(c) /\ UNCHANGED <<vm, port>>
      \/ closeVisitors(c) /\ pm' = pm
      \/ UNCHANGED <<pm, vm, port>>
  BY DEF worker, mgrs
<1>5. /\ pm' \in [Ctl -> [Name -> Wrapper]]
      /\ \A d \in Ctl : d # c => pm'[d] = pm[d]
      /\ \A n \in Name : pm'[c][n] = NoWrapper \/ pm'[c][n] = pm[c][n]
  BY <1>4, CloseProxiesIs DEF CtlInv, ClientTypes
<1>6. /\ vm' \in [Ctl -> [cfg: BOOLEAN, has: BOOLEAN, keep: BOOLEAN, stopped: BOOLEAN]]
      /\ \A d \in Ctl : vm[d].stopped => vm'[d].stopped
      /\ port' \in {port, None}
  BY <1>4, CloseVisitorsIs DEF CtlInv, ClientTypes
<1>7. NoWrapper.ver = 0 /\ NoWrapper.ph = "new"
  BY DEF NoWrapper
<1>8. ClientTypes'
  BY <1>1, <1>3, <1>5, <1>6 DEF CtlInv, ClientTypes, wire
<1>9. OrderOK'
  <2>1. OrderOK
    BY DEF CtlInv
  <2>2. \A d \in Ctl : wk'[d] = "none" => \A n \in Name : pm'[d][n] = NoWrapper
    BY <1>3, <1>5, <2>1 DEF OrderOK
  <2>3. \A d \in ses : d \in Ctl
    BY DEF CtlInv, ClientTypes
  <2>4. ctl # None => ctl \in Ctl
    BY DEF CtlInv, ClientTypes
  <2> QED BY <1>1, <1>3, <2>1, <2>2, <2>3, <2>4 DEF OrderOK, LoggingIn
<1>10. ReloadOK'
  BY <1>1, <1>3 DEF CtlInv, ReloadOK, LoggingIn
<1>11. OldOK'
  <2>1. \A d \in Ctl : d # None
    BY CtlFacts
  <2>2. ASSUME NEW d \in Ctl, NEW n \in Name, pm[d][n].ver = 0 PROVE pm'[d][n].ver = 0
    BY <1>5, <1>7, <2>2
  <2> QED BY <1>1, <1>6, <2>1, <2>2 DEF CtlInv, OldOK
<1>12. LinesOK'
  <2>1. ses \ {c} = ses /\ srv[c] = Served /\ up[c] = <<>> /\ down[c] = <<>>
    BY <1>1 DEF CtlInv, LinesOK
  <2>2. \A n \in Name : pm'[c][n].ver = 0 => pm'[c][n].ph = "new"
    BY <1>5, <1>7 DEF CtlInv, LinesOK
  <2> QED BY <1>1, <1>5, <2>1, <2>2, LinesWithout DEF wire
<1> QED BY <1>8, <1>9, <1>10, <1>11, <1>12 DEF CtlInv

\* Control.Close, after which the control holds nothing.
LEMMA CloseIs ==
  ASSUME NEW c \in Ctl
  PROVE  CtlInv /\ Close(c) /\ use' = use =>
           /\ pm' \in [Ctl -> [Name -> Wrapper]]
           /\ vm' \in [Ctl -> [cfg: BOOLEAN, has: BOOLEAN, keep: BOOLEAN, stopped: BOOLEAN]]
           /\ srv' \in [Ctl -> [Name -> Nat]]
           /\ up' \in [Ctl -> Seq(Message)] /\ down' \in [Ctl -> Seq(Verdict)]
           /\ port' \in {port, None} /\ port' # c /\ ses' = ses \ {c} /\ LinesOK'
           /\ \A d \in Ctl : d # c => pm'[d] = pm[d]
           /\ \A n \in Name : pm'[c][n] = NoWrapper /\ pm'[c][n].ver = 0
           /\ vm'[c].stopped /\ \A d \in Ctl : vm[d].stopped => vm'[d].stopped
<1> SUFFICES ASSUME CtlInv, Close(c), use' = use
             PROVE  /\ pm' \in [Ctl -> [Name -> Wrapper]]
                    /\ vm' \in [Ctl -> [cfg: BOOLEAN, has: BOOLEAN, keep: BOOLEAN, stopped: BOOLEAN]]
                    /\ srv' \in [Ctl -> [Name -> Nat]]
                    /\ up' \in [Ctl -> Seq(Message)] /\ down' \in [Ctl -> Seq(Verdict)]
                    /\ port' \in {port, None} /\ port' # c /\ ses' = ses \ {c} /\ LinesOK'
                    /\ \A d \in Ctl : d # c => pm'[d] = pm[d]
                    /\ \A n \in Name : pm'[c][n] = NoWrapper /\ pm'[c][n].ver = 0
                    /\ vm'[c].stopped /\ \A d \in Ctl : vm[d].stopped => vm'[d].stopped
  OBVIOUS
<1>1. closeProxies(c) /\ closeVisitors(c) /\ EndSession(c)
  BY CtlFacts DEF Close
<1>2. /\ pm' \in [Ctl -> [Name -> Wrapper]]
      /\ \A d \in Ctl : d # c => pm'[d] = pm[d]
      /\ \A n \in Name : pm'[c][n] = NoWrapper /\ pm'[c][n].ver = 0 /\ pm'[c][n].ph = "new"
  BY <1>1, CloseProxiesIs
<1>3. /\ vm' \in [Ctl -> [cfg: BOOLEAN, has: BOOLEAN, keep: BOOLEAN, stopped: BOOLEAN]]
      /\ vm'[c].stopped /\ \A d \in Ctl : vm[d].stopped => vm'[d].stopped
      /\ port' \in {port, None} /\ port' # c
  BY <1>1, CloseVisitorsIs
<1>4. /\ ses' = ses \ {c} /\ srv' \in [Ctl -> [Name -> Nat]]
      /\ up' \in [Ctl -> Seq(Message)] /\ down' \in [Ctl -> Seq(Verdict)]
      /\ srv'[c] = Served /\ up'[c] = <<>> /\ down'[c] = <<>>
      /\ \A d \in Ctl : d # c => srv'[d] = srv[d] /\ up'[d] = up[d] /\ down'[d] = down[d]
  BY <1>1, EndSessionIs
<1>5. LinesOK'
  BY <1>2, <1>4, LinesWithout
<1> QED BY <1>2, <1>3, <1>4, <1>5

LEMMA SwapKeeps == CtlInv /\ Swap => CtlInv'
<1> SUFFICES ASSUME CtlInv, Swap PROVE CtlInv'
  OBVIOUS
<1>1. PICK f : f = lg.c
  OBVIOUS
<1>2. /\ lg.at = "swap" /\ Close(ctl) /\ ctl' = f
      /\ lg' = [lg EXCEPT !.at = IF lg.first THEN "keep" ELSE "check", !.first = FALSE]
      /\ UNCHANGED <<use, left, cfg, rl, stop, wk, overlap>>
  BY <1>1 DEF Swap
<1>3. /\ lg' \in [at: LoginAt, c: Ctl \cup {None}, cfg: Nat, first: BOOLEAN]
      /\ lg'.at \in {"keep", "check"}
  <2>1. lg \in [at: LoginAt, c: Ctl \cup {None}, cfg: Nat, first: BOOLEAN]
    BY DEF CtlInv, ClientTypes
  <2> QED BY <1>2, <2>1 DEF LoginAt
<1>4. LoggingIn /\ ~LoggingIn'
  BY <1>2, <1>3 DEF LoggingIn
<1>5. /\ f \in Ctl /\ f # None /\ wk[f] # "none" /\ (ctl # None => ctl < f)
      /\ \A d \in Ctl : d < f => wk[d] # "none"
      /\ \A d \in Ctl : f < d => wk[d] = "none"
  BY <1>1, <1>2, <1>4, CtlFacts DEF CtlInv, OrderOK
<1>6. \A d \in Ctl : d \in Nat
  BY CtlFacts
<1>7. stop # "done" => \A d \in Ctl : d < f => ctl # None /\ d <= ctl
  <2>1. \A d \in Ctl : d < f => wk[d] # "none" /\ d # f
    BY <1>5, <1>6
  <2> QED BY <1>1, <2>1 DEF CtlInv, OrderOK
<1>8. /\ pm' \in [Ctl -> [Name -> Wrapper]]
      /\ vm' \in [Ctl -> [cfg: BOOLEAN, has: BOOLEAN, keep: BOOLEAN, stopped: BOOLEAN]]
      /\ srv' \in [Ctl -> [Name -> Nat]]
      /\ up' \in [Ctl -> Seq(Message)] /\ down' \in [Ctl -> Seq(Verdict)]
      /\ port' \in {port, None} /\ ses' \subseteq ses /\ LinesOK'
      /\ \A d \in Ctl, n \in Name :
           /\ pm'[d][n] = NoWrapper \/ pm'[d] = pm[d]
           /\ pm[d][n].ver = 0 => pm'[d][n].ver = 0
           /\ d = ctl => pm'[d][n].ver = 0
      /\ ctl \in Ctl => port' # ctl /\ ctl \notin ses' /\ vm'[ctl].stopped
      /\ \A d \in Ctl : vm[d].stopped => vm'[d].stopped
  <2>1. CASE ctl = None
    <3>1. UNCHANGED <<ses, mgrs, wire>>
      BY <1>2, <2>1 DEF Close
    <3>2. LinesOK'
      BY <1>2, <3>1, LinesSame DEF CtlInv, mgrs
    <3> QED BY <2>1, <3>1, <3>2, CtlFacts DEF mgrs, wire, CtlInv, ClientTypes
  <2>2. CASE ctl \in Ctl
    <3>1. PICK c \in Ctl : c = ctl
      BY <2>2
    <3>2. /\ pm' \in [Ctl -> [Name -> Wrapper]]
          /\ vm' \in [Ctl -> [cfg: BOOLEAN, has: BOOLEAN, keep: BOOLEAN, stopped: BOOLEAN]]
          /\ srv' \in [Ctl -> [Name -> Nat]]
          /\ up' \in [Ctl -> Seq(Message)] /\ down' \in [Ctl -> Seq(Verdict)]
          /\ port' \in {port, None} /\ port' # c /\ ses' = ses \ {c} /\ LinesOK'
          /\ \A d \in Ctl : d # c => pm'[d] = pm[d]
          /\ \A n \in Name : pm'[c][n] = NoWrapper /\ pm'[c][n].ver = 0
          /\ vm'[c].stopped /\ \A d \in Ctl : vm[d].stopped => vm'[d].stopped
      BY <1>2, <3>1, CloseIs
    <3> QED BY <3>1, <3>2
  <2> QED BY <2>1, <2>2 DEF CtlInv, ClientTypes
<1>9. ClientTypes'
  BY <1>2, <1>3, <1>5, <1>8 DEF CtlInv, ClientTypes
<1>10. OrderOK'
  <2>1. OrderOK /\ lg.at # "start"
    BY <1>2 DEF CtlInv
  <2>2. stop # "done" => \A d \in Ctl : wk[d] # "none" => d <= f
    BY <1>5, <1>6
  <2>3. \A d \in Ctl : wk[d] = "none" => \A n \in Name : pm'[d][n] = NoWrapper
    <3> SUFFICES ASSUME NEW d \in Ctl, wk[d] = "none", NEW n \in Name PROVE pm'[d][n] = NoWrapper
      OBVIOUS
    <3>1. pm[d][n] = NoWrapper
      BY <2>1 DEF OrderOK
    <3>2. pm'[d][n] = NoWrapper \/ pm'[d] = pm[d]
      BY <1>8
    <3> QED BY <3>1, <3>2
  <2> QED BY <1>2, <1>4, <1>5, <1>8, <2>1, <2>2, <2>3 DEF OrderOK
<1>11. ReloadOK'
  BY <1>2, <1>4, <1>5 DEF CtlInv, ReloadOK
<1>12. OldOK'
  <2> SUFFICES ASSUME NEW d \in Ctl, d < f, ~overlap, stop # "done"
               PROVE  /\ d \notin ses' /\ port' # d /\ vm'[d].stopped
                      /\ \A n \in Name : pm'[d][n].ver = 0
    BY <1>2 DEF OldOK
  <2>1. ctl # None /\ d <= ctl /\ ctl \in Ctl /\ d # None
    BY <1>6, <1>7, CtlFacts DEF CtlInv, ClientTypes
  <2>2. CASE d = ctl
    BY <1>8, <2>1, <2>2
  <2>3. CASE d < ctl
    <3>1. d \notin ses /\ port # d /\ vm[d].stopped /\ \A n \in Name : pm[d][n].ver = 0
      BY <2>1, <2>3 DEF CtlInv, OldOK
    <3> QED BY <1>8, <2>1, <3>1
  <2> QED BY <1>6, <2>1, <2>2, <2>3
<1> QED BY <1>8, <1>9, <1>10, <1>11, <1>12 DEF CtlInv

LEMMA StopControlKeeps == CtlInv /\ StopControl => CtlInv'
<1> SUFFICES ASSUME CtlInv, StopControl PROVE CtlInv'
  OBVIOUS
<1>1. /\ stop = "sources" /\ stop' = "done" /\ Close(ctl) /\ ctl' = None
      /\ UNCHANGED <<use, left, cfg, lg, rl, wk, overlap>>
  BY DEF StopControl
<1>2. /\ pm' \in [Ctl -> [Name -> Wrapper]]
      /\ vm' \in [Ctl -> [cfg: BOOLEAN, has: BOOLEAN, keep: BOOLEAN, stopped: BOOLEAN]]
      /\ srv' \in [Ctl -> [Name -> Nat]]
      /\ up' \in [Ctl -> Seq(Message)] /\ down' \in [Ctl -> Seq(Verdict)]
      /\ port' \in {port, None} /\ ses' \subseteq ses /\ LinesOK'
      /\ \A d \in Ctl, n \in Name : pm'[d][n] = NoWrapper \/ pm'[d] = pm[d]
  <2>1. CASE ctl = None
    <3>1. UNCHANGED <<ses, mgrs, wire>>
      BY <1>1, <2>1 DEF Close
    <3>2. LinesOK'
      BY <1>1, <3>1, LinesSame DEF CtlInv, mgrs
    <3> QED BY <2>1, <3>1, <3>2 DEF mgrs, wire, CtlInv, ClientTypes
  <2>2. CASE ctl \in Ctl
    <3>1. PICK c \in Ctl : c = ctl
      BY <2>2
    <3>2. /\ pm' \in [Ctl -> [Name -> Wrapper]]
          /\ vm' \in [Ctl -> [cfg: BOOLEAN, has: BOOLEAN, keep: BOOLEAN, stopped: BOOLEAN]]
          /\ srv' \in [Ctl -> [Name -> Nat]]
          /\ up' \in [Ctl -> Seq(Message)] /\ down' \in [Ctl -> Seq(Verdict)]
          /\ port' \in {port, None} /\ ses' = ses \ {c} /\ LinesOK'
          /\ \A d \in Ctl : d # c => pm'[d] = pm[d]
          /\ \A n \in Name : pm'[c][n] = NoWrapper
      BY <1>1, <3>1, CloseIs
    <3> QED BY <3>1, <3>2
  <2> QED BY <2>1, <2>2 DEF CtlInv, ClientTypes
<1>3. ClientTypes'
  BY <1>1, <1>2 DEF CtlInv, ClientTypes
<1>4. OrderOK'
  <2>1. OrderOK
    BY DEF CtlInv
  <2>2. \A d \in Ctl : wk[d] = "none" => \A n \in Name : pm'[d][n] = NoWrapper
    BY <1>2, <2>1 DEF OrderOK
  <2> QED BY <1>1, <1>2, <2>1, <2>2 DEF OrderOK, LoggingIn
<1>5. ReloadOK'
  BY <1>1 DEF CtlInv, ReloadOK, LoggingIn
<1>6. OldOK'
  BY <1>1 DEF OldOK
<1> QED BY <1>2, <1>3, <1>4, <1>5, <1>6 DEF CtlInv

-----------------------------------------------------------------------------
(* The controls of frpc: messages.                                         *)

\* A step of the work of a control: messages, answers, and wrappers that keep their
\* version.
LEMMA WorkStep ==
  CtlInv /\ UNCHANGED <<use, cfg, ctl, lg, rl, stop, ses, wk, vm, port, overlap>>
    /\ ClientTypes' /\ LinesOK'
    /\ (\A d \in Ctl, n \in Name :
          pm'[d][n].ver = pm[d][n].ver /\ (pm[d][n].ver = 0 => pm'[d][n] = pm[d][n]))
  => CtlInv'
<1> SUFFICES ASSUME CtlInv, UNCHANGED <<use, cfg, ctl, lg, rl, stop, ses, wk, vm, port, overlap>>,
                    ClientTypes', LinesOK',
                    \A d \in Ctl, n \in Name :
                      pm'[d][n].ver = pm[d][n].ver /\ (pm[d][n].ver = 0 => pm'[d][n] = pm[d][n])
             PROVE  CtlInv'
  OBVIOUS
<1>1. OrderOK'
  <2>1. OrderOK
    BY DEF CtlInv
  <2>2. ASSUME NEW d \in Ctl, wk[d] = "none", NEW n \in Name PROVE pm'[d][n] = NoWrapper
    <3>1. pm[d][n] = NoWrapper
      BY <2>1, <2>2 DEF OrderOK
    <3>2. pm[d][n].ver = 0
      BY <3>1 DEF NoWrapper
    <3> QED BY <3>1, <3>2
  <2> QED BY <2>1, <2>2 DEF OrderOK, LoggingIn
<1>2. ReloadOK'
  BY DEF CtlInv, ReloadOK, LoggingIn
<1>3. OldOK'
  BY DEF CtlInv, OldOK
<1> QED BY <1>1, <1>2, <1>3 DEF CtlInv

\* Only what belongs to control c may change, and of it what has to do with name n.
LEMMA OneLine ==
  ASSUME NEW c \in Ctl, NEW n \in Name
  PROVE  CtlInv /\ UNCHANGED <<use, ses>>
         /\ (\A d \in Ctl : d # c => pm'[d] = pm[d] /\ up'[d] = up[d] /\ down'[d] = down[d]
                                     /\ srv'[d] = srv[d])
         /\ (c \notin ses => srv'[c] = srv[c] /\ up'[c] = up[c] /\ down'[c] = down[c])
         /\ (\A m \in Name : m # n => pm'[c][m] = pm[c][m])
         /\ (pm'[c][n].ver = 0 => pm'[c][n].ph = "new")
         /\ (c \in ses => \A m \in Name :
               /\ InLine(m, srv'[c][m], up'[c], Wants(pm'[c][m]))
               /\ use.refs = 0 => Sought(m, srv'[c][m], up'[c], Wants(pm'[c][m])))
         => LinesOK'
<1> SUFFICES ASSUME CtlInv, UNCHANGED <<use, ses>>,
                    \A d \in Ctl : d # c => pm'[d] = pm[d] /\ up'[d] = up[d] /\ down'[d] = down[d]
                                            /\ srv'[d] = srv[d],
                    c \notin ses => srv'[c] = srv[c] /\ up'[c] = up[c] /\ down'[c] = down[c],
                    \A m \in Name : m # n => pm'[c][m] = pm[c][m],
                    pm'[c][n].ver = 0 => pm'[c][n].ph = "new",
                    c \in ses => \A m \in Name :
                      /\ InLine(m, srv'[c][m], up'[c], Wants(pm'[c][m]))
                      /\ use.refs = 0 => Sought(m, srv'[c][m], up'[c], Wants(pm'[c][m]))
             PROVE  LinesOK'
  OBVIOUS
<1>1. Served' = Served
  BY DEF Served
<1>2. \A d \in Ctl : d \notin ses => srv'[d] = Served /\ up'[d] = <<>> /\ down'[d] = <<>>
  BY DEF CtlInv, LinesOK
<1>3. ASSUME NEW d \in Ctl, NEW m \in Name PROVE pm'[d][m].ver = 0 => pm'[d][m].ph = "new"
  <2>1. CASE d = c /\ m = n
    BY <2>1
  <2>2. CASE ~(d = c /\ m = n)
    <3>1. pm'[d][m] = pm[d][m]
      BY <2>2
    <3> QED BY <3>1 DEF CtlInv, LinesOK
  <2> QED BY <2>1, <2>2
<1>4. ASSUME NEW d \in ses, NEW m \in Name
      PROVE  /\ InLine(m, srv'[d][m], up'[d], Wants(pm'[d][m]))
             /\ use.refs = 0 => Sought(m, srv'[d][m], up'[d], Wants(pm'[d][m]))
  <2>1. CASE d = c
    BY <2>1
  <2>2. CASE d # c
    <3>1. d \in Ctl
      BY DEF CtlInv, ClientTypes
    <3>2. pm'[d] = pm[d] /\ up'[d] = up[d] /\ srv'[d] = srv[d]
      BY <2>2, <3>1
    <3> QED BY <3>2 DEF CtlInv, LinesOK
  <2> QED BY <2>1, <2>2
<1> QED BY <1>1, <1>2, <1>3, <1>4 DEF LinesOK

LEMMA WantsIs ==
  ASSUME NEW w \in Wrapper
  PROVE  /\ w.ver \in Nat /\ Wants(w) \in Nat /\ Wants(w) \in {0, w.ver}
         /\ w.ph \in {"wait", "running", "error"} => Wants(w) = w.ver
BY DEF Wants, Wrapper

\* A wrapper changes and may send a message about its proxy.
LEMMA WrapperSends ==
  ASSUME NEW c \in Ctl, NEW n \in Name, NEW w \in Wrapper, NEW q \in Seq(Message)
  PROVE  CtlInv /\ UNCHANGED <<use, cfg, ctl, lg, rl, stop, ses, wk, vm, port, srv, overlap>>
         /\ left' \in [drops: Nat, refs: Nat, bads: Nat, late: Nat] /\ left'.refs <= use.refs
         /\ down' \in [Ctl -> Seq(Verdict)] /\ (\A d \in Ctl : d # c \/ c \notin ses => down'[d] = down[d])
         /\ pm' = [pm EXCEPT ![c] = [pm[c] EXCEPT ![n] = w]] /\ Send(c, q)
         /\ w.ver = pm[c][n].ver /\ w.ver # 0
         /\ (\A i \in 1..Len(q) : q[i].name = n)
         /\ (c \in ses =>
               /\ InLine(n, srv[c][n], up[c] \o q, Wants(w))
               /\ use.refs = 0 => Sought(n, srv[c][n], up[c] \o q, Wants(w)))
         => CtlInv'
<1> SUFFICES ASSUME CtlInv, UNCHANGED <<use, cfg, ctl, lg, rl, stop, ses, wk, vm, port, srv, overlap>>,
                    left' \in [drops: Nat, refs: Nat, bads: Nat, late: Nat], left'.refs <= use.refs,
                    down' \in [Ctl -> Seq(Verdict)],
                    \A d \in Ctl : d # c \/ c \notin ses => down'[d] = down[d],
                    pm' = [pm EXCEPT ![c] = [pm[c] EXCEPT ![n] = w]], Send(c, q),
                    w.ver = pm[c][n].ver, w.ver # 0,
                    \A i \in 1..Len(q) : q[i].name = n,
                    c \in ses => /\ InLine(n, srv[c][n], up[c] \o q, Wants(w))
                                 /\ use.refs = 0 => Sought(n, srv[c][n], up[c] \o q, Wants(w))
             PROVE  CtlInv'
  OBVIOUS
<1>1. /\ pm \in [Ctl -> [Name -> Wrapper]] /\ up \in [Ctl -> Seq(Message)]
      /\ srv \in [Ctl -> [Name -> Nat]]
  BY DEF CtlInv, ClientTypes
<1>2. /\ pm' \in [Ctl -> [Name -> Wrapper]] /\ pm'[c][n] = w
      /\ \A d \in Ctl : d # c => pm'[d] = pm[d]
      /\ \A m \in Name : m # n => pm'[c][m] = pm[c][m]
  BY <1>1
<1>3. /\ \A d \in Ctl : d # c \/ c \notin ses => up'[d] = up[d]
      /\ c \in ses => up'[c] = up[c] \o q
  BY <1>1 DEF Send
<1>4. up' \in [Ctl -> Seq(Message)]
  <2>1. up[c] \o q \in Seq(Message)
    BY <1>1
  <2> QED BY <1>1, <2>1 DEF Send
<1>5. ClientTypes'
  BY <1>2, <1>4 DEF CtlInv, ClientTypes
<1>6. ASSUME c \in ses, NEW m \in Name
      PROVE  /\ InLine(m, srv'[c][m], up'[c], Wants(pm'[c][m]))
             /\ use.refs = 0 => Sought(m, srv'[c][m], up'[c], Wants(pm'[c][m]))
  <2>1. CASE m = n
    BY <1>2, <1>3, <1>6, <2>1
  <2>2. CASE m # n
    <3>0. pm[c][m] \in Wrapper
      BY <1>1
    <3>4. Wants(pm[c][m]) \in Nat
      BY <3>0, WantsIs
    <3>1. /\ srv[c][m] \in Nat /\ up[c] \in Seq(Message) /\ Wants(pm[c][m]) \in Nat
          /\ pm'[c][m] = pm[c][m] /\ up'[c] = up[c] \o q
      BY <1>1, <1>2, <1>3, <1>6, <2>2, <3>4
    <3>2. \A i \in 1..Len(q) : q[i].name # m
      BY <2>2
    <3>3. /\ InLine(m, srv[c][m], up[c], Wants(pm[c][m]))
          /\ use.refs = 0 => Sought(m, srv[c][m], up[c], Wants(pm[c][m]))
      BY <1>6 DEF CtlInv, LinesOK
    <3> QED BY <3>1, <3>2, <3>3, OthersSent
  <2> QED BY <2>1, <2>2
<1>7. LinesOK'
  BY <1>2, <1>3, <1>6, OneLine
<1>8. \A d \in Ctl, m \in Name :
        pm'[d][m].ver = pm[d][m].ver /\ (pm[d][m].ver = 0 => pm'[d][m] = pm[d][m])
  <2> TAKE d \in Ctl, m \in Name
  <2>1. CASE d = c /\ m = n
    BY <1>2, <2>1
  <2>2. CASE ~(d = c /\ m = n)
    BY <1>2, <2>2
  <2> QED BY <2>1, <2>2
<1> QED BY <1>5, <1>7, <1>8, WorkStep

\* The empty message changes no line.
LEMMA NothingSent ==
  ASSUME NEW u \in Seq(Message)
  PROVE  u \o <<>> = u
OBVIOUS

LEMMA askStartKeeps ==
  ASSUME NEW c \in Ctl, NEW n \in Name PROVE CtlInv /\ askStart(c, n) => CtlInv'
<1> SUFFICES ASSUME CtlInv, askStart(c, n) PROVE CtlInv'
  OBVIOUS
<1>1. PICK w : w = pm[c][n]
  OBVIOUS
<1>2. w \in Wrapper /\ srv[c][n] \in Nat /\ up[c] \in Seq(Message)
  BY <1>1 DEF CtlInv, ClientTypes
<1>3. PICK x : x = [w EXCEPT !.ph = "wait"]
  OBVIOUS
<1>4. x \in Wrapper /\ x.ver = w.ver /\ x.ph = "wait" /\ Wants(x) = w.ver
  BY <1>2, <1>3 DEF Wrapper, Phase, Wants
<1>5. PICK m : m = NewProxy(n, w.ver)
  OBVIOUS
<1>6. /\ w.ver # 0 /\ pm' = [pm EXCEPT ![c] = [pm[c] EXCEPT ![n] = x]] /\ Send(c, <<m>>)
      /\ down' = down
      /\ UNCHANGED <<use, cfg, ctl, lg, rl, stop, ses, wk, vm, port, srv, overlap>>
      /\ left' = left \/ (left.late > 0 /\ left' = [left EXCEPT !.late = @ - 1])
  BY <1>1, <1>3, <1>5 DEF askStart, proxyOnly, Left, Spend
<1>7. m \in Message /\ m.name = n /\ m.ver = w.ver
  BY <1>2, <1>5, <1>6 DEF NewProxy, Message, Wrapper
<1>8. left' \in [drops: Nat, refs: Nat, bads: Nat, late: Nat] /\ left'.refs <= use.refs
  <2>1. left \in [drops: Nat, refs: Nat, bads: Nat, late: Nat] /\ left.refs <= use.refs
    BY DEF CtlInv, ClientTypes
  <2>2. left'.refs = left.refs
    BY <1>6, <2>1
  <2> QED BY <1>6, <2>1, <2>2
<1>9. ASSUME c \in ses
      PROVE  /\ InLine(n, srv[c][n], up[c] \o <<m>>, Wants(x))
             /\ Sought(n, srv[c][n], up[c] \o <<m>>, Wants(x))
  <2>1. InLine(n, srv[c][n], up[c], Wants(w))
    BY <1>1, <1>9 DEF CtlInv, LinesOK
  <2>2. Wants(w) \in Nat /\ Wants(w) \in {0, m.ver} /\ m.ver # 0
    BY <1>2, <1>6, <1>7, WantsIs
  <2> QED BY <1>2, <1>4, <1>7, <2>1, <2>2, OfferSent
<1>10. <<m>> \in Seq(Message) /\ \A i \in 1..Len(<<m>>) : <<m>>[i].name = n
  BY <1>7
<1>11. down' \in [Ctl -> Seq(Verdict)]
  BY <1>6 DEF CtlInv, ClientTypes
<1>12. x.ver = pm[c][n].ver /\ x.ver # 0
  BY <1>1, <1>4, <1>6
<1>13. PICK q : q = <<m>>
  OBVIOUS
<1>14. q \in Seq(Message) /\ Send(c, q) /\ \A i \in 1..Len(q) : q[i].name = n
  BY <1>6, <1>10, <1>13
<1>15. c \in ses => /\ InLine(n, srv[c][n], up[c] \o q, Wants(x))
                    /\ use.refs = 0 => Sought(n, srv[c][n], up[c] \o q, Wants(x))
  BY <1>9, <1>13
<1> QED BY <1>4, <1>6, <1>8, <1>11, <1>12, <1>14, <1>15, WrapperSends

\* A CloseProxy is sent.
LEMMA CloseProxyIs ==
  ASSUME NEW n \in Name, NEW s \in Nat, NEW u \in Seq(Message), NEW v \in Nat, InLine(n, s, u, v),
         NEW x \in Nat, NEW q, q = <<CloseProxy(n)>>
  PROVE  /\ q \in Seq(Message) /\ \A i \in 1..Len(q) : q[i].name = n
         /\ InLine(n, s, u \o q, x)
<1>1. PICK m : m = CloseProxy(n)
  OBVIOUS
<1>2. m \in Message /\ m.name = n /\ m.ver = 0
  BY <1>1 DEF CloseProxy, Message
<1>3. q \in Seq(Message) /\ Len(q) = 1 /\ q[1] = m
  BY <1>1, <1>2
<1>4. \A i \in 1..Len(q) : i = 1
  BY <1>3
<1>5. /\ \A i \in 1..Len(q) : q[i].name = n /\ q[i].ver = 0
      /\ \E i \in 1..Len(q) : q[i].name = n
  BY <1>2, <1>3, <1>4
<1> QED BY <1>3, <1>5, CloseSent

LEMMA WithdrawKeeps ==
  ASSUME NEW c \in Ctl, NEW n \in Name PROVE CtlInv /\ withdraw(c, n) => CtlInv'
<1> SUFFICES ASSUME CtlInv, withdraw(c, n) PROVE CtlInv'
  OBVIOUS
<1>1. PICK w : w = pm[c][n]
  OBVIOUS
<1>2. w \in Wrapper /\ srv[c][n] \in Nat /\ up[c] \in Seq(Message)
  BY <1>1 DEF CtlInv, ClientTypes
<1>3. PICK x : x = [w EXCEPT !.ph = "failed"]
  OBVIOUS
<1>4. x \in Wrapper /\ x.ver = w.ver /\ Wants(x) = 0
  BY <1>2, <1>3 DEF Wrapper, Phase, Wants
<1>5. PICK q : q = <<CloseProxy(n)>>
  OBVIOUS
<1>6. /\ w.ver # 0 /\ pm' = [pm EXCEPT ![c] = [pm[c] EXCEPT ![n] = x]] /\ Send(c, q)
      /\ down' = down /\ left' = left
      /\ UNCHANGED <<use, cfg, ctl, lg, rl, stop, ses, wk, vm, port, srv, overlap>>
  BY <1>1, <1>3, <1>5 DEF withdraw, proxyOnly
<1>7. q \in Seq(Message) /\ \A i \in 1..Len(q) : q[i].name = n
  <2>1. CloseProxy(n) \in Message /\ CloseProxy(n).name = n
    BY DEF CloseProxy, Message
  <2>2. PICK m : m = CloseProxy(n)
    OBVIOUS
  <2> QED BY <1>5, <2>1, <2>2
<1>8. ASSUME c \in ses
      PROVE  InLine(n, srv[c][n], up[c] \o q, Wants(x)) /\ Sought(n, srv[c][n], up[c] \o q, Wants(x))
  <2>1. InLine(n, srv[c][n], up[c], Wants(w)) /\ Wants(w) \in Nat /\ Wants(x) \in Nat
    BY <1>1, <1>2, <1>4, <1>8, WantsIs DEF CtlInv, LinesOK
  <2>2. InLine(n, srv[c][n], up[c] \o q, Wants(x))
    BY <1>2, <1>5, <2>1, CloseProxyIs
  <2> QED BY <1>4, <2>2 DEF Sought
<1>9. /\ left' \in [drops: Nat, refs: Nat, bads: Nat, late: Nat] /\ left'.refs <= use.refs
      /\ down' \in [Ctl -> Seq(Verdict)]
  BY <1>6 DEF CtlInv, ClientTypes
<1>10. x.ver = pm[c][n].ver /\ x.ver # 0
  BY <1>1, <1>4, <1>6
<1> QED BY <1>4, <1>6, <1>7, <1>8, <1>9, <1>10, WrapperSends

\* A wrapper that sends nothing and wants what it wanted.
LEMMA WrapperRests ==
  ASSUME NEW c \in Ctl, NEW n \in Name, NEW w \in Wrapper
  PROVE  CtlInv /\ UNCHANGED <<use, cfg, ctl, lg, rl, stop, ses, wk, vm, port, srv, overlap>>
         /\ left' \in [drops: Nat, refs: Nat, bads: Nat, late: Nat] /\ left'.refs <= use.refs
         /\ down' \in [Ctl -> Seq(Verdict)] /\ (\A d \in Ctl : d # c \/ c \notin ses => down'[d] = down[d])
         /\ pm' = [pm EXCEPT ![c] = [pm[c] EXCEPT ![n] = w]] /\ (up' = up \/ Send(c, <<>>))
         /\ w.ver = pm[c][n].ver /\ w.ver # 0 /\ Wants(w) = Wants(pm[c][n])
         => CtlInv'
<1> SUFFICES ASSUME CtlInv, UNCHANGED <<use, cfg, ctl, lg, rl, stop, ses, wk, vm, port, srv, overlap>>,
                    left' \in [drops: Nat, refs: Nat, bads: Nat, late: Nat], left'.refs <= use.refs,
                    down' \in [Ctl -> Seq(Verdict)],
                    \A d \in Ctl : d # c \/ c \notin ses => down'[d] = down[d],
                    pm' = [pm EXCEPT ![c] = [pm[c] EXCEPT ![n] = w]], up' = up \/ Send(c, <<>>),
                    w.ver = pm[c][n].ver, w.ver # 0, Wants(w) = Wants(pm[c][n])
             PROVE  CtlInv'
  OBVIOUS
<1>1. PICK q : q = <<>>
  OBVIOUS
<1>2. q \in Seq(Message) /\ Len(q) = 0
  BY <1>1
<1>3. up \in [Ctl -> Seq(Message)] /\ up[c] \in Seq(Message)
  BY DEF CtlInv, ClientTypes
<1>4. up[c] \o q = up[c]
  BY <1>1, <1>3, NothingSent
<1>5. Send(c, q)
  <2>1. [up EXCEPT ![c] = up[c] \o q] = up
    BY <1>3, <1>4
  <2>2. CASE up' = up
    BY <2>1, <2>2 DEF Send
  <2>3. CASE Send(c, <<>>)
    BY <1>1, <2>3
  <2> QED BY <2>2, <2>3
<1>6. c \in ses => /\ InLine(n, srv[c][n], up[c] \o q, Wants(w))
                   /\ use.refs = 0 => Sought(n, srv[c][n], up[c] \o q, Wants(w))
  BY <1>4 DEF CtlInv, LinesOK
<1>7. \A i \in 1..Len(q) : q[i].name = n
  BY <1>2
<1> QED BY <1>2, <1>5, <1>6, <1>7, WrapperSends

LEMMA FailedCheck ==
  ASSUME NEW w \in Wrapper, NEW o \in BOOLEAN, NEW i \in BOOLEAN,
         NEW x, x = [w EXCEPT !.fails = @ + 1, !.streak = @ + 1, !.ok = o, !.sick = i]
  PROVE  x \in Wrapper /\ x.ver = w.ver /\ x.ph = w.ph
<1>1. PICK f, s : f = w.fails + 1 /\ s = w.streak + 1
  OBVIOUS
<1>2. w.fails \in Nat /\ w.streak \in Nat
  BY DEF Wrapper
<1>3. f \in Nat /\ s \in Nat
  BY <1>1, <1>2
<1>4. x = [w EXCEPT !.fails = f, !.streak = s, !.ok = o, !.sick = i]
  BY <1>1
<1> QED BY <1>3, <1>4 DEF Wrapper

LEMMA CheckKeeps ==
  ASSUME NEW c \in Ctl, NEW n \in Name
  PROVE  CtlInv /\ (checkGood(c, n) \/ checkBad(c, n)) => CtlInv'
<1> SUFFICES ASSUME CtlInv, checkGood(c, n) \/ checkBad(c, n) PROVE CtlInv'
  OBVIOUS
<1>1. PICK w : w = pm[c][n]
  OBVIOUS
<1>2. w \in Wrapper
  BY <1>1 DEF CtlInv, ClientTypes
<1>3. /\ w.ver # 0 /\ up' = up /\ down' = down
      /\ UNCHANGED <<use, cfg, ctl, lg, rl, stop, ses, wk, vm, port, srv, overlap>>
      /\ left' = left \/ (left.bads > 0 /\ left' = [left EXCEPT !.bads = @ - 1])
  BY <1>1 DEF checkGood, checkBad, proxyOnly, Left, Spend
<1>4. PICK x \in Wrapper : /\ x.ver = w.ver /\ x.ph = w.ph
                           /\ pm' = [pm EXCEPT ![c] = [pm[c] EXCEPT ![n] = x]]
  <2>1. CASE checkGood(c, n)
    <3>1. PICK x : x = [w EXCEPT !.ok = TRUE, !.streak = 0, !.sick = IF w.ok THEN @ ELSE FALSE]
      OBVIOUS
    <3>2. x \in Wrapper /\ x.ver = w.ver /\ x.ph = w.ph
      BY <1>2, <3>1 DEF Wrapper
    <3> QED BY <1>1, <2>1, <3>1, <3>2 DEF checkGood
  <2>2. CASE checkBad(c, n)
    <3>1. PICK f : f = (w.ok /\ w.fails + 1 >= MaxFailed)
      OBVIOUS
    <3>4. w.ok \in BOOLEAN /\ w.sick \in BOOLEAN /\ f \in BOOLEAN
      BY <1>2, <3>1 DEF Wrapper
    <3>5. PICK o, i : o = (w.ok /\ ~f) /\ i = (w.sick \/ f)
      OBVIOUS
    <3>6. o \in BOOLEAN /\ i \in BOOLEAN
      BY <3>4, <3>5
    <3>3. PICK x : x = [w EXCEPT !.fails = @ + 1, !.streak = @ + 1, !.ok = o, !.sick = i]
      OBVIOUS
    <3>2. x \in Wrapper /\ x.ver = w.ver /\ x.ph = w.ph
      BY <1>2, <3>3, <3>6, FailedCheck
    <3>7. pm' = [pm EXCEPT ![c] = [pm[c] EXCEPT ![n] = x]]
      BY <1>1, <2>2, <3>1, <3>3, <3>5 DEF checkBad
    <3> QED BY <3>2, <3>7
  <2> QED BY <2>1, <2>2
<1>5. Wants(x) = Wants(pm[c][n]) /\ x.ver = pm[c][n].ver /\ x.ver # 0
  BY <1>1, <1>3, <1>4 DEF Wants
<1>6. left' \in [drops: Nat, refs: Nat, bads: Nat, late: Nat] /\ left'.refs <= use.refs
  <2>1. left \in [drops: Nat, refs: Nat, bads: Nat, late: Nat] /\ left.refs <= use.refs
    BY DEF CtlInv, ClientTypes
  <2>2. left'.refs = left.refs
    BY <1>3, <2>1
  <2> QED BY <1>3, <2>1, <2>2
<1>7. down' \in [Ctl -> Seq(Verdict)]
  BY <1>3 DEF CtlInv, ClientTypes
<1> QED BY <1>3, <1>4, <1>5, <1>6, <1>7, WrapperRests

LEMMA AnswerKeeps ==
  ASSUME NEW c \in Ctl, NEW runs \in BOOLEAN PROVE CtlInv /\ SetRunningStatus(c, runs) => CtlInv'
<1> SUFFICES ASSUME CtlInv, SetRunningStatus(c, runs) PROVE CtlInv'
  OBVIOUS
<1>1. PICK r : r = Head(down[c])
  OBVIOUS
<1>2. PICK n : n = r.name
  OBVIOUS
<1>3. PICK w : w = pm[c][n]
  OBVIOUS
<1>4. /\ c \in ses /\ down[c] # <<>> /\ down' = [down EXCEPT ![c] = Tail(@)]
      /\ ~runs => w.ph = "wait" /\ left.refs > 0
      /\ UNCHANGED <<use, cfg, ctl, lg, rl, stop, ses, wk, vm, port, srv, overlap>>
      /\ IF w.ver = 0 \/ w.ph # "wait" THEN UNCHANGED <<pm, up, left>>
         ELSE /\ pm' = [pm EXCEPT ![c][n].ph = IF r.good /\ runs THEN "running" ELSE "error"]
              /\ Send(c, IF runs THEN <<>> ELSE <<CloseProxy(n)>>)
              /\ IF runs THEN left' = left ELSE left' = [left EXCEPT !.refs = @ - 1]
  BY <1>1, <1>2, <1>3 DEF SetRunningStatus, proxyOnly, Left, Spend
<1>5. n \in Name /\ down' \in [Ctl -> Seq(Verdict)] /\ \A d \in Ctl : d # c => down'[d] = down[d]
  <2>1. down \in [Ctl -> Seq(Verdict)]
    BY DEF CtlInv, ClientTypes
  <2>2. PICK s \in Seq(Verdict) : s = down[c]
    BY <2>1
  <2>3. Head(s) \in Verdict /\ Tail(s) \in Seq(Verdict)
    BY <1>4, <2>2
  <2>4. n \in Name
    BY <1>1, <1>2, <2>2, <2>3 DEF Verdict
  <2> QED BY <1>4, <2>1, <2>2, <2>3, <2>4
<1>6. w \in Wrapper /\ srv[c][n] \in Nat /\ up[c] \in Seq(Message)
  BY <1>3, <1>5 DEF CtlInv, ClientTypes
<1>7. left \in [drops: Nat, refs: Nat, bads: Nat, late: Nat] /\ left.refs <= use.refs /\ use.refs \in Nat
  BY CtlFacts DEF CtlInv, ClientTypes
<1>8. CASE w.ver = 0 \/ w.ph # "wait"
  <2>1. UNCHANGED <<pm, up, left>>
    BY <1>4, <1>8
  <2>2. ClientTypes'
    BY <1>4, <1>5, <2>1 DEF CtlInv, ClientTypes
  <2>3. LinesOK'
    BY <1>4, <1>5, <2>1, OneLine DEF CtlInv, LinesOK
  <2> QED BY <1>4, <2>1, <2>2, <2>3, WorkStep
<1>9. CASE w.ver # 0 /\ w.ph = "wait"
  <2>1. PICK a \in {"running", "error"} : a = IF r.good /\ runs THEN "running" ELSE "error"
    OBVIOUS
  <2>2. PICK x : x = [w EXCEPT !.ph = a]
    OBVIOUS
  <2>3. x \in Wrapper /\ x.ver = w.ver /\ Wants(x) = w.ver /\ Wants(w) = w.ver
    BY <1>6, <1>9, <2>1, <2>2 DEF Wrapper, Phase, Wants
  <2>4. pm' = [pm EXCEPT ![c] = [pm[c] EXCEPT ![n] = x]]
    BY <1>3, <1>4, <1>9, <2>1, <2>2
  <2>5. x.ver = pm[c][n].ver /\ x.ver # 0 /\ Wants(x) = Wants(pm[c][n])
    BY <1>3, <1>9, <2>3
  <2>6. CASE runs
    <3>1. left' = left /\ Send(c, <<>>)
      BY <1>4, <1>9, <2>6
    <3> QED BY <1>4, <1>5, <1>7, <2>3, <2>4, <2>5, <3>1, WrapperRests
  <2>7. CASE ~runs
    <3>1. PICK q : q = <<CloseProxy(n)>>
      OBVIOUS
    <3>2. left' = [left EXCEPT !.refs = @ - 1] /\ Send(c, q) /\ left.refs > 0
      BY <1>4, <1>9, <2>7, <3>1
    <3>3. /\ left' \in [drops: Nat, refs: Nat, bads: Nat, late: Nat] /\ left'.refs <= use.refs
          /\ use.refs # 0
      BY <1>7, <3>2
    <3>4. InLine(n, srv[c][n], up[c], Wants(w)) /\ Wants(w) \in Nat /\ Wants(x) \in Nat
      BY <1>3, <1>4, <1>5, <1>6, <2>3, WantsIs DEF CtlInv, LinesOK
    <3>5. /\ q \in Seq(Message) /\ \A i \in 1..Len(q) : q[i].name = n
          /\ InLine(n, srv[c][n], up[c] \o q, Wants(x))
      <4>1. PICK s, u, v, y : s = srv[c][n] /\ u = up[c] /\ v = Wants(w) /\ y = Wants(x)
        OBVIOUS
      <4>2. s \in Nat /\ u \in Seq(Message) /\ v \in Nat /\ y \in Nat /\ InLine(n, s, u, v)
        BY <1>6, <3>4, <4>1
      <4>3. q \in Seq(Message) /\ (\A i \in 1..Len(q) : q[i].name = n) /\ InLine(n, s, u \o q, y)
        BY <1>5, <3>1, <4>2, CloseProxyIs
      <4> QED BY <4>1, <4>3
    <3> QED BY <1>4, <1>5, <2>3, <2>4, <2>5, <3>2, <3>3, <3>5, WrapperSends
  <2> QED BY <2>6, <2>7
<1> QED BY <1>8, <1>9

\* frps takes a message.
LEMMA ServerTakes ==
  ASSUME NEW c \in Ctl, NEW n \in Name, NEW m \in Message, NEW x \in Nat
  PROVE  CtlInv /\ UNCHANGED <<use, cfg, ctl, lg, rl, stop, ses, wk, mgrs, overlap>>
         /\ left' \in [drops: Nat, refs: Nat, bads: Nat, late: Nat] /\ left'.refs <= use.refs
         /\ down' \in [Ctl -> Seq(Verdict)] /\ (\A d \in Ctl : d # c => down'[d] = down[d])
         /\ c \in ses /\ up[c] # <<>> /\ m = Head(up[c]) /\ n = m.name
         /\ up' = [up EXCEPT ![c] = Tail(@)]
         /\ srv' = [srv EXCEPT ![c] = [srv[c] EXCEPT ![n] = x]]
         /\ (IF m.ver = 0 \/ srv[c][n] = 0 THEN x = m.ver \/ (x = 0 /\ use.refs # 0 /\ srv[c][n] = 0)
             ELSE x = srv[c][n])
         => CtlInv'
<1> SUFFICES ASSUME CtlInv, UNCHANGED <<use, cfg, ctl, lg, rl, stop, ses, wk, mgrs, overlap>>,
                    left' \in [drops: Nat, refs: Nat, bads: Nat, late: Nat], left'.refs <= use.refs,
                    down' \in [Ctl -> Seq(Verdict)], \A d \in Ctl : d # c => down'[d] = down[d],
                    c \in ses, up[c] # <<>>, m = Head(up[c]), n = m.name,
                    up' = [up EXCEPT ![c] = Tail(@)],
                    srv' = [srv EXCEPT ![c] = [srv[c] EXCEPT ![n] = x]],
                    IF m.ver = 0 \/ srv[c][n] = 0 THEN x = m.ver \/ (x = 0 /\ use.refs # 0 /\ srv[c][n] = 0)
                    ELSE x = srv[c][n]
             PROVE  CtlInv'
  OBVIOUS
<1>1. /\ up \in [Ctl -> Seq(Message)] /\ srv \in [Ctl -> [Name -> Nat]]
      /\ pm \in [Ctl -> [Name -> Wrapper]]
  BY DEF CtlInv, ClientTypes
<1>2. PICK u \in Seq(Message) : u = up[c]
  BY <1>1
<1>3. u # <<>> /\ u[1] = m /\ Tail(u) \in Seq(Message)
  BY <1>2, Shorter
<1>4. /\ up' \in [Ctl -> Seq(Message)] /\ up'[c] = Tail(u)
      /\ \A d \in Ctl : d # c => up'[d] = up[d]
  BY <1>1, <1>2, <1>3
<1>5. /\ srv' \in [Ctl -> [Name -> Nat]] /\ srv'[c][n] = x
      /\ \A k \in Name : k # n => srv'[c][k] = srv[c][k]
      /\ \A d \in Ctl : d # c => srv'[d] = srv[d]
  BY <1>1
<1>6. ClientTypes'
  BY <1>4, <1>5 DEF CtlInv, ClientTypes, mgrs
<1>7. pm' = pm /\ vm' = vm /\ port' = port
  BY DEF mgrs
<1>8. ASSUME NEW k \in Name
      PROVE  /\ InLine(k, srv'[c][k], Tail(u), Wants(pm[c][k]))
             /\ use.refs = 0 => Sought(k, srv'[c][k], Tail(u), Wants(pm[c][k]))
  <2>1. /\ InLine(k, srv[c][k], u, Wants(pm[c][k]))
        /\ use.refs = 0 => Sought(k, srv[c][k], u, Wants(pm[c][k]))
    BY <1>2 DEF CtlInv, LinesOK
  <2>2. srv[c][k] \in Nat /\ pm[c][k] \in Wrapper
    BY <1>1
  <2>3. Wants(pm[c][k]) \in Nat
    BY <2>2, WantsIs
  <2>4. CASE k # n
    <3>1. u[1].name # k
      BY <1>3, <2>4
    <3> QED BY <1>3, <1>5, <2>1, <2>2, <2>3, <2>4, <3>1, OtherTaken
  <2>5. CASE k = n
    <3>1. u[1].name = n /\ u[1].ver = m.ver /\ srv'[c][k] = x
      BY <1>3, <1>5, <2>5
    <3>2. CASE x = IF u[1].ver = 0 \/ srv[c][k] = 0 THEN u[1].ver ELSE srv[c][k]
      BY <1>3, <2>1, <2>2, <2>3, <2>5, <3>1, <3>2, OneTaken
    <3>3. CASE x = 0 /\ use.refs # 0 /\ srv[c][k] = 0
      BY <1>3, <2>1, <2>2, <2>3, <3>1, <3>3, OtherTaken
    <3> QED BY <2>5, <3>1, <3>2, <3>3
  <2> QED BY <2>4, <2>5
<1>9. LinesOK'
  <2>1. pm'[c][n].ver = 0 => pm'[c][n].ph = "new"
    BY <1>7 DEF CtlInv, LinesOK
  <2>2. \A d \in Ctl : d # c => pm'[d] = pm[d] /\ up'[d] = up[d] /\ down'[d] = down[d]
                                /\ srv'[d] = srv[d]
    BY <1>4, <1>5, <1>7
  <2>3. \A k \in Name : /\ InLine(k, srv'[c][k], up'[c], Wants(pm'[c][k]))
                        /\ use.refs = 0 => Sought(k, srv'[c][k], up'[c], Wants(pm'[c][k]))
    BY <1>4, <1>7, <1>8
  <2>4. n \in Name /\ \A k \in Name : k # n => pm'[c][k] = pm[c][k]
    BY <1>7
  <2> QED BY <2>1, <2>2, <2>3, <2>4, OneLine
<1> QED BY <1>6, <1>7, <1>9, WorkStep

LEMMA ServerKeeps ==
  ASSUME NEW c \in Ctl, NEW refuse \in BOOLEAN
  PROVE  CtlInv /\ (ServerNewProxy(c, refuse) \/ ServerCloseProxy(c)) => CtlInv'
<1> SUFFICES ASSUME CtlInv, ServerNewProxy(c, refuse) \/ ServerCloseProxy(c) PROVE CtlInv'
  OBVIOUS
<1>1. PICK m : m = Head(up[c])
  OBVIOUS
<1>2. PICK n : n = m.name
  OBVIOUS
<1>3. c \in ses /\ up[c] # <<>> /\ up' = [up EXCEPT ![c] = Tail(@)]
  BY DEF ServerNewProxy, ServerCloseProxy
<1>4. UNCHANGED <<use, cfg, ctl, lg, rl, stop, ses, wk, mgrs, overlap>>
  BY DEF ServerNewProxy, ServerCloseProxy
<1>5. m \in Message /\ n \in Name /\ (m.type = "CloseProxy" <=> m.ver = 0) /\ m.ver \in Nat
      /\ m.type \in {"CloseProxy", "NewProxy"}
  <2>1. up[c] \in Seq(Message)
    BY DEF CtlInv, ClientTypes
  <2>2. PICK u \in Seq(Message) : u = up[c]
    BY <2>1
  <2>3. m \in Message
    BY <1>1, <1>3, <2>2
  <2> QED BY <1>2, <2>3 DEF Message
<1>6. /\ srv \in [Ctl -> [Name -> Nat]] /\ srv[c][n] \in Nat
      /\ left \in [drops: Nat, refs: Nat, bads: Nat, late: Nat] /\ left.refs <= use.refs
      /\ use.refs \in Nat /\ down \in [Ctl -> Seq(Verdict)]
  <2>1. use \in Setups /\ srv \in [Ctl -> [Name -> Nat]] /\ down \in [Ctl -> Seq(Verdict)]
    BY DEF CtlInv, ClientTypes
  <2>2. left \in [drops: Nat, refs: Nat, bads: Nat, late: Nat] /\ left.refs <= use.refs
    BY DEF CtlInv, ClientTypes
  <2>3. use.refs \in Nat
    BY <2>1, CtlFacts
  <2>4. srv[c][n] \in Nat
    BY <1>5, <2>1
  <2> QED BY <2>1, <2>2, <2>3, <2>4
<1>7. CASE ServerCloseProxy(c)
  <2>1. /\ srv' = [srv EXCEPT ![c] = [srv[c] EXCEPT ![n] = 0]] /\ m.ver = 0
        /\ left' = left /\ down' = down
    BY <1>1, <1>2, <1>5, <1>7 DEF ServerCloseProxy
  <2> QED BY <1>1, <1>2, <1>3, <1>4, <1>5, <1>6, <2>1, ServerTakes
<1>8. CASE ServerNewProxy(c, refuse)
  <2>1. PICK good : good = (srv[c][n] = 0 /\ ~refuse)
    OBVIOUS
  <2>2. /\ m.ver # 0 /\ (refuse => left.refs > 0 /\ srv[c][n] = 0)
        /\ srv' = IF good THEN [srv EXCEPT ![c][n] = m.ver] ELSE srv
        /\ down' = [down EXCEPT ![c] = Append(@, [name |-> n, good |-> good])]
        /\ IF refuse THEN left' = [left EXCEPT !.refs = @ - 1] ELSE left' = left
    BY <1>1, <1>2, <1>5, <1>8, <2>1 DEF ServerNewProxy, Left, Spend
  <2>3. left' \in [drops: Nat, refs: Nat, bads: Nat, late: Nat] /\ left'.refs <= use.refs
        /\ (refuse => use.refs # 0)
    <3>1. PICK l : l = left
      OBVIOUS
    <3>2. l \in [drops: Nat, refs: Nat, bads: Nat, late: Nat] /\ l.refs <= use.refs /\ use.refs \in Nat
      BY <1>6, <3>1
    <3>3. CASE refuse
      <4>1. left' = [l EXCEPT !.refs = @ - 1] /\ l.refs > 0
        BY <2>2, <3>1, <3>3
      <4> QED BY <3>2, <4>1
    <3>4. CASE ~refuse
      <4>1. left' = l
        BY <2>2, <3>1, <3>4
      <4> QED BY <3>2, <3>4, <4>1
    <3> QED BY <3>3, <3>4
  <2>4. good \in BOOLEAN
    BY <2>1
  <2>5. down' \in [Ctl -> Seq(Verdict)] /\ \A d \in Ctl : d # c => down'[d] = down[d]
    <3>1. [name |-> n, good |-> good] \in Verdict
      BY <1>5, <2>4 DEF Verdict
    <3>2. Append(down[c], [name |-> n, good |-> good]) \in Seq(Verdict)
      BY <1>6, <3>1
    <3> QED BY <1>6, <2>2, <3>2
  <2>6. PICK x : x = IF good THEN m.ver ELSE srv[c][n]
    OBVIOUS
  <2>7. x \in Nat /\ srv' = [srv EXCEPT ![c] = [srv[c] EXCEPT ![n] = x]]
    <3>1. [srv EXCEPT ![c] = [srv[c] EXCEPT ![n] = srv[c][n]]] = srv
      BY <1>5, <1>6
    <3> QED BY <1>5, <1>6, <2>2, <2>6, <3>1
  <2>8. IF m.ver = 0 \/ srv[c][n] = 0 THEN x = m.ver \/ (x = 0 /\ use.refs # 0 /\ srv[c][n] = 0)
        ELSE x = srv[c][n]
    BY <2>1, <2>2, <2>3, <2>6
  <2> QED BY <1>1, <1>2, <1>3, <1>4, <1>5, <2>3, <2>5, <2>7, <2>8, ServerTakes
<1> QED BY <1>7, <1>8

LEMMA CtlInvStep == CtlInv /\ [Next]_vars => CtlInv'
<1> SUFFICES ASSUME CtlInv, [Next]_vars PROVE CtlInv'
  OBVIOUS
<1>1. CASE UNCHANGED vars
  <2>1. UNCHANGED <<use, left, cfg, ctl, lg, rl, stop, ses, wk, mgrs, wire, overlap>>
    BY <1>1 DEF vars
  <2>2. ClientTypes'
    BY <2>1 DEF CtlInv, ClientTypes, mgrs, wire
  <2>3. ReloadOK'
    BY <2>1 DEF CtlInv, ReloadOK, LoggingIn
  <2> QED BY <2>1, <2>2, <2>3, QuietStep
<1>2. CASE Next
  <2>1. \/ Login \/ ReloadGet \/ ReloadVisitors \/ ReloadProxies \/ StopSources \/ StopControl
        \/ Reload \/ Cancel \/ DialFails
        \/ \E c \in Ctl : \/ keepVisitorsRunning(c) \/ worker(c) \/ Drop(c)
                          \/ ServerNewProxy(c, FALSE) \/ ServerNewProxy(c, TRUE) \/ ServerCloseProxy(c)
                          \/ SetRunningStatus(c, TRUE) \/ SetRunningStatus(c, FALSE)
                          \/ \E n \in Name : \/ askStart(c, n) \/ withdraw(c, n)
                                             \/ checkGood(c, n) \/ checkBad(c, n)
    BY <1>2 DEF Next, Program, Environment, checkWorker
  <2>2. CASE Login
    BY <2>2, QuietSteps, DialKeeps, RunWorkerKeeps, RunProxiesKeeps, RunVisitorsKeeps, SwapKeeps
       DEF Login
  <2>3. CASE ReloadGet \/ ReloadVisitors \/ ReloadProxies \/ StopSources \/ StopControl \/ Reload
             \/ Cancel \/ DialFails
    BY <2>3, QuietSteps, ReloadVisitorsKeeps, ReloadProxiesKeeps, StopControlKeeps
  <2>4. ASSUME NEW c \in Ctl,
               \/ keepVisitorsRunning(c) \/ worker(c) \/ Drop(c)
               \/ ServerNewProxy(c, FALSE) \/ ServerNewProxy(c, TRUE) \/ ServerCloseProxy(c)
               \/ SetRunningStatus(c, TRUE) \/ SetRunningStatus(c, FALSE)
        PROVE  CtlInv'
    <3>1. PICK t \in BOOLEAN : t = TRUE
      OBVIOUS
    <3>2. PICK f \in BOOLEAN : f = FALSE
      OBVIOUS
    <3>3. CASE keepVisitorsRunning(c) \/ worker(c) \/ Drop(c)
      BY <3>3, KeepVisitorsKeeps, WorkerKeeps, DropKeeps
    <3>4. CASE ServerNewProxy(c, t) \/ ServerNewProxy(c, f) \/ ServerCloseProxy(c)
      BY <3>4, ServerKeeps
    <3>5. CASE SetRunningStatus(c, t) \/ SetRunningStatus(c, f)
      BY <3>5, AnswerKeeps
    <3> QED BY <2>4, <3>1, <3>2, <3>3, <3>4, <3>5
  <2>5. ASSUME NEW c \in Ctl, NEW n \in Name,
               askStart(c, n) \/ withdraw(c, n) \/ checkGood(c, n) \/ checkBad(c, n)
        PROVE  CtlInv'
    BY <2>5, askStartKeeps, WithdrawKeeps, CheckKeeps
  <2> QED BY <2>1, <2>2, <2>3, <2>4, <2>5
<1> QED BY <1>1, <1>2

\* Whatever connections break or are refused, whatever answers are late or belong to
\* an earlier request, and however logins, reloads, health checks and a stop overlap:
\* frps serves what frpc's wrappers have asked for and not withdrawn, and a control
\* that was replaced holds nothing (service.go, control.go, proxy_wrapper.go).
THEOREM ControlSoundHolds == Spec => []ControlSound
<1> QED BY CtlInvInit, CtlInvStep, CtlInvSound, PTL DEF Spec
=============================================================================

------------------------------ MODULE FrpConf -------------------------------
(***************************************************************************)
(* The configuration of a running frpc: the file it was started with, the  *)
(* store that its admin API changes, and what is applied of both.          *)
(*   upstream/frp/pkg/config/source    ConfigSource, StoreSource and the   *)
(*                                     Aggregator that merges them         *)
(*   upstream/frp/client/config_manager.go, client/http/controller.go      *)
(*   upstream/frp/client/service.go    UpdateConfigSource, reload          *)
(*   upstream/frp/pkg/config/load.go   loading and filtering               *)
(* An entry is a proxy or a visitor, [val, on]; val "bad" does not pass    *)
(* validation.  The configuration file is [ents, start, ok]; one that is   *)
(* being written is some part of it.  A write of the store's file may fail *)
(* and the process may crash between any two steps.                        *)
(***************************************************************************)
EXTENDS Naturals, FiniteSets, Functions, TLC

CONSTANTS
  Call,     \* calls of the admin API, each made at most once
  Absent    \* no such entry

ASSUME ConfAssumption == "" \notin Call   \* "" is nobody, where a lock is free

\* A scene: what each call asks, the files of the start, the failed writes and the
\* crashes there may be.  A call is [op, key, ent, body].
NoConf == [calls |-> <<>>, conf |-> [ents |-> <<>>, start |-> {}, ok |-> TRUE],
           disk |-> <<>>, faults |-> 0, crashes |-> 0]

VARIABLES
  cscene,
  conf,       \* the configuration file
  src, common, \* ConfigSource, and reloadCommon's list of what to start
  store, disk, tmp, \* StoreSource in memory, its file and the temporary file
  applied,    \* proxyCfgs and visitorCfgs
  running,         \* the process: "up", "stopped" or "down"
  lock,       \* who holds reloadMu
  call,       \* per call [at, res, old, read]
  acked       \* history: the store as far as calls were answered with success

mem == <<src, common, store, applied>>
confVars == <<cscene, conf, mem, disk, tmp, running, lock, call, acked>>

-----------------------------------------------------------------------------
(* Merging.                                                                *)

\* Entries by key; a key without one is not in the domain.
With(m, k, e) == [x \in DOMAIN m \cup {k} |-> IF x = k THEN e ELSE m[x]]
Without(m, k) == [x \in DOMAIN m \ {k} |-> m[x]]
Get(m, k) == IF k \in DOMAIN m THEN m[k] ELSE Absent

\* baseSource.Load: what is enabled.
enabled(m) == [k \in {x \in DOMAIN m : m[x].on} |-> m[k]]

\* Aggregator.Load: an enabled entry of the store replaces one of the file.
aggregated(file, st) == enabled(st) @@ enabled(file)

\* FilterClientConfigurers: an empty list starts everything.
filtered(m, start) ==
  [k \in {x \in DOMAIN m : start = {} \/ x[2] \in start} |-> m[k]]

merged == filtered(aggregated(src, store), common)

-----------------------------------------------------------------------------

NewCall == [at |-> "new", res |-> "", old |-> Absent,
          read |-> [ents |-> <<>>, start |-> {}, ok |-> TRUE]]

ConfInit(s) ==
  /\ cscene = s /\ conf = s.conf /\ src = s.conf.ents /\ common = s.conf.start
  /\ store = s.disk /\ disk = s.disk /\ tmp = <<>> /\ acked = s.disk
  /\ applied = filtered(aggregated(s.conf.ents, s.disk), s.conf.start)
  /\ running = "up" /\ lock = "" /\ call = [c \in Call |-> NewCall]

request(c) == cscene.calls[c]
New(c, ops) == running # "down" /\ c \in DOMAIN cscene.calls /\ call[c].at = "new" /\ request(c).op \in ops
CallGoto(c, at) == call' = [call EXCEPT ![c].at = at]
Reply(c, res) == call' = [call EXCEPT ![c].at = "done", ![c].res = res]
rest == <<conf, mem, disk, tmp, running>>

-----------------------------------------------------------------------------
(* The admin API.                                                          *)

\* The handlers of the API read the payload; one that names no entry, or another
\* entry than the path, is refused.
Asked(c, op, kind) ==
  /\ New(c, {op}) /\ request(c).key[1] = kind
  /\ IF request(c).ent.val = "unreadable" THEN Reply(c, "400") ELSE CallGoto(c, "call")
  /\ UNCHANGED <<cscene, rest, lock, acked>>
askCreateProxy(c) == Asked(c, "create", "proxy")
askUpdateProxy(c) == Asked(c, "update", "proxy")
askDeleteProxy(c) == Asked(c, "delete", "proxy")
askCreateVisitor(c) == Asked(c, "create", "visitor")
askUpdateVisitor(c) == Asked(c, "update", "visitor")
askDeleteVisitor(c) == Asked(c, "delete", "visitor")

\* validateStoreProxyConfigurer and validateStoreVisitorConfigurer.
valid(c) == request(c).ent.val # "bad"

\* The config manager refuses what does not validate.
Manages(c, op, kind, ok) ==
  /\ running # "down" /\ call[c].at = "call" /\ request(c).op = op /\ request(c).key[1] = kind
  /\ IF ok THEN CallGoto(c, "lock") ELSE Reply(c, "400")
  /\ UNCHANGED <<cscene, rest, lock, acked>>
CreateStoreProxy(c) == Manages(c, "create", "proxy", valid(c))
UpdateStoreProxy(c) == Manages(c, "update", "proxy", valid(c))
DeleteStoreProxy(c) == Manages(c, "delete", "proxy", TRUE)
CreateStoreVisitor(c) == Manages(c, "create", "visitor", valid(c))
UpdateStoreVisitor(c) == Manages(c, "update", "visitor", valid(c))
DeleteStoreVisitor(c) == Manages(c, "delete", "visitor", TRUE)

\* withStoreMutationAndReload, UpdateConfigSource: under reloadMu; without the
\* sources, which stop takes away, there is an error.
Lock(c) ==
  /\ call[c].at = "lock" /\ lock = "" /\ running # "down"
  /\ IF running = "stopped" THEN Reply(c, "404") /\ lock' = lock
     ELSE lock' = c /\ CallGoto(c, IF request(c).op = "reload" THEN "replace" ELSE "mutate")
  /\ UNCHANGED <<cscene, rest, acked>>

exists(c) == request(c).key \in DOMAIN store
Changes(c, m) == /\ store' = m
                 /\ call' = [call EXCEPT ![c].at = "write", ![c].old = Get(store, request(c).key)]
                 /\ lock' = lock
Refuses(c, res) == Reply(c, res) /\ lock' = "" /\ store' = store

\* Mutant: the mutex stays locked.
addStoreEntryLocked(c) ==
  /\ call[c].at = "mutate" /\ request(c).op = "create"
  /\ IF exists(c) THEN Reply(c, "409") /\ UNCHANGED <<store, lock>>
     ELSE Changes(c, With(store, request(c).key, request(c).ent))
  /\ UNCHANGED <<cscene, conf, src, common, applied, disk, tmp, running, acked>>

addStoreEntry(c) ==
  /\ call[c].at = "mutate" /\ request(c).op = "create"
  /\ IF exists(c) THEN Refuses(c, "409") ELSE Changes(c, With(store, request(c).key, request(c).ent))
  /\ UNCHANGED <<cscene, conf, src, common, applied, disk, tmp, running, acked>>

updateStoreEntry(c) ==
  /\ call[c].at = "mutate" /\ request(c).op = "update"
  /\ IF ~exists(c) THEN Refuses(c, "404") ELSE Changes(c, With(store, request(c).key, request(c).ent))
  /\ UNCHANGED <<cscene, conf, src, common, applied, disk, tmp, running, acked>>

removeStoreEntry(c) ==
  /\ call[c].at = "mutate" /\ request(c).op = "delete"
  /\ IF ~exists(c) THEN Refuses(c, "404") ELSE Changes(c, Without(store, request(c).key))
  /\ UNCHANGED <<cscene, conf, src, common, applied, disk, tmp, running, acked>>

\* Mutant: the entry stays.
rolledBackNot(c) == store

\* The memory as it was.
rolledBack(c) ==
  IF call[c].old = Absent THEN Without(store, request(c).key)
  ELSE With(store, request(c).key, call[c].old)

\* saveToFileUnlocked: the temporary file is written,
saveTemp(c) ==
  /\ call[c].at = "write" /\ tmp' = store /\ CallGoto(c, "rename")
  /\ UNCHANGED <<cscene, conf, mem, disk, running, lock, acked>>

\* and takes the place of the file.
renameTemp(c) ==
  /\ call[c].at = "rename" /\ disk' = store /\ tmp' = <<>> /\ CallGoto(c, "apply")
  /\ UNCHANGED <<cscene, conf, mem, running, lock, acked>>

\* persistOrRollbackUnlocked: one of the two fails.
saveFails(c) ==
  /\ call[c].at \in {"write", "rename"} /\ cscene.faults > 0
  /\ cscene' = [cscene EXCEPT !.faults = @ - 1]
  /\ store' = rolledBack(c) /\ tmp' = <<>> /\ lock' = "" /\ Reply(c, "500")
  /\ UNCHANGED <<conf, src, common, applied, disk, running, acked>>

\* reloadConfigFromSourcesLocked, and the answer.
reloadStore(c) ==
  /\ call[c].at = "apply" /\ applied' = merged /\ lock' = "" /\ Reply(c, "200")
  /\ acked' = IF request(c).op = "delete" THEN Without(acked, request(c).key)
              ELSE With(acked, request(c).key, request(c).ent)
  /\ UNCHANGED <<cscene, conf, src, common, store, disk, tmp, running>>

\* ReloadFromFile: the file is read and validated before the mutex is taken.
ReloadFromFile(c) ==
  /\ New(c, {"reload"})
  /\ call' = [call EXCEPT ![c] = IF conf.ok /\ \A k \in DOMAIN conf.ents : conf.ents[k].val # "bad"
                                 THEN [@ EXCEPT !.at = "lock", !.read = conf]
                                 ELSE [@ EXCEPT !.at = "done", !.res = "400"]]
  /\ UNCHANGED <<cscene, rest, lock, acked>>

\* UpdateConfigSource: replaced and applied.
UpdateConfigSource(c) ==
  /\ call[c].at = "replace" /\ src' = call[c].read.ents /\ common' = call[c].read.start
  /\ applied' = filtered(aggregated(src', store), common')
  /\ lock' = "" /\ Reply(c, "200")
  /\ UNCHANGED <<cscene, conf, store, disk, tmp, running, acked>>

\* PutConfig: the file is rewritten in place; a reader may see some part of it.
PutConfig(c) ==
  /\ New(c, {"put"}) /\ CallGoto(c, "put")
  /\ \E part \in SUBSET DOMAIN request(c).body.ents, ok \in BOOLEAN :
       conf' = [request(c).body EXCEPT !.ents = [k \in part |-> @[k]], !.ok = ok]
  /\ UNCHANGED <<cscene, mem, disk, tmp, running, lock, acked>>

PutDone(c) ==
  /\ call[c].at = "put" /\ conf' = request(c).body /\ Reply(c, "200")
  /\ UNCHANGED <<cscene, mem, disk, tmp, running, lock, acked>>

-----------------------------------------------------------------------------
(* The process.                                                            *)

\* Service.stop waits for the mutex and takes the sources away.
StopService(c) ==
  /\ New(c, {"stop"}) /\ lock = "" /\ Reply(c, "200") /\ running' = "stopped"
  /\ UNCHANGED <<cscene, conf, mem, disk, tmp, lock, acked>>

Crash ==
  /\ running = "up" /\ cscene.crashes > 0 /\ cscene' = [cscene EXCEPT !.crashes = @ - 1]
  /\ running' = "down" /\ lock' = ""
  /\ src' = <<>> /\ common' = {} /\ store' = <<>> /\ applied' = <<>>
  /\ call' = [c \in Call |-> IF call[c].at \in {"new", "done"} THEN call[c]
                             ELSE [call[c] EXCEPT !.at = "done", !.res = "lost"]]
  /\ UNCHANGED <<conf, disk, tmp, acked>>

\* NewStoreSource and NewService; it does not start with a file that does not parse.
Restart ==
  /\ running = "down" /\ conf.ok /\ running' = "up"
  /\ src' = conf.ents /\ common' = conf.start /\ store' = disk
  /\ applied' = filtered(aggregated(conf.ents, disk), conf.start)
  /\ UNCHANGED <<cscene, conf, disk, tmp, lock, call, acked>>

ConfAsk(c) == \/ askCreateProxy(c) \/ askUpdateProxy(c) \/ askDeleteProxy(c)
              \/ askCreateVisitor(c) \/ askUpdateVisitor(c) \/ askDeleteVisitor(c)
              \/ ReloadFromFile(c) \/ PutConfig(c) \/ StopService(c)
ConfStep(c) ==
  \/ CreateStoreProxy(c) \/ UpdateStoreProxy(c) \/ DeleteStoreProxy(c)
  \/ CreateStoreVisitor(c) \/ UpdateStoreVisitor(c) \/ DeleteStoreVisitor(c)
  \/ addStoreEntry(c) \/ updateStoreEntry(c) \/ removeStoreEntry(c)
  \/ saveTemp(c) \/ renameTemp(c) \/ saveFails(c) \/ reloadStore(c)
  \/ UpdateConfigSource(c) \/ PutDone(c)
ConfNext == Crash \/ Restart \/ \E c \in Call : ConfAsk(c) \/ ConfStep(c) \/ Lock(c)

\* A handler that has begun goes on, and whoever has the mutex gives it back.
ConfFair == \A c \in Call : /\ WF_confVars(c \in DOMAIN cscene.calls /\ ConfStep(c))
                           /\ SF_confVars(c \in DOMAIN cscene.calls /\ Lock(c))

-----------------------------------------------------------------------------
(* Properties.                                                             *)

\* Type invariant of the configuration.
ConfTypeOK ==
  /\ running \in {"up", "stopped", "down"} /\ lock \in Call \cup {""}
  /\ \A c \in Call : /\ call[c].at \in {"new", "call", "lock", "mutate", "write", "rename", "apply",
                                        "replace", "put", "done"}
                     /\ call[c].at \in {"mutate", "write", "rename", "apply", "replace"} => lock = c

\* "reloadMu serializes reload transactions to keep reloadCommon and applied config
\* in sync across concurrent API operations": between the transactions what is
\* applied is what the sources and the list make together.
InSync == running = "up" /\ lock = "" => applied = merged

\* Between the transactions the store's file is what the memory says, failed writes
\* and crashes included.
MemoryIsDisk == running = "up" /\ lock = "" => store = disk

\* An answer is true of the file: what succeeded is in it, what was refused or failed
\* is not; only a call that was never answered may be either way.
AnswersKept ==
  \A k \in DOMAIN disk \cup DOMAIN acked :
    \/ Get(disk, k) = Get(acked, k)
    \/ \E c \in DOMAIN cscene.calls :
         request(c).key = k /\ (call[c].at = "apply" \/ call[c].res = "lost")

\* Every call is answered, and the mutex is free again.
CallsEnd == []<>(lock = "") /\ \A c \in Call : (call[c].at # "new") ~> (call[c].at = "done")

\* Memory, file, what is applied and what was answered agree.
ConfSound == ConfTypeOK /\ MemoryIsDisk /\ InSync /\ AnswersKept
=============================================================================

----------------------------- MODULE NpsBridge -----------------------------
(***************************************************************************)
(* How npc clients come and go at the bridge of the NPS server:            *)
(* upstream/NPS/bridge/bridge.go (the table Client, typeDeal, DelClient,   *)
(* ping, getConfig), server/server.go (DealBridgeTask and the tasks it     *)
(* starts and stops) and client/client.go, client/control.go (one run of   *)
(* StartFromFile and of TRPClient.Start, called a session here).           *)
(*                                                                         *)
(* A session has two connections to the bridge, the signal ("sig") and the *)
(* tunnel ("tun", a Mux).  A connection is in `live` until either end      *)
(* closes it or the network cuts it; from then on both ends read an error, *)
(* whenever they come to read.  A session with a public key first holds a  *)
(* configuration conversation, which gives it a client of its own, marked  *)
(* NoStore, and at most one task; the others share the client Stored.      *)
(*                                                                         *)
(* DelClient is three steps, for Client.Load, Client.Delete and the send   *)
(* on CloseClient are three, and it runs in several goroutines: the one    *)
(* that reads the health of a signal, the one that pings, a configuration  *)
(* conversation that fails and the web console.  A handler of typeDeal     *)
(* that finds an entry is two steps, LoadOrStore and the assignment to the *)
(* entry, which may have left the table in between.  The file tunnel and   *)
(* p2p connections are left out.                                           *)
(***************************************************************************)
EXTENDS Naturals, FiniteSets

CONSTANTS
  Plain,     \* sessions with the key of the stored client
  Config,    \* sessions with the public key
  Stored,    \* the stored client
  Pinger,    \* the goroutine of Bridge.ping
  Console,   \* a handler of the web console
  None,
  RetryLimit,\* 3 in the code
  Setups     \* the scenes considered, see Setup

\* Who takes part, which kinds of faults occur (the death of a process, a cut
\* connection, a failed dial, a command of the console) and how many in all.
Setup == [who: SUBSET (Plain \cup Config), max: Nat,
          kinds: SUBSET {"crash", "cut", "dial", "console"}]

ASSUME BridgeAssumption ==
  /\ Plain \cap Config = {} /\ Stored \notin Config
  /\ {Pinger, Console} \cap (Plain \cup Config) = {} /\ Pinger # Console
  /\ None \notin Plain \cup Config \cup {Stored}
  /\ Setups \subseteq Setup
  /\ RetryLimit \in Nat \ {0}

Session  == Plain \cup Config
ClientId == {Stored} \cup Config
Deleter  == Session \cup {Pinger, Console}

\* The client a session has the key of.
id(s) == IF s \in Plain THEN Stored ELSE s

VARIABLES
  npc,    \* the session's process: idle, conv, dial, up, end
  chan,   \* its goroutine newChan: none, dial, up, failed
  live,   \* the connections that are open at both ends
  pend,   \* connections that are verified and wait in typeDeal: for LoadOrStore (main,
          \* chan), with the entry of the table in hand (mainIn, chanIn), or with one
          \* that has left the table (mainOut, chanOut)
  conv,   \* the server's getConfig: none, conf, store, read, open, end
  db,     \* file.Clients: absent, off (Status is false), on
  task,   \* the NoStore task of a client: in file.Tasks (db), in RunList (run)
  reg,    \* Bridge.Client, NoReg where there is no entry
  watch,  \* the sessions whose signal GetHealthFromClient reads
  del,    \* the goroutines in DelClient: [at, of]
  todo,   \* the array of Bridge.ping
  deal,   \* the client DealBridgeTask is removing, None otherwise
  use,    \* the scene, which never changes
  faults  \* how much has gone wrong

npcVars == <<npc, chan>>
vars == <<npc, chan, live, pend, conv, db, task, reg, watch, del, todo, deal,
          use, faults>>

NoReg == [on |-> FALSE, sig |-> None, tun |-> None, retry |-> 0]
Idle  == [at |-> "idle", of |-> None]
NewClient(sig, tun) == [on |-> TRUE, sig |-> sig, tun |-> tun, retry |-> 0]

\* An entry of the table that lacks one of its two connections.
Half(i) == reg[i].on /\ (reg[i].sig = None \/ reg[i].tun = None)

Init ==
  /\ npc = [s \in Session |-> "idle"] /\ chan = [s \in Session |-> "none"]
  /\ live = {} /\ pend = {}
  /\ conv = [s \in Config |-> "none"]
  /\ db = [i \in ClientId |-> IF i = Stored THEN "on" ELSE "absent"]
  /\ task = [i \in ClientId |-> {}]
  /\ reg = [i \in ClientId |-> NoReg]
  /\ watch = {} /\ del = [d \in Deleter |-> Idle] /\ todo = {} /\ deal = None
  /\ use \in Setups /\ faults = 0

\* Something goes wrong, or the console interferes.
Fault(kind) == /\ kind \in use.kinds /\ faults < use.max
               /\ faults' = faults + 1 /\ use' = use
Calm == UNCHANGED <<use, faults>>

-----------------------------------------------------------------------------
(* The client process.                                                     *)

\* StartFromFile, to where the server has accepted WORK_CONFIG, or the plain
\* npc, which goes straight to Start.
Begin(s) ==
  /\ npc[s] = "idle" /\ s \in use.who
  /\ npc' = [npc EXCEPT ![s] = IF s \in Config THEN "conv" ELSE "dial"]
  /\ conv' = IF s \in Config THEN [conv EXCEPT ![s] = "conf"] ELSE conv
  /\ Calm
  /\ UNCHANGED <<chan, live, pend, db, task, reg, watch, del, todo, deal>>

\* Its last answer read, it closes the conversation and calls Start.  It does
\* not wait for the server to have stored the entry.
ConfigDone(s) ==
  /\ npc[s] = "conv" /\ conv[s] \in {"store", "read"}
  /\ npc' = [npc EXCEPT ![s] = "dial"]
  /\ Calm
  /\ UNCHANGED <<chan, live, pend, conv, db, task, reg, watch, del, todo, deal>>

\* The conversation broke off: goto re, a session that begins anew.
ConfigFailed(s) ==
  /\ npc[s] = "conv" /\ conv[s] = "end"
  /\ npc' = [npc EXCEPT ![s] = "end"]
  /\ Calm
  /\ UNCHANGED <<chan, live, pend, conv, db, task, reg, watch, del, todo, deal>>

\* cliProcess: the key belongs to a client that is not switched off.
verified(s) == db[id(s)] = "on"

\* NewConn: dialled and verified, the kind of connection written; the server
\* has still to read it.
NewConn(s, kind, flag) ==
  /\ verified(s)
  /\ live' = live \cup {<<s, kind>>} /\ pend' = pend \cup {<<s, flag>>}

\* Start, from the dial that succeeds on; it sleeps and retries the others.
Start(s) ==
  /\ npc[s] = "dial" /\ NewConn(s, "sig", "main")
  /\ npc' = [npc EXCEPT ![s] = "up"] /\ chan' = [chan EXCEPT ![s] = "dial"]
  /\ Calm /\ UNCHANGED <<conv, db, task, reg, watch, del, todo, deal>>

\* newChan: it dials whether or not the session has been closed meanwhile.
newChan(s) ==
  /\ chan[s] = "dial" /\ NewConn(s, "tun", "chan")
  /\ chan' = [chan EXCEPT ![s] = "up"]
  /\ Calm /\ UNCHANGED <<npc, conv, db, task, reg, watch, del, todo, deal>>

\* Its dial fails: the goroutine returns, the session goes on with no tunnel.
newChanFails(s) ==
  /\ chan[s] = "dial"
  /\ chan' = [chan EXCEPT ![s] = "failed"]
  /\ IF verified(s) THEN Fault("dial") ELSE Calm
  /\ UNCHANGED <<npc, live, pend, conv, db, task, reg, watch, del, todo, deal>>

\* closing(), once: the tunnel if there is one already, and the signal.
closing(s) ==
  /\ npc' = [npc EXCEPT ![s] = "end"]
  /\ live' = live \ ({<<s, "sig">>}
                     \cup (IF chan[s] = "up" THEN {<<s, "tun">>} ELSE {}))
  /\ Calm
  /\ UNCHANGED <<chan, pend, conv, db, task, reg, watch, del, todo, deal>>

\* handleMain reads an error from the signal.  What else it reads, RES_CLOSE
\* included, it skips.
handleMain(s) == npc[s] = "up" /\ <<s, "sig">> \notin live /\ closing(s)

\* Accept fails or ping finds the tunnel closed.
tunnelClosed(s) ==
  npc[s] = "up" /\ chan[s] = "up" /\ <<s, "tun">> \notin live /\ closing(s)

\* The process is killed, wherever it is.
Crash(s) ==
  /\ npc[s] \in {"conv", "dial", "up"}
  /\ npc' = [npc EXCEPT ![s] = "end"] /\ chan' = [chan EXCEPT ![s] = "none"]
  /\ live' = {c \in live : c[1] # s}
  /\ Fault("crash")
  /\ UNCHANGED <<pend, conv, db, task, reg, watch, del, todo, deal>>

\* The network drops a connection.
Cut(c) ==
  /\ c \in live /\ live' = live \ {c}
  /\ Fault("cut")
  /\ UNCHANGED <<npcVars, pend, conv, db, task, reg, watch, del, todo, deal>>

-----------------------------------------------------------------------------
(* The bridge: typeDeal.                                                   *)

\* LoadOrStore: a new entry with the one connection, or the entry there is in hand.
\* A signal of its own then starts GetHealthFromClient.
LoadOrStore(s, flag, held, new) ==
  /\ <<s, flag>> \in pend
  /\ IF reg[id(s)].on
     THEN pend' = (pend \ {<<s, flag>>}) \cup {<<s, held>>} /\ UNCHANGED <<reg, watch>>
     ELSE /\ pend' = pend \ {<<s, flag>>} /\ reg' = [reg EXCEPT ![id(s)] = new]
          /\ watch' = IF flag = "main" THEN watch \cup {s} ELSE watch
  /\ Calm /\ UNCHANGED <<npcVars, live, conv, db, task, del, todo, deal>>

\* WORK_MAIN.  The signal of the entry there is, if any, is told to close,
\* which its client does not heed, and replaced; nobody looks any more at an entry
\* that has left the table.
typeDealMain(s) == LoadOrStore(s, "main", "mainIn", NewClient(s, None))
ReplaceSignal(s) ==
  /\ \/ <<s, "mainIn">> \in pend /\ reg' = [reg EXCEPT ![id(s)].sig = s]
     \/ <<s, "mainOut">> \in pend /\ reg' = reg
  /\ pend' = pend \ {<<s, "mainIn">>, <<s, "mainOut">>} /\ watch' = watch \cup {s}
  /\ Calm /\ UNCHANGED <<npcVars, live, conv, db, task, del, todo, deal>>

\* WORK_CHAN.
typeDealChan(s) == LoadOrStore(s, "chan", "chanIn", NewClient(None, s))
ReplaceTunnel(s) ==
  /\ \/ <<s, "chanIn">> \in pend /\ reg' = [reg EXCEPT ![id(s)].tun = s]
     \/ <<s, "chanOut">> \in pend /\ reg' = reg
  /\ pend' = pend \ {<<s, "chanIn">>, <<s, "chanOut">>}
  /\ Calm /\ UNCHANGED <<npcVars, live, conv, db, task, watch, del, todo, deal>>

\* The entry of a client leaves the table; those that have it in hand keep it.
LeavesTable(i) ==
  pend' = {IF id(p[1]) = i /\ p[2] = "mainIn" THEN <<p[1], "mainOut">> ELSE
           IF id(p[1]) = i /\ p[2] = "chanIn" THEN <<p[1], "chanOut">> ELSE p : p \in pend}

\* DelClient, the entry loaded: its signal is closed, if it has one; the tunnel
\* is left to the client.  With no entry there is nothing to do.
DelLoad(d, i) ==
  IF reg[i].on THEN /\ live' = live \ {<<reg[i].sig, "sig">>}
                    /\ del' = [del EXCEPT ![d] = [at |-> "delete", of |-> i]]
               ELSE live' = live /\ del' = [del EXCEPT ![d] = Idle]

\* GetHealthFromClient reads an error from the signal it was started with.
GetHealthFromClient(s) ==
  /\ s \in watch /\ <<s, "sig">> \notin live /\ del[s] = Idle
  /\ watch' = watch \ {s}
  /\ DelLoad(s, id(s))
  /\ Calm /\ UNCHANGED <<npcVars, pend, conv, db, task, reg, todo, deal>>

\* Mutant: ping looks for missing connections only.
pingNoClosed ==
  /\ todo = {} /\ del[Pinger] = Idle
  /\ LET tried(i) == IF Half(i) /\ reg[i].retry < RetryLimit
                     THEN reg[i].retry + 1 ELSE reg[i].retry
     IN  /\ reg' = [i \in ClientId |-> [reg[i] EXCEPT !.retry = tried(i)]]
         /\ todo' = {i \in ClientId : Half(i) /\ tried(i) >= RetryLimit}
  /\ Calm /\ UNCHANGED <<npcVars, live, pend, conv, db, task, watch, del, deal>>

\* One round of ping, every five seconds: what it finds to delete.
ping ==
  /\ todo = {} /\ del[Pinger] = Idle
  /\ LET tried(i) == IF Half(i) /\ reg[i].retry < RetryLimit
                     THEN reg[i].retry + 1 ELSE reg[i].retry
     IN  /\ reg' = [i \in ClientId |-> [reg[i] EXCEPT !.retry = tried(i)]]
         /\ todo' = {i \in ClientId : reg[i].on
                       /\ IF Half(i) THEN tried(i) >= RetryLimit
                          ELSE <<reg[i].tun, "tun">> \notin live}
  /\ Calm /\ UNCHANGED <<npcVars, live, pend, conv, db, task, watch, del, deal>>

\* ... and the call of DelClient for one of them.
pingDel(i) ==
  /\ i \in todo /\ del[Pinger] = Idle /\ todo' = todo \ {i}
  /\ DelLoad(Pinger, i)
  /\ Calm /\ UNCHANGED <<npcVars, pend, conv, db, task, reg, watch, deal>>

\* ... whatever entry is there now is deleted.
DelDelete(d) ==
  /\ del[d].at = "delete"
  /\ reg' = [reg EXCEPT ![del[d].of] = NoReg] /\ LeavesTable(del[d].of)
  /\ del' = [del EXCEPT ![d] = IF db[@.of] = "absent" THEN Idle
                               ELSE [@ EXCEPT !.at = "tell"]]
  /\ Calm
  /\ UNCHANGED <<npcVars, live, conv, db, task, watch, todo, deal>>

\* DelTask, for the task of a client: found through file.Tasks only, its server
\* stopped if it runs.
DelTunnelAndHostByClientId(i) ==
  task' = [task EXCEPT ![i] = IF "db" \in @ THEN {} ELSE @]

\* ... CloseClient <- id, received by DealBridgeTask, which deletes the tasks
\* that are not stored: those of file.Tasks, their servers stopped.
CloseClient(d) ==
  /\ del[d].at = "tell" /\ deal = None
  /\ DelTunnelAndHostByClientId(del[d].of)
  /\ deal' = del[d].of /\ del' = [del EXCEPT ![d] = Idle]
  /\ Calm /\ UNCHANGED <<npcVars, live, pend, conv, db, reg, watch, todo>>

\* Mutant: DealBridgeTask itself calls DelClient and waits for itself.
CloseNoStoreAgain ==
  /\ deal # None /\ ~reg[deal].on /\ deal' = None
  /\ db' = IF deal = Stored THEN db ELSE [db EXCEPT ![deal] = "absent"]
  /\ Calm
  /\ UNCHANGED <<npcVars, live, pend, conv, task, reg, watch, del, todo>>

\* ... and then the client, if it is not stored either.
CloseNoStore ==
  /\ deal # None /\ deal' = None
  /\ db' = IF deal = Stored THEN db ELSE [db EXCEPT ![deal] = "absent"]
  /\ Calm
  /\ UNCHANGED <<npcVars, live, pend, conv, task, reg, watch, del, todo>>

-----------------------------------------------------------------------------
(* The bridge: getConfig.                                                  *)

\* file.NewClient, with a number of its own.
dbNewClient(i) == db' = [db EXCEPT ![i] = "on"]

\* NEW_CONF: the client is created and its key sent, or the name is taken.
NewConf(s) ==
  /\ conv[s] = "conf" /\ npc[s] = "conv"
  /\ \/ conv' = [conv EXCEPT ![s] = "store"] /\ dbNewClient(s)
     \/ conv' = [conv EXCEPT ![s] = "end"] /\ db' = db
  /\ Calm
  /\ UNCHANGED <<npcVars, live, pend, task, reg, watch, del, todo, deal>>

\* ... and only then an entry with neither connection takes its place.
NewConfStore(s) ==
  /\ conv[s] = "store" /\ conv' = [conv EXCEPT ![s] = "read"]
  /\ reg' = [reg EXCEPT ![s] = NewClient(None, None)] /\ LeavesTable(s)
  /\ Calm /\ UNCHANGED <<npcVars, live, db, task, watch, del, todo, deal>>

\* NEW_TASK: the task is in file.Tasks and waits to be opened.
NewTask(s) ==
  /\ conv[s] = "read" /\ npc[s] = "conv" /\ task[s] = {}
  /\ conv' = [conv EXCEPT ![s] = "open"] /\ task' = [task EXCEPT ![s] = {"db"}]
  /\ Calm /\ UNCHANGED <<npcVars, live, pend, db, reg, watch, del, todo, deal>>

\* NEW_TASK that is refused: WriteAddFail, and the client is deleted.
NewTaskFails(s) ==
  /\ conv[s] = "read" /\ npc[s] = "conv" /\ del[s] = Idle
  /\ conv' = [conv EXCEPT ![s] = "end"]
  /\ DelLoad(s, s)
  /\ Calm /\ UNCHANGED <<npcVars, pend, db, task, reg, watch, todo, deal>>

\* AddTask runs the task it is given, in file.Tasks or not; StartTask looks it
\* up there.
AddTask(i)   == task' = [task EXCEPT ![i] = @ \cup {"run"}]
StartTask(i) == "db" \in task[i] /\ AddTask(i)

\* OpenTask, received by either of the two cases of DealBridgeTask; the port may
\* be taken.
OpenTask(s) ==
  /\ conv[s] = "open" /\ deal = None
  /\ conv' = [conv EXCEPT ![s] = "read"]
  /\ AddTask(s) \/ StartTask(s) \/ task' = task
  /\ Calm /\ UNCHANGED <<npcVars, live, pend, db, reg, watch, del, todo, deal>>

\* The other end is gone: the loop ends and, nothing having failed, that is all.
ConvEnds(s) ==
  /\ conv[s] \in {"conf", "read"} /\ npc[s] # "conv"
  /\ conv' = [conv EXCEPT ![s] = "end"]
  /\ Calm
  /\ UNCHANGED <<npcVars, live, pend, db, task, reg, watch, del, todo, deal>>

-----------------------------------------------------------------------------
(* The web console.                                                        *)

\* ChangeStatus of the stored client.
ChangeStatus(b) ==
  /\ del[Console] = Idle /\ db[Stored] = (IF b THEN "off" ELSE "on")
  /\ db' = [db EXCEPT ![Stored] = IF b THEN "on" ELSE "off"]
  /\ del' = IF b THEN del
            ELSE [del EXCEPT ![Console] = [at |-> "load", of |-> Stored]]
  /\ Fault("console")
  /\ UNCHANGED <<npcVars, live, pend, conv, task, reg, watch, todo, deal>>

\* Del: the client and its tasks first, the connection last.
Del(i) ==
  /\ del[Console] = Idle /\ db[i] # "absent"
  /\ db' = [db EXCEPT ![i] = "absent"]
  /\ DelTunnelAndHostByClientId(i)
  /\ del' = [del EXCEPT ![Console] = [at |-> "load", of |-> i]]
  /\ Fault("console")
  /\ UNCHANGED <<npcVars, live, pend, conv, reg, watch, todo, deal>>

\* ... DelClientConnect.
DelClientConnect ==
  /\ del[Console].at = "load" /\ DelLoad(Console, del[Console].of)
  /\ Calm /\ UNCHANGED <<npcVars, pend, conv, db, task, reg, watch, todo, deal>>

-----------------------------------------------------------------------------
Client(s) == Begin(s) \/ Start(s) \/ newChan(s) \/ newChanFails(s)
             \/ handleMain(s) \/ tunnelClosed(s) \/ Crash(s)
             \/ typeDealMain(s) \/ ReplaceSignal(s) \/ typeDealChan(s) \/ ReplaceTunnel(s)
             \/ GetHealthFromClient(s)
Conversation(s) == ConfigDone(s) \/ ConfigFailed(s) \/ NewConf(s)
                   \/ NewConfStore(s) \/ NewTask(s) \/ NewTaskFails(s)
                   \/ OpenTask(s) \/ ConvEnds(s)
DelClient(d) == DelDelete(d) \/ CloseClient(d)

Next ==
  \/ \E s \in Session : Client(s)
  \/ \E s \in Config : Conversation(s)
  \/ \E d \in Deleter : DelClient(d)
  \/ \E c \in Session \X {"sig", "tun"} : Cut(c)
  \/ ping \/ \E i \in ClientId : pingDel(i)
  \/ CloseNoStore \/ DelClientConnect
  \/ \E b \in BOOLEAN : ChangeStatus(b)
  \/ \E i \in ClientId : Del(i)

Spec == Init /\ [][Next]_vars

\* Goroutines run on: dials come to an end, readers read, messages are handled.
\* Whether a session begins, how it answers in its conversation, whether it
\* dies or is cut off, and what the console does, is up to them.
Progress ==
  \/ \E s \in Session : \/ newChan(s) \/ newChanFails(s)
                        \/ handleMain(s) \/ tunnelClosed(s)
                        \/ typeDealMain(s) \/ ReplaceSignal(s)
                        \/ typeDealChan(s) \/ ReplaceTunnel(s)
                        \/ GetHealthFromClient(s)
  \/ \E s \in Config : \/ ConfigFailed(s) \/ NewConfStore(s)
                       \/ OpenTask(s) \/ ConvEnds(s)
  \/ \E d \in Deleter : DelClient(d)
  \/ CloseNoStore \/ DelClientConnect \/ \E i \in ClientId : pingDel(i)

\* Weak fairness of their union is all that is needed, for every step but the
\* ticker's is taken a bounded number of times: it is less than the scheduler
\* and the queues of the channels give every goroutine.
FairSpec == Spec /\ WF_vars(Progress) /\ WF_vars(ping)

-----------------------------------------------------------------------------
(* Properties.                                                             *)

BridgeTypeOK ==
  /\ npc \in [Session -> {"idle", "conv", "dial", "up", "end"}]
  /\ chan \in [Session -> {"none", "dial", "up", "failed"}]
  /\ live \subseteq Session \X {"sig", "tun"}
  /\ pend \subseteq Session \X {"main", "mainIn", "mainOut", "chan", "chanIn", "chanOut"}
  /\ conv \in [Config -> {"none", "conf", "store", "read", "open", "end"}]
  /\ db \in [ClientId -> {"absent", "off", "on"}]
  /\ task \in [ClientId -> SUBSET {"db", "run"}]
  /\ reg \in [ClientId -> [on: BOOLEAN, sig: Session \cup {None},
                            tun: Session \cup {None}, retry: 0..RetryLimit]]
  /\ watch \subseteq Session
  /\ del \in [Deleter -> [at: {"idle", "load", "delete", "tell"},
                           of: ClientId \cup {None}]]
  /\ use \in Setups /\ faults \in 0..use.max
  /\ todo \subseteq ClientId /\ deal \in ClientId \cup {None}

\* Once a session has ended and nothing of it is connected any more, the table
\* of the bridge forgets it: neither a signal nor a tunnel that arrived late,
\* after the entry was deleted or next to the signal of another session, stays
\* behind as the way to reach the client.
Gone(s) == /\ npc[s] = "end" /\ chan[s] # "dial"
           /\ \A c \in live : c[1] # s
GoneIsForgotten ==
  \A s \in Session :
    Gone(s) ~> \A i \in ClientId : reg[i].sig # s /\ reg[i].tun # s

\* An entry that lacks its signal or its tunnel (newChan's dial failed, or one
\* of them arrived after a deletion) is completed or deleted in the end: no
\* client is listed as connected that cannot be reached.
HalfEnds == \A i \in ClientId : Half(i) ~> ~Half(i)

\* The client that a configuration conversation created is removed from the
\* database after its session has ended, wherever it ended: before the entry
\* was stored, in the middle of the conversation, while it dialled or later.
ConfigForgotten ==
  \A s \in Config : npc[s] = "end" ~> db[s] = "absent"

\* DelClient is never stuck in its send on CloseClient, although every goroutine
\* that deletes clients and every conversation that opens a task meets the one
\* DealBridgeTask, over channels with no buffer.
DelClientReturns == \A d \in Deleter : del[d].at = "tell" ~> del[d] = Idle

\* However sessions come and go, what the bridge keeps of them is cleaned up.
BridgeSettles == /\ []BridgeTypeOK /\ GoneIsForgotten /\ HalfEnds
                 /\ ConfigForgotten /\ DelClientReturns
=============================================================================

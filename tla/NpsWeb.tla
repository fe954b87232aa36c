------------------------------- MODULE NpsWeb -------------------------------
(***************************************************************************)
(* The database of an NPS server, lib/file, and the handlers of its web    *)
(* console that change it, web/controllers with server/server.go: clients, *)
(* tasks and hosts in three concurrent maps, and a file of each that is    *)
(* written under a mutex of its own to a temporary file and renamed.       *)
(*                                                                         *)
(* A handler takes no lock over its whole run.  It is a list of steps, a   *)
(* step being one access to the maps or one writing of a file, and the     *)
(* steps of requests interleave.  A map holds pointers: a handler that has *)
(* looked an object up goes on writing to it when it has left the map, and *)
(* may put it back.  An answer is a panic that beego recovers, and so is a *)
(* file that cannot be created; the second leaves its mutex locked.        *)
(***************************************************************************)
EXTENDS Naturals, Sequences, FiniteSets, SequencesExt

CONSTANTS
  Slot,      \* goroutines that serve requests
  Key,       \* verify keys that can be generated
  Port,      \* ports of the server
  Cap,       \* the largest id
  NoPost

Kinds == {"clients", "tasks", "hosts"}
Ids == 1..Cap
NoMode == {"secret", "p2p"}              \* the modes that open no port

VARIABLES
  db,        \* the maps: objects by id, in the map or not
  in,        \* the ids that are in each map
  lastId,    \* ClientIncreaseId, TaskIncreaseId, HostIncreaseId
  runList,   \* RunList: the tasks with a server
  files,     \* clients.json, tasks.json, hosts.json
  stuck,     \* the files whose mutex was left locked
  lost,      \* history: the files whose last writing was not renamed
  serve,     \* the requests under way
  todo,      \* the requests still to come
  asked,     \* the requests that came
  answered,  \* the requests answered with success, since the server started
  budget     \* crashes and failures of a file still to come

webVars == <<db, in, lastId, runList, files, stuck, lost, serve, todo, asked, answered, budget>>

Client(i) == db.clients[i]
Task(i) == db.tasks[i]
Host(i) == db.hosts[i]
Idle == [req |-> NoPost, at |-> <<>>, id |-> 0, ids |-> {}]
Doing(s, step) == serve[s].at # <<>> /\ Head(serve[s].at) = step
Posted(s) == serve[s].req

WebInit(sc) ==
  /\ db = sc.db /\ in = sc.in /\ todo = sc.todo /\ budget = sc.budget
  /\ lastId = [k \in Kinds |-> Max(in[k] \cup {0})]
  /\ files = [k \in Kinds |-> [i \in in[k] |-> db[k][i]]]
  /\ runList = {i \in in.tasks : db.tasks[i].on}
  /\ stuck = {} /\ lost = {} /\ asked = {} /\ answered = {} /\ serve = [s \in Slot |-> Idle]

-----------------------------------------------------------------------------
(* How a request goes on.                                                  *)

\* The steps of each handler.
DelTask == <<"close", "put", "saveTasks", "forget", "drop", "saveTasks">>
Steps(op) ==
  CASE op = "add" -> <<"make", "put", "saveTasks", "run">>
    [] op = "copy" -> <<"copy", "put", "saveTasks", "run">>
    [] op = "edit" -> <<"edit", "put", "saveTasks", "close", "put", "saveTasks", "forget",
                        "start", "put", "saveTasks">>
    [] op = "stop" -> <<"close", "put", "saveTasks", "forget">>
    [] op = "start" -> <<"start", "put", "saveTasks">>
    [] op = "del" -> DelTask
    [] op = "addHost" -> <<"makeHost", "putHost", "saveHosts">>
    [] op = "editHost" -> <<"editHost", "saveHosts">>
    [] op = "delHost" -> <<"dropHost", "saveHosts">>
    [] op = "shutHost" -> <<"shutHost">>
    [] op = "addClient" -> <<"makeClient", "putClient", "saveClients">>
    [] op = "editClient" -> <<"editClient", "saveClients">>
    [] op = "changeStatus" -> <<"status">>
    [] op = "delClient" -> <<"dropClient", "saveClients", "tasksOfClient">>
    [] op = "white" -> <<"white", "putClient">>

\* Request s goes on as c, and is answered when nothing is left of it.
Go(s, c) ==
  /\ serve' = [serve EXCEPT ![s] = IF c.at = <<>> THEN Idle ELSE c]
  /\ answered' = IF c.at = <<>> THEN answered \cup {<<c.req.op, c.id>>} ELSE answered
Done(s) == Go(s, [serve[s] EXCEPT !.at = Tail(@)])
Refuse(s) == serve' = [serve EXCEPT ![s] = Idle] /\ UNCHANGED answered

\* Prepare and CheckUserAuth: a user that is no administrator asks for its own
\* client, whatever the request says, and only for objects of that client.
Prepare(q) == IF q.who = 0 THEN q ELSE [q EXCEPT !.cl = q.who]
CheckUserAuth(q) ==
  q.who # 0 =>
    CASE q.op = "addClient" -> FALSE
      [] q.op \in {"editClient", "changeStatus", "delClient"} -> q.id \in {0, q.who}
      [] q.op \in {"editHost", "delHost", "shutHost"} ->
           q.id # 0 => q.id \in in.hosts /\ Host(q.id).client = q.who
      [] OTHER -> q.id # 0 => q.id \in in.tasks /\ Task(q.id).client = q.who

Arrive(s) ==
  \E q \in todo :
    /\ serve[s] = Idle /\ todo' = todo \ {q} /\ asked' = asked \cup {q}
    /\ serve' = IF CheckUserAuth(q)
                THEN [serve EXCEPT ![s] = [req |-> Prepare(q), at |-> Steps(q.op),
                                           id |-> q.id, ids |-> {}]]
                ELSE serve
    /\ UNCHANGED <<db, in, lastId, runList, files, stuck, lost, answered, budget>>

-----------------------------------------------------------------------------
(* Ports and numbers of tunnels.                                           *)

\* What TestTcpPort and TestUdpPort find: a server listens there.
Taken(p) == \E i \in runList : Task(i).mode \notin NoMode /\ Task(i).port = p
\* IsServerPortAllowed: an empty pool allows every port.
Allowed(t) ==
  LET pool == Client(t.client).pool
  IN t.mode \in NoMode \/ pool = {} \/ t.port \in pool
\* GenerateServerPortInPool: a free port.
Generated(t) ==
  LET pool == Client(t.client).pool
  IN {p \in IF pool = {} THEN Port ELSE pool : ~Taken(p)}

\* The ports ensureTunnelPort settles for; none when it answers with an error.
ensureTunnelPort(t, testListen) ==
  IF t.port = 0 THEN Generated(t)
  ELSE {p \in {t.port} : Allowed(t) /\ (testListen => ~Taken(p))}

GetTunnelNum(c) ==
  Cardinality({i \in in.tasks : Task(i).client = c})
    + Cardinality({i \in in.hosts : Host(i).client = c})
Full(c) == Client(c).max # 0 /\ GetTunnelNum(c) >= Client(c).max

\* NewTask refuses the password of another secret tunnel.
SecretTaken(t) ==
  /\ t.pw # ""
  /\ \E i \in in.tasks : Task(i).mode \in NoMode /\ Task(i).pw = t.pw

-----------------------------------------------------------------------------
(* Tasks.                                                                  *)

\* The id is drawn and the checks are made; the object is not in the map yet.
NewTask(s, t) ==
  LET id == lastId.tasks + 1
      ports == ensureTunnelPort(t, TRUE)
  IN /\ id <= Cap /\ lastId' = [lastId EXCEPT !.tasks = id]
     /\ \/ (ports = {} \/ Full(t.client) \/ SecretTaken(t)) /\ Refuse(s) /\ UNCHANGED db
        \/ \E p \in ports :
             /\ ~Full(t.client) /\ ~SecretTaken(t)
             /\ db' = [db EXCEPT !.tasks[id] = [t EXCEPT !.port = p]]
             /\ Go(s, [serve[s] EXCEPT !.at = Tail(@), !.id = id])

NoClient(s) == Refuse(s) /\ UNCHANGED <<db, lastId>>

Add(s) ==
  /\ Doing(s, "make")
  /\ IF Posted(s).cl \in in.clients
     THEN NewTask(s, [Posted(s).val EXCEPT !.client = Posted(s).cl, !.on = TRUE])
     ELSE NoClient(s)
  /\ UNCHANGED <<in, runList, files, stuck, lost, todo, asked, budget>>

Copy(s) ==
  /\ Doing(s, "copy")
  /\ IF Posted(s).id \in in.tasks /\ Task(Posted(s).id).client \in in.clients
     THEN NewTask(s, [Task(Posted(s).id) EXCEPT !.port = 0, !.on = TRUE])
     ELSE NoClient(s)
  /\ UNCHANGED <<in, runList, files, stuck, lost, todo, asked, budget>>

\* Edit writes to the object as it goes, so a refused port leaves it half edited.
\* Of a task that is not there it says that the edit succeeded.
Edit(s) ==
  /\ Doing(s, "edit")
  /\ LET id == Posted(s).id
         new == [Posted(s).val EXCEPT !.client = Posted(s).cl, !.on = Task(id).on]
         test == new.port # Task(id).port \/ new.mode # Task(id).mode
         ports == ensureTunnelPort(new, test)
     IN \/ id \notin in.tasks /\ Go(s, [serve[s] EXCEPT !.at = <<>>]) /\ UNCHANGED db
        \/ /\ id \in in.tasks /\ Posted(s).cl \notin in.clients
           /\ Refuse(s) /\ UNCHANGED db
        \/ /\ id \in in.tasks /\ Posted(s).cl \in in.clients /\ ports = {}
           /\ db' = [db EXCEPT !.tasks[id].client = new.client, !.tasks[id].mode = new.mode,
                               !.tasks[id].port = new.port]
           /\ Refuse(s)
        \/ \E p \in ports :
             /\ id \in in.tasks /\ Posted(s).cl \in in.clients
             /\ db' = [db EXCEPT !.tasks[id] = [new EXCEPT !.port = p]]
             /\ Done(s)
  /\ UNCHANGED <<in, lastId, runList, files, stuck, lost, todo, asked, budget>>

\* Mutant: NewTask answers once the task is in the map.
StoreTaskOnly(s) ==
  /\ Doing(s, "put") /\ in' = [in EXCEPT !.tasks = @ \cup {serve[s].id}]
  /\ IF Posted(s).op = "add" THEN Go(s, [serve[s] EXCEPT !.at = <<>>]) ELSE Done(s)
  /\ UNCHANGED <<db, lastId, runList, files, stuck, lost, todo, asked, budget>>
\* Tasks.Store, in NewTask and in UpdateTask.
StoreTask(s) ==
  /\ Doing(s, "put") /\ in' = [in EXCEPT !.tasks = @ \cup {serve[s].id}] /\ Done(s)
  /\ UNCHANGED <<db, lastId, runList, files, stuck, lost, todo, asked, budget>>

\* AddTask: a server for the task, unless its port cannot be opened.
Runs(id) ==
  Task(id).mode \in NoMode \/ (Allowed(Task(id)) /\ ~Taken(Task(id).port))
AddTask(s) ==
  /\ Doing(s, "run")
  /\ IF Runs(serve[s].id)
     THEN runList' = runList \cup {serve[s].id} /\ Done(s)
     ELSE Refuse(s) /\ UNCHANGED runList
  /\ UNCHANGED <<db, in, lastId, files, stuck, lost, todo, asked, budget>>

\* StartTask does not look at AddTask's answer.
StartTask(s) ==
  /\ Doing(s, "start")
  /\ LET id == serve[s].id IN
     IF id \in in.tasks
     THEN /\ runList' = IF Runs(id) THEN runList \cup {id} ELSE runList
          /\ db' = [db EXCEPT !.tasks[id].on = TRUE] /\ Done(s)
     ELSE /\ IF Posted(s).op = "edit" THEN Go(s, [serve[s] EXCEPT !.at = <<>>]) ELSE Refuse(s)
          /\ UNCHANGED <<db, runList>>
  /\ UNCHANGED <<in, lastId, files, stuck, lost, todo, asked, budget>>

\* StopServer up to UpdateTask.  What is left of its steps is dropped when it
\* returns early; Edit goes on then, DelTask does only when nothing was running.
CutTo(s, n) == Go(s, [serve[s] EXCEPT !.at = SubSeq(@, n + 1, Len(@))])
\* An error of StopServer ends DelTask; the loop over a client's tasks goes on.
StopError(s) ==
  CASE Posted(s).op = "edit" -> CutTo(s, 4)
    [] Posted(s).op = "delClient" -> CutTo(s, 6)
    [] OTHER -> Refuse(s)
StopServer(s) ==
  /\ Doing(s, "close")
  /\ LET id == serve[s].id IN
     \/ /\ id \notin runList
        /\ IF Posted(s).op \in {"del", "delClient"} THEN CutTo(s, 4) ELSE StopError(s)
        /\ UNCHANGED db
     \/ id \in runList \ in.tasks /\ StopError(s) /\ UNCHANGED db
     \/ id \in runList \cap in.tasks /\ db' = [db EXCEPT !.tasks[id].on = FALSE] /\ Done(s)
  /\ UNCHANGED <<in, lastId, runList, files, stuck, lost, todo, asked, budget>>

\* RunList.Delete, last in StopServer.
Forget(s) ==
  /\ Doing(s, "forget") /\ runList' = runList \ {serve[s].id} /\ Done(s)
  /\ UNCHANGED <<db, in, lastId, files, stuck, lost, todo, asked, budget>>

DropTask(s) ==
  /\ Doing(s, "drop") /\ in' = [in EXCEPT !.tasks = @ \ {serve[s].id}] /\ Done(s)
  /\ UNCHANGED <<db, lastId, runList, files, stuck, lost, todo, asked, budget>>

-----------------------------------------------------------------------------
(* Hosts.                                                                  *)

\* IsHostExist: a host on "all" schemes bars every other, not the reverse.
IsHostExist(id, h) ==
  \E i \in in.hosts \ {id} :
    /\ Host(i).host = h.host /\ Host(i).loc = h.loc
    /\ Host(i).scheme \in {"all", h.scheme}

AddHost(s) ==
  /\ Doing(s, "makeHost")
  /\ LET id == lastId.hosts + 1
         h == [Posted(s).val EXCEPT !.client = Posted(s).cl,
                                 !.loc = IF @ = "" THEN "/" ELSE @]
     IN /\ id <= Cap /\ lastId' = [lastId EXCEPT !.hosts = id]
        /\ IF Posted(s).cl \notin in.clients \/ Full(Posted(s).cl) \/ IsHostExist(id, h)
           THEN Refuse(s) /\ UNCHANGED db
           ELSE /\ db' = [db EXCEPT !.hosts[id] = h]
                /\ Go(s, [serve[s] EXCEPT !.at = Tail(@), !.id = id])
  /\ UNCHANGED <<in, runList, files, stuck, lost, todo, asked, budget>>

StoreHost(s) ==
  /\ Doing(s, "putHost") /\ in' = [in EXCEPT !.hosts = @ \cup {serve[s].id}] /\ Done(s)
  /\ UNCHANGED <<db, lastId, runList, files, stuck, lost, todo, asked, budget>>

\* EditHost looks for another host only when the name changes.
EditHost(s) ==
  /\ Doing(s, "editHost")
  /\ LET id == Posted(s).id
         h == [Posted(s).val EXCEPT !.client = Posted(s).cl]
     IN IF id \notin in.hosts
        THEN Go(s, [serve[s] EXCEPT !.at = <<>>]) /\ UNCHANGED db
        ELSE IF \/ Host(id).host # h.host /\ IsHostExist(0, h)
                \/ Posted(s).cl \notin in.clients
        THEN Refuse(s) /\ UNCHANGED db
        ELSE db' = [db EXCEPT !.hosts[id] = [h EXCEPT !.shut = Host(id).shut]] /\ Done(s)
  /\ UNCHANGED <<in, lastId, runList, files, stuck, lost, todo, asked, budget>>

DelHost(s) ==
  /\ Doing(s, "dropHost") /\ in' = [in EXCEPT !.hosts = @ \ {serve[s].id}] /\ Done(s)
  /\ UNCHANGED <<db, lastId, runList, files, stuck, lost, todo, asked, budget>>

\* HostStop and HostStart, which save nothing.
HostStop(s) ==
  /\ Doing(s, "shutHost")
  /\ IF Posted(s).id \in in.hosts
     THEN db' = [db EXCEPT !.hosts[Posted(s).id].shut = ~Posted(s).on] /\ Done(s)
     ELSE Refuse(s) /\ UNCHANGED db
  /\ UNCHANGED <<in, lastId, runList, files, stuck, lost, todo, asked, budget>>

-----------------------------------------------------------------------------
(* Clients.                                                                *)

VerifyVkey(k, id) == \A i \in in.clients \ {id} : Client(i).key # k
VerifyUserName(u, id) == \A i \in in.clients \ {id} : Client(i).user # u

\* ClientController.Add up to the Store in NewClient.
AddClient(s) ==
  /\ Doing(s, "makeClient")
  /\ LET id == lastId.clients + 1
         c == Posted(s).val
         keys == {k \in IF c.key = "" THEN Key ELSE {c.key} : VerifyVkey(k, id)}
     IN /\ id <= Cap /\ lastId' = [lastId EXCEPT !.clients = id]
        /\ \/ /\ keys = {} \/ (c.user # "" /\ ~VerifyUserName(c.user, id))
              /\ Refuse(s) /\ UNCHANGED db
           \/ \E k \in keys :
                /\ c.user = "" \/ VerifyUserName(c.user, id)
                /\ db' = [db EXCEPT !.clients[id] = [c EXCEPT !.key = k, !.on = TRUE]]
                /\ Go(s, [serve[s] EXCEPT !.at = Tail(@), !.id = id])
  /\ UNCHANGED <<in, runList, files, stuck, lost, todo, asked, budget>>

\* Clients.Store, in NewClient and in UpdateClient.
StoreClient(s) ==
  /\ Doing(s, "putClient") /\ in' = [in EXCEPT !.clients = @ \cup {serve[s].id}] /\ Done(s)
  /\ UNCHANGED <<db, lastId, runList, files, stuck, lost, todo, asked, budget>>

\* A client's own user may not change its key and its limits.
EditClient(s) ==
  /\ Doing(s, "editClient")
  /\ LET id == Posted(s).id
         c == Posted(s).val
         admin == Posted(s).who = 0
     IN IF \/ id \notin in.clients
           \/ c.user # "" /\ ~VerifyUserName(c.user, id)
           \/ admin /\ ~VerifyVkey(c.key, id)
        THEN Refuse(s) /\ UNCHANGED db
        ELSE /\ db' = [db EXCEPT !.clients[id] =
                         IF admin THEN [c EXCEPT !.on = Client(id).on] ELSE @]
             /\ Done(s)
  /\ UNCHANGED <<in, lastId, runList, files, stuck, lost, todo, asked, budget>>

ChangeStatus(s) ==
  /\ Doing(s, "status")
  /\ IF Posted(s).id \in in.clients
     THEN db' = [db EXCEPT !.clients[Posted(s).id].on = Posted(s).on] /\ Done(s)
     ELSE Refuse(s) /\ UNCHANGED db
  /\ UNCHANGED <<in, lastId, runList, files, stuck, lost, todo, asked, budget>>

\* IpWhiteAuth: an address is added to a client that was found by its key, and
\* the object is put back.
IpWhiteAuth(s) ==
  /\ Doing(s, "white")
  /\ IF \E i \in in.clients : i = Posted(s).id THEN Done(s) ELSE Refuse(s)
  /\ UNCHANGED <<db, in, lastId, runList, files, stuck, lost, todo, asked, budget>>

DropClient(s) ==
  /\ Doing(s, "dropClient") /\ in' = [in EXCEPT !.clients = @ \ {Posted(s).id}] /\ Done(s)
  /\ UNCHANGED <<db, lastId, runList, files, stuck, lost, todo, asked, budget>>

Loop(s, ids, body, next) ==
  Go(s, IF ids = {} THEN [serve[s] EXCEPT !.at = next, !.id = Posted(s).id, !.ids = {}]
        ELSE [serve[s] EXCEPT !.at = body, !.id = Min(ids), !.ids = ids \ {Min(ids)}])
DelTasks(s) ==
  /\ \/ Doing(s, "tasksOfClient")
        /\ serve' = [serve EXCEPT ![s].at = <<"nextTask">>,
                        ![s].ids = {i \in in.tasks : Task(i).client = Posted(s).id}]
        /\ UNCHANGED answered
     \/ Doing(s, "nextTask")
        /\ Loop(s, serve[s].ids, DelTask \o <<"nextTask">>, <<"hostsOfClient">>)
  /\ UNCHANGED <<db, in, lastId, runList, files, stuck, lost, todo, asked, budget>>
DelHosts(s) ==
  /\ \/ Doing(s, "hostsOfClient")
        /\ serve' = [serve EXCEPT ![s].at = <<"nextHost">>,
                        ![s].ids = {i \in in.hosts : Host(i).client = Posted(s).id}]
        /\ UNCHANGED answered
     \/ Doing(s, "nextHost")
        /\ Loop(s, serve[s].ids, <<"dropHost", "saveHosts", "nextHost">>, <<>>)
  /\ UNCHANGED <<db, in, lastId, runList, files, stuck, lost, todo, asked, budget>>

-----------------------------------------------------------------------------
(* Files.                                                                  *)

FileOf(step) ==
  CASE step = "saveTasks" -> "tasks"
    [] step = "saveHosts" -> "hosts"
    [] step = "saveClients" -> "clients"
    [] OTHER -> "none"

\* storeSyncMapToFile under the file's mutex; the rename is what others see.
storeSyncMapToFile(k) == [i \in in[k] |-> db[k][i]]
Save(s) ==
  /\ serve[s].at # <<>>
  /\ LET k == FileOf(Head(serve[s].at))
     IN /\ k \in Kinds \ stuck
        /\ files' = [files EXCEPT ![k] = storeSyncMapToFile(k)]
        /\ lost' = lost \ {k}
  /\ Done(s)
  /\ UNCHANGED <<db, in, lastId, runList, stuck, todo, asked, budget>>

\* The temporary file cannot be created: the panic ends the request and leaves
\* the mutex locked.
SaveFails(s) ==
  /\ serve[s].at # <<>> /\ budget.failures > 0
  /\ LET k == FileOf(Head(serve[s].at))
     IN k \in Kinds \ stuck /\ stuck' = stuck \cup {k}
  /\ budget' = [budget EXCEPT !.failures = @ - 1]
  /\ Refuse(s) /\ UNCHANGED <<db, in, lastId, runList, files, lost, todo, asked>>

\* The temporary file is written and cannot be renamed: that is logged, the file
\* stays as it was, and the request goes on to its success.
SaveLost(s) ==
  /\ serve[s].at # <<>> /\ budget.failures > 0
  /\ LET k == FileOf(Head(serve[s].at)) IN k \in Kinds \ stuck /\ lost' = lost \cup {k}
  /\ budget' = [budget EXCEPT !.failures = @ - 1]
  /\ Done(s) /\ UNCHANGED <<db, in, lastId, runList, files, stuck, todo, asked>>

\* What the server finds when it starts: a task or a host whose client is not
\* there is skipped.
LoadClients == DOMAIN files.clients
LoadTasks == {i \in DOMAIN files.tasks : files.tasks[i].client \in LoadClients}
LoadHosts == {i \in DOMAIN files.hosts : files.hosts[i].client \in LoadClients}
Increase(loaded) == Max(loaded \cup {0})
\* InitFromCsv starts the tasks that are on, as long as their ports are free.
Starting(run) ==
  LET on == {i \in LoadTasks : files.tasks[i].on}
      opens(i) == files.tasks[i].mode \notin NoMode
      clash(i, j) == i # j /\ opens(i) /\ opens(j) /\ files.tasks[i].port = files.tasks[j].port
  IN /\ run \subseteq on
     /\ \A i \in on : i \notin run <=> \E j \in run : clash(i, j)

Restart ==
  /\ budget.crashes > 0 /\ budget' = [budget EXCEPT !.crashes = @ - 1]
  /\ in' = [clients |-> LoadClients, tasks |-> LoadTasks, hosts |-> LoadHosts]
  /\ db' = [k \in Kinds |-> [i \in Ids |-> IF i \in DOMAIN files[k] THEN files[k][i] ELSE db[k][i]]]
  /\ lastId' = [clients |-> Increase(LoadClients), tasks |-> Increase(LoadTasks),
                hosts |-> Increase(LoadHosts)]
  /\ runList' \in {run \in SUBSET LoadTasks : Starting(run)}
  /\ stuck' = {} /\ lost' = {} /\ answered' = {} /\ serve' = [s \in Slot |-> Idle]
  /\ UNCHANGED <<files, todo, asked>>

-----------------------------------------------------------------------------
(* What a scene may start from: whole objects, tasks and hosts of clients  *)
(* that are there, and requests the console serves.                        *)

WebOps == {"add", "copy", "edit", "stop", "start", "del", "addHost", "editHost", "delHost",
           "shutHost", "addClient", "editClient", "changeStatus", "delClient", "white"}
IsTask(t) ==
  t = [client |-> t.client, mode |-> t.mode, port |-> t.port, pw |-> t.pw, on |-> t.on]
IsHost(h) ==
  h = [client |-> h.client, host |-> h.host, loc |-> h.loc, scheme |-> h.scheme,
       shut |-> h.shut]
IsDb(d) ==
  /\ d = [k \in Kinds |-> [i \in Ids |-> d[k][i]]]
  /\ \A i \in Ids : IsTask(d.tasks[i]) /\ IsHost(d.hosts[i])
IsPost(q) ==
  /\ q = [op |-> q.op, who |-> q.who, id |-> q.id, cl |-> q.cl, val |-> q.val, on |-> q.on,
          no |-> q.no]
  /\ q.op \in WebOps
  /\ q.op \in {"add", "edit"} => IsTask(q.val)
  /\ q.op \in {"addHost", "editHost"} => IsHost(q.val)
WebSceneOK(sc) ==
  /\ IsDb(sc.db) /\ sc.in \in [Kinds -> SUBSET Ids] /\ \A q \in sc.todo : IsPost(q)
  /\ \A k \in {"tasks", "hosts"} : \A i \in sc.in[k] : sc.db[k][i].client \in sc.in.clients

-----------------------------------------------------------------------------
WebStep(s) ==
  \/ Add(s) \/ Copy(s) \/ Edit(s) \/ StoreTask(s) \/ AddTask(s) \/ StartTask(s)
  \/ StopServer(s) \/ Forget(s) \/ DropTask(s)
  \/ AddHost(s) \/ StoreHost(s) \/ EditHost(s) \/ DelHost(s) \/ HostStop(s)
  \/ AddClient(s) \/ StoreClient(s) \/ EditClient(s) \/ ChangeStatus(s)
  \/ IpWhiteAuth(s) \/ DropClient(s) \/ DelTasks(s) \/ DelHosts(s) \/ Save(s)

WebNext == (\E s \in Slot : Arrive(s) \/ WebStep(s) \/ SaveFails(s) \/ SaveLost(s))
           \/ Restart
WebFair == \A s \in Slot : WF_webVars(WebStep(s))

-----------------------------------------------------------------------------
(* Properties.                                                             *)

\* Type invariant: ids stay within what was drawn, a request has steps left or is
\* over, and a file holds whole objects.
WebTypeOK ==
  /\ \A k \in Kinds : in[k] \subseteq 1..lastId[k] /\ DOMAIN files[k] \subseteq Ids
  /\ stuck \cup lost \subseteq Kinds /\ runList \subseteq Ids
  /\ \A s \in Slot : serve[s] = Idle \/ serve[s].at # <<>>

\* An id that a request has drawn and not used yet is no id of an object in the
\* map, and no other request has it: a new object never replaces another one,
\* before or after a restart (file.go GetTaskId and the loading).
DrawnIsFresh ==
  \A s, t \in Slot, k \in Kinds :
    LET put == [clients |-> "putClient", tasks |-> "put", hosts |-> "putHost"][k]
        new(x) == Doing(x, put) /\ Posted(x).op \in {"add", "copy", "addHost", "addClient"}
    IN new(s) => /\ serve[s].id \notin in[k]
                 /\ new(t) /\ s # t => serve[s].id # serve[t].id

\* When no request that has changed a map is on its way to write it, the file has
\* the objects of the map, unless a failure left its mutex locked or its last
\* writing was not renamed, which is logged and no more.  What it has beyond them
\* belonged to a client that was being added or deleted when the server stopped:
\* it was in the file without its client, and the start skipped it
\* (storeSyncMapToFile under taskLock, hostLock and clientLock).
Writers(k) == {s \in Slot : \E i \in DOMAIN serve[s].at : FileOf(serve[s].at[i]) = k}
FileHasAll ==
  \A k \in Kinds \ (stuck \cup lost) :
    Writers(k) = {} /\ ~(k = "clients" /\ \E q \in asked : q.op = "white")
      => /\ in[k] \subseteq DOMAIN files[k]
         /\ \A i \in DOMAIN files[k] \ in[k] :
              /\ k # "clients"
              /\ \E q \in asked :
                   q.op = "addClient" \/ (q.op = "delClient" /\ q.id = files[k][i].client)

\* What was added with success is in its file from then on, whatever other
\* requests write and wherever the server stops, unless somebody asked for it or
\* for its client to be deleted, or the last writing of that file is one whose
\* rename failed: the next writing that is renamed makes up for it (NewTask,
\* NewHost, NewClient; the failed rename of file.go:233-236 is answered as a success).
KindOf(op) == CASE op \in {"add", "copy"} -> "tasks" [] op = "addHost" -> "hosts"
                [] op = "addClient" -> "clients" [] OTHER -> "none"
Deleting(k, i) ==
  \E q \in asked :
    \/ q.op = "delClient" /\ (k = "clients" => q.id = i)
    \/ k = "tasks" /\ q.op = "del" /\ q.id = i
    \/ k = "hosts" /\ q.op = "delHost" /\ q.id = i
AddedIsKept ==
  \A a \in answered :
    KindOf(a[1]) \in Kinds \ lost /\ ~Deleting(KindOf(a[1]), a[2])
      => a[2] \in DOMAIN files[KindOf(a[1])]

\* A request comes to its end, unless a failure has left a mutex locked.
RequestEnds ==
  \A s \in Slot : (serve[s] # Idle) ~> (serve[s] = Idle \/ stuck # {})

\* The maps, the ids and the files of the database agree.
WebSound == WebTypeOK /\ DrawnIsFresh /\ AddedIsKept /\ FileHasAll
=============================================================================

------------------------------ MODULE NpsHttp ------------------------------
(***************************************************************************)
(* The host proxy of NPS, server/proxy/http.go, websocket.go and the       *)
(* pass-through of https.go: what becomes of a user's connection, of the   *)
(* unit of the client's quota it takes, and of the streams to npc.         *)
(*                                                                         *)
(* A plain connection carries requests for several hosts.  When the next   *)
(* one is for another host, handleHttp closes the stream and jumps back to *)
(* its label reset with isReset set, a variable that the goroutines which  *)
(* copy the answers read and write without a lock.                         *)
(***************************************************************************)
EXTENDS Integers, FiniteSets

CONSTANTS
  Conn, Host, Client,
  ClientOf,   \* [Host -> Client]
  NoHost,
  MaxLink,    \* the streams of a connection, one more than its resets
  HttpScenes  \* the scenes considered, see HttpScene

\* What kind each connection is of and the host it asks for first, MaxConn of the
\* clients (0 is no limit), and how often a connection may change its host.
HttpScene == [kind: [Conn -> {"none", "plain", "upgrade", "pass"}],
              first: [Conn -> Host], maxConn: Nat, resets: 0..(MaxLink - 1)]

ASSUME HttpAssumption ==
  /\ ClientOf \in [Host -> Client] /\ MaxLink \in Nat \ {0}
  /\ HttpScenes \subseteq HttpScene

VARIABLES
  scene, hpc,  \* a connection: see HttpTypeOK
  host,        \* the host of the request
  units,       \* [Conn -> [Client -> Nat]]: deferred calls of AddConn
  nowConn,     \* Client.NowConn
  spent,       \* the clients whose flow is over its limit
  isReset,
  user,        \* the user's connection: open, left (by the user), closed
  lk,          \* the number of the current stream
  connClient,  \* [Conn -> [1..MaxLink -> none, open, closed (here), eof (there)]]
  reader       \* the goroutine started with a stream: [at, of], see ReaderStarts

httpVars == <<scene, hpc, host, units, nowConn, spent, isReset, user, lk,
              connClient, reader>>

Links == 1..MaxLink
NoReader == [at |-> "none", of |-> 0]

HttpInit ==
  /\ scene \in HttpScenes /\ hpc = [c \in Conn |-> "none"]
  /\ host = [c \in Conn |-> NoHost] /\ units = [c \in Conn |-> [k \in Client |-> 0]]
  /\ nowConn = [k \in Client |-> 0] /\ spent = {}
  /\ isReset = [c \in Conn |-> FALSE] /\ user = [c \in Conn |-> "open"]
  /\ lk = [c \in Conn |-> 0]
  /\ connClient = [c \in Conn |-> [i \in Links |-> "none"]]
  /\ reader = [c \in Conn |-> [i \in Links |-> NoReader]]

At(c, from, to) == hpc[c] = from /\ hpc' = [hpc EXCEPT ![c] = to]
clientOf(c) == ClientOf[host[c]]
Live(i, c) == i \in Links /\ connClient[c][i] = "open"

\* c.Close(), and closing stream i.
CloseUser(c) == user' = [user EXCEPT ![c] = "closed"]
closedLink(c, i) ==
  IF i \in Links /\ connClient[c][i] # "none"
  THEN [connClient EXCEPT ![c][i] = "closed"] ELSE connClient

-----------------------------------------------------------------------------
(* From the request to the stream.                                         *)

\* handleTunneling, serveHTTP and the accept of a TLS connection.
Request(c) ==
  /\ At(c, "none", IF scene.kind[c] = "plain" THEN "reset" ELSE "look")
  /\ scene.kind[c] # "none" /\ host' = [host EXCEPT ![c] = scene.first[c]]
  /\ UNCHANGED <<scene, units, nowConn, spent, isReset, user, lk, connClient,
                 reader>>

\* Mutant: nothing is given back.
AgainKeeps(c) ==
  /\ At(c, "reset", "look")
  /\ UNCHANGED <<scene, host, units, nowConn, spent, isReset, user, lk,
                 connClient, reader>>

\* The label reset: the unit of the previous round is given back, although to the
\* client of the new host.
Again(c) ==
  /\ At(c, "reset", "look")
  /\ nowConn' = IF isReset[c] THEN [nowConn EXCEPT ![clientOf(c)] = @ - 1]
                              ELSE nowConn
  /\ UNCHANGED <<scene, host, units, spent, isReset, user, lk, connClient, reader>>

\* The blacklist and GetInfoByHost.  An upgrade is not counted against the limit.
GetInfoByHost(c) ==
  /\ \/ At(c, "look", IF scene.kind[c] = "upgrade" THEN "auth" ELSE "check")
        /\ user' = user
     \/ At(c, "look", "end") /\ CloseUser(c)
  /\ UNCHANGED <<scene, host, units, nowConn, spent, isReset, lk, connClient,
                 reader>>

HasRoom(k) == k \notin spent /\ (scene.maxConn = 0 \/ nowConn[k] < scene.maxConn)

\* CheckFlowAndConnNum, to where GetConn has compared.
CheckFlow(c) ==
  /\ \/ At(c, "check", "cut") /\ HasRoom(clientOf(c)) /\ user' = user
     \/ At(c, "check", "end") /\ ~HasRoom(clientOf(c)) /\ CloseUser(c)
  /\ UNCHANGED <<scene, host, units, nowConn, spent, isReset, lk, connClient,
                 reader>>

\* A unit is taken; the deferred AddConn belongs to the client of the moment.
TakeUnit(c, deferred) ==
  /\ nowConn' = [nowConn EXCEPT ![clientOf(c)] = @ + 1]
  /\ units' = IF deferred THEN [units EXCEPT ![c][clientOf(c)] = @ + 1] ELSE units
CountConn(c) ==
  /\ At(c, "cut", "auth") /\ TakeUnit(c, ~isReset[c])
  /\ UNCHANGED <<scene, host, spent, isReset, user, lk, connClient, reader>>

\* Password, white and black list, GetRandomTarget.  A refusal leaves the plain
\* connection to the deferred function; auth and the lists close the others.
Authorize(c) ==
  /\ \/ /\ At(c, "auth", "dial") /\ user' = user
        /\ IF scene.kind[c] = "upgrade" THEN TakeUnit(c, TRUE)
                                        ELSE UNCHANGED <<nowConn, units>>
     \/ /\ At(c, "auth", "end") /\ UNCHANGED <<nowConn, units>>
        /\ IF scene.kind[c] = "pass" THEN CloseUser(c) ELSE user' = user
  /\ UNCHANGED <<scene, host, spent, isReset, lk, connClient, reader>>

\* SendLinkInfo.
Dial(c) ==
  /\ \/ /\ At(c, "dial", scene.kind[c]) /\ lk' = [lk EXCEPT ![c] = @ + 1]
        /\ connClient' = [connClient EXCEPT ![c][lk[c] + 1] = "open"]
        /\ reader' = IF scene.kind[c] = "plain"
             THEN [reader EXCEPT ![c][lk[c] + 1] = [at |-> "start", of |-> 0]]
             ELSE reader
        /\ user' = user
     \/ /\ At(c, "dial", "end") /\ UNCHANGED <<lk, connClient, reader>>
        /\ IF scene.kind[c] = "pass" THEN CloseUser(c) ELSE user' = user
  /\ UNCHANGED <<scene, host, units, nowConn, spent, isReset>>

\* The deferred functions: AddConn as often as it was deferred; a plain connection
\* closes its last stream and c, net/http closes the connection of an upgrade.
Deferred(c) ==
  /\ At(c, "end", "done") /\ units' = [units EXCEPT ![c] = [k \in Client |-> 0]]
  /\ nowConn' = [k \in Client |-> nowConn[k] - units[c][k]]
  /\ IF scene.kind[c] = "pass" THEN UNCHANGED <<user, connClient>>
     ELSE CloseUser(c) /\ connClient' = closedLink(c, lk[c])
  /\ UNCHANGED <<scene, host, spent, isReset, lk, reader>>

-----------------------------------------------------------------------------
(* The two goroutines of a plain connection.                               *)

\* The next request is read.  For the same host it is written to the stream, which
\* fails when the stream is closed; for another one all begins anew; for one that
\* nobody has, the loop ends as well, and waits for the goroutine.
ReadRequest(c, h) ==
  /\ user[c] = "open"
  /\ \/ /\ h = host[c] /\ At(c, "plain", IF Live(lk[c], c) THEN "plain" ELSE "wait")
        /\ UNCHANGED <<host, isReset, connClient>>
     \/ /\ h # host[c] /\ lk[c] <= scene.resets /\ At(c, "plain", "reset")
        /\ host' = [host EXCEPT ![c] = h] /\ isReset' = [isReset EXCEPT ![c] = TRUE]
        /\ connClient' = closedLink(c, lk[c])
     \/ At(c, "plain", "wait") /\ UNCHANGED <<host, isReset, connClient>>
  /\ UNCHANGED <<scene, units, nowConn, spent, user, lk, reader>>

ReadFails(c) ==
  /\ user[c] # "open" /\ At(c, "plain", "end")
  /\ UNCHANGED <<scene, host, units, nowConn, spent, isReset, user, lk, connClient,
                 reader>>

\* wg.Wait; a goroutine that has not started is not waited for.
WaitReaders(c) ==
  /\ \A i \in Links : reader[c][i].at \in {"none", "start", "done"}
  /\ At(c, "wait", "end")
  /\ UNCHANGED <<scene, host, units, nowConn, spent, isReset, user, lk, connClient,
                 reader>>

\* The goroutine starts, maybe late: isReset is cleared, and it is the stream of
\* the moment that it reads and closes.
ReaderStarts(c, i) ==
  /\ reader[c][i].at = "start" /\ isReset' = [isReset EXCEPT ![c] = FALSE]
  /\ reader' = [reader EXCEPT ![c][i] = [at |-> "copy", of |-> lk[c]]]
  /\ UNCHANGED <<scene, hpc, host, units, nowConn, spent, user, lk, connClient>>

\* CopyBuffer ends with the stream; or with the flow, or with the user, which
\* takes an answer to write.
CopyEnds(c, i) ==
  /\ reader[c][i].at = "copy" /\ ~Live(reader[c][i].of, c)
  /\ reader' = [reader EXCEPT ![c][i].at = "end"]
  /\ UNCHANGED <<scene, hpc, host, units, nowConn, spent, isReset, user, lk,
                 connClient>>
CopyBreaks(c, i) ==
  /\ reader[c][i].at = "copy" /\ (clientOf(c) \in spent \/ user[c] # "open")
  /\ reader' = [reader EXCEPT ![c][i].at = "end"]
  /\ UNCHANGED <<scene, hpc, host, units, nowConn, spent, isReset, user, lk,
                 connClient>>

\* Its deferred functions.
ReaderDone(c, i) ==
  /\ reader[c][i].at = "end" /\ reader' = [reader EXCEPT ![c][i].at = "done"]
  /\ IF isReset[c] THEN user' = user ELSE CloseUser(c)
  /\ connClient' = closedLink(c, reader[c][i].of)
  /\ UNCHANGED <<scene, hpc, host, units, nowConn, spent, isReset, lk>>

-----------------------------------------------------------------------------
(* Upgrades and pass-through.                                              *)

\* Join, and copyConns of a passed connection: one side fails, both are closed.
JoinEnds(c) ==
  /\ hpc[c] \in {"upgrade", "pass"} /\ hpc' = [hpc EXCEPT ![c] = "end"]
  /\ user[c] # "open" \/ ~Live(lk[c], c)
  /\ CloseUser(c) /\ connClient' = closedLink(c, lk[c])
  /\ UNCHANGED <<scene, host, units, nowConn, spent, isReset, lk, reader>>

\* Over the limit Join closes as well, while copyConns ends and closes nothing.
JoinOver(c) ==
  /\ hpc[c] \in {"upgrade", "pass"} /\ hpc' = [hpc EXCEPT ![c] = "end"]
  /\ clientOf(c) \in spent
  /\ IF hpc[c] = "pass" THEN UNCHANGED <<user, connClient>>
     ELSE CloseUser(c) /\ connClient' = closedLink(c, lk[c])
  /\ UNCHANGED <<scene, host, units, nowConn, spent, isReset, lk, reader>>

-----------------------------------------------------------------------------
(* Users, targets and bytes.                                               *)

Leaves(c) ==
  /\ hpc[c] \notin {"none", "done"} /\ user[c] = "open"
  /\ user' = [user EXCEPT ![c] = "left"]
  /\ UNCHANGED <<scene, hpc, host, units, nowConn, spent, isReset, lk, connClient,
                 reader>>
TargetEnds(c, i) ==
  /\ Live(i, c) /\ connClient' = [connClient EXCEPT ![c][i] = "eof"]
  /\ UNCHANGED <<scene, hpc, host, units, nowConn, spent, isReset, user, lk, reader>>
Spend(k) ==
  /\ scene.maxConn # 0 /\ k \notin spent /\ spent' = spent \cup {k}
  /\ \E c \in Conn : host[c] # NoHost /\ clientOf(c) = k /\ Live(lk[c], c)
  /\ UNCHANGED <<scene, hpc, host, units, nowConn, isReset, user, lk, connClient,
                 reader>>

-----------------------------------------------------------------------------
Main(c) == \/ Again(c) \/ GetInfoByHost(c) \/ CheckFlow(c) \/ CountConn(c)
           \/ Authorize(c) \/ Dial(c) \/ Deferred(c) \/ ReadFails(c)
           \/ WaitReaders(c) \/ JoinEnds(c)
Reader(c, i) == ReaderStarts(c, i) \/ CopyEnds(c, i) \/ ReaderDone(c, i)

HttpNext ==
  \/ \E c \in Conn, h \in Host : ReadRequest(c, h)
  \/ \E c \in Conn : Request(c) \/ Main(c) \/ JoinOver(c) \/ Leaves(c)
  \/ \E c \in Conn, i \in Links : Reader(c, i) \/ CopyBreaks(c, i) \/ TargetEnds(c, i)
  \/ \E k \in Client : Spend(k)

\* The goroutines run on; users, targets and bytes come as they like.  No
\* behaviour has infinitely many steps that change anything.
HttpRun == \E c \in Conn : Main(c) \/ \E i \in Links : Reader(c, i)
HttpFair == WF_httpVars(HttpRun)

-----------------------------------------------------------------------------
(* Properties.                                                             *)

HttpTypeOK ==
  /\ hpc \in [Conn -> {"none", "reset", "look", "check", "cut", "auth", "dial",
                       "plain", "upgrade", "pass", "wait", "end", "done"}]
  /\ host \in [Conn -> Host \cup {NoHost}] /\ units \in [Conn -> [Client -> Nat]]
  /\ nowConn \in [Client -> Int] /\ spent \subseteq Client
  /\ isReset \in [Conn -> BOOLEAN] /\ user \in [Conn -> {"open", "left", "closed"}]
  /\ lk \in [Conn -> 0..MaxLink]
  /\ connClient \in [Conn -> [Links -> {"none", "open", "closed", "eof"}]]
  /\ reader \in [Conn -> [Links -> [at: {"none", "start", "copy", "end", "done"},
                                    of: 0..MaxLink]]]

\* base.go:72, "check flow limit of the client, and decrease the allow num": as
\* long as no connection changes its host, NowConn is the number of connections
\* there are; a change of the host may count too little, when the second check
\* refuses, but never counts a connection that is gone, which would lock the
\* client out in the end.
Deferrals(k) == {d \in Conn \X Links : d[2] <= units[d[1]][k]}
Held(k) == Cardinality(Deferrals(k))
HttpQuota == \A k \in Client :
  nowConn[k] <= Held(k) /\ (scene.resets = 0 => nowConn[k] = Held(k))

\* No stream to npc outlives its connection.  (Over the limit a passed connection
\* is the exception: copyConns ends and closes nothing.)
StreamsClosed == \A c \in Conn :
  hpc[c] = "done" /\ (scene.kind[c] = "pass" => clientOf(c) \notin spent)
    => \A i \in Links : connClient[c][i] \in {"none", "closed"}

\* A user who leaves, or a target that closes, ends the connection.  (A plain one
\* that had asked for a host nobody has waits for its target.)
HttpEnded == \A c \in Conn :
  /\ user[c] = "left" => \/ hpc[c] = "done" \/ spent # {}
                         \/ hpc[c] = "wait" /\ Live(lk[c], c)
  /\ hpc[c] \in {"plain", "upgrade", "pass"} => connClient[c][lk[c]] = "open"

\* Units and streams are those of the connections there are.
HttpSound == HttpTypeOK /\ HttpQuota /\ StreamsClosed
=============================================================================

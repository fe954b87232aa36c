------------------------------ MODULE FrpWire ------------------------------
(***************************************************************************)
(* How a connection of frpc becomes a session of frps: the accept loop,    *)
(* the detection of TLS, of the multiplexer and of the wire protocol, the  *)
(* negotiation of version 2 and the login.                                 *)
(*   upstream/frp/client/control_session.go, client/connector.go           *)
(*   upstream/frp/server/service.go     HandleListener, acceptConnection,  *)
(*                                      handleConnection                   *)
(*   upstream/frp/pkg/proto/wire        magic, frames, hellos, transcript  *)
(*   upstream/frp/pkg/util/net          tls.go, dial.go                    *)
(* Bytes are tokens: the head of a TLS connection, the header of the       *)
(* multiplexer, the magic of version 2, a hello, a message.  A connection  *)
(* that is not multiplexed and is closed with input unread is reset, which *)
(* may take the answer with it.                                            *)
(***************************************************************************)
EXTENDS Naturals, Sequences, SequencesExt, FiniteSets

CONSTANTS
  Wire,     \* connections
  Supported \* supportedAEADAlgorithms

\* A scene: how each connection is dialled, what frps demands, the cuts.  One of
\* the clients is [ask, of, wire, tls, mux, algs, ok, fits, stops]: its first message,
\* the connection whose session it belongs to, its settings, whether the login
\* is accepted and the frames fit, and where a peer that is no frpc falls silent.
NoWire == [cl |-> <<>>, force |-> FALSE, mux |-> FALSE, cuts |-> 0]

NoCtx == [alg |-> "", transcript |-> <<>>]

\* What a scene may be.
WireSceneOK(s) ==
  /\ s = [cl |-> s.cl, force |-> s.force, mux |-> s.mux, cuts |-> s.cuts]
  /\ DOMAIN s.cl \subseteq Wire
  /\ \A k \in DOMAIN s.cl :
       /\ s.cl[k].wire \in {"v1", "v2"} /\ s.cl[k].tls \in {"", "tls17", "tls16"}
       /\ s.cl[k].mux \in BOOLEAN /\ s.cl[k].algs \in Seq(STRING)

VARIABLES
  wscene,
  net,     \* per connection [c2s, s2c, cshut, sshut]
  dialer,  \* per connection, frpc's side [at, ctx]
  handler, \* per connection, frps's side [at, proto, ctx, first]
  backlog, \* connections the kernel holds for the accept loop
  loop     \* the accept loop: the connection it looks at, or <<>>

wireVars == <<wscene, net, dialer, handler, backlog, loop>>

cl(k) == wscene.cl[k]
Dialled == DOMAIN wscene.cl
Token(t) == [t |-> t]

WireInit(s) ==
  /\ wscene = s
  /\ net = [k \in Wire |-> [c2s |-> <<>>, s2c |-> <<>>, cshut |-> FALSE, sshut |-> FALSE]]
  /\ dialer = [k \in Wire |-> [at |-> "new", ctx |-> NoCtx]]
  /\ handler = [k \in Wire |-> [at |-> "none", proto |-> "", ctx |-> NoCtx, first |-> ""]]
  /\ backlog = <<>> /\ loop = <<>>

-----------------------------------------------------------------------------
(* What the two sides say.                                                 *)

Supports(list, value) == \E i \in DOMAIN list : list[i] = value

SelectOwn(algs) ==
  IF \E i \in DOMAIN algs : algs[i] \in Supported THEN CHOOSE a \in Supported : TRUE
  ELSE ""

\* The first algorithm of the client's list that this build has.
SelectAEADAlgorithm(algs) ==
  LET known == {i \in DOMAIN algs : algs[i] \in Supported}
  IN IF known = {} THEN "" ELSE algs[Min(known)]

NewClientHello(k) == [t |-> "hello", algs |-> cl(k).algs, random |-> k]

\* NewServerHello: the selection, or DefaultServerHello with an error.
NewServerHello(hello) ==
  LET alg == SelectAEADAlgorithm(hello.algs)
  IN [t |-> "serverhello", alg |-> alg, random |-> hello.random, err |-> alg = ""]

ValidateServerHelloForClient(hello, answer) ==
  /\ answer.alg \in Supported
  /\ Supports(hello.algs, answer.alg)

\* NewCryptoContext, HashCryptoTranscript: each part under its own label.
NewCryptoContext(hello, answer) ==
  [alg |-> answer.alg, transcript |-> [client |-> hello, server |-> answer]]

\* The head byte (dial.go), then the multiplexer's first header.
opening(k) ==
  (IF cl(k).tls = "" THEN <<>> ELSE <<Token(cl(k).tls)>>)
  \o (IF cl(k).mux THEN <<Token("mux")>> ELSE <<>>)

\* exchangeLogin, or messageConnector.Connect and the message that follows.
sent(k) ==
  (IF cl(k).wire = "v2" THEN <<Token("magic")>> ELSE <<>>)
  \o (IF cl(k).wire = "v2" /\ cl(k).ask = "Login" THEN <<NewClientHello(k)>> ELSE <<>>)
  \o <<[t |-> "msg", ask |-> cl(k).ask]>>

-----------------------------------------------------------------------------
(* frpc.                                                                   *)

\* Closing a connection closes the streams of its session too.
streams(k) == {x \in Dialled : x = k \/ (cl(x).of = k /\ cl(x).mux)}

\* Dial's deferred clean-up: connection and connector are closed.
clientCloses(k) ==
  /\ dialer' = [x \in Wire |-> IF x \in streams(k) /\ dialer[x].at # "new"
                               THEN [dialer[x] EXCEPT !.at = "failed"] ELSE dialer[x]]
  /\ net' = [x \in Wire |-> IF x \in streams(k)
                            THEN [net[x] EXCEPT !.cshut = TRUE, !.s2c = <<>>] ELSE net[x]]

\* Open: a session is opened once; without one every Connect dials.
ownConnection(k) ==
  cl(k).of = k \/ (~cl(k).mux /\ dialer[cl(k).of].at = "up")

\* realConnect.
Dial(k) ==
  /\ dialer[k].at = "new" /\ ownConnection(k)
  /\ dialer' = [dialer EXCEPT ![k].at = "open"]
  /\ net' = [net EXCEPT ![k].c2s = IF cl(k).stops = "dial" THEN <<>> ELSE opening(k)]
  /\ handler' = [handler EXCEPT ![k].at = "queued"]
  /\ backlog' = Append(backlog, k)
  /\ UNCHANGED <<wscene, loop>>

\* Connect of a multiplexed session: a stream, which the server's session accepts.
OpenStream(k) ==
  /\ dialer[k].at = "new" /\ cl(k).of # k /\ cl(k).mux
  /\ dialer[cl(k).of].at = "up" /\ ~net[cl(k).of].sshut
  /\ dialer' = [dialer EXCEPT ![k].at = "open"]
  /\ handler' = [handler EXCEPT ![k].at = "magic"]
  /\ UNCHANGED <<wscene, net, backlog, loop>>

\* A frame over 64 KiB is not written, and the dial fails.
Send(k) ==
  /\ dialer[k].at = "open" /\ cl(k).stops = ""
  /\ IF cl(k).fits
     THEN /\ net' = [net EXCEPT ![k].c2s = @ \o sent(k)]
          /\ dialer' = [dialer EXCEPT ![k].at =
               IF cl(k).wire = "v2" /\ cl(k).ask = "Login" THEN "hello" ELSE "resp"]
     ELSE clientCloses(k)
  /\ UNCHANGED <<wscene, handler, backlog, loop>>

answer(k) == Head(net[k].s2c)

RecvHello(k) ==
  /\ dialer[k].at = "hello" /\ net[k].s2c # <<>>
  /\ IF /\ answer(k).t = "serverhello" /\ ~answer(k).err
        /\ ValidateServerHelloForClient(NewClientHello(k), answer(k))
     THEN /\ dialer' = [dialer EXCEPT ![k].at = "resp",
                          ![k].ctx = NewCryptoContext(NewClientHello(k), answer(k))]
          /\ net' = [net EXCEPT ![k].s2c = Tail(@)]
     ELSE clientCloses(k)
  /\ UNCHANGED <<wscene, handler, backlog, loop>>

RecvResp(k) ==
  /\ dialer[k].at = "resp" /\ net[k].s2c # <<>>
  /\ IF answer(k).t = "resp" /\ ~answer(k).err
     THEN /\ dialer' = [dialer EXCEPT ![k].at = "up"]
          /\ net' = [net EXCEPT ![k].s2c = Tail(@)]
     ELSE clientCloses(k)
  /\ UNCHANGED <<wscene, handler, backlog, loop>>

\* Ten seconds for the answers to a login.
LoginTimeout(k) ==
  /\ dialer[k].at \in {"hello", "resp"} /\ cl(k).ask = "Login"
  /\ clientCloses(k) /\ UNCHANGED <<wscene, handler, backlog, loop>>

\* The server closed, or the connection broke.
ClientEnds(k) ==
  /\ dialer[k].at \in {"open", "hello", "resp", "up"} /\ ~net[k].cshut
  /\ net[k].sshut /\ net[k].s2c = <<>>
  /\ clientCloses(k) /\ UNCHANGED <<wscene, handler, backlog, loop>>

-----------------------------------------------------------------------------
(* The accept loop.                                                        *)

\* The handler is done with a connection; answers are what it wrote last.
finish(k, answers) ==
  /\ handler' = [x \in Wire |->
       IF x = k \/ (x \in streams(k) /\ handler[x].at # "none")
       THEN [handler[x] EXCEPT !.at = "closed"] ELSE handler[x]]
  /\ \E lost \in (IF cl(k).mux THEN {FALSE} ELSE {FALSE, Len(net[k].c2s) > 1}) :
       net' = [x \in Wire |->
         IF x = k THEN [net[x] EXCEPT !.sshut = TRUE, !.c2s = <<>>,
                          !.s2c = IF net[x].cshut \/ lost THEN <<>> ELSE @ \o answers]
         ELSE IF x \in streams(k) THEN [net[x] EXCEPT !.sshut = TRUE] ELSE net[x]]

\* HandleListener: one connection is looked at before the next is accepted.
Accept ==
  /\ loop = <<>> /\ backlog # <<>>
  /\ loop' = <<Head(backlog)>> /\ backlog' = Tail(backlog)
  /\ handler' = [handler EXCEPT ![Head(backlog)].at = "check"]
  /\ UNCHANGED <<wscene, net, dialer>>

first(k) == Head(net[k].c2s)

\* CheckAndEnableTLSServerConnWithTimeout.
CheckTLS(k) ==
  /\ loop = <<k>> /\ net[k].c2s # <<>> /\ loop' = <<>>
  /\ IF first(k).t \in {"tls17", "tls16"}
     THEN /\ net' = [net EXCEPT ![k].c2s = Tail(@)]
          /\ handler' = [handler EXCEPT ![k].at = IF wscene.mux THEN "mux" ELSE "magic"]
     ELSE IF wscene.force THEN finish(k, <<>>)
     ELSE /\ handler' = [handler EXCEPT ![k].at = IF wscene.mux THEN "mux" ELSE "magic"]
          /\ UNCHANGED net
  /\ UNCHANGED <<wscene, dialer, backlog>>

\* connReadTimeout, or the connection ended before its first byte.
CheckTLSFails(k) ==
  /\ loop = <<k>> /\ net[k].c2s = <<>>
  /\ loop' = <<>> /\ finish(k, <<>>)
  /\ UNCHANGED <<wscene, dialer, backlog>>

-----------------------------------------------------------------------------
(* One connection's handler.                                               *)

handled == <<wscene, dialer, backlog, loop>>
At(k, at) == handler[k].at = at /\ net[k].c2s # <<>>

\* The session's header; anything else ends the session.
MuxSession(k) ==
  /\ At(k, "mux")
  /\ IF first(k).t = "mux"
     THEN /\ handler' = [handler EXCEPT ![k].at = "magic"]
          /\ net' = [net EXCEPT ![k].c2s = Tail(@)]
     ELSE finish(k, <<>>)
  /\ UNCHANGED handled

\* CheckMagic gives back what it read when it is not the magic.
CheckMagic(k) ==
  /\ At(k, "magic")
  /\ IF first(k).t = "magic"
     THEN /\ handler' = [handler EXCEPT ![k].at = "first", ![k].proto = "v2"]
          /\ net' = [net EXCEPT ![k].c2s = Tail(@)]
     ELSE /\ handler' = [handler EXCEPT ![k].at = "first", ![k].proto = "v1"]
          /\ UNCHANGED net
  /\ UNCHANGED handled

helloFirst(k) ==
  handler[k].proto = "v2" /\ first(k).t = "hello" /\ handler[k].ctx = NoCtx

\* acceptConnection: the first message; of version 2 a hello may come before.
readFirstMsg(k) ==
  /\ At(k, "first") /\ ~helloFirst(k)
  /\ IF first(k).t = "msg"
     THEN /\ handler' = [handler EXCEPT ![k].at = "handle", ![k].first = first(k).ask]
          /\ net' = [net EXCEPT ![k].c2s = Tail(@)]
     ELSE finish(k, <<>>)
  /\ UNCHANGED handled

handleClientHello(k) ==
  /\ At(k, "first") /\ helloFirst(k)
  /\ LET hello == NewServerHello(first(k))
     IN IF hello.err THEN finish(k, <<hello>>)
        ELSE /\ handler' = [handler EXCEPT ![k].ctx = NewCryptoContext(first(k), hello)]
             /\ net' = [net EXCEPT ![k].c2s = Tail(@),
                          ![k].s2c = IF net[k].cshut THEN <<>> ELSE Append(@, hello)]
  /\ UNCHANGED handled

ReadFailsClosed(k) ==
  /\ handler[k].at \in {"mux", "magic", "first"} /\ net[k].c2s = <<>> /\ net[k].cshut
  /\ finish(k, <<>>) /\ UNCHANGED handled

\* Read deadline of ten seconds, or the peer closed; the multiplexer's keepalive.
ReadFails(k) ==
  /\ handler[k].at \in {"mux", "magic", "first"} /\ net[k].c2s = <<>>
  /\ finish(k, <<>>) /\ UNCHANGED handled

-----------------------------------------------------------------------------
(* handleConnection by the first message.                                  *)

resp(err) == [t |-> "resp", err |-> err]

\* newControlReadWriter refuses version 2 without a negotiation.
canEncrypt(k) == handler[k].proto = "v1" \/ handler[k].ctx # NoCtx

handleLogin(k) ==
  /\ handler[k].at = "handle" /\ handler[k].first = "Login"
  /\ IF cl(k).ok /\ canEncrypt(k)
     THEN \/ /\ handler' = [handler EXCEPT ![k].at = "on"]
             /\ net' = [net EXCEPT ![k].s2c = IF net[k].cshut THEN <<>> ELSE Append(@, resp(FALSE))]
          \/ net[k].cshut /\ finish(k, <<>>)
     ELSE finish(k, <<resp(TRUE)>>)
  /\ UNCHANGED handled

\* RegisterWorkConn: a control of that run must be there; no answer when it is.
handleNewWorkConn(k) ==
  /\ handler[k].at = "handle" /\ handler[k].first = "NewWorkConn"
  /\ IF handler[cl(k).of].at = "on" /\ cl(k).ok
     THEN handler' = [handler EXCEPT ![k].at = "work"] /\ UNCHANGED net
     ELSE finish(k, <<resp(TRUE)>>)
  /\ UNCHANGED handled

handleNewVisitorConn(k) ==
  /\ handler[k].at = "handle" /\ handler[k].first = "NewVisitorConn"
  /\ IF handler[cl(k).of].at = "on" /\ cl(k).ok
     THEN /\ handler' = [handler EXCEPT ![k].at = "work"]
          /\ net' = [net EXCEPT ![k].s2c = IF net[k].cshut THEN <<>> ELSE Append(@, resp(FALSE))]
     ELSE finish(k, <<resp(TRUE)>>)
  /\ UNCHANGED handled

handleOther(k) ==
  /\ handler[k].at = "handle"
  /\ handler[k].first \notin {"Login", "NewWorkConn", "NewVisitorConn"}
  /\ finish(k, <<>>) /\ UNCHANGED handled

\* A control, and what uses a work connection, end when the client has closed.
SessionEnds(k) ==
  /\ handler[k].at \in {"on", "work"} /\ net[k].cshut
  /\ finish(k, <<>>) /\ UNCHANGED handled

-----------------------------------------------------------------------------

\* The network breaks a connection: both ends see it closed.
Cut(k) ==
  /\ wscene.cuts > 0 /\ wscene' = [wscene EXCEPT !.cuts = @ - 1]
  /\ dialer[k].at # "new" /\ ~net[k].cshut /\ ~net[k].sshut
  /\ net' = [x \in Wire |-> IF x \in streams(k)
       THEN [net[x] EXCEPT !.cshut = TRUE, !.sshut = TRUE, !.c2s = <<>>, !.s2c = <<>>]
       ELSE net[x]]
  /\ dialer' = [x \in Wire |-> IF x \in streams(k) /\ dialer[x].at # "new"
                               THEN [dialer[x] EXCEPT !.at = "failed"] ELSE dialer[x]]
  /\ UNCHANGED <<handler, backlog, loop>>

clientStep(k) == Send(k) \/ RecvHello(k) \/ RecvResp(k) \/ LoginTimeout(k) \/ ClientEnds(k)

handlerStep(k) ==
  \/ MuxSession(k) \/ CheckMagic(k) \/ readFirstMsg(k) \/ handleClientHello(k)
  \/ ReadFails(k) \/ handleLogin(k) \/ handleNewWorkConn(k) \/ handleNewVisitorConn(k)
  \/ handleOther(k) \/ SessionEnds(k)

acceptStep == Accept \/ (\E k \in Dialled : CheckTLS(k) \/ CheckTLSFails(k))

WireNext ==
  \/ acceptStep
  \/ \E k \in Dialled : Dial(k) \/ OpenStream(k) \/ Cut(k) \/ clientStep(k) \/ handlerStep(k)

\* Every goroutine runs and every deadline passes; nobody has to dial.
WireFair ==
  /\ WF_wireVars(acceptStep)
  /\ \A k \in Wire : /\ WF_wireVars(k \in Dialled /\ clientStep(k))
                     /\ WF_wireVars(k \in Dialled /\ handlerStep(k))

-----------------------------------------------------------------------------
(* Properties.                                                             *)

\* The shape of the state: one connection in the accept loop, and a handler for
\* every connection that was dialled.
WireTypeOK ==
  /\ \A k \in Wire :
       /\ dialer[k].at \in {"new", "open", "hello", "resp", "up", "failed"}
       /\ handler[k].at \in {"none", "queued", "check", "mux", "magic", "first",
                             "handle", "on", "work", "closed"}
       /\ handler[k].at = "check" <=> loop = <<k>>
       /\ handler[k].at = "queued" <=> Supports(backlog, k)
  /\ Len(loop) <= 1 /\ IsInjective(backlog)

\* Both ends that believe in one session speak the same protocol with the same key
\* material: the client's first algorithm that the server has, bound to the very
\* hellos they exchanged (NewClientCryptoContext, handleClientHello).
SameSession ==
  \A k \in Dialled :
    handler[k].at = "on" =>
      /\ handler[k].proto = cl(k).wire
      /\ dialer[k].at = "up" => dialer[k].ctx = handler[k].ctx
      /\ cl(k).wire = "v2" =>
           \E i \in DOMAIN cl(k).algs :
             /\ cl(k).algs[i] = handler[k].ctx.alg /\ cl(k).algs[i] \in Supported
             /\ \A j \in 1..i - 1 : cl(k).algs[j] \notin Supported

\* A connection that says nothing holds the accept loop, but not for ever: each of
\* the others gets its turn (connReadTimeout in HandleListener).
AcceptGoesOn ==
  \A k \in Wire : handler[k].at = "queued" ~> handler[k].at # "queued"

\* Whatever is lost, refused or late, in the end client and server agree on whether
\* there is a session, and no handler waits for input that never comes.
EndsAgree ==
  \A k \in Wire :
    /\ <>[](k \in Dialled /\ cl(k).ask = "Login" => (dialer[k].at = "up" <=> handler[k].at = "on"))
    /\ <>[](handler[k].at \in {"none", "on", "work", "closed"})

\* Both ends take a connection for the same thing.
WireSound == WireTypeOK /\ SameSession

\* Every connection gets its turn, and both ends come to agree what it is.
WireSettles == AcceptGoesOn /\ EndsAgree
=============================================================================

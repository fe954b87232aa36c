----------------------------- MODULE FrpClient -----------------------------
(***************************************************************************)
(* frpc, upstream/frp/client: the service that logs in again and again     *)
(* (service.go), the controls it makes (control.go), the proxies and the   *)
(* visitors of a control (proxy/proxy_manager.go, proxy/proxy_wrapper.go,  *)
(* visitor/visitor_manager.go) and the health checks (health/health.go).   *)
(*                                                                         *)
(* Goroutines: Run with keepControllerWorking, which log in (lg); a reload *)
(* of the configuration (rl); the stop of the service; for every control   *)
(* its worker (wk), the reader of its messages, and for every proxy the    *)
(* wrapper's checkWorker and the monitor's.  Each step is what a goroutine *)
(* does under one mutex.  frps is here what it answers: it takes a control *)
(* connection's messages in order (up) and answers in order (down).        *)
(***************************************************************************)
EXTENDS Integers, Sequences, FiniteSets, SequencesExt

CONSTANTS
  Ctl,        \* the controls, 1..k in the order of the logins
  Name,       \* names of proxies; there is one visitor beside them
  Monitored,  \* the proxies with a health check
  MaxFailed,  \* healthCheck.maxFailed
  None,
  Setups      \* the scenes considered

\* The configurations in the order of the reloads: the version of each proxy, 0
\* where there is none, and whether the visitor is configured; how many
\* connections and dials fail, how many proxies frps or the local side refuses,
\* how many health checks fail and answers are late; whether a failed first
\* login ends the program and whether it is stopped.
Config == [p: [Name -> Nat], v: BOOLEAN]
Setup == [cfgs: Seq(Config), drops: Nat, refs: Nat, bads: Nat, late: Nat,
          exit: BOOLEAN, stop: BOOLEAN, ended: BOOLEAN]

ASSUME ClientAssumption ==
  /\ IsFiniteSet(Ctl) /\ Ctl = 1..Cardinality(Ctl) /\ None \notin Ctl
  /\ IsFiniteSet(Name) /\ Monitored \subseteq Name
  /\ MaxFailed \in Nat \ {0} /\ Setups \subseteq Setup
  /\ \A u \in Setups : u.cfgs # <<>> /\ u.drops < Cardinality(Ctl)

VARIABLES
  use, left,  \* the scene, and what is left of its failures
  cfg,        \* svr.proxyCfgs and visitorCfgs, as an index of use.cfgs
  ctl,        \* svr.ctl
  lg,         \* the goroutine that logs in
  rl,         \* the reload, which holds reloadMu unless it is idle
  stop,       \* no, cancelled, sources, done
  ses,        \* the controls whose connection is open
  wk,         \* a control's worker: none, run, pm, vm, done
  pm,         \* proxy.Manager.proxies of a control
  vm,         \* visitor.Manager of a control
  port,       \* the control whose visitor has the visitor's port
  up, down,   \* messages of a control connection
  srv,        \* what frps serves: the version of each proxy of a control
  overlap     \* ghost: a reload and a login were under way at the same time

mgrs == <<pm, vm, port>>
wire == <<up, down, srv>>
vars == <<use, left, cfg, ctl, lg, rl, stop, ses, wk, mgrs, wire, overlap>>

Phase == {"new", "wait", "error", "running", "failed"}
NoWrapper == [ver |-> 0, ph |-> "new", sick |-> FALSE, ok |-> FALSE,
              fails |-> 0, streak |-> 0]
NoVisitor == [cfg |-> FALSE, has |-> FALSE, keep |-> FALSE, stopped |-> FALSE]
Served == [n \in Name |-> 0]
Cfg(k) == use.cfgs[k]
Left(f) == left[f] > 0
Spend(f) == left' = [left EXCEPT ![f] = @ - 1]
\* The process is gone with a nil dereference.
Dead == "panic" \in {lg.at, rl.at}

Init ==
  /\ use \in Setups
  /\ left = [drops |-> use.drops, refs |-> use.refs, bads |-> use.bads,
             late |-> use.late]
  /\ cfg = 1 /\ ctl = None /\ ses = {} /\ overlap = FALSE
  /\ stop = IF use.ended THEN "done" ELSE "no"
  /\ lg = [at |-> IF use.ended THEN "exit" ELSE "dial", c |-> None, cfg |-> 0,
           first |-> ~use.ended]
  /\ rl = [at |-> "idle", c |-> None]
  /\ wk = [c \in Ctl |-> "none"]
  /\ pm = [c \in Ctl |-> [n \in Name |-> NoWrapper]]
  /\ vm = [c \in Ctl |-> NoVisitor] /\ port = None
  /\ up = [c \in Ctl |-> <<>>] /\ down = [c \in Ctl |-> <<>>]
  /\ srv = [c \in Ctl |-> Served]

-----------------------------------------------------------------------------
(* The managers.                                                           *)

NewProxy(n, v) == [type |-> "NewProxy", name |-> n, ver |-> v]
CloseProxy(n)  == [type |-> "CloseProxy", name |-> n, ver |-> 0]

\* msgTransporter.Send: nothing is sent once the dispatcher is done.
Send(c, ms) == up' = IF c \in ses THEN [up EXCEPT ![c] = @ \o ms] ELSE up

\* NewWrapper: one that is monitored begins as failed.
NewWrapper(n, v) == [NoWrapper EXCEPT !.ver = v, !.sick = n \in Monitored]

\* Wrapper.Stop of a set of proxies.
closes(ns) == SetToSeq({CloseProxy(n) : n \in ns})

\* Mutant: a stopped proxy does not tell frps.
updateQuietly(c, k) ==
  LET p == Cfg(k).p IN
  /\ pm' = [pm EXCEPT ![c] = [n \in Name |->
              IF p[n] = 0 THEN NoWrapper
              ELSE IF pm[c][n].ver = p[n] THEN pm[c][n] ELSE NewWrapper(n, p[n])]]
  /\ up' = up

\* proxy.Manager.UpdateAll: what is not configured as it is now is stopped, and
\* what is not there is started.
UpdateAll(c, k) ==
  LET p == Cfg(k).p
      stale == {n \in Name : pm[c][n].ver \notin {0, p[n]}} IN
  /\ pm' = [pm EXCEPT ![c] = [n \in Name |->
              IF p[n] = 0 THEN NoWrapper
              ELSE IF pm[c][n].ver = p[n] THEN pm[c][n] ELSE NewWrapper(n, p[n])]]
  /\ Send(c, closes(stale))

\* startVisitor: it is there if it has its port.
startVisitor(c, v) ==
  IF port = None THEN /\ port' = c /\ vm' = [vm EXCEPT ![c] = [v EXCEPT !.has = TRUE]]
                 ELSE port' = port /\ vm' = [vm EXCEPT ![c] = v]

\* visitor.Manager.UpdateAll, for the one visitor.
UpdateVisitors(c, k) ==
  LET v == [vm[c] EXCEPT !.cfg = Cfg(k).v, !.keep = @ \/ Cfg(k).v] IN
  CASE Cfg(k).v /\ ~vm[c].cfg -> startVisitor(c, v)
    [] ~Cfg(k).v /\ vm[c].cfg ->
         /\ vm' = [vm EXCEPT ![c] = [v EXCEPT !.has = FALSE]]
         /\ port' = IF port = c THEN None ELSE port
    [] OTHER -> vm' = [vm EXCEPT ![c] = v] /\ port' = port

\* proxy.Manager.Close and visitor.Manager.Close.  The visitors stay in the map.
closeProxies(c) == pm' = [pm EXCEPT ![c] = [n \in Name |-> NoWrapper]]
closeVisitors(c) == /\ vm' = [vm EXCEPT ![c].stopped = TRUE]
                    /\ port' = IF port = c THEN None ELSE port

\* The connection of a control ends and frps, which sees it end, closes all.
EndSession(c) ==
  /\ ses' = ses \ {c} /\ srv' = [srv EXCEPT ![c] = Served]
  /\ up' = [up EXCEPT ![c] = <<>>] /\ down' = [down EXCEPT ![c] = <<>>]

\* Control.Close of a control, if there is one.
Close(c) ==
  IF c = None THEN UNCHANGED <<ses, mgrs, wire>>
  ELSE closeProxies(c) /\ closeVisitors(c) /\ EndSession(c)

\* keepVisitorsRunning, every ten seconds, until it is stopped.
keepVisitorsRunning(c) ==
  /\ vm[c].keep /\ ~vm[c].stopped /\ vm[c].cfg /\ ~vm[c].has /\ port = None
  /\ startVisitor(c, vm[c])
  /\ UNCHANGED <<use, left, cfg, ctl, lg, rl, stop, ses, wk, pm, wire, overlap>>

-----------------------------------------------------------------------------
(* Logging in.                                                             *)

Goto(at) == lg' = [lg EXCEPT !.at = at]
loginOnly == UNCHANGED <<use, left, cfg, ctl, rl, stop, ses, wk, mgrs, wire, overlap>>
\* The configuration is read, and the control not yet in place.
LoggingIn == lg.at \in {"start", "pm", "vm", "swap"}

\* The loop of BackoffUntil: once more, unless the context is done.
loopLogin ==
  /\ lg.at = "dial" /\ loginOnly
  /\ IF stop = "no" THEN Goto("dialing") ELSE Goto("check")

\* controlSessionDialer.Dial fails; with loginFailExit that ends the service.
DialFails ==
  /\ lg.at = "dialing" /\ (Left("drops") \/ stop # "no")
  /\ left' = IF Left("drops") THEN [left EXCEPT !.drops = @ - 1] ELSE left
  /\ Goto("dial")
  /\ stop' = IF lg.first /\ use.exit /\ stop = "no" THEN "cancelled" ELSE stop
  /\ UNCHANGED <<use, cfg, ctl, rl, ses, wk, mgrs, wire, overlap>>

\* The control of the next login.
Fresh == CHOOSE c \in Ctl : wk[c] = "none" /\ \A d \in Ctl : wk[d] = "none" => c <= d

\* Dial succeeds and the configuration is read.
Dial ==
  /\ lg.at = "dialing" /\ \E c \in Ctl : wk[c] = "none"
  /\ lg' = [lg EXCEPT !.at = "start", !.c = Fresh, !.cfg = cfg]
  /\ ses' = ses \cup {Fresh}
  /\ overlap' = (overlap \/ rl.at # "idle")
  /\ UNCHANGED <<use, left, cfg, ctl, rl, stop, wk, mgrs, wire>>

\* Control.Run: the worker, the proxies, the visitors.
RunWorker ==
  /\ lg.at = "start" /\ Goto("pm") /\ wk' = [wk EXCEPT ![lg.c] = "run"]
  /\ UNCHANGED <<use, left, cfg, ctl, rl, stop, ses, mgrs, wire, overlap>>

RunProxies ==
  /\ lg.at = "pm" /\ Goto("vm") /\ UpdateAll(lg.c, lg.cfg)
  /\ UNCHANGED <<use, left, cfg, ctl, rl, stop, ses, wk, vm, port, down, srv, overlap>>

RunVisitors ==
  /\ lg.at = "vm" /\ Goto("swap") /\ UpdateVisitors(lg.c, lg.cfg)
  /\ UNCHANGED <<use, left, cfg, ctl, rl, stop, ses, wk, pm, wire, overlap>>

\* Under ctlMu the control before is closed and the new one takes its place.
Swap ==
  /\ lg.at = "swap" /\ Close(ctl) /\ ctl' = lg.c
  /\ lg' = [lg EXCEPT !.at = IF lg.first THEN "keep" ELSE "check", !.first = FALSE]
  /\ UNCHANGED <<use, left, cfg, rl, stop, wk, overlap>>

\* svr.ctl is read once to compare it with nil and once more to wait for it.
CheckControl == /\ lg.at = "check" /\ loginOnly
                /\ Goto(IF ctl = None THEN "exit" ELSE "keep")

keepControllerWorking ==
  /\ lg.at = "keep" /\ loginOnly
  /\ lg' = [lg EXCEPT !.at = IF ctl = None THEN "panic" ELSE "done", !.c = ctl]

ControlDone == /\ lg.at = "done" /\ wk[lg.c] = "done" /\ loginOnly
               /\ Goto(IF stop = "no" THEN "dial" ELSE "exit")

Login == \/ loopLogin \/ Dial \/ RunWorker \/ RunProxies \/ RunVisitors \/ Swap
         \/ CheckControl \/ keepControllerWorking \/ ControlDone

-----------------------------------------------------------------------------
(* A reload, and the end of the service.                                   *)

\* reloadConfigFromSourcesLocked to where the configuration is set.
Reload ==
  /\ rl.at = "idle" /\ stop \in {"no", "cancelled"} /\ cfg < Len(use.cfgs)
  /\ cfg' = cfg + 1 /\ rl' = [rl EXCEPT !.at = "get"]
  /\ overlap' = (overlap \/ LoggingIn)
  /\ UNCHANGED <<use, left, ctl, lg, stop, ses, wk, mgrs, wire>>

\* UpdateAllConfigurer looks whether there is a control,
ReloadGet ==
  /\ rl.at = "get" /\ rl' = [rl EXCEPT !.at = IF ctl = None THEN "idle" ELSE "vm"]
  /\ UNCHANGED <<use, left, cfg, ctl, lg, stop, ses, wk, mgrs, wire, overlap>>

\* and then reads svr.ctl again.
ReloadVisitors ==
  /\ rl.at = "vm"
  /\ IF ctl = None
     THEN rl' = [rl EXCEPT !.at = "panic"] /\ UNCHANGED <<vm, port>>
     ELSE rl' = [at |-> "pm", c |-> ctl] /\ UpdateVisitors(ctl, cfg)
  /\ UNCHANGED <<use, left, cfg, ctl, lg, stop, ses, wk, pm, wire, overlap>>

ReloadProxies ==
  /\ rl.at = "pm" /\ rl' = [at |-> "idle", c |-> None] /\ UpdateAll(rl.c, cfg)
  /\ UNCHANGED <<use, left, cfg, ctl, lg, stop, ses, wk, vm, port, down, srv, overlap>>

\* GracefulClose of the service cancels its context.
Cancel ==
  /\ use.stop /\ stop = "no" /\ stop' = "cancelled"
  /\ UNCHANGED <<use, left, cfg, ctl, lg, rl, ses, wk, mgrs, wire, overlap>>

\* Service.stop: it waits for a reload, whose sources it takes away.  Run calls it
\* once the first login is through.
StopSources ==
  /\ stop = "cancelled" /\ rl.at = "idle" /\ (lg.first => lg.at = "exit")
  /\ stop' = "sources"
  /\ UNCHANGED <<use, left, cfg, ctl, lg, rl, ses, wk, mgrs, wire, overlap>>

\* Under ctlMu the control is closed and forgotten.
StopControl ==
  /\ stop = "sources" /\ stop' = "done" /\ Close(ctl) /\ ctl' = None
  /\ UNCHANGED <<use, left, cfg, lg, rl, wk, overlap>>

-----------------------------------------------------------------------------
(* A control at work.                                                      *)

\* The connection fails: the network, heartbeatWorker's timeout, or a Pong that
\* carries an error.
Drop(c) ==
  /\ Left("drops") /\ c \in ses /\ Spend("drops") /\ EndSession(c)
  /\ UNCHANGED <<use, cfg, ctl, lg, rl, stop, wk, mgrs, overlap>>

\* Control.worker, once the dispatcher is done.
worker(c) ==
  /\ wk[c] \in {"run", "pm", "vm"} /\ c \notin ses
  /\ CASE wk[c] = "run" -> closeProxies(c) /\ wk' = [wk EXCEPT ![c] = "pm"]
                          /\ UNCHANGED <<vm, port>>
       [] wk[c] = "pm" -> closeVisitors(c) /\ wk' = [wk EXCEPT ![c] = "vm"] /\ pm' = pm
       [] wk[c] = "vm" -> wk' = [wk EXCEPT ![c] = "done"] /\ UNCHANGED mgrs
  /\ UNCHANGED <<use, left, cfg, ctl, lg, rl, stop, ses, wire, overlap>>

\* frps handles one message: a name that it has is refused, and others may be.
ServerNewProxy(c, refuse) ==
  LET m == Head(up[c]) IN
  /\ c \in ses /\ up[c] # <<>> /\ m.type = "NewProxy"
  /\ refuse => Left("refs") /\ srv[c][m.name] = 0
  /\ LET good == srv[c][m.name] = 0 /\ ~refuse IN
     /\ srv' = IF good THEN [srv EXCEPT ![c][m.name] = m.ver] ELSE srv
     /\ down' = [down EXCEPT ![c] = Append(@, [name |-> m.name, good |-> good])]
  /\ IF refuse THEN Spend("refs") ELSE left' = left
  /\ up' = [up EXCEPT ![c] = Tail(@)]
  /\ UNCHANGED <<use, cfg, ctl, lg, rl, stop, ses, wk, mgrs, overlap>>

ServerCloseProxy(c) ==
  /\ c \in ses /\ up[c] # <<>> /\ Head(up[c]).type = "CloseProxy"
  /\ srv' = [srv EXCEPT ![c][Head(up[c]).name] = 0]
  /\ up' = [up EXCEPT ![c] = Tail(@)]
  /\ UNCHANGED <<use, left, cfg, ctl, lg, rl, stop, ses, wk, mgrs, down, overlap>>

proxyOnly == UNCHANGED <<use, cfg, ctl, lg, rl, stop, ses, wk, vm, port, srv, overlap>>

\* handleNewProxyResp, StartProxy and SetRunningStatus: the wrapper that has the
\* name now takes the answer, if it waits for one.  The proxy may fail to run.
SetRunningStatus(c, runs) ==
  LET r == Head(down[c])
      w == pm[c][r.name] IN
  /\ c \in ses /\ down[c] # <<>> /\ down' = [down EXCEPT ![c] = Tail(@)]
  /\ ~runs => r.good /\ w.ver # 0 /\ w.ph = "wait" /\ Left("refs")
  /\ IF w.ver = 0 \/ w.ph # "wait" THEN UNCHANGED <<pm, up, left>>
     ELSE /\ pm' = [pm EXCEPT ![c][r.name].ph =
                                IF r.good /\ runs THEN "running" ELSE "error"]
          /\ Send(c, IF runs THEN <<>> ELSE <<CloseProxy(r.name)>>)
          /\ IF runs THEN left' = left ELSE Spend("refs")
  /\ proxyOnly

\* Mutant: an error is final.
askStartOnce(c, n) ==
  LET w == pm[c][n] IN
  /\ w.ver # 0 /\ ~w.sick /\ w.ph \in {"new", "failed", "wait"}
  /\ IF w.ph = "wait" THEN Left("late") /\ Spend("late") ELSE left' = left
  /\ pm' = [pm EXCEPT ![c][n].ph = "wait"] /\ Send(c, <<NewProxy(n, w.ver)>>)
  /\ down' = down /\ proxyOnly

\* checkWorker of a wrapper that is healthy: it asks frps to start the proxy, for
\* the first time or again, after an error or, late, when there is no answer.
askStart(c, n) ==
  LET w == pm[c][n] IN
  /\ w.ver # 0 /\ ~w.sick /\ w.ph \in {"new", "failed", "error", "wait"}
  /\ IF w.ph = "wait" THEN Left("late") /\ Spend("late") ELSE left' = left
  /\ pm' = [pm EXCEPT ![c][n].ph = "wait"] /\ Send(c, <<NewProxy(n, w.ver)>>)
  /\ down' = down /\ proxyOnly

\* checkWorker of one that is not: the proxy is withdrawn.
withdraw(c, n) ==
  /\ pm[c][n].ver # 0 /\ pm[c][n].sick /\ pm[c][n].ph \in {"running", "wait"}
  /\ pm' = [pm EXCEPT ![c][n].ph = "failed"] /\ Send(c, <<CloseProxy(n)>>)
  /\ UNCHANGED <<left, down>> /\ proxyOnly

checkWorker(c, n) == askStart(c, n) \/ withdraw(c, n)

\* Monitor.checkWorker: a check that succeeds, and one that fails.  streak counts
\* the failures since the last success, which the code does not.
checkGood(c, n) ==
  LET w == pm[c][n] IN
  /\ n \in Monitored /\ w.ver # 0 /\ (w.ok => w.streak > 0)
  /\ pm' = [pm EXCEPT ![c][n] = [w EXCEPT !.ok = TRUE, !.streak = 0,
                                          !.sick = IF w.ok THEN @ ELSE FALSE]]
  /\ UNCHANGED <<left, up, down>> /\ proxyOnly

checkBad(c, n) ==
  LET w == pm[c][n]
      flips == w.ok /\ w.fails + 1 >= MaxFailed IN
  /\ n \in Monitored /\ w.ver # 0 /\ Left("bads") /\ Spend("bads")
  /\ pm' = [pm EXCEPT ![c][n] = [w EXCEPT !.fails = @ + 1, !.streak = @ + 1,
                !.ok = w.ok /\ ~flips, !.sick = @ \/ flips]]
  /\ UNCHANGED <<up, down>> /\ proxyOnly

Program ==
  /\ ~Dead
  /\ \/ Login \/ ReloadGet \/ ReloadVisitors \/ ReloadProxies
     \/ StopSources \/ StopControl
     \/ \E c \in Ctl : \/ keepVisitorsRunning(c) \/ worker(c)
                       \/ ServerNewProxy(c, FALSE) \/ ServerCloseProxy(c)
                       \/ SetRunningStatus(c, TRUE)
                       \/ \E n \in Name : checkWorker(c, n) \/ checkGood(c, n)

Environment ==
  /\ ~Dead
  /\ \/ Reload \/ Cancel \/ DialFails
     \/ \E c \in Ctl : \/ Drop(c) \/ ServerNewProxy(c, TRUE)
                       \/ SetRunningStatus(c, FALSE)
                       \/ \E n \in Name : checkBad(c, n)

Next == Program \/ Environment
Spec == Init /\ [][Next]_vars
\* Every goroutine goes on, and there are finitely many failures.
ClientFair == WF_vars(Program)
FairSpec == Spec /\ ClientFair

-----------------------------------------------------------------------------
(* Properties.                                                             *)

\* Type invariant of the controls and the wrappers.
ClientTypeOK ==
  /\ cfg \in 1..Len(use.cfgs) /\ ctl \in Ctl \cup {None} /\ port \in Ctl \cup {None}
  /\ stop \in {"no", "cancelled", "sources", "done"} /\ ses \subseteq Ctl
  /\ wk \in [Ctl -> {"none", "run", "pm", "vm", "done"}]
  /\ vm \in [Ctl -> [cfg: BOOLEAN, has: BOOLEAN, keep: BOOLEAN, stopped: BOOLEAN]]
  /\ srv \in [Ctl -> [Name -> Nat]] /\ overlap \in BOOLEAN
  /\ \A c \in Ctl, n \in Name :
        pm[c][n] \in [ver: Nat, ph: Phase, sick: BOOLEAN, ok: BOOLEAN,
                      fails: Nat, streak: Nat]
  /\ \A c \in Ctl \ ses : srv[c] = Served /\ up[c] = <<>> /\ down[c] = <<>>

quietUp(c, n) == \A i \in DOMAIN up[c] : up[c][i].name # n
quiet(c, n) == quietUp(c, n) /\ \A i \in DOMAIN down[c] : down[c][i].name # n

\* service.go UpdateAllConfigurer reads svr.ctl twice; that a reload meets no nil
\* the second time is due to stop, which waits for reloadMu before it forgets the
\* control and leaves no sources for a reload that comes later.
NoNilControl == rl.at # "panic"

\* proxy_wrapper.go: once its messages are through, frps serves nothing that the
\* configuration of the control no longer has, has in another version, or that
\* failed its health check: whatever way a proxy ends, the CloseProxy follows
\* the last NewProxy.
ServedIsWanted ==
  \A c \in ses, n \in Name : quietUp(c, n) /\ srv[c][n] # 0 =>
     pm[c][n].ver = srv[c][n] /\ pm[c][n].ph \notin {"new", "failed"}

\* proxy_wrapper.go SetRunningStatus: a proxy that frpc shows as running is served
\* by frps in that version, although answers carry no more than the name and may
\* belong to an earlier request or wrapper; as long as frps refuses nothing.
RunningIsServed ==
  \A c \in ses, n \in Name :
     use.refs = 0 /\ quiet(c, n) /\ pm[c][n].ph = "running" =>
       srv[c][n] = pm[c][n].ver

\* service.go, control.go: the worker of a control that dies while it is being
\* started closes its managers before they are filled; whatever that leaves behind
\* is gone when the next control of the service is in its place.
OldHoldsNothing ==
  \A c \in Ctl : ctl # None /\ c < ctl /\ ~overlap /\ stop # "done" =>
     c \notin ses /\ port # c /\ \A n \in Name : pm[c][n].ver = 0

\* The control in place serves the whole of the latest configuration.
AllServed ==
  /\ ctl # None /\ ctl \in ses
  /\ \A n \in Name : /\ pm[ctl][n].ver = Cfg(cfg).p[n] /\ srv[ctl][n] = Cfg(cfg).p[n]
                     /\ Cfg(cfg).p[n] # 0 => pm[ctl][n].ph = "running"
  /\ Cfg(cfg).v = (port = ctl)

\* service.go and proxy_wrapper.go: when the failures are over, everything that is
\* configured last is served, through the control that took the place of the
\* others, provided that frps answers in time and no reload and login overlapped.
ServesLatest ==
  <>[](use.late = 0 /\ ~overlap /\ stop = "no" => AllServed)

\* service.go stop: when the service is stopped every connection ends and every
\* proxy and visitor with it, those of a control that is dying included; except
\* where a login was already through its dial.
StopEnds ==
  [](stop = "cancelled" /\ ~LoggingIn /\ lg.at # "dialing" /\ ~overlap =>
      <>(Dead \/ (ses = {} /\ port = None
                   /\ \A c \in Ctl, n \in Name : pm[c][n].ver = 0)))

\* What frps serves is what the controls of frpc have, and old controls have nothing.
ControlSound ==
  /\ ClientTypeOK /\ NoNilControl /\ ServedIsWanted /\ RunningIsServed
  /\ OldHoldsNothing

\* What was configured last comes to be served, and a stop ends it all.
ControlSettles == ServesLatest /\ StopEnds
=============================================================================

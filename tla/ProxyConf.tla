----------------------------- MODULE ProxyConf -----------------------------
(***************************************************************************)
(* What a proxy or a visitor of frpc is set to: from the text of the       *)
(* configuration file to what runs, and to what frps makes of it.          *)
(*   upstream/frp/pkg/config/load.go        reading files and messages     *)
(*   upstream/frp/pkg/config/v1             decode.go, proxy.go,           *)
(*                                          visitor.go, proxy_plugin.go    *)
(*   upstream/frp/pkg/config/v1/validation  proxy.go, visitor.go, ...      *)
(*   upstream/frp/cmd/frpc/sub/root.go      the start of frpc              *)
(*   upstream/frp/pkg/naming/names.go       names with the user before them*)
(* FrpConf has the same reloads in small steps and entries without content; *)
(* here a reload is one step and an entry is [kind, name, type, set], set   *)
(* giving each setting its value, "" where it is empty.  A name is the      *)
(* sequence of its labels.  A text sets some settings only; files in the    *)
(* old ini format are left out.                                            *)
(***************************************************************************)
EXTENDS Sequences, FiniteSets, SequencesExt, TLC

VARIABLES
  pscene,     \* the scene: strict mode, the user, what frps can do, edits and calls to come
  text,       \* the configuration file
  frpc,       \* the process: "off", "on" or "failed"
  fromFile,   \* ConfigSource: entries by <<kind, name>>
  fromStore,  \* StoreSource, on disk as in memory
  starts,     \* reloadCommon.Start
  managed,    \* the entries the managers of proxies and visitors run
  served,     \* frps: per name what it serves, [ok, cfg]
  answers,    \* per proxy whether frps accepted it
  written,    \* history: the entries behind managed as the user wrote them
  plain,      \* history: the entries of fromFile as the user wrote them
  covered,    \* history: entries of the file hidden by the store when the process started
  bounced     \* history: what was restarted though nobody changed it

proxyConfVars == <<pscene, text, frpc, fromFile, fromStore, starts, managed, served, answers,
                   written, plain, covered, bounced>>

-----------------------------------------------------------------------------
(* The settings there are.                                                 *)

\* ProxyBaseConfig: what frps is told of any proxy, and what it is not told.
BaseSettings == {"useEncryption", "useCompression", "bandwidthLimit", "bandwidthLimitMode",
                 "group", "groupKey", "metadatas", "annotations"}
OwnSettings == {"enabled", "localIP", "localPort", "healthCheck", "healthCheck.path",
                "proxyProtocolVersion", "plugin"}

\* TCPProxyConfig and UDPProxyConfig; DomainConfig with HTTPProxyConfig,
\* HTTPSProxyConfig and TCPMuxProxyConfig; the proxies with a secret.
PortSettings == {"remotePort"}
DomainSettings == {"customDomains", "subdomain"}
HTTPSettings == DomainSettings \cup
  {"locations", "httpUser", "httpPassword", "hostHeaderRewrite", "requestHeaders",
   "responseHeaders", "routeByHTTPUser"}
HTTPSSettings == DomainSettings
TCPMuxSettings == DomainSettings \cup {"httpUser", "httpPassword", "routeByHTTPUser", "multiplexer"}
SecretSettings == {"secretKey", "allowUsers"}

\* proxyConfigTypeMap.
ProxyTypeSettings ==
  [tcp |-> PortSettings, udp |-> PortSettings, http |-> HTTPSettings, https |-> HTTPSSettings,
   tcpmux |-> TCPMuxSettings, stcp |-> SecretSettings, sudp |-> SecretSettings,
   xtcp |-> SecretSettings]

\* clientPluginOptionsTypeMap: the options of each plugin.
WebPlugin == {"plugin.localAddr", "plugin.hostHeaderRewrite", "plugin.requestHeaders"}
TLSPlugin == WebPlugin \cup {"plugin.enableHTTP2", "plugin.crtPath", "plugin.keyPath"}
PluginSettings ==
  [http2https |-> WebPlugin, http2http |-> WebPlugin, https2http |-> TLSPlugin,
   https2https |-> TLSPlugin,
   http_proxy |-> {"plugin.httpUser", "plugin.httpPassword"},
   socks5 |-> {"plugin.username", "plugin.password"},
   static_file |-> {"plugin.localPath", "plugin.stripPrefix", "plugin.httpUser",
                    "plugin.httpPassword"},
   unix_domain_socket |-> {"plugin.unixPath"},
   tls2raw |-> {"plugin.localAddr", "plugin.crtPath", "plugin.keyPath"},
   virtual_net |-> {}]
AnyPluginSetting == UNION {PluginSettings[p] : p \in DOMAIN PluginSettings}

\* VisitorBaseConfig and visitorConfigTypeMap.
VisitorSettings == {"enabled", "useEncryption", "useCompression", "secretKey", "serverUser",
                    "serverName", "bindAddr", "bindPort"}
XTCPVisitorSettings == {"protocol", "keepTunnelOpen", "maxRetriesAnHour", "minRetryInterval",
                        "fallbackTo", "fallbackTimeoutMs"}
VisitorTypeSettings ==
  [stcp |-> VisitorSettings, sudp |-> VisitorSettings,
   xtcp |-> VisitorSettings \cup XTCPVisitorSettings]

setting(e, s) == IF s \in DOMAIN e.set THEN e.set[s] ELSE ""
Types(kind) == DOMAIN (IF kind = "proxy" THEN ProxyTypeSettings ELSE VisitorTypeSettings)
Settings(e) ==
  IF e.kind = "visitor" THEN VisitorTypeSettings[e.type]
  ELSE BaseSettings \cup OwnSettings \cup ProxyTypeSettings[e.type]
       \cup IF setting(e, "plugin") = "" THEN {} ELSE PluginSettings[setting(e, "plugin")]

-----------------------------------------------------------------------------
(* Decoding.                                                               *)

\* BandwidthQuantity.UnmarshalString: a number of MB or of KB.
BandwidthQuantity == {"", "1MB", "1024KB"}

\* DecodeClientPluginOptionsJSON: options need the type of a plugin that there is.
decodesPlugin(e) ==
  IF setting(e, "plugin") = "" THEN DOMAIN e.set \cap AnyPluginSetting = {}
  ELSE setting(e, "plugin") \in DOMAIN PluginSettings

\* DecodeProxyConfigurerJSON, DecodeVisitorConfigurerJSON: the type must be known,
\* and in strict mode every member of the entry and of its plugin.
decodes(e, strict) ==
  /\ e.type \in Types(e.kind)
  /\ e.kind = "proxy" => decodesPlugin(e) /\ setting(e, "bandwidthLimit") \in BandwidthQuantity
  /\ strict => DOMAIN e.set \subseteq Settings(e)

\* NewProxyConfigurerByType and what the text sets.
decoded(e) == [e EXCEPT !.set = [s \in Settings(e) |-> setting(e, s)]]

\* DecodeClientConfigJSON: one entry that does not decode fails them all.
decodesAll(f, strict) ==
  (strict => ~f.strange) /\ \A i \in DOMAIN f.ents : decodes(f.ents[i], strict)

\* LoadConfigure: what parses as TOML is TOML, and a file that is named .toml must;
\* what looks like JSON is JSON, the rest YAML, where members that begin with a dot
\* are dropped before the strict decoding.
LoadConfigure(f, strict) ==
  \/ f.syntax \in {"toml", "json"} /\ (f.ext = "toml" => f.syntax = "toml")
     /\ decodesAll(f, strict) /\ (strict => ~f.dotted)
  \/ f.syntax = "yaml" /\ f.ext # "toml" /\ decodesAll(f, strict)

\* LoadAdditionalClientConfigs: the proxies and visitors of the files of every
\* pattern; one that does not load, or a directory that is missing, fails them all.
included(f) == FlattenSeq([i \in DOMAIN f.includes |-> f.includes[i].files])
includesLoad(f, strict) ==
  \A i \in DOMAIN f.includes :
    f.includes[i].dir /\ \A j \in DOMAIN f.includes[i].files :
                           LoadConfigure(f.includes[i].files[j], strict)

\* LoadClientConfigResult: the entries in the order of the files, not completed.
loads(f, strict) == LoadConfigure(f, strict) /\ includesLoad(f, strict) /\ f.common # "incomplete"
LoadClientConfigResult(f) ==
  LET all == f.ents \o FlattenSeq([i \in DOMAIN included(f) |-> included(f)[i].ents])
  IN [i \in DOMAIN all |-> decoded(all[i])]

-----------------------------------------------------------------------------
(* Completing and validating.                                              *)

\* What Complete puts where nothing is set.
Defaults(e) ==
  IF e.kind = "proxy"
  THEN [s \in {"localIP", "bandwidthLimitMode", "plugin.enableHTTP2"} |->
          CASE s = "localIP" -> "127.0.0.1" [] s = "bandwidthLimitMode" -> "client"
            [] OTHER -> "true"]
  ELSE [s \in {"bindAddr", "protocol", "maxRetriesAnHour", "minRetryInterval",
               "fallbackTimeoutMs"} |->
          CASE s = "bindAddr" -> "127.0.0.1" [] s = "protocol" -> "quic"
            [] s = "maxRetriesAnHour" -> "8" [] s = "minRetryInterval" -> "90"
            [] OTHER -> "1000"]
Complete(e) ==
  [e EXCEPT !.set = [s \in DOMAIN @ |->
     IF @[s] = "" /\ s \in DOMAIN Defaults(e) THEN Defaults(e)[s] ELSE @[s]]]

\* ValidateAnnotations: keys that are qualified names, and not too much of them.
ValidateAnnotations(e) == setting(e, "annotations") # "unqualified"

\* ValidateClientPluginOptions: what some plugins cannot do without.
Required(p) ==
  CASE p \in {"http2https", "https2http", "https2https", "tls2raw"} -> {"plugin.localAddr"}
    [] p = "static_file" -> {"plugin.localPath"}
    [] p = "unix_domain_socket" -> {"plugin.unixPath"}
    [] OTHER -> {}
ValidateClientPluginOptions(e) == \A s \in Required(setting(e, "plugin")) : e.set[s] # ""

\* validateProxyBaseConfigForClient.
validBase(e) ==
  /\ e.name # <<>> /\ ValidateAnnotations(e)
  /\ setting(e, "proxyProtocolVersion") \in {"", "v1", "v2"}
  /\ setting(e, "bandwidthLimitMode") \in {"client", "server"}
  /\ setting(e, "plugin") = "" => setting(e, "localPort") # "outside"
  /\ setting(e, "healthCheck") \in {"", "tcp", "http"}
  /\ setting(e, "healthCheck") = "http" => setting(e, "healthCheck.path") # ""
  /\ ValidateClientPluginOptions(e)

\* ValidateProxyConfigurerForClient: a domain where the type needs one.
ValidateProxyForClient(e) ==
  /\ validBase(e)
  /\ e.type \in {"http", "https", "tcpmux"} => \E s \in DomainSettings : e.set[s] # ""
  /\ e.type = "tcpmux" => e.set["multiplexer"] = "httpconnect"

\* ValidateVisitorConfigurer.
ValidateVisitor(e) ==
  /\ e.name # <<>> /\ e.set["serverName"] # "" /\ e.set["bindPort"] # ""
  /\ e.type = "xtcp" => e.set["protocol"] \in {"kcp", "quic"}

validEntry(e) == IF e.kind = "proxy" THEN ValidateProxyForClient(e) ELSE ValidateVisitor(e)

-----------------------------------------------------------------------------
(* The message to frps.                                                    *)

\* Mutant: the limit is always the client's.
MarshalToMsgPlain(e, name) ==
  LET carried == (BaseSettings \cup ProxyTypeSettings[e.type]) \ {"bandwidthLimitMode"}
  IN [name |-> name, type |-> e.type, set |-> [s \in carried |-> e.set[s]]]

\* MarshalToMsg: the mode of the limit is left out when it is the client's.
MarshalToMsg(e, name) ==
  LET carried == (BaseSettings \cup ProxyTypeSettings[e.type])
                 \ IF e.set["bandwidthLimitMode"] = "client" THEN {"bandwidthLimitMode"} ELSE {}
  IN [name |-> name, type |-> e.type, set |-> [s \in carried |-> e.set[s]]]

\* UnmarshalFromMsg: an empty configuration of the type with what the message says.
UnmarshalFromMsg(m) ==
  decoded([kind |-> "proxy", name |-> m.name, type |-> m.type,
           set |-> [s \in DOMAIN m.set \cap (BaseSettings \cup ProxyTypeSettings[m.type]) |->
                      m.set[s]]])

\* validateDomainConfigForServer: no domain of the server's own, and a subdomain of
\* one label where the server has a domain for it.
validateDomainForServer(e, s) ==
  /\ s.subDomainHost => e.set["customDomains"] # "beneath"
  /\ e.set["subdomain"] # "" => s.subDomainHost /\ e.set["subdomain"] # "dotted"

\* ValidateProxyConfigurerForServer.
ValidateProxyForServer(e, s) ==
  /\ ValidateAnnotations(e)
  /\ e.type = "http" => s.http
  /\ e.type = "https" => s.https
  /\ e.type = "tcpmux" /\ e.set["multiplexer"] = "httpconnect" => s.tcpmux
  /\ e.type \in {"http", "https", "tcpmux"} => validateDomainForServer(e, s)

\* NewProxyConfigurerFromMsg.
NewProxyConfigurerFromMsg(m, s) ==
  LET e == Complete(UnmarshalFromMsg(m)) IN [ok |-> ValidateProxyForServer(e, s), cfg |-> e]

\* AddUserPrefix and StripUserPrefix: names as frps knows them.
AddUserPrefix(user, name) == user \o name
StripUserPrefix(user, name) ==
  IF IsStrictPrefix(user, name) THEN SubSeq(name, Len(user) + 1, Len(name)) ELSE name

-----------------------------------------------------------------------------
(* Sources and managers.                                                   *)

keyOf(e) == <<e.kind, e.name>>
keysOf(es) == {keyOf(es[i]) : i \in DOMAIN es}

\* ConfigSource.ReplaceAll: by name, the last one wins; a name is needed.
named(es) == \A i \in DOMAIN es : es[i].name # <<>>
Replaced(es) ==
  [k \in keysOf(es) |->
     es[CHOOSE i \in DOMAIN es : keyOf(es[i]) = k
          /\ \A j \in DOMAIN es : keyOf(es[j]) = k => j <= i]]

\* FilterClientConfigurers.
chosen(e, start) == (start = {} \/ e.name \in start) /\ e.set["enabled"] # "false"

switchedOn(m) == [k \in {x \in DOMAIN m : m[x].set["enabled"] # "false"} |-> m[k]]
\* Aggregator.Load on clones, filtered.
merge(file, store, start) ==
  LET all == switchedOn(store) @@ switchedOn(file)
  IN [k \in {x \in DOMAIN all : chosen(all[x], start)} |-> all[k]]
completed(m) == [k \in DOMAIN m |-> Complete(m[k])]

\* Manager.UpdateAll of proxies and of visitors: what differs is stopped and started
\* anew, what is new starts; a proxy that stops is closed at frps.
manageAll(file, store, start, asWritten) ==
  LET new == completed(merge(file, store, start))
      now == merge(asWritten, store, start)
      kept == {k \in DOMAIN managed \cap DOMAIN new : managed[k] = new[k]}
      gone == {AddUserPrefix(pscene.user, k[2]) :
                 k \in {x \in DOMAIN managed \ kept : x[1] = "proxy"}}
  IN /\ managed' = new /\ written' = now
     /\ served' = [w \in DOMAIN served \ gone |-> served[w]]
     /\ answers' = [k \in DOMAIN answers \cap kept |-> answers[k]]
     /\ bounced' = bounced \cup
          {k \in (DOMAIN new \cap DOMAIN managed) \ kept : written[k] = now[k]}

-----------------------------------------------------------------------------

ProxyConfInit(s) ==
  /\ pscene = s /\ text = s.file /\ frpc = "off" /\ fromStore = <<>>
  /\ fromFile = <<>> /\ plain = <<>> /\ starts = {} /\ managed = <<>> /\ written = <<>>
  /\ served = <<>> /\ answers = <<>> /\ covered = {} /\ bounced = {}

\* runClient, runClientWithAggregator, NewService: what is merged is validated.
runClient ==
  /\ frpc # "on"
  /\ LET es == LoadClientConfigResult(text)
         src == Replaced(es)
         all == completed(merge(src, fromStore, text.start))
     IN IF loads(text, pscene.strict) /\ named(es) /\ text.common = "good"
           /\ \A k \in DOMAIN all : validEntry(all[k])
        THEN /\ frpc' = "on" /\ fromFile' = src /\ plain' = src /\ starts' = text.start
             /\ covered' = DOMAIN src \cap DOMAIN switchedOn(fromStore)
             /\ manageAll(src, fromStore, text.start, src)
        ELSE frpc' = "failed" /\ UNCHANGED <<fromFile, plain, starts, covered, managed, written,
                                           served, answers, bounced>>
  /\ UNCHANGED <<pscene, text, fromStore>>

\* The file is edited.
editFile ==
  /\ pscene.edits # <<>> /\ text' = Head(pscene.edits)
  /\ pscene' = [pscene EXCEPT !.edits = Tail(@)]
  /\ UNCHANGED <<frpc, fromFile, fromStore, starts, managed, served, answers, written, plain,
                 covered, bounced>>

\* ReloadFromFile and UpdateConfigSource: the entries that are chosen are completed
\* where they are, and validated; the others go to the source as they were read.
reloadFile ==
  /\ frpc = "on"
  /\ LET es == LoadClientConfigResult(text)
         touched == [i \in DOMAIN es |->
                       IF chosen(es[i], text.start) THEN Complete(es[i]) ELSE es[i]]
         src == Replaced(touched)
     IN /\ loads(text, pscene.strict) /\ text.common = "good" /\ named(es)
        /\ \A i \in DOMAIN es : chosen(es[i], text.start) => validEntry(touched[i])
        /\ fromFile' = src /\ plain' = Replaced(es) /\ starts' = text.start /\ covered' = {}
        /\ manageAll(src, fromStore, text.start, Replaced(es))
  /\ UNCHANGED <<pscene, text, frpc, fromStore>>

\* A call of the admin API on the store: an entry is validated as it would run, and
\* kept as it was given.
validateStoreConfigurer(e) == decodes(e, FALSE) /\ validEntry(Complete(decoded(e)))
changeStore ==
  /\ frpc = "on" /\ pscene.calls # <<>>
  /\ pscene' = [pscene EXCEPT !.calls = Tail(@)]
  /\ LET c == Head(pscene.calls)
         k == keyOf(c.ent)
         new == [x \in DOMAIN fromStore \cup {k} |-> IF x = k THEN decoded(c.ent) ELSE fromStore[x]]
     IN IF c.op = "delete"
        THEN fromStore' = [x \in DOMAIN fromStore \ {k} |-> fromStore[x]]
        ELSE fromStore' = IF validateStoreConfigurer(c.ent)
                             /\ (c.op = "update") = (k \in DOMAIN fromStore)
                          THEN new ELSE fromStore
  /\ manageAll(fromFile, fromStore', starts, plain)
  /\ UNCHANGED <<text, frpc, fromFile, starts, plain, covered>>

\* checkWorker sends a proxy to frps, whose answer finds it by its name.
startProxy(k) ==
  /\ frpc = "on" /\ k \in DOMAIN managed \ DOMAIN answers /\ k[1] = "proxy"
  /\ LET w == AddUserPrefix(pscene.user, k[2])
         r == NewProxyConfigurerFromMsg(MarshalToMsg(managed[k], w), pscene.server)
     IN /\ served' = (w :> r) @@ served
        /\ answers' = (<<"proxy", StripUserPrefix(pscene.user, w)>> :> r.ok) @@ answers
  /\ UNCHANGED <<pscene, text, frpc, fromFile, fromStore, starts, managed, written, plain, covered,
                 bounced>>

\* The process ends; the store stays on disk.
stopClient ==
  /\ frpc = "on" /\ frpc' = "off"
  /\ fromFile' = <<>> /\ plain' = <<>> /\ managed' = <<>> /\ written' = <<>>
  /\ served' = <<>> /\ answers' = <<>>
  /\ UNCHANGED <<pscene, text, fromStore, starts, covered, bounced>>

ProxyConfNext ==
  \/ runClient \/ editFile \/ reloadFile \/ changeStore \/ stopClient
  \/ \E k \in DOMAIN managed : startProxy(k)

-----------------------------------------------------------------------------
(* Properties.                                                             *)

\* Type invariant: what runs is of a type there is and has its settings.
ProxyConfTypeOK ==
  /\ frpc \in {"off", "on", "failed"}
  /\ \A k \in DOMAIN managed : k = keyOf(managed[k]) /\ DOMAIN managed[k].set = Settings(managed[k])
  /\ DOMAIN answers \subseteq DOMAIN managed

\* What runs is what the user wrote, with the defaults, whichever way it came there:
\* file, include, store, reload.
RunsWhatIsWritten == frpc = "on" => managed = completed(written)

\* Nothing that runs is restarted by a reload or a call that did not change it.
NoNeedlessRestart == bounced = {}

\* Whatever runs is valid; except an entry of the file that an entry of the store hid
\* when the process started: it was not looked at, and runs when the store's is gone.
RunningIsValid == \A k \in DOMAIN managed : validEntry(managed[k]) \/ k \in covered

\* frps serves a proxy with every setting it is told of as frpc has it; what it
\* refuses is a proxy that needs a port or a domain the server must have.
ServedAsConfigured ==
  \A k \in DOMAIN answers :
    LET w == AddUserPrefix(pscene.user, k[2])
        e == managed[k]
    IN IF answers[k]
       THEN /\ w \in DOMAIN served /\ served[w].ok /\ served[w].cfg.type = e.type
            /\ \A s \in BaseSettings \cup ProxyTypeSettings[e.type] :
                 served[w].cfg.set[s] = e.set[s]
       ELSE e.type \in {"http", "https", "tcpmux"} \/ k \in covered

\* All of them.
ProxyConfSound ==
  ProxyConfTypeOK /\ RunsWhatIsWritten /\ NoNeedlessRestart /\ RunningIsValid /\ ServedAsConfigured
=============================================================================

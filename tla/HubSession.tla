----------------------------- MODULE HubSession -----------------------------
(* What a session tells the plugin of its cache and its connections: the
   settings (settings/*.go), the command tables (fdw.go, hub_base.go), the two
   hubs' reading of the settings (hub_remote.go, hub_local.go), and the local
   hub's copy of its connections' configuration. The plugin, its cache and the
   clock are external. *)
EXTENDS Integers, Sequences

CONSTANTS
    Connections,
    Configs,          \* configurations a server can name; EmptyConfig is among them
    EmptyConfig,
    None,             \* an unset value
    Ttls,             \* values the cache_ttl setting is given, in seconds
    DefaultTtl,       \* of the hub, in seconds
    TicksPerSecond,
    MaxTime           \* a bound on the clock, in ticks

ASSUME SessionAssumption ==
    /\ EmptyConfig \in Configs /\ None \notin Configs /\ None \notin BOOLEAN
    /\ Ttls \subseteq Int /\ DefaultTtl \in Nat /\ TicksPerSecond \in Nat \ {0} /\ MaxTime \in Nat

VARIABLES
    kind,         \* "remote" or "local": the two builds of the hub
    env,          \* the environment the backend was started with
    now,
    settings,     \* HubCacheSettings
    connections,  \* HubLocal.connections
    serverConfig, \* the config option of each connection's foreign server
    plugin,       \* the configuration the plugin has of each connection
    cache,        \* the time the plugin's cached rows of each connection were fetched
    scan,         \* the scan in progress, its request and its answer
    wanted,       \* history: the cache setting last asked for
    disturbed     \* history: connections edited, or whose plugin calls failed

vars == <<kind, env, now, settings, connections, serverConfig, plugin, cache, scan, wanted, disturbed>>
localVars == <<connections, serverConfig, plugin, disturbed>>

NoScan == [step |-> "idle"]
Never == -1

(* Environment values: "word" is a value that JSON does not read; ToBool takes it
   for true or not at all, and only the local hub tells it from these. The option
   of the database, which only the remote hub looks at, goes before the
   environment. *)
ServerCacheEnabled ==
    IF kind = "remote" /\ env.option # None THEN env.option ELSE env.enabled # "false"
NewCacheSettings == [client |-> None, ttl |-> None, clearTime |-> Never]

Init ==
    /\ kind \in {"remote", "local"}
    /\ env \in [enabled : IF kind = "remote" THEN {"unset", "false"} ELSE {"unset", "true", "false", "word"},
                ttl : IF kind = "remote" THEN {"unset"} ELSE {"unset", "number", "word"},
                option : IF kind = "remote" THEN BOOLEAN \cup {None} ELSE {None}]
    /\ now = 0
    /\ settings = NewCacheSettings
    /\ connections = [c \in Connections |-> None]
    /\ serverConfig \in [Connections -> IF kind = "local" THEN Configs ELSE {EmptyConfig}]
    /\ plugin = [c \in Connections |-> None]
    /\ cache = [c \in Connections |-> None]
    /\ scan = NoScan
    /\ wanted = None
    /\ disturbed = {}

Idle == scan.step = "idle"

------------------------------------------------------------------------------
(* Settings *)

(* A value JSON cannot read is an error and changes nothing. *)
SetEnabled(s, value) == IF value \in BOOLEAN THEN [s EXCEPT !.client = value] ELSE s
SetTtl(s, value) == IF value \in Ttls THEN [s EXCEPT !.ttl = value] ELSE s
(* mutant: the time is rounded up *)
SetClearTimeAhead(s) == [s EXCEPT !.clearTime = now + 1]

SetClearTime(s) == [s EXCEPT !.clearTime = now]

ApplySetting ==
    /\ Idle
    /\ \/ \E value \in BOOLEAN \cup {None} :
            /\ settings' = SetEnabled(settings, value)
            /\ wanted' = IF value = None THEN wanted ELSE value
       \/ \E value \in Ttls \cup {None} : settings' = SetTtl(settings, value) /\ UNCHANGED wanted
       \/ settings' = SetClearTime(settings) /\ UNCHANGED wanted
    /\ UNCHANGED <<kind, env, now, localVars, cache, scan>>

(* The setting that clears one connection; the plugin may refuse. *)
ClearConnectionCache ==
    /\ Idle
    /\ \E c \in Connections : cache' = [cache EXCEPT ![c] = None]
    /\ UNCHANGED <<kind, env, now, settings, localVars, scan, wanted>>

(* "off" applies the clear time. *)
LegacyCommand(s, command) ==
    CASE command = "clear" -> SetClearTime(s)
      [] command = "on" -> SetEnabled(s, TRUE)
      [] command = "off" -> SetClearTime(s)

HandleLegacyCacheCommand ==
    /\ Idle
    /\ \E command \in {"clear", "on", "off"} :
         /\ settings' = LegacyCommand(settings, command)
         /\ wanted' = IF command = "on" THEN TRUE ELSE wanted
    /\ UNCHANGED <<kind, env, now, localVars, cache, scan>>

------------------------------------------------------------------------------
(* The configuration of the local hub's connections *)

(* What a step of planning leads to; without a step the query has ended. *)
At(step, c) == IF step = "idle" THEN NoScan ELSE [step |-> step, connection |-> c]

(* The hub's entry is written before the plugin is told, and stays when the call
   fails, which ends the query. The plugin is told of all connections, and
   forgets what it has cached. *)
SetConnectionConfig(c, config, step) ==
    /\ connections' = [connections EXCEPT ![c] = config]
    /\ \/ plugin' = connections' /\ cache' = [d \in Connections |-> None] /\ scan' = At(step, c)
       \/ UNCHANGED <<plugin, cache>> /\ scan' = NoScan

(* mutant: no comparison *)
UpdateConnectionConfigAlways(c, old, config, step) ==
    /\ connections' = [connections EXCEPT ![c] = config]
    /\ plugin' = [plugin EXCEPT ![c] = config]
    /\ cache' = [cache EXCEPT ![c] = None]
    /\ scan' = At(step, c)

(* Tells the plugin of this connection only. *)
UpdateConnectionConfig(c, old, config, step) ==
    /\ connections' = [connections EXCEPT ![c] = config]
    /\ \/ old = config /\ UNCHANGED <<plugin, cache>> /\ scan' = At(step, c)
       \/ /\ old # config
          /\ plugin' = [plugin EXCEPT ![c] = config]
          /\ cache' = [cache EXCEPT ![c] = None]
          /\ scan' = At(step, c)
       \/ old # config /\ UNCHANGED <<plugin, cache>> /\ scan' = NoScan

(* mutant: the option of the server is not found *)
ProcessImportWithoutConfig(c, config, step) ==
    IF connections[c] # None
    THEN UpdateConnectionConfig(c, EmptyConfig, EmptyConfig, step)
    ELSE SetConnectionConfig(c, EmptyConfig, step)

(* The entry is given the new configuration before UpdateConnectionConfig
   compares with it. *)
ProcessImportForeignSchemaOptions(c, config, step) ==
    IF connections[c] # None
    THEN UpdateConnectionConfig(c, config, config, step)
    ELSE SetConnectionConfig(c, config, step)

(* GetRelSize when a query is planned, and ImportForeignSchema. *)
PlanScan ==
    /\ Idle
    /\ \E c \in Connections :
         \/ /\ kind = "local"
            /\ ProcessImportForeignSchemaOptions(c, serverConfig[c], "schema")
            /\ disturbed' = IF scan' = NoScan THEN disturbed \cup {c} ELSE disturbed
         \/ kind = "remote" /\ scan' = At("request", c) /\ UNCHANGED <<connections, plugin, cache, disturbed>>
    /\ UNCHANGED <<kind, env, now, settings, serverConfig, wanted>>

(* Asked for the path keys, for the limits and by an import, which then ends. An
   error of the plugin, whatever its cause, makes the hub set an empty
   configuration and ask again. *)
GetSchema ==
    /\ scan.step = "schema"
    /\ \E step \in {"schema", "request", "idle"} :
         LET c == scan.connection IN
         \/ /\ plugin[c] # None
            /\ scan' = At(step, c)
            /\ UNCHANGED <<connections, plugin, cache, disturbed>>
         \/ SetConnectionConfig(c, EmptyConfig, step) /\ disturbed' = disturbed \cup {c}
    /\ UNCHANGED <<kind, env, now, settings, serverConfig, wanted>>

AlterServer ==
    /\ Idle
    /\ kind = "local"
    /\ \E c \in Connections, config \in Configs :
         /\ serverConfig' = [serverConfig EXCEPT ![c] = config]
         /\ disturbed' = IF connections[c] # None /\ config # serverConfig[c] THEN disturbed \cup {c} ELSE disturbed
    /\ UNCHANGED <<kind, env, now, settings, connections, plugin, cache, scan, wanted>>

------------------------------------------------------------------------------
(* The request of a scan: newExecuteRequest *)

Ticks(seconds) == seconds * TicksPerSecond

remoteCacheEnabled == ServerCacheEnabled /\ settings.client # FALSE
(* mutant: the clear time does not cut the TTL *)
remoteTtlTicksUncut == Ticks(IF settings.ttl # None THEN settings.ttl ELSE DefaultTtl)

remoteTtlTicks ==
    LET ttl == Ticks(IF settings.ttl # None THEN settings.ttl ELSE DefaultTtl)
    IN  IF settings.clearTime # Never /\ now - ttl < settings.clearTime THEN now - settings.clearTime ELSE ttl

(* The local hub takes what is unset from the environment, by the setter of the
   setting, and looks again. *)
EnvTtl == DefaultTtl
(* mutant: the environment goes before the setting *)
FromEnvironmentFirst(s) ==
    [s EXCEPT !.ttl = IF env.ttl = "number" THEN EnvTtl ELSE s.ttl,
              !.client = IF env.enabled = "true" THEN TRUE ELSE s.client]

FromEnvironment(s) ==
    [s EXCEPT !.ttl = IF s.ttl = None /\ env.ttl = "number" THEN EnvTtl ELSE s.ttl,
              !.client = IF s.client = None /\ env.enabled = "true" THEN TRUE ELSE s.client]
(* mutant: the environment is looked at although the setting was made *)
LooksForEverFirst(s) == env.ttl = "word" \/ (ServerCacheEnabled /\ env.enabled = "word")

LooksForEver(s) ==
    \/ s.ttl = None /\ env.ttl = "word"
    \/ ServerCacheEnabled /\ s.client = None /\ env.enabled = "word"

localCacheEnabled(s) == ServerCacheEnabled /\ s.client # FALSE
(* mutant: a TTL of 0 is taken for none *)
localTtlTicksZeroUnset(s) == Ticks(IF s.ttl \notin {None, 0} THEN s.ttl ELSE DefaultTtl)

localTtlTicks(s) == Ticks(IF s.ttl # None THEN s.ttl ELSE DefaultTtl)

(* The duration is cut to whole seconds. *)
Seconds(ticks) == ticks \div TicksPerSecond
Request(ttl, enabled) ==
    [step |-> "execute", connection |-> scan.connection, ttl |-> Seconds(ttl), enabled |-> enabled]

NewExecuteRequest ==
    /\ scan.step = "request"
    /\ \/ kind = "remote" /\ scan' = Request(remoteTtlTicks, remoteCacheEnabled) /\ UNCHANGED settings
       \/ /\ kind = "local" /\ ~LooksForEver(settings)
          /\ settings' = FromEnvironment(settings)
          /\ scan' = Request(localTtlTicks(settings'), localCacheEnabled(settings'))
    /\ UNCHANGED <<kind, env, now, localVars, cache, wanted>>

(* The call goes on without end, until the stack is exhausted and the backend dies. *)
NewExecuteRequestCrashes ==
    /\ scan.step = "request"
    /\ kind = "local" /\ LooksForEver(settings)
    /\ scan' = [step |-> "crashed"]
    /\ UNCHANGED <<kind, env, now, settings, localVars, cache, wanted>>

------------------------------------------------------------------------------
(* The plugin, other sessions, time *)

Usable(c) == scan.enabled /\ cache[c] # None /\ now - cache[c] <= Ticks(scan.ttl)

Execute ==
    /\ scan.step = "execute"
    /\ LET c == scan.connection IN
       /\ scan' = [step |-> "served", connection |-> c, hit |-> Usable(c), fetched |-> IF Usable(c) THEN cache[c] ELSE now,
                   at |-> now]
       /\ cache' = [cache EXCEPT ![c] = IF Usable(c) \/ ~scan.enabled THEN cache[c] ELSE now]
    /\ UNCHANGED <<kind, env, now, settings, localVars, wanted>>

EndScan ==
    /\ scan.step = "served"
    /\ scan' = NoScan
    /\ UNCHANGED <<kind, env, now, settings, localVars, cache, wanted>>

(* The plugin of a remote hub serves other backends too. *)
OtherSessionFetches ==
    /\ kind = "remote"
    /\ \E c \in Connections : cache' = [cache EXCEPT ![c] = now]
    /\ UNCHANGED <<kind, env, now, settings, localVars, scan, wanted>>

Tick ==
    /\ now < MaxTime
    /\ now' = now + 1
    /\ UNCHANGED <<kind, env, settings, localVars, cache, scan, wanted>>

(* A new backend: its hub knows nothing; a local plugin dies with its backend. *)
NewSession ==
    /\ settings' = NewCacheSettings
    /\ wanted' = None
    /\ scan' = NoScan
    /\ connections' = [c \in Connections |-> None]
    /\ plugin' = [c \in Connections |-> None]
    /\ disturbed' = {}
    /\ cache' = IF kind = "local" THEN [c \in Connections |-> None] ELSE cache
    /\ UNCHANGED <<kind, env, now, serverConfig>>

Next ==
    \/ ApplySetting
    \/ ClearConnectionCache
    \/ HandleLegacyCacheCommand
    \/ PlanScan
    \/ GetSchema
    \/ AlterServer
    \/ NewExecuteRequest
    \/ NewExecuteRequestCrashes
    \/ Execute
    \/ EndScan
    \/ OtherSessionFetches
    \/ Tick
    \/ NewSession

Spec == Init /\ [][Next]_vars

------------------------------------------------------------------------------
TypeOK ==
    /\ now \in 0 .. MaxTime
    /\ settings \in [client : BOOLEAN \cup {None}, ttl : Ttls \cup {None, EnvTtl}, clearTime : Never .. now]
    /\ connections \in [Connections -> Configs \cup {None}]
    /\ plugin \in [Connections -> Configs \cup {None}]
    /\ cache \in [Connections -> (0 .. now) \cup {None}]
    /\ scan.step \in {"idle", "schema", "request", "execute", "served", "crashed"}
    /\ wanted \in BOOLEAN \cup {None}
    /\ disturbed \subseteq Connections

(* Rows fetched before this session last cleared the cache are not served to it,
   although the plugin still has them, other sessions fill its cache and time
   passes between the request and the answer (hub_remote.go, cacheTTL). *)
Hit == scan.step = "served" /\ scan.hit
ClearedRowsNotServed == Hit /\ kind = "remote" => scan.fetched >= settings.clearTime

(* Rows older than the TTL that was set are not served, by either hub. *)
TtlRespected == Hit /\ settings.ttl # None => scan.at - scan.fetched <= Ticks(settings.ttl)

(* Once the cache setting is false nothing is served from the cache, whatever
   commands and environment say, until it is set to true. *)
OffMeansNotServed == Hit => wanted # FALSE

(* Planning a query of a connection whose server has kept its configuration
   leaves the plugin's cache alone: the reason UpdateConnectionConfig gives for
   its comparison. *)
SameConfigKeepsCache ==
    [][\A c \in Connections :
          scan.step = "idle" /\ scan'.step = "schema" /\ scan'.connection = c /\ connections[c] = serverConfig[c]
             => cache' = cache /\ plugin' = plugin]_vars

(* A scan of the local hub runs with the configuration of its server, unless the
   server was altered under the session or a call to the plugin failed: after
   either the plugin is never told again (hub_local.go:106, 168). *)
ScanHasServerConfig ==
    scan.step = "execute" /\ kind = "local" /\ scan.connection \notin disturbed =>
        plugin[scan.connection] = serverConfig[scan.connection]

(* A backend dies looking at its environment only if a variable holds a value
   JSON does not read and the setting in its place was never made. *)
CrashHasCause ==
    scan.step = "crashed" => \/ env.ttl = "word" /\ settings.ttl = None
                             \/ env.enabled = "word" /\ wanted = None
=============================================================================

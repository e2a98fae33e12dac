--------------------------- MODULE HubSessionProofs ---------------------------
(***************************************************************************)
(* What a session's settings and its servers' options come to, for every   *)
(* clock, TTL, set of connections and sequence of commands.                *)
(***************************************************************************)
EXTENDS HubSession, TLAPS

\* The types of what TypeOK leaves open.
SessionTypes ==
    /\ TypeOK
    /\ kind \in {"remote", "local"}
    /\ serverConfig \in [Connections -> Configs]
    /\ scan.step \in {"schema", "request", "execute", "served"} => scan.connection \in Connections
    /\ scan.step = "execute" => scan.ttl \in Int /\ scan.enabled \in BOOLEAN
    /\ scan.step = "served" => /\ scan.hit \in BOOLEAN
                               /\ scan.hit => scan.fetched \in 0 .. now
                               /\ scan.at \in 0 .. now

\* The cache setting is the one last asked for, whatever the environment says.
SettingIsWanted == wanted # None => settings.client = wanted

\* What a request may still be answered with, from what was set when it was made.
RequestKeepsSettings ==
    scan.step = "execute" =>
        /\ scan.enabled => wanted # FALSE
        /\ settings.ttl # None => Ticks(scan.ttl) <= Ticks(settings.ttl)
        /\ kind = "remote" /\ settings.clearTime # Never
             => Ticks(scan.ttl) <= now - settings.clearTime

\* A connection the hub knows, and nobody disturbed, has its server's configuration on
\* both sides; a scan knows its connection.
KnownConnections ==
    kind = "local" =>
        \A c \in Connections :
            /\ c \notin disturbed /\ connections[c] # None
                 => connections[c] = serverConfig[c] /\ plugin[c] = serverConfig[c]
            /\ scan.step \in {"schema", "request", "execute"} /\ scan.connection = c
                 => connections[c] # None

\* The inductive invariant.
SInv ==
    /\ SessionTypes
    /\ SettingIsWanted
    /\ RequestKeepsSettings
    /\ KnownConnections
    /\ ClearedRowsNotServed
    /\ TtlRespected
    /\ OffMeansNotServed
    /\ CrashHasCause

-----------------------------------------------------------------------------
(* Time.                                                                   *)

\* A duration cut to whole seconds is no longer than it was, and one that was set in
\* seconds is what was set.
LEMMA CutToSeconds ==
    ASSUME NEW t \in Int
    PROVE  Seconds(t) \in Int /\ Ticks(Seconds(t)) <= t
BY SessionAssumption, Z3 DEF Seconds, Ticks

LEMMA TicksAreInts ==
    ASSUME NEW s \in Int
    PROVE  Ticks(s) \in Int
BY SessionAssumption DEF Ticks

-----------------------------------------------------------------------------
(* Steps.                                                                  *)

LEMMA InitImpliesSInv == Init => SInv
<1> SUFFICES ASSUME Init PROVE SInv
  OBVIOUS
<1>1. scan.step = "idle"
  BY DEF Init, NoScan
<1>2. SessionTypes
  <2>1. settings \in [client : BOOLEAN \cup {None}, ttl : Ttls \cup {None, EnvTtl}, clearTime : Never .. now]
    BY DEF Init, NewCacheSettings, Never
  <2>2. /\ serverConfig \in [Connections -> Configs]
        /\ connections \in [Connections -> Configs \cup {None}]
        /\ plugin \in [Connections -> Configs \cup {None}]
        /\ cache \in [Connections -> (0 .. now) \cup {None}]
    BY SessionAssumption DEF Init
  <2> QED BY <1>1, <2>1, <2>2, SessionAssumption DEF Init, SessionTypes, TypeOK
<1>3. KnownConnections
  BY <1>1 DEF Init, KnownConnections
<1> QED BY <1>1, <1>2, <1>3
        DEF Init, SInv, SettingIsWanted, RequestKeepsSettings, ClearedRowsNotServed,
            TtlRespected, OffMeansNotServed, CrashHasCause, Hit

\* A setting or a command is applied between scans, with what was asked for.
LEMMA SettingKeeps ==
    ASSUME SInv, ApplySetting \/ HandleLegacyCacheCommand
    PROVE  SInv'
<1>1. /\ scan.step = "idle"
      /\ UNCHANGED <<kind, env, now, connections, serverConfig, plugin, disturbed, cache, scan>>
  BY DEF ApplySetting, HandleLegacyCacheCommand, Idle, localVars
<1>2. /\ settings.client \in BOOLEAN \cup {None}
      /\ settings.ttl \in Ttls \cup {None, EnvTtl} /\ settings.clearTime \in Never .. now
      /\ settings \in [client : BOOLEAN \cup {None}, ttl : Ttls \cup {None, EnvTtl}, clearTime : Never .. now]
      /\ now \in Never .. now
  BY DEF SInv, SessionTypes, TypeOK, Never
<1>3. /\ settings' \in [client : BOOLEAN \cup {None}, ttl : Ttls \cup {None, EnvTtl}, clearTime : Never .. now]
      /\ wanted' \in BOOLEAN \cup {None}
      /\ SettingIsWanted'
  <2>1. CASE ApplySetting
    <3>1. CASE \E value \in BOOLEAN \cup {None} :
                   /\ settings' = SetEnabled(settings, value)
                   /\ wanted' = IF value = None THEN wanted ELSE value
      BY <1>2, <3>1, SessionAssumption DEF SInv, SessionTypes, TypeOK, SettingIsWanted, SetEnabled
    <3>2. CASE \E value \in Ttls \cup {None} : settings' = SetTtl(settings, value) /\ UNCHANGED wanted
      BY <1>2, <3>2 DEF SInv, SessionTypes, TypeOK, SettingIsWanted, SetTtl
    <3>3. CASE settings' = SetClearTime(settings) /\ UNCHANGED wanted
      BY <1>2, <3>3 DEF SInv, SessionTypes, TypeOK, SettingIsWanted, SetClearTime
    <3> QED BY <2>1, <3>1, <3>2, <3>3 DEF ApplySetting
  <2>2. CASE HandleLegacyCacheCommand
    <3>1. \/ settings' = SetClearTime(settings) /\ wanted' = wanted
          \/ settings' = SetEnabled(settings, TRUE) /\ wanted' = TRUE
      BY <2>2 DEF HandleLegacyCacheCommand, LegacyCommand
    <3> QED BY <1>2, <3>1 DEF SInv, SessionTypes, TypeOK, SettingIsWanted, SetClearTime, SetEnabled
  <2> QED BY <2>1, <2>2
<1>4. SessionTypes'
  BY <1>1, <1>3 DEF SInv, SessionTypes, TypeOK
<1>5. KnownConnections'
  BY <1>1 DEF SInv, KnownConnections
<1> QED BY <1>1, <1>3, <1>4, <1>5
        DEF SInv, RequestKeepsSettings, ClearedRowsNotServed, TtlRespected, OffMeansNotServed,
            CrashHasCause, Hit

\* Other sessions, time and the end of a scan leave what was asked for alone; what is
\* fetched is fetched now.
LEMMA OutsideKeeps ==
    ASSUME SInv, ClearConnectionCache \/ OtherSessionFetches \/ Tick \/ EndScan
    PROVE  SInv'
<1>1. /\ UNCHANGED <<kind, env, settings, connections, serverConfig, plugin, disturbed, wanted>>
      /\ scan' = scan \/ scan' = NoScan
      /\ now' = now \/ now' = now + 1
      /\ now' \in 0 .. MaxTime
  BY SessionAssumption
     DEF SInv, SessionTypes, TypeOK, ClearConnectionCache, OtherSessionFetches, Tick, EndScan,
         localVars
<1>2. now \in Nat /\ now' \in Nat /\ now <= now' /\ settings.clearTime \in Int
  BY <1>1 DEF SInv, SessionTypes, TypeOK, Never
<1>3. cache' \in [Connections -> (0 .. now') \cup {None}]
  BY <1>1, <1>2 DEF SInv, SessionTypes, TypeOK, ClearConnectionCache, OtherSessionFetches,
                    Tick, EndScan
<1>4. settings' \in [client : BOOLEAN \cup {None}, ttl : Ttls \cup {None, EnvTtl}, clearTime : Never .. now']
  BY <1>1, <1>2 DEF SInv, SessionTypes, TypeOK, Never
<1>5. NoScan.step = "idle"
  BY DEF NoScan
<1>6. SessionTypes'
  BY <1>1, <1>2, <1>3, <1>4, <1>5 DEF SInv, SessionTypes, TypeOK
<1>7. RequestKeepsSettings'
  <2>1. scan.step = "execute" => Ticks(scan.ttl) \in Int
    BY TicksAreInts DEF SInv, SessionTypes
  <2> SUFFICES ASSUME scan'.step = "execute" PROVE RequestKeepsSettings'
    BY DEF RequestKeepsSettings
  <2>2. scan' = scan /\ scan.step = "execute"
    BY <1>1, <1>5
  <2>3. /\ scan.enabled => wanted # FALSE
        /\ settings.ttl # None => Ticks(scan.ttl) <= Ticks(settings.ttl)
        /\ kind = "remote" /\ settings.clearTime # Never
             => Ticks(scan.ttl) <= now - settings.clearTime
    BY <2>2 DEF SInv, RequestKeepsSettings
  <2>4. now - settings.clearTime <= now' - settings.clearTime
    BY <1>2
  <2>5. kind = "remote" /\ settings.clearTime # Never
             => Ticks(scan.ttl) <= now' - settings.clearTime
    BY <1>2, <2>1, <2>2, <2>3, <2>4
  <2> QED BY <1>1, <2>2, <2>3, <2>5 DEF RequestKeepsSettings, Ticks
<1>8. KnownConnections'
  BY <1>1, <1>5 DEF SInv, KnownConnections
<1> QED BY <1>1, <1>5, <1>6, <1>7, <1>8
        DEF SInv, SettingIsWanted, ClearedRowsNotServed, TtlRespected, OffMeansNotServed,
            CrashHasCause, Hit, Ticks

LEMMA NewSessionKeeps == SInv /\ NewSession => SInv'
<1> SUFFICES ASSUME SInv, NewSession PROVE SInv'
  OBVIOUS
<1>1. scan'.step = "idle"
  BY DEF NewSession, NoScan
<1>2. /\ settings' \in [client : BOOLEAN \cup {None}, ttl : Ttls \cup {None, EnvTtl}, clearTime : Never .. now']
      /\ wanted' = None
  BY DEF SInv, SessionTypes, TypeOK, NewSession, NewCacheSettings, Never
<1>3. SessionTypes'
  BY <1>1, <1>2 DEF SInv, SessionTypes, TypeOK, NewSession
<1>4. KnownConnections'
  BY <1>1 DEF NewSession, KnownConnections
<1> QED BY <1>1, <1>2, <1>3, <1>4
        DEF SInv, SettingIsWanted, RequestKeepsSettings, ClearedRowsNotServed, TtlRespected,
            OffMeansNotServed, CrashHasCause, Hit

\* A server altered under the session disturbs its connection.
LEMMA AlterServerKeeps == SInv /\ AlterServer => SInv'
<1> SUFFICES ASSUME SInv, AlterServer PROVE SInv'
  OBVIOUS
<1>1. PICK c \in Connections, config \in Configs :
          /\ serverConfig' = [serverConfig EXCEPT ![c] = config]
          /\ disturbed' = IF connections[c] # None /\ config # serverConfig[c]
                          THEN disturbed \cup {c} ELSE disturbed
  BY DEF AlterServer
<1>2. /\ scan.step = "idle"
      /\ UNCHANGED <<kind, env, now, settings, connections, plugin, cache, scan, wanted>>
  BY DEF AlterServer, Idle
<1>3. SessionTypes'
  BY <1>1, <1>2 DEF SInv, SessionTypes, TypeOK
<1>4. KnownConnections'
  BY <1>1, <1>2 DEF SInv, SessionTypes, TypeOK, KnownConnections
<1> QED BY <1>2, <1>3, <1>4
        DEF SInv, SettingIsWanted, RequestKeepsSettings, ClearedRowsNotServed, TtlRespected,
            OffMeansNotServed, CrashHasCause, Hit

\* At names its step and its connection, and no other step than idle is the end.
LEMMA AtFacts ==
    ASSUME NEW step \in {"schema", "request", "idle"}, NEW c
    PROVE  /\ At(step, c).step = step
           /\ step # "idle" => At(step, c).connection = c /\ At(step, c) # NoScan
           /\ step = "idle" => At(step, c) = NoScan
BY DEF At, NoScan

\* What planning does to the connections; the settings are not looked at.
LEMMA PlanningKeeps ==
    ASSUME SInv, PlanScan \/ GetSchema
    PROVE  SInv'
<1>1. /\ UNCHANGED <<kind, env, now, settings, serverConfig, wanted>>
      /\ scan.step \in {"idle", "schema"}
  BY DEF PlanScan, GetSchema, Idle
<1>2. PICK c \in Connections, config \in Configs, step \in {"schema", "request", "idle"} :
          /\ scan' = At(step, c) \/ (scan' = NoScan /\ c \in disturbed')
          /\ \/ UNCHANGED <<connections, plugin, cache, disturbed>>
             \/ /\ connections' = [connections EXCEPT ![c] = config]
                /\ \/ plugin' = connections' /\ cache' = [d \in Connections |-> None]
                   \/ UNCHANGED <<plugin, cache>> /\ (c \in disturbed' \/ connections[c] # None)
                /\ c \in disturbed' \/ config = serverConfig[c]
                /\ disturbed \subseteq disturbed' /\ disturbed' \subseteq disturbed \cup {c}
          /\ kind = "local" /\ step # "idle" => connections'[c] # None
  <2>1. CASE PlanScan
    <3>1. PICK c \in Connections :
              \/ /\ kind = "local"
                 /\ ProcessImportForeignSchemaOptions(c, serverConfig[c], "schema")
                 /\ disturbed' = IF scan' = NoScan THEN disturbed \cup {c} ELSE disturbed
              \/ kind = "remote" /\ scan' = At("request", c)
                   /\ UNCHANGED <<connections, plugin, cache, disturbed>>
      BY <2>1 DEF PlanScan
    <3>2. serverConfig[c] \in Configs /\ serverConfig[c] # None
      BY SessionAssumption DEF SInv, SessionTypes
    <3>3. At("schema", c) # NoScan
      BY AtFacts
    <3>4. CASE kind = "remote"
      BY <3>1, <3>2, <3>4
    <3>5. CASE kind = "local"
      <4>1. connections' = [connections EXCEPT ![c] = serverConfig[c]]
        BY <3>1, <3>5
           DEF ProcessImportForeignSchemaOptions, UpdateConnectionConfig, SetConnectionConfig
      <4>2. connections'[c] # None
        BY <3>2, <4>1 DEF SInv, SessionTypes, TypeOK
      <4>3. \/ /\ plugin' = connections' /\ cache' = [d \in Connections |-> None]
               /\ scan' = At("schema", c)
            \/ UNCHANGED <<plugin, cache>> /\ scan' = NoScan
            \/ /\ connections[c] # None /\ UNCHANGED <<plugin, cache>>
               /\ scan' = At("schema", c)
        BY <3>1, <3>5
           DEF ProcessImportForeignSchemaOptions, UpdateConnectionConfig, SetConnectionConfig
      <4>4. \/ scan' = NoScan /\ disturbed' = disturbed \cup {c}
            \/ scan' = At("schema", c) /\ disturbed' = disturbed
        BY <3>1, <3>3, <3>5, <4>3
      <4> QED BY <3>2, <3>3, <4>1, <4>2, <4>3, <4>4
    <3> QED BY <3>4, <3>5 DEF SInv, SessionTypes
  <2>2. CASE GetSchema
    <3> DEFINE c == scan.connection
    <3>1. c \in Connections /\ scan.step = "schema"
      BY <2>2 DEF GetSchema, SInv, SessionTypes
    <3>2. PICK step \in {"schema", "request", "idle"} :
              \/ scan' = At(step, c) /\ UNCHANGED <<connections, plugin, cache, disturbed>>
              \/ SetConnectionConfig(c, EmptyConfig, step) /\ disturbed' = disturbed \cup {c}
      BY <2>2 DEF GetSchema
    <3>3. CASE scan' = At(step, c) /\ UNCHANGED <<connections, plugin, cache, disturbed>>
      BY <3>1, <3>3, SessionAssumption DEF SInv, KnownConnections
    <3>4. CASE SetConnectionConfig(c, EmptyConfig, step) /\ disturbed' = disturbed \cup {c}
      <4>1. EmptyConfig \in Configs /\ EmptyConfig # None
        BY SessionAssumption
      <4>2. connections'[c] # None
        BY <3>1, <3>4, <4>1 DEF SetConnectionConfig, SInv, SessionTypes, TypeOK
      <4> QED BY <3>1, <3>4, <4>1, <4>2 DEF SetConnectionConfig
    <3> QED BY <3>2, <3>3, <3>4
  <2> QED BY <2>1, <2>2
<1>3. /\ scan'.step = "idle" \/ (scan'.step \in {"schema", "request"} /\ scan'.connection = c)
      /\ scan'.step # "idle" => scan' = At(step, c) /\ step # "idle"
      /\ scan'.step \in {"idle", "schema", "request"}
  BY <1>2, AtFacts DEF NoScan
<1>4. SessionTypes'
  <2>1. /\ connections' \in [Connections -> Configs \cup {None}]
        /\ plugin' \in [Connections -> Configs \cup {None}]
        /\ cache' \in [Connections -> (0 .. now) \cup {None}]
        /\ disturbed' \subseteq Connections
    BY <1>2 DEF SInv, SessionTypes, TypeOK
  <2> QED BY <1>1, <1>3, <2>1 DEF SInv, SessionTypes, TypeOK
<1>5. KnownConnections'
  <2> SUFFICES ASSUME kind = "local", NEW d \in Connections
               PROVE  /\ d \notin disturbed' /\ connections'[d] # None
                           => connections'[d] = serverConfig[d] /\ plugin'[d] = serverConfig[d]
                      /\ scan'.step \in {"schema", "request", "execute"} /\ scan'.connection = d
                           => connections'[d] # None
    BY <1>1 DEF KnownConnections
  <2>1. /\ d \notin disturbed /\ connections[d] # None
             => connections[d] = serverConfig[d] /\ plugin[d] = serverConfig[d]
        /\ disturbed \subseteq disturbed'
    BY <1>2 DEF SInv, KnownConnections
  <2>2. scan'.step \in {"schema", "request", "execute"} /\ scan'.connection = d
           => connections'[d] # None
    BY <1>2, <1>3
  <2>3. ASSUME d \notin disturbed', connections'[d] # None
        PROVE  connections'[d] = serverConfig[d] /\ plugin'[d] = serverConfig[d]
    <3>1. CASE d # c
      BY <1>2, <2>1, <2>3, <3>1 DEF SInv, SessionTypes, TypeOK
    <3>2. CASE d = c
      BY <1>2, <2>1, <2>3, <3>2 DEF SInv, SessionTypes, TypeOK
    <3> QED BY <3>1, <3>2
  <2> QED BY <2>2, <2>3
<1> QED BY <1>1, <1>3, <1>4, <1>5
        DEF SInv, SettingIsWanted, RequestKeepsSettings, ClearedRowsNotServed, TtlRespected,
            OffMeansNotServed, CrashHasCause, Hit

\* What either hub asks the plugin for: no cached rows when the setting is false, none
\* older than the TTL that was set, none from before the clear time.
LEMMA RequestFacts ==
    ASSUME SInv, NewExecuteRequest
    PROVE  /\ settings' \in [client : BOOLEAN \cup {None}, ttl : Ttls \cup {None, EnvTtl}, clearTime : Never .. now]
           /\ settings.client # None => settings'.client = settings.client
           /\ scan'.step = "execute" /\ scan'.connection = scan.connection
           /\ scan'.ttl \in Int /\ scan'.enabled \in BOOLEAN
           /\ scan'.enabled => settings'.client # FALSE
           /\ settings'.ttl # None => Ticks(scan'.ttl) <= Ticks(settings'.ttl)
           /\ kind = "remote" /\ settings'.clearTime # Never
                => Ticks(scan'.ttl) <= now - settings'.clearTime
<1>1. /\ settings.client \in BOOLEAN \cup {None}
      /\ settings.ttl \in Ttls \cup {None, EnvTtl} /\ settings.clearTime \in Never .. now
      /\ settings.clearTime \in Int /\ now \in Int
      /\ settings \in [client : BOOLEAN \cup {None}, ttl : Ttls \cup {None, EnvTtl}, clearTime : Never .. now]
      /\ kind \in {"remote", "local"}
  BY DEF SInv, SessionTypes, TypeOK, Never
<1>2. /\ \A t \in Ttls \cup {EnvTtl} : t \in Int /\ Ticks(t) \in Int
      /\ DefaultTtl \in Int /\ Ticks(DefaultTtl) \in Int
  BY SessionAssumption, TicksAreInts DEF EnvTtl
<1>3. ASSUME NEW t, NEW e, scan' = Request(t, e)
      PROVE  /\ scan'.step = "execute" /\ scan'.connection = scan.connection
             /\ scan'.ttl = Seconds(t) /\ scan'.enabled = e
  BY <1>3 DEF Request
<1>4. CASE kind = "remote"
  <2>1. /\ scan' = Request(remoteTtlTicks, remoteCacheEnabled)
        /\ settings' = settings
    BY <1>4 DEF NewExecuteRequest
  <2>2. /\ remoteTtlTicks \in Int
        /\ settings.ttl # None => remoteTtlTicks <= Ticks(settings.ttl)
        /\ settings.clearTime # Never => remoteTtlTicks <= now - settings.clearTime
    <3> DEFINE ttl == Ticks(IF settings.ttl # None THEN settings.ttl ELSE DefaultTtl)
    <3>1. ttl \in Int /\ (settings.ttl # None => ttl = Ticks(settings.ttl))
      BY <1>1, <1>2
    <3>2. remoteTtlTicks = IF settings.clearTime # Never /\ now - ttl < settings.clearTime
                           THEN now - settings.clearTime ELSE ttl
      BY DEF remoteTtlTicks
    <3> HIDE DEF ttl
    <3> QED BY <1>1, <3>1, <3>2
  <2>3. remoteCacheEnabled \in BOOLEAN /\ (remoteCacheEnabled => settings.client # FALSE)
    BY DEF remoteCacheEnabled
  <2>4. Seconds(remoteTtlTicks) \in Int /\ Ticks(Seconds(remoteTtlTicks)) <= remoteTtlTicks
    BY <2>2, CutToSeconds
  <2>5. /\ scan'.step = "execute" /\ scan'.connection = scan.connection
        /\ scan'.ttl = Seconds(remoteTtlTicks) /\ scan'.enabled = remoteCacheEnabled
    BY <1>3, <2>1
  <2>6. Ticks(scan'.ttl) \in Int /\ Ticks(scan'.ttl) <= remoteTtlTicks /\ scan'.ttl \in Int
    BY <2>4, <2>5, TicksAreInts
  <2>7. settings.ttl # None => Ticks(settings.ttl) \in Int
    BY <1>1, <1>2
  <2>8. settings'.ttl # None => Ticks(scan'.ttl) <= Ticks(settings'.ttl)
    BY <2>1, <2>2, <2>6, <2>7
  <2>9. settings'.clearTime # Never => Ticks(scan'.ttl) <= now - settings'.clearTime
    BY <1>1, <2>1, <2>2, <2>6
  <2> QED BY <1>1, <2>1, <2>3, <2>5, <2>6, <2>8, <2>9
<1>5. CASE kind = "local"
  <2>1. /\ settings' = FromEnvironment(settings)
        /\ scan' = Request(localTtlTicks(settings'), localCacheEnabled(settings'))
    BY <1>5 DEF NewExecuteRequest
  <2>2. /\ settings' \in [client : BOOLEAN \cup {None}, ttl : Ttls \cup {None, EnvTtl}, clearTime : Never .. now]
        /\ settings'.ttl \in Ttls \cup {None, EnvTtl}
        /\ settings.client # None => settings'.client = settings.client
    BY <1>1, <2>1 DEF FromEnvironment
  <2>3. /\ localTtlTicks(settings') \in Int
        /\ settings'.ttl # None => localTtlTicks(settings') = Ticks(settings'.ttl)
    BY <1>2, <2>2 DEF localTtlTicks
  <2>4. /\ localCacheEnabled(settings') \in BOOLEAN
        /\ localCacheEnabled(settings') => settings'.client # FALSE
    BY DEF localCacheEnabled
  <2>5. /\ Seconds(localTtlTicks(settings')) \in Int
        /\ Ticks(Seconds(localTtlTicks(settings'))) <= localTtlTicks(settings')
    BY <2>3, CutToSeconds
  <2>6. /\ scan'.step = "execute" /\ scan'.connection = scan.connection
        /\ scan'.ttl = Seconds(localTtlTicks(settings'))
        /\ scan'.enabled = localCacheEnabled(settings')
    BY <1>3, <2>1
  <2>7. settings'.ttl # None => Ticks(scan'.ttl) <= Ticks(settings'.ttl)
    BY <2>3, <2>5, <2>6
  <2> QED BY <1>5, <2>2, <2>4, <2>5, <2>6, <2>7
<1> QED BY <1>1, <1>4, <1>5

LEMMA RequestKeeps == SInv /\ NewExecuteRequest => SInv'
<1> SUFFICES ASSUME SInv, NewExecuteRequest PROVE SInv'
  OBVIOUS
<1>1. /\ scan.step = "request" /\ scan'.step = "execute"
      /\ UNCHANGED <<kind, env, now, connections, serverConfig, plugin, disturbed, cache, wanted>>
  BY RequestFacts DEF NewExecuteRequest, localVars
<1>2. SettingIsWanted'
  BY <1>1, RequestFacts DEF SInv, SettingIsWanted
<1>3. SessionTypes'
  BY <1>1, RequestFacts DEF SInv, SessionTypes, TypeOK
<1>4. RequestKeepsSettings'
  <2>1. scan'.enabled => wanted # FALSE
    BY <1>1, <1>2, RequestFacts, SessionAssumption DEF SettingIsWanted
  <2>2. /\ settings'.ttl # None => Ticks(scan'.ttl) <= Ticks(settings'.ttl)
        /\ kind = "remote" /\ settings'.clearTime # Never
             => Ticks(scan'.ttl) <= now - settings'.clearTime
    BY RequestFacts
  <2> QED BY <1>1, <2>1, <2>2 DEF RequestKeepsSettings, Ticks
<1>5. KnownConnections'
  BY <1>1, RequestFacts DEF SInv, KnownConnections
<1> QED BY <1>1, <1>2, <1>3, <1>4, <1>5
        DEF SInv, ClearedRowsNotServed, TtlRespected, OffMeansNotServed, CrashHasCause, Hit

\* The backend dies where the environment is looked at for a setting never made.
LEMMA CrashKeeps == SInv /\ NewExecuteRequestCrashes => SInv'
<1> SUFFICES ASSUME SInv, NewExecuteRequestCrashes PROVE SInv'
  OBVIOUS
<1>1. /\ scan'.step = "crashed" /\ LooksForEver(settings)
      /\ UNCHANGED <<kind, env, now, settings, connections, serverConfig, plugin, disturbed, cache, wanted>>
  BY DEF NewExecuteRequestCrashes, localVars
<1>2. CrashHasCause'
  BY <1>1 DEF CrashHasCause, LooksForEver, SInv, SettingIsWanted
<1>3. SessionTypes'
  BY <1>1 DEF SInv, SessionTypes, TypeOK
<1>4. KnownConnections'
  BY <1>1 DEF SInv, KnownConnections
<1> QED BY <1>1, <1>2, <1>3, <1>4
        DEF SInv, SettingIsWanted, RequestKeepsSettings, ClearedRowsNotServed, TtlRespected,
            OffMeansNotServed, Hit

\* What the plugin serves from its cache is within the request.
LEMMA ExecuteKeeps == SInv /\ Execute => SInv'
<1> SUFFICES ASSUME SInv, Execute PROVE SInv'
  OBVIOUS
<1> DEFINE c == scan.connection
<1>1. /\ scan.step = "execute" /\ c \in Connections /\ scan.enabled \in BOOLEAN
      /\ now \in 0 .. MaxTime /\ now \in Nat
      /\ cache \in [Connections -> (0 .. now) \cup {None}]
      /\ UNCHANGED <<kind, env, now, settings, connections, serverConfig, plugin, disturbed, wanted>>
  BY SessionAssumption DEF Execute, localVars, SInv, SessionTypes, TypeOK
<1>2. /\ scan'.step = "served" /\ scan'.connection = c /\ scan'.hit = Usable(c)
      /\ scan'.at = now
      /\ Usable(c) => scan'.fetched = cache[c]
      /\ cache' = [cache EXCEPT ![c] = IF Usable(c) \/ ~scan.enabled THEN cache[c] ELSE now]
  BY DEF Execute
<1>3. Usable(c) \in BOOLEAN
  BY <1>1 DEF Usable
<1>4. ASSUME Usable(c)
      PROVE  /\ scan.enabled /\ cache[c] \in 0 .. now /\ now - cache[c] <= Ticks(scan.ttl)
             /\ scan.ttl \in Int /\ Ticks(scan.ttl) \in Int
  BY <1>1, <1>4, TicksAreInts DEF Usable, SInv, SessionTypes
<1>5. SessionTypes'
  <2>1. cache' \in [Connections -> (0 .. now) \cup {None}]
    BY <1>1, <1>2
  <2> QED BY <1>1, <1>2, <1>3, <1>4, <2>1 DEF SInv, SessionTypes, TypeOK
<1>6. TtlRespected'
  <2> SUFFICES ASSUME Usable(c), settings.ttl # None
               PROVE  now - cache[c] <= Ticks(settings.ttl)
    BY <1>1, <1>2 DEF TtlRespected, Hit, Ticks
  <2>1. Ticks(scan.ttl) <= Ticks(settings.ttl)
    BY <1>1 DEF SInv, RequestKeepsSettings
  <2>2. Ticks(settings.ttl) \in Int
    <3>1. settings.ttl \in Ttls \cup {None, EnvTtl}
      BY DEF SInv, SessionTypes, TypeOK
    <3>2. EnvTtl \in Int /\ \A t \in Ttls : t \in Int
      BY SessionAssumption DEF EnvTtl
    <3>3. settings.ttl \in Ttls \/ settings.ttl = EnvTtl
      BY <3>1
    <3>4. settings.ttl \in Int
      BY <3>2, <3>3
    <3> QED BY <3>4, TicksAreInts
  <2> QED BY <1>1, <1>4, <2>1, <2>2
<1>7. ClearedRowsNotServed'
  <2> SUFFICES ASSUME Usable(c), kind = "remote"
               PROVE  cache[c] >= settings.clearTime
    BY <1>1, <1>2 DEF ClearedRowsNotServed, Hit
  <2>1. settings.clearTime \in Int
    BY <1>1 DEF SInv, SessionTypes, TypeOK, Never
  <2>2. CASE settings.clearTime = Never
    BY <1>4, <1>1, <2>2 DEF Never
  <2>3. CASE settings.clearTime # Never
    <3>1. Ticks(scan.ttl) <= now - settings.clearTime
      BY <1>1, <2>3 DEF SInv, RequestKeepsSettings
    <3> QED BY <1>1, <1>4, <2>1, <3>1
  <2> QED BY <2>2, <2>3
<1>8. OffMeansNotServed'
  BY <1>1, <1>2, <1>4 DEF OffMeansNotServed, Hit, SInv, RequestKeepsSettings
<1>9. KnownConnections'
  BY <1>1, <1>2 DEF SInv, KnownConnections
<1> QED BY <1>1, <1>2, <1>5, <1>6, <1>7, <1>8, <1>9
        DEF SInv, SettingIsWanted, RequestKeepsSettings, CrashHasCause

-----------------------------------------------------------------------------
(* Theorems.                                                               *)

\* The settings, the request made of them, the plugin's cache and the connections agree
\* as SInv says.
THEOREM SessionInvariance == Spec => []SInv
<1>1. SInv /\ [Next]_vars => SInv'
  <2> SUFFICES ASSUME SInv, [Next]_vars PROVE SInv'
    OBVIOUS
  <2>1. CASE UNCHANGED vars
    BY <2>1 DEF vars, SInv, SessionTypes, TypeOK, SettingIsWanted, RequestKeepsSettings,
                KnownConnections, ClearedRowsNotServed, TtlRespected, OffMeansNotServed,
                CrashHasCause, Hit, Ticks
  <2>2. CASE Next
    BY <2>2, SettingKeeps, OutsideKeeps, NewSessionKeeps, AlterServerKeeps, PlanningKeeps,
       RequestKeeps, CrashKeeps, ExecuteKeeps DEF Next
  <2> QED BY <2>1, <2>2
<1> QED BY <1>1, InitImpliesSInv, PTL DEF Spec

\* The types of the session, its settings and the plugin's cache.
THEOREM SessionTypeCorrect == Spec => []TypeOK
<1>1. SInv => TypeOK
  BY DEF SInv, SessionTypes
<1> QED BY <1>1, SessionInvariance, PTL

\* Rows fetched before this session cleared the cache are not served by a remote hub.
THEOREM ClearedStaysCleared == Spec => []ClearedRowsNotServed
BY SessionInvariance, PTL DEF SInv

\* Rows older than the TTL that was set are not served.
THEOREM TtlIsKept == Spec => []TtlRespected
BY SessionInvariance, PTL DEF SInv

\* Nothing is served from the cache while the setting asked for last is false.
THEOREM OffIsOff == Spec => []OffMeansNotServed
BY SessionInvariance, PTL DEF SInv

\* A backend dies of its environment for the one reason only.
THEOREM CrashExplained == Spec => []CrashHasCause
BY SessionInvariance, PTL DEF SInv

\* A scan of the local hub runs with the configuration of its server, but for the
\* connections disturbed.
THEOREM ScanConfigured == Spec => []ScanHasServerConfig
<1>1. SInv => ScanHasServerConfig
  BY DEF SInv, SessionTypes, KnownConnections, ScanHasServerConfig
<1> QED BY <1>1, SessionInvariance, PTL

\* Planning with the configuration the hub has leaves the plugin and its cache alone.
THEOREM SameConfigHarmless == Spec => SameConfigKeepsCache
<1>1. SInv /\ [Next]_vars
         => [\A c \in Connections :
               scan.step = "idle" /\ scan'.step = "schema" /\ scan'.connection = c
                   /\ connections[c] = serverConfig[c]
                 => cache' = cache /\ plugin' = plugin]_vars
  <2> SUFFICES ASSUME SInv, Next, NEW c \in Connections,
                      scan.step = "idle", scan'.step = "schema", scan'.connection = c,
                      connections[c] = serverConfig[c]
               PROVE  cache' = cache /\ plugin' = plugin
    OBVIOUS
  <2>1. PlanScan
    <3>1. ApplySetting \/ ClearConnectionCache \/ HandleLegacyCacheCommand \/ AlterServer
          \/ OtherSessionFetches \/ Tick => scan' = scan
      BY DEF ApplySetting, ClearConnectionCache, HandleLegacyCacheCommand, AlterServer,
             OtherSessionFetches, Tick
    <3>2. NewSession \/ EndScan => scan'.step = "idle"
      BY DEF NewSession, EndScan, NoScan
    <3>3. GetSchema \/ NewExecuteRequest \/ NewExecuteRequestCrashes \/ Execute
             => scan.step # "idle"
      BY DEF GetSchema, NewExecuteRequest, NewExecuteRequestCrashes, Execute
    <3> QED BY <3>1, <3>2, <3>3 DEF Next
  <2>2. PICK d \in Connections :
            \/ ProcessImportForeignSchemaOptions(d, serverConfig[d], "schema")
            \/ scan' = At("request", d)
    BY <2>1 DEF PlanScan
  <2>3. /\ At("request", d).step = "request"
        /\ At("schema", d).connection = d
        /\ NoScan.step = "idle"
    BY DEF At, NoScan
  <2>4. ProcessImportForeignSchemaOptions(d, serverConfig[d], "schema")
    BY <2>2, <2>3
  <2>5. scan' = NoScan \/ scan' = At("schema", d)
    BY <2>4 DEF ProcessImportForeignSchemaOptions, UpdateConnectionConfig, SetConnectionConfig
  <2>6. d = c
    BY <2>3, <2>5
  <2>7. connections[c] # None
    BY SessionAssumption DEF SInv, SessionTypes
  <2> QED BY <2>4, <2>6, <2>7 DEF ProcessImportForeignSchemaOptions, UpdateConnectionConfig
<1> QED BY <1>1, SessionInvariance, PTL DEF Spec, SameConfigKeepsCache

=============================================================================

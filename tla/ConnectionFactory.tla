-------------------------- MODULE ConnectionFactory --------------------------
(***************************************************************************)
(* The plugin clients of a RemoteHub: hub/connection_factory.go and the    *)
(* functions of hub/hub_remote.go that call it.                            *)
(*                                                                         *)
(* The hub copies the connection configuration when it is created and      *)
(* keeps a map of plugin clients by plugin and connection.  Only the       *)
(* backend thread calls it, so a call is one step; the configuration on    *)
(* disk and the plugin processes change beside it.  A client is external   *)
(* (steampipeconfig.ConnectionPlugin): it serves a set of connections and  *)
(* knows whether its plugin has exited.                                    *)
(***************************************************************************)
EXTENDS Naturals, Sequences

CONSTANTS
    Connections,
    Plugins,        \* plugin FQNs
    None,           \* no plugin: the connection is not configured
    MaxClients      \* bound on the clients created

ASSUME FactoryAssumption == /\ None \notin Plugins
                            /\ MaxClients \in Nat

VARIABLES
    disk,               \* the configuration files: connection -> plugin
    config,             \* steampipeconfig.GlobalConfig.Connections
    clients,            \* the clients there have been
    connectionPlugins,  \* <<plugin, connection>> -> client
    returned            \* what the last call returned, until something else happens

vars == <<disk, config, clients, connectionPlugins, returned>>

Configs == [Connections -> Plugins \cup {None}]

Client == [plugin : Plugins, connections : SUBSET Connections, exited : BOOLEAN]

Nothing == [call |-> "none"]

TypeOK ==
    /\ disk \in Configs
    /\ config \in Configs
    /\ clients \in Seq(Client)
    /\ Len(clients) <= MaxClients
    /\ DOMAIN connectionPlugins \subseteq Plugins \X Connections
    /\ \A key \in DOMAIN connectionPlugins : connectionPlugins[key] \in 1..Len(clients)
    /\ \/ returned = Nothing
       \/ returned \in [call : {"plugin", "schema"}, plugin : Plugins \cup {None},
                        connection : Connections, client : 0..Len(clients),
                        error : {"none", "noConfig", "failed"}]

Init ==
    /\ disk \in Configs
    /\ config = disk
    /\ clients = <<>>
    /\ connectionPlugins = <<>>
    /\ returned = Nothing

-----------------------------------------------------------------------------
(* Outside the hub.                                                        *)

EditConfig(c) ==
    /\ \E p \in (Plugins \cup {None}) \ {disk[c]} : disk' = [disk EXCEPT ![c] = p]
    /\ returned' = Nothing
    /\ UNCHANGED <<config, clients, connectionPlugins>>

\* A plugin process exits; every client attached to it knows.
PluginExits(p) ==
    /\ \E i \in 1..Len(clients) : clients[i].plugin = p /\ ~clients[i].exited
    /\ clients' = [i \in 1..Len(clients) |->
           [clients[i] EXCEPT !.exited = @ \/ clients[i].plugin = p]]
    /\ returned' = Nothing
    /\ UNCHANGED <<disk, config, connectionPlugins>>

\* The client the plugin manager attaches for a connection, restarting the plugin if it
\* has to: it serves the connection and others the manager knows the plugin to have.
Attached(p, c) ==
    {[plugin |-> p, connections |-> {c} \cup others, exited |-> FALSE] :
         others \in SUBSET {d \in Connections : disk[d] = p}}

-----------------------------------------------------------------------------
(* connectionFactory.                                                      *)

\* Mutant: a client whose plugin has exited is returned too.
GetExited(p, c) ==
    IF <<p, c>> \in DOMAIN connectionPlugins THEN connectionPlugins[<<p, c>>] ELSE 0

\* get: the client stored for a key, 0 if there is none or its plugin has exited.
Get(p, c) ==
    IF /\ <<p, c>> \in DOMAIN connectionPlugins
       /\ ~clients[connectionPlugins[<<p, c>>]].exited
    THEN connectionPlugins[<<p, c>>]
    ELSE 0

\* The map with a client stored under the keys that have no entry yet.
StoredUnder(keys, i) ==
    [key \in DOMAIN connectionPlugins \cup keys |->
        IF key \in DOMAIN connectionPlugins THEN connectionPlugins[key] ELSE i]

\* Mutants: the client is stored for the connections the hub's configuration gives its
\* plugin, or for every plugin.
AddConfigured(i, client) ==
    StoredUnder({client.plugin} \X {d \in Connections : config[d] = client.plugin}, i)

AddAllPlugins(i, client) == StoredUnder(Plugins \X client.connections, i)

\* add: the client is stored for each connection it serves.
AddClient(i, client) == StoredUnder({client.plugin} \X client.connections, i)

Returns(call, p, c, i, error) ==
    returned' = [call |-> call, plugin |-> p, connection |-> c, client |-> i,
                 error |-> error]

Found(call, p, c) ==
    /\ Get(p, c) # 0
    /\ Returns(call, p, c, Get(p, c), "none")
    /\ UNCHANGED <<disk, config, clients, connectionPlugins>>

\* Mutant: a connection the hub has no configuration for is not looked up on disk.
ReloadNever(c) == config' = config

\* LoadConnectionConfig: called when the connection has no configuration.
ReloadIfMissing(c) == config' = IF config[c] = None THEN disk ELSE config

\* Mutant: a connection that is still not configured after the reload is let through.
CreateUnchecked(call, p, c) ==
    /\ Get(p, c) = 0
    /\ ReloadIfMissing(c)
    /\ Len(clients) < MaxClients
    /\ \E client \in Attached(config'[c], c) :
           /\ clients' = Append(clients, client)
           /\ connectionPlugins' = AddClient(Len(clients'), client)
    /\ Returns(call, p, c, Len(clients'), "none")
    /\ UNCHANGED disk

\* createConnectionPlugin: the plugin is the configured one, whatever the caller named.
Create(call, p, c) ==
    /\ Get(p, c) = 0
    /\ ReloadIfMissing(c)
    /\ config'[c] # None
    /\ Len(clients) < MaxClients
    /\ \E client \in Attached(config'[c], c) :
           /\ clients' = Append(clients, client)
           /\ connectionPlugins' = AddClient(Len(clients'), client)
    /\ Returns(call, p, c, Len(clients'), "none")
    /\ UNCHANGED disk

CreateWithoutConfig(call, p, c) ==
    /\ Get(p, c) = 0
    /\ ReloadIfMissing(c)
    /\ config'[c] = None
    /\ Returns(call, p, c, 0, "noConfig")
    /\ UNCHANGED <<disk, clients, connectionPlugins>>

\* The files do not load, the plugin manager fails, or the plugin does not start.
CreateFails(call, p, c) ==
    /\ Get(p, c) = 0
    /\ \/ ReloadIfMissing(c)
       \/ UNCHANGED config
    /\ Returns(call, p, c, 0, "failed")
    /\ UNCHANGED <<disk, clients, connectionPlugins>>

GetOrCreate(call, p, c) ==
    \/ Found(call, p, c)
    \/ Create(call, p, c)
    \/ CreateWithoutConfig(call, p, c)
    \/ CreateFails(call, p, c)

-----------------------------------------------------------------------------
(* RemoteHub.                                                              *)

\* getConnectionPlugin, for planning and scans: the plugin is the one the hub's copy of
\* the configuration gives, and that copy is not reloaded.
GetConnectionPlugin(c) ==
    /\ config[c] # None
    /\ GetOrCreate("plugin", config[c], c)

GetConnectionPluginFails(c) ==
    /\ config[c] = None
    /\ Returns("plugin", None, c, 0, "noConfig")
    /\ UNCHANGED <<disk, config, clients, connectionPlugins>>

\* GetSchema, for IMPORT FOREIGN SCHEMA: the statement names the plugin.
GetSchema(p, c) == GetOrCreate("schema", p, c)

Next ==
    \/ \E c \in Connections :
          \/ EditConfig(c)
          \/ GetConnectionPlugin(c) \/ GetConnectionPluginFails(c)
          \/ \E p \in Plugins : GetSchema(p, c)
    \/ \E p \in Plugins : PluginExits(p)

Spec == Init /\ [][Next]_vars

-----------------------------------------------------------------------------
(* Properties.                                                             *)

Succeeded == returned # Nothing /\ returned.client # 0

\* getConnectionPlugin makes sure that the plugin is up and running, and so does
\* GetSchema: no exit, reload or earlier client leads to one whose plugin has exited.
ReturnsRunning == Succeeded => ~clients[returned.client].exited

\* The client returned serves the connection: the schema and the scan that are asked of
\* it next are of a connection it knows, though it was made for another one.
ReturnsServing == Succeeded => returned.connection \in clients[returned.client].connections

\* A scan goes to the plugin the hub's configuration gives for the connection, after
\* any change of the plugin of a connection and any import under another name.
ReturnsConfiguredPlugin ==
    Succeeded /\ returned.call = "plugin" =>
        clients[returned.client].plugin = config[returned.connection]

\* CHANGELOG.md:148: if a connection config is not found, reload config.  An import
\* says there is no configuration only if there is none on disk.
ImportFindsNewConnections ==
    returned # Nothing /\ returned.call = "schema" /\ returned.error = "noConfig" =>
        disk[returned.connection] = None

\* connection_factory.go:41: if there is no client for the plugin and connection,
\* create it, store in map and return it.
ReturnedIsStored ==
    Succeeded /\ returned.call = "plugin" =>
        connectionPlugins[<<returned.plugin, returned.connection>>] = returned.client

=============================================================================

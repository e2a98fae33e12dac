----------------------- MODULE ConnectionFactoryProofs -----------------------
(***************************************************************************)
(* The clients a RemoteHub hands out, for every set of connections and     *)
(* plugins and however many clients there have been.                       *)
(***************************************************************************)
EXTENDS ConnectionFactory, TLAPS

\* An entry of the map leads to a client of the plugin and the connection of its key.
KeysMatch ==
    \A key \in DOMAIN connectionPlugins :
        LET client == clients[connectionPlugins[key]]
        IN  client.plugin = key[1] /\ key[2] \in client.connections

\* The inductive invariant.
IInv ==
    /\ TypeOK
    /\ KeysMatch
    /\ ReturnsRunning
    /\ ReturnsServing
    /\ ReturnsConfiguredPlugin
    /\ ImportFindsNewConnections

\* A hub starts without clients.
LEMMA InitImpliesIInv == Init => IInv
BY FactoryAssumption
   DEF Init, IInv, TypeOK, KeysMatch, ReturnsRunning, ReturnsServing,
       ReturnsConfiguredPlugin, ImportFindsNewConnections, Succeeded, Nothing

\* What changes outside the hub makes it forget what the last call returned, and
\* disturbs no key.
LEMMA OutsidePreserves ==
    ASSUME IInv,
           \/ \E c \in Connections : EditConfig(c)
           \/ \E p \in Plugins : PluginExits(p)
    PROVE  IInv'
<1>1. returned' = Nothing /\ UNCHANGED <<config, connectionPlugins>>
  BY DEF EditConfig, PluginExits
<1>2. disk' \in Configs
  BY DEF EditConfig, PluginExits, IInv, TypeOK, Configs
<1>3. /\ clients' \in Seq(Client)
      /\ Len(clients') = Len(clients)
      /\ \A i \in 1..Len(clients) : /\ clients'[i].plugin = clients[i].plugin
                                    /\ clients'[i].connections = clients[i].connections
  <2>1. CASE \E c \in Connections : EditConfig(c)
    BY <2>1 DEF EditConfig, IInv, TypeOK
  <2>2. CASE \E p \in Plugins : PluginExits(p)
    <3>1. PICK p \in Plugins : PluginExits(p)
      BY <2>2
    <3>2. \A i \in 1..Len(clients) : clients[i] \in Client
      BY DEF IInv, TypeOK
    <3>3. \A i \in 1..Len(clients) :
              [clients[i] EXCEPT !.exited = @ \/ clients[i].plugin = p] \in Client
      BY <3>2 DEF Client
    <3>4. clients' = [i \in 1..Len(clients) |->
                         [clients[i] EXCEPT !.exited = @ \/ clients[i].plugin = p]]
      BY <3>1 DEF PluginExits
    <3>5. Len(clients) \in Nat
      BY DEF IInv, TypeOK
    <3>6. clients' \in Seq(Client) /\ Len(clients') = Len(clients)
      BY <3>3, <3>4, <3>5
    <3>7. \A i \in 1..Len(clients) : /\ clients'[i].plugin = clients[i].plugin
                                     /\ clients'[i].connections = clients[i].connections
      BY <3>2, <3>4 DEF Client
    <3> QED BY <3>6, <3>7
  <2> QED BY <2>1, <2>2
<1>4. TypeOK'
  BY <1>1, <1>2, <1>3 DEF IInv, TypeOK
<1>5. KeysMatch'
  BY <1>1, <1>3 DEF IInv, TypeOK, KeysMatch
<1>6. /\ ReturnsRunning' /\ ReturnsServing' /\ ReturnsConfiguredPlugin'
      /\ ImportFindsNewConnections'
  BY <1>1 DEF ReturnsRunning, ReturnsServing, ReturnsConfiguredPlugin,
              ImportFindsNewConnections, Succeeded, Nothing
<1> QED BY <1>4, <1>5, <1>6 DEF IInv

\* A call of the factory returns a client that runs and serves the connection, and
\* stores it under keys it matches.  The plugin is the one asked for if that is the one
\* configured.
LEMMA GetOrCreatePreserves ==
    ASSUME IInv,
           NEW call \in {"plugin", "schema"}, NEW p \in Plugins, NEW c \in Connections,
           call = "plugin" => p = config[c],
           GetOrCreate(call, p, c)
    PROVE  IInv'
<1> USE FactoryAssumption DEF Returns
<1>1. CASE Found(call, p, c)
  <2>1. /\ <<p, c>> \in DOMAIN connectionPlugins
        /\ Get(p, c) = connectionPlugins[<<p, c>>]
        /\ ~clients[Get(p, c)].exited
        /\ Get(p, c) \in 1..Len(clients)
    BY <1>1 DEF Found, Get, IInv, TypeOK
  <2>2. /\ returned' = [call |-> call, plugin |-> p, connection |-> c,
                        client |-> Get(p, c), error |-> "none"]
        /\ UNCHANGED <<disk, config, clients, connectionPlugins>>
    BY <1>1 DEF Found
  <2>3. clients[Get(p, c)].plugin = p /\ c \in clients[Get(p, c)].connections
    BY <2>1 DEF IInv, KeysMatch
  <2>4. TypeOK'
    BY <2>1, <2>2 DEF IInv, TypeOK
  <2>5. KeysMatch'
    BY <2>2 DEF IInv, KeysMatch
  <2>6. /\ ReturnsRunning' /\ ReturnsServing' /\ ReturnsConfiguredPlugin'
        /\ ImportFindsNewConnections'
    BY <2>1, <2>2, <2>3 DEF ReturnsRunning, ReturnsServing, ReturnsConfiguredPlugin,
                            ImportFindsNewConnections, Succeeded, Nothing
  <2> QED BY <2>4, <2>5, <2>6 DEF IInv
<1>2. CASE Create(call, p, c)
  <2>1. /\ config' \in Configs /\ config'[c] \in Plugins
        /\ config[c] # None => config' = config
        /\ UNCHANGED disk
    BY <1>2 DEF Create, ReloadIfMissing, IInv, TypeOK, Configs
  <2>2. PICK client \in Attached(config'[c], c) :
            /\ clients' = Append(clients, client)
            /\ connectionPlugins' = AddClient(Len(clients'), client)
    BY <1>2 DEF Create
  <2>3. /\ client \in Client /\ client.plugin = config'[c]
        /\ c \in client.connections /\ ~client.exited
    <3>1. PICK others \in SUBSET {d \in Connections : disk[d] = config'[c]} :
              client = [plugin |-> config'[c], connections |-> {c} \cup others,
                        exited |-> FALSE]
      BY <2>2 DEF Attached
    <3>2. {c} \cup others \in SUBSET Connections
      OBVIOUS
    <3> QED BY <2>1, <3>1, <3>2 DEF Client
  <2>4. /\ clients' \in Seq(Client)
        /\ Len(clients') = Len(clients) + 1
        /\ Len(clients') <= MaxClients
        /\ clients'[Len(clients')] = client
        /\ \A i \in 1..Len(clients) : clients'[i] = clients[i]
    BY <1>2, <2>2, <2>3 DEF Create, IInv, TypeOK
  <2>5. /\ returned' = [call |-> call, plugin |-> p, connection |-> c,
                        client |-> Len(clients'), error |-> "none"]
    BY <1>2 DEF Create
  <2> DEFINE keys == {client.plugin} \X client.connections
  <2>6. /\ DOMAIN connectionPlugins' = DOMAIN connectionPlugins \cup keys
        /\ \A key \in DOMAIN connectionPlugins :
               connectionPlugins'[key] = connectionPlugins[key]
        /\ \A key \in DOMAIN connectionPlugins' \ DOMAIN connectionPlugins :
               key \in keys /\ connectionPlugins'[key] = Len(clients')
    BY <2>2 DEF AddClient, StoredUnder
  <2>7. keys \subseteq Plugins \X Connections
    BY <2>1, <2>3 DEF Client
  <2>8. \A key \in keys : key[1] = client.plugin /\ key[2] \in client.connections
    OBVIOUS
  <2>9. Len(clients) \in Nat
    BY DEF IInv, TypeOK
  <2> HIDE DEF keys
  <2>10. TypeOK'
    <3>1. \A key \in DOMAIN connectionPlugins' :
              connectionPlugins'[key] \in 1..Len(clients')
      BY <2>4, <2>6, <2>9 DEF IInv, TypeOK
    <3>2. DOMAIN connectionPlugins' \subseteq Plugins \X Connections
      BY <2>6, <2>7 DEF IInv, TypeOK
    <3>3. disk' \in Configs
      BY <2>1 DEF IInv, TypeOK
    <3> QED BY <2>1, <2>4, <2>5, <2>9, <3>1, <3>2, <3>3 DEF TypeOK
  <2>11. KeysMatch'
    <3> SUFFICES ASSUME NEW key \in DOMAIN connectionPlugins'
                 PROVE  /\ clients'[connectionPlugins'[key]].plugin = key[1]
                        /\ key[2] \in clients'[connectionPlugins'[key]].connections
      BY DEF KeysMatch
    <3>1. CASE key \in DOMAIN connectionPlugins
      BY <2>4, <2>6, <3>1 DEF IInv, TypeOK, KeysMatch
    <3>2. CASE key \notin DOMAIN connectionPlugins
      BY <2>4, <2>6, <2>8, <3>2
    <3> QED BY <3>1, <3>2
  <2>12. ReturnsRunning' /\ ReturnsServing'
    BY <2>3, <2>4, <2>5 DEF ReturnsRunning, ReturnsServing, Succeeded, Nothing
  <2>13. ReturnsConfiguredPlugin'
    BY <2>3, <2>4, <2>5 DEF ReturnsConfiguredPlugin, Succeeded, Nothing
  <2>14. ImportFindsNewConnections'
    BY <2>5 DEF ImportFindsNewConnections
  <2> QED BY <2>10, <2>11, <2>12, <2>13, <2>14 DEF IInv
<1>3. CASE CreateWithoutConfig(call, p, c) \/ CreateFails(call, p, c)
  <2>1. PICK error \in {"noConfig", "failed"} :
            returned' = [call |-> call, plugin |-> p, connection |-> c, client |-> 0,
                         error |-> error]
    BY <1>3 DEF CreateWithoutConfig, CreateFails
  <2>2. UNCHANGED <<disk, clients, connectionPlugins>>
    BY <1>3 DEF CreateWithoutConfig, CreateFails
  <2>3. config' \in Configs
    BY <1>3 DEF CreateWithoutConfig, CreateFails, ReloadIfMissing, IInv, TypeOK
  <2>4. error = "noConfig" => disk[c] = None
    BY <1>3, <2>1 DEF CreateWithoutConfig, CreateFails, ReloadIfMissing
  <2>5. TypeOK'
    BY <2>1, <2>2, <2>3 DEF IInv, TypeOK
  <2>6. KeysMatch'
    BY <2>2 DEF IInv, KeysMatch
  <2>7. ReturnsRunning' /\ ReturnsServing' /\ ReturnsConfiguredPlugin'
    BY <2>1 DEF ReturnsRunning, ReturnsServing, ReturnsConfiguredPlugin, Succeeded
  <2>8. ImportFindsNewConnections'
    BY <2>1, <2>2, <2>4 DEF ImportFindsNewConnections
  <2> QED BY <2>5, <2>6, <2>7, <2>8 DEF IInv
<1> QED BY <1>1, <1>2, <1>3 DEF GetOrCreate

\* Every step keeps the invariant.
LEMMA NextPreserves == IInv /\ [Next]_vars => IInv'
<1> SUFFICES ASSUME IInv, [Next]_vars PROVE IInv'
  OBVIOUS
<1>1. CASE \/ \E c \in Connections : EditConfig(c)
           \/ \E p \in Plugins : PluginExits(p)
  BY <1>1, OutsidePreserves
<1>2. ASSUME NEW c \in Connections, GetConnectionPlugin(c) PROVE IInv'
  <2>1. config[c] \in Plugins /\ GetOrCreate("plugin", config[c], c)
    BY <1>2 DEF GetConnectionPlugin, IInv, TypeOK, Configs
  <2> QED BY <2>1, GetOrCreatePreserves
<1>3. ASSUME NEW c \in Connections, NEW p \in Plugins, GetSchema(p, c) PROVE IInv'
  BY <1>3, GetOrCreatePreserves DEF GetSchema
<1>4. ASSUME NEW c \in Connections, GetConnectionPluginFails(c) PROVE IInv'
  <2>1. /\ returned' = [call |-> "plugin", plugin |-> None, connection |-> c,
                        client |-> 0, error |-> "noConfig"]
        /\ UNCHANGED <<disk, config, clients, connectionPlugins>>
    BY <1>4 DEF GetConnectionPluginFails, Returns
  <2> QED BY <2>1 DEF IInv, TypeOK, KeysMatch, ReturnsRunning, ReturnsServing,
                      ReturnsConfiguredPlugin, ImportFindsNewConnections, Succeeded
<1>5. CASE UNCHANGED vars
  BY <1>5 DEF vars, IInv, TypeOK, KeysMatch, ReturnsRunning, ReturnsServing,
              ReturnsConfiguredPlugin, ImportFindsNewConnections, Succeeded
<1> QED BY <1>1, <1>2, <1>3, <1>4, <1>5 DEF Next

\* The invariant holds in every state of a hub.
THEOREM FactoryInvariance == Spec => []IInv
BY InitImpliesIInv, NextPreserves, PTL DEF Spec

\* The state keeps its types: no entry of the map leads to a client there never was.
THEOREM FactoryTypeCorrect == Spec => []TypeOK
BY FactoryInvariance, PTL DEF IInv

\* A client handed out has not exited.
THEOREM PluginRunning == Spec => []ReturnsRunning
BY FactoryInvariance, PTL DEF IInv

\* A client handed out serves the connection it was asked for.
THEOREM PluginServing == Spec => []ReturnsServing
BY FactoryInvariance, PTL DEF IInv

\* A scan goes to the plugin the hub has configured for its connection.
THEOREM PluginConfigured == Spec => []ReturnsConfiguredPlugin
BY FactoryInvariance, PTL DEF IInv

\* An import misses no connection that is on disk.
THEOREM ImportReloads == Spec => []ImportFindsNewConnections
BY FactoryInvariance, PTL DEF IInv

=============================================================================

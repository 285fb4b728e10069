--------------------------- MODULE GatewayRegistry ---------------------------
(***************************************************************************)
(* The life of the gateway connections of the head-end server.             *)
(*                                                                         *)
(* Server::accept_and_dispatch starts one detached handler thread for each *)
(* accepted socket.  The first packet must be the gateway's PGWID          *)
(* announcement; it registers the Client object in Server::g_clients,      *)
(* where it replaces, and marks as duplicate, an older connection of the   *)
(* same gateway.  A handler whose gatewayStatus is DISCONNECTED leaves its *)
(* loop, writes the two status tables, unregisters and destroys itself.    *)
(* Each registered Client also owns a mosquitto session with its own       *)
(* network thread (external; modelled by the callbacks it makes), and all  *)
(* sessions of one gateway use the same MQTT client identifier, so the     *)
(* broker lets only the newest one live.                                   *)
(***************************************************************************)
EXTENDS Naturals, FiniteSets

CONSTANTS
  Conns,      \* the Client objects: one for each accepted socket
  Gateways,   \* gateway identifiers, the keys of Server::g_clients
  NoClient,   \* "no entry" in g_clients, or no session at the broker
  NoGateway,  \* gateway_id of a Client that has not announced itself
  MaxDrops    \* bound: how often the network may break an MQTT session

ASSUME ConnsAssumption == NoClient \notin Conns
ASSUME GatewaysAssumption == NoGateway \notin Gateways
ASSUME DropsAssumption == MaxDrops \in Nat

VARIABLES
  pc,                 \* where the handler thread of each connection is
  gateway_id,         \* Client::gateway_id
  gatewayStatus,      \* Client::gatewayStatus
  duplicate_gateway,  \* Client::duplicate_gateway
  allow_reconnect,    \* MQTTClient::allow_reconnect
  comm_init_status,   \* Client::comm_init_status: no packet handled so far
  timeoutState,       \* stateInfo.timeoutState
  g_clients,          \* Server::g_clients
  mosq,               \* the mosquitto session of each Client
  broker,             \* the session the broker holds for each client id
  drops,              \* MQTT sessions broken by the network so far
  gateway_status_info,\* status column, one row for each gateway
  dlms_mqtt_info      \* mqtt_sub_status column, one row for each gateway

vars == <<pc, gateway_id, gatewayStatus, duplicate_gateway, allow_reconnect,
          comm_init_status, timeoutState, g_clients, mosq, broker, drops,
          gateway_status_info, dlms_mqtt_info>>

\* What only the handler thread of the connection itself changes.
clientVars == <<gateway_id, gatewayStatus, comm_init_status, timeoutState>>
\* What the MQTT side changes.
mqttVars == <<mosq, broker, drops, dlms_mqtt_info>>

(***************************************************************************)
(* Control points of Server::handle_client:                                *)
(*   new       the socket is not accepted yet                              *)
(*   loop      the head of the poll loop                                   *)
(*   register, status, pull, mqtt    inside Client::initCommunication      *)
(*   xstatus, xmqtt, xunreg, destroy after the loop, in this order         *)
(*   gone      the Client object is destroyed                              *)
(***************************************************************************)
InitPoints == {"register", "status", "pull", "mqtt"}
ExitPoints == {"xstatus", "xmqtt", "xunreg", "destroy"}
Points == {"new", "loop", "gone"} \cup InitPoints \cup ExitPoints

(***************************************************************************)
(* A mosquitto session:                                                    *)
(*   null       no network thread (never created, or connect_async failed) *)
(*   connecting a connection attempt is under way                          *)
(*   accepted   the broker accepted it; on_connect has not run yet         *)
(*   connected  on_connect has run                                         *)
(*   lost       the session is broken; on_disconnect has not run yet       *)
(*   stopped    on_disconnect stopped the network thread                   *)
(*   destroyed  ~MQTTClient has run                                        *)
(***************************************************************************)
Sessions == {"null", "connecting", "accepted", "connected", "lost",
             "stopped", "destroyed"}

Rows == {"absent", "down", "up"}

TypeOK ==
  /\ pc \in [Conns -> Points]
  /\ gateway_id \in [Conns -> Gateways \cup {NoGateway}]
  /\ gatewayStatus \in [Conns -> {"CONNECTED", "DISCONNECTED"}]
  /\ duplicate_gateway \in [Conns -> BOOLEAN]
  /\ allow_reconnect \in [Conns -> BOOLEAN]
  /\ comm_init_status \in [Conns -> BOOLEAN]
  /\ timeoutState \in [Conns -> {"TIMER_PGWID_RX", "TIMER_NONE"}]
  /\ g_clients \in [Gateways -> Conns \cup {NoClient}]
  /\ mosq \in [Conns -> Sessions]
  /\ broker \in [Gateways -> Conns \cup {NoClient}]
  /\ drops \in 0..MaxDrops
  /\ gateway_status_info \in [Gateways -> Rows]
  /\ dlms_mqtt_info \in [Gateways -> Rows]

Init ==
  /\ pc = [c \in Conns |-> "new"]
  /\ gateway_id = [c \in Conns |-> NoGateway]
  /\ gatewayStatus = [c \in Conns |-> "CONNECTED"]
  /\ duplicate_gateway = [c \in Conns |-> FALSE]
  /\ allow_reconnect = [c \in Conns |-> TRUE]
  /\ comm_init_status = [c \in Conns |-> TRUE]
  /\ timeoutState = [c \in Conns |-> "TIMER_PGWID_RX"]
  /\ g_clients = [g \in Gateways |-> NoClient]
  /\ mosq = [c \in Conns |-> "null"]
  /\ broker = [g \in Gateways |-> NoClient]
  /\ drops = 0
  /\ gateway_status_info \in [Gateways -> {"absent", "down"}]
  /\ dlms_mqtt_info = [g \in Gateways |-> "absent"]

-----------------------------------------------------------------------------
(* The accept loop and the poll loop.                                      *)

\* accept() returns a socket and the handler thread starts.  A failed accept
\* or setsockopt drops the object again and leaves no trace.
accept_and_dispatch(c) ==
  /\ pc[c] = "new"
  /\ pc' = [pc EXCEPT ![c] = "loop"]
  /\ UNCHANGED <<clientVars, mqttVars, duplicate_gateway, allow_reconnect,
                 g_clients, gateway_status_info>>

\* The loop runs while gatewayStatus is CONNECTED.
LeaveLoop(c) ==
  /\ pc[c] = "loop"
  /\ gatewayStatus[c] = "DISCONNECTED"
  /\ pc' = [pc EXCEPT ![c] = "xstatus"]
  /\ UNCHANGED <<clientVars, mqttVars, duplicate_gateway, allow_reconnect,
                 g_clients, gateway_status_info>>

\* Faulty variant: the duplicate is noticed but the loop just continues.
StopDuplicateContinueOnly(c) ==
  /\ pc[c] = "loop"
  /\ gatewayStatus[c] = "CONNECTED"
  /\ duplicate_gateway[c]
  /\ UNCHANGED vars

\* The head of the loop: a duplicate disconnects itself before it polls.
StopDuplicate(c) ==
  /\ pc[c] = "loop"
  /\ gatewayStatus[c] = "CONNECTED"
  /\ duplicate_gateway[c]
  /\ gatewayStatus' = [gatewayStatus EXCEPT ![c] = "DISCONNECTED"]
  /\ UNCHANGED <<pc, gateway_id, comm_init_status, timeoutState, mqttVars,
                 duplicate_gateway, allow_reconnect, g_clients,
                 gateway_status_info>>

\* The duplicate flag was clear when it was tested; poll() returns.
Polled(c) ==
  /\ pc[c] = "loop"
  /\ gatewayStatus[c] = "CONNECTED"
  /\ ~duplicate_gateway[c]

\* poll() found no event.  A gateway that never announced itself is dropped.
\* Otherwise the pull cycle may run, and a gateway that does not answer it is
\* disconnected (abstracted to the two outcomes).
poll_timeout_handler(c) ==
  /\ Polled(c)
  /\ \/ gatewayStatus' = [gatewayStatus EXCEPT ![c] = "DISCONNECTED"]
     \/ /\ timeoutState[c] = "TIMER_NONE"
        /\ UNCHANGED gatewayStatus
  /\ UNCHANGED <<pc, gateway_id, comm_init_status, timeoutState, mqttVars,
                 duplicate_gateway, allow_reconnect, g_clients,
                 gateway_status_info>>

\* recv() returns 0 or an error, poll() fails, or a request handled in this
\* turn finds the gateway gone.
PeerLost(c) ==
  /\ Polled(c)
  /\ gatewayStatus' = [gatewayStatus EXCEPT ![c] = "DISCONNECTED"]
  /\ UNCHANGED <<pc, gateway_id, comm_init_status, timeoutState, mqttVars,
                 duplicate_gateway, allow_reconnect, g_clients,
                 gateway_status_info>>

\* The first packet is a well-formed PGWID announcement.
ReceivePgwid(c, g) ==
  /\ Polled(c)
  /\ comm_init_status[c]
  /\ comm_init_status' = [comm_init_status EXCEPT ![c] = FALSE]
  /\ gateway_id' = [gateway_id EXCEPT ![c] = g]
  /\ pc' = [pc EXCEPT ![c] = "register"]
  /\ UNCHANGED <<gatewayStatus, timeoutState, mqttVars, duplicate_gateway,
                 allow_reconnect, g_clients, gateway_status_info>>

\* The first packet is anything else: initCommunication returns FAILURE, and
\* comm_init_status is already cleared, so no later packet can register.
ReceiveInvalidPgwid(c) ==
  /\ Polled(c)
  /\ comm_init_status[c]
  /\ comm_init_status' = [comm_init_status EXCEPT ![c] = FALSE]
  /\ UNCHANGED <<pc, gateway_id, gatewayStatus, timeoutState, mqttVars,
                 duplicate_gateway, allow_reconnect, g_clients,
                 gateway_status_info>>

-----------------------------------------------------------------------------
(* Client::initCommunication, called with the first packet.                *)

\* The entry of this gateway, if any, is marked and replaced in one critical
\* section of Server::clients_mutex.
register_client(c) ==
  LET g   == gateway_id[c]
      old == g_clients[g]
  IN /\ pc[c] = "register"
     /\ IF old # NoClient
          THEN /\ duplicate_gateway' = [duplicate_gateway EXCEPT ![old] = TRUE]
               /\ allow_reconnect' = [allow_reconnect EXCEPT ![old] = FALSE]
          ELSE UNCHANGED <<duplicate_gateway, allow_reconnect>>
     /\ g_clients' = [g_clients EXCEPT ![g] = c]
     /\ pc' = [pc EXCEPT ![c] = "status"]
     /\ UNCHANGED <<clientVars, mqttVars, gateway_status_info>>

\* Faulty variant: the in-memory enumeration is stored in the status column.
InitStatusRawEnum(c) ==
  /\ pc[c] = "status"
  /\ gateway_status_info' =
       [gateway_status_info EXCEPT ![gateway_id[c]] = gatewayStatus[c]]
  /\ pc' = [pc EXCEPT ![c] = "pull"]
  /\ UNCHANGED <<clientVars, mqttVars, duplicate_gateway, allow_reconnect,
                 g_clients>>

\* Faulty variant: no INSERT for a gateway that connects for the first time.
InitStatusUpdateOnly(c) ==
  /\ pc[c] = "status"
  /\ gateway_status_info' =
       [gateway_status_info EXCEPT ![gateway_id[c]] =
          IF @ = "absent" THEN @ ELSE "up"]
  /\ pc' = [pc EXCEPT ![c] = "pull"]
  /\ UNCHANGED <<clientVars, mqttVars, duplicate_gateway, allow_reconnect,
                 g_clients>>

\* The row is updated, or inserted when there is none: both leave it "up".
InitStatus(c) ==
  /\ pc[c] = "status"
  /\ gateway_status_info' =
       [gateway_status_info EXCEPT ![gateway_id[c]] = "up"]
  /\ pc' = [pc EXCEPT ![c] = "pull"]
  /\ UNCHANGED <<clientVars, mqttVars, duplicate_gateway, allow_reconnect,
                 g_clients>>

\* The rest of init_connection talks to the mesh for minutes; the gateway may
\* stop answering.  Either way initCommunication goes on with the MQTT client.
InitPull(c) ==
  /\ pc[c] = "pull"
  /\ \/ gatewayStatus' = [gatewayStatus EXCEPT ![c] = "DISCONNECTED"]
     \/ UNCHANGED gatewayStatus
  /\ pc' = [pc EXCEPT ![c] = "mqtt"]
  /\ UNCHANGED <<gateway_id, comm_init_status, timeoutState, mqttVars,
                 duplicate_gateway, allow_reconnect, g_clients,
                 gateway_status_info>>

\* mosquitto_connect_async may fail: then no network thread is started.
create_mqtt_client(c) ==
  /\ pc[c] = "mqtt"
  /\ \/ mosq' = [mosq EXCEPT ![c] = "connecting"]
     \/ UNCHANGED mosq
  /\ timeoutState' = [timeoutState EXCEPT ![c] = "TIMER_NONE"]
  /\ pc' = [pc EXCEPT ![c] = "loop"]
  /\ UNCHANGED <<gateway_id, gatewayStatus, comm_init_status, broker, drops,
                 dlms_mqtt_info, duplicate_gateway, allow_reconnect,
                 g_clients, gateway_status_info>>

-----------------------------------------------------------------------------
(* After the poll loop.                                                    *)

\* UPDATE ... SET status = 0 WHERE gateway_id = ...: an absent row, and the
\* row of a Client without a gateway, stay as they are.
RowDown(table, g) ==
  IF g \in Gateways /\ table[g] # "absent"
    THEN [table EXCEPT ![g] = "down"]
    ELSE table

ExitStatus(c) ==
  /\ pc[c] = "xstatus"
  /\ gateway_status_info' = RowDown(gateway_status_info, gateway_id[c])
  /\ pc' = [pc EXCEPT ![c] = "xmqtt"]
  /\ UNCHANGED <<clientVars, mqttVars, duplicate_gateway, allow_reconnect,
                 g_clients>>

ExitMqtt(c) ==
  /\ pc[c] = "xmqtt"
  /\ dlms_mqtt_info' = RowDown(dlms_mqtt_info, gateway_id[c])
  /\ pc' = [pc EXCEPT ![c] = "xunreg"]
  /\ UNCHANGED <<clientVars, mosq, broker, drops, duplicate_gateway,
                 allow_reconnect, g_clients, gateway_status_info>>

\* Faulty variant: the entry stays behind.
unregister_clientKeepsEntry(c) ==
  /\ pc[c] = "xunreg"
  /\ pc' = [pc EXCEPT ![c] = "destroy"]
  /\ UNCHANGED <<clientVars, mqttVars, duplicate_gateway, allow_reconnect,
                 g_clients, gateway_status_info>>

\* Faulty variant: the entry is erased whichever Client it points to.
unregister_clientAnyEntry(c) ==
  /\ pc[c] = "xunreg"
  /\ g_clients' = [g \in Gateways |->
                     IF g = gateway_id[c] THEN NoClient ELSE g_clients[g]]
  /\ pc' = [pc EXCEPT ![c] = "destroy"]
  /\ UNCHANGED <<clientVars, mqttVars, duplicate_gateway, allow_reconnect,
                 gateway_status_info>>

\* Only the entry that still is this Client is erased.
unregister_client(c) ==
  LET g == gateway_id[c]
  IN /\ pc[c] = "xunreg"
     /\ IF g \in Gateways /\ g_clients[g] = c
          THEN g_clients' = [g_clients EXCEPT ![g] = NoClient]
          ELSE UNCHANGED g_clients
     /\ pc' = [pc EXCEPT ![c] = "destroy"]
     /\ UNCHANGED <<clientVars, mqttVars, duplicate_gateway, allow_reconnect,
                    gateway_status_info>>

\* Faulty variant: the object goes without stopping its network thread.
DestroyKeepsSession(c) ==
  /\ pc[c] = "destroy"
  /\ pc' = [pc EXCEPT ![c] = "gone"]
  /\ UNCHANGED <<clientVars, mqttVars, duplicate_gateway, allow_reconnect,
                 g_clients, gateway_status_info>>

\* ~Client, then ~MQTTClient: the network thread is stopped and joined, and
\* the broker forgets the session.
Destroy(c) ==
  /\ pc[c] = "destroy"
  /\ mosq' = [mosq EXCEPT ![c] = "destroyed"]
  /\ broker' = [g \in Gateways |->
                  IF broker[g] = c THEN NoClient ELSE broker[g]]
  /\ pc' = [pc EXCEPT ![c] = "gone"]
  /\ UNCHANGED <<clientVars, drops, dlms_mqtt_info, duplicate_gateway,
                 allow_reconnect, g_clients, gateway_status_info>>

-----------------------------------------------------------------------------
(* The mosquitto network thread of one Client (external) and its callbacks. *)

\* The broker accepts the session and takes the client identifier over from
\* the session that held it, which it breaks.
BrokerAccept(c) ==
  LET g   == gateway_id[c]
      old == broker[g]
  IN /\ mosq[c] = "connecting"
     /\ mosq' = [d \in Conns |-> IF d = c THEN "accepted"
                                 ELSE IF d = old THEN "lost" ELSE mosq[d]]
     /\ broker' = [broker EXCEPT ![g] = c]
     /\ UNCHANGED <<pc, clientVars, drops, dlms_mqtt_info, duplicate_gateway,
                    allow_reconnect, g_clients, gateway_status_info>>

\* Subscribe and record the subscription; the row is inserted when absent.
on_connect(c) ==
  /\ mosq[c] = "accepted"
  /\ mosq' = [mosq EXCEPT ![c] = "connected"]
  /\ dlms_mqtt_info' = [dlms_mqtt_info EXCEPT ![gateway_id[c]] = "up"]
  /\ UNCHANGED <<pc, clientVars, broker, drops, duplicate_gateway,
                 allow_reconnect, g_clients, gateway_status_info>>

\* The network breaks the session (bounded by MaxDrops).
SessionDrop(c) ==
  /\ mosq[c] \in {"accepted", "connected"}
  /\ drops < MaxDrops
  /\ drops' = drops + 1
  /\ mosq' = [mosq EXCEPT ![c] = "lost"]
  /\ broker' = [broker EXCEPT ![gateway_id[c]] = NoClient]
  /\ UNCHANGED <<pc, clientVars, dlms_mqtt_info, duplicate_gateway,
                 allow_reconnect, g_clients, gateway_status_info>>

\* Faulty variant: a broken session is never established again.
on_disconnectStops(c) ==
  /\ mosq[c] = "lost"
  /\ mosq' = [mosq EXCEPT ![c] = "stopped"]
  /\ UNCHANGED <<pc, clientVars, broker, drops, dlms_mqtt_info,
                 duplicate_gateway, allow_reconnect, g_clients,
                 gateway_status_info>>

\* The table is not written here; a duplicate's network thread stops.
on_disconnect(c) ==
  /\ mosq[c] = "lost"
  /\ mosq' = [mosq EXCEPT ![c] = IF allow_reconnect[c] THEN "connecting"
                                                       ELSE "stopped"]
  /\ UNCHANGED <<pc, clientVars, broker, drops, dlms_mqtt_info,
                 duplicate_gateway, allow_reconnect, g_clients,
                 gateway_status_info>>

-----------------------------------------------------------------------------
initCommunication(c) ==
  \/ register_client(c)
  \/ InitStatus(c)
  \/ InitPull(c)
  \/ create_mqtt_client(c)

Exit(c) ==
  \/ LeaveLoop(c)
  \/ ExitStatus(c)
  \/ ExitMqtt(c)
  \/ unregister_client(c)
  \/ Destroy(c)

Receive(c) ==
  \/ \E g \in Gateways : ReceivePgwid(c, g)
  \/ ReceiveInvalidPgwid(c)
  \/ PeerLost(c)

NetworkThread(c) == BrokerAccept(c) \/ on_connect(c) \/ on_disconnect(c)

\* Every socket was accepted and every handler thread has ended: the server
\* would go on waiting in accept().
Drained ==
  /\ \A c \in Conns : pc[c] = "gone"
  /\ UNCHANGED vars

Next ==
  \/ \E c \in Conns :
       \/ accept_and_dispatch(c)
       \/ StopDuplicate(c)
       \/ poll_timeout_handler(c)
       \/ Receive(c)
       \/ initCommunication(c)
       \/ Exit(c)
       \/ NetworkThread(c)
       \/ SessionDrop(c)
  \/ Drained

\* A handler thread that is neither blocked in poll() nor in recv() goes on,
\* and libmosquitto's network thread goes on.  Nothing is assumed of the
\* gateway: it may stay silent or keep sending forever.
Fairness ==
  \A c \in Conns :
    /\ WF_vars(StopDuplicate(c))
    /\ WF_vars(initCommunication(c))
    /\ WF_vars(Exit(c))
    /\ WF_vars(NetworkThread(c))

Spec == Init /\ [][Next]_vars /\ Fairness

-----------------------------------------------------------------------------
(* Properties.                                                             *)

\* Registered: past register_client and not yet past unregister_client.
Registered(c) ==
  /\ gateway_id[c] # NoGateway
  /\ pc[c] \in {"status", "pull", "mqtt", "loop", "xstatus", "xmqtt", "xunreg"}

\* register_client dereferences the pointer it finds in g_clients.  It never
\* finds a Client that was destroyed or is about to be: an entry is a live,
\* registered, not superseded connection of exactly that gateway.
NoDanglingEntry ==
  \A g \in Gateways :
    LET c == g_clients[g]
    IN c # NoClient => /\ Registered(c)
                       /\ gateway_id[c] = g
                       /\ ~duplicate_gateway[c]

\* No connection is forgotten: a registered handler is either the entry of
\* its gateway or was told to stop.  (A handler that were neither would serve
\* the gateway beside the registered one forever.)
OwnerOrDuplicate ==
  \A c \in Conns :
    Registered(c) => \/ g_clients[gateway_id[c]] = c
                     \/ duplicate_gateway[c] /\ ~allow_reconnect[c]

\* A session that the broker holds belongs to a Client that still exists, so
\* no callback reaches a destroyed object, and the broker holds at most one
\* session of each gateway: the one whose Client believes it is connected.
SessionOfLiveClient ==
  \A c \in Conns :
    /\ mosq[c] \in {"accepted", "connected"} =>
         /\ pc[c] # "gone"
         /\ broker[gateway_id[c]] = c
    /\ pc[c] = "gone" => mosq[c] = "destroyed"

\* The status row of a gateway whose current connection has announced itself
\* can be "down" only because an older connection of that gateway, superseded
\* by this one, ran its exit path late: without a superseded connection the
\* row is right.
StatusRowStaleOnlyByDuplicate ==
  \A c \in Conns :
    (/\ pc[c] \in {"pull", "mqtt", "loop"}
     /\ gateway_id[c] # NoGateway
     /\ ~duplicate_gateway[c]
     /\ gateway_status_info[gateway_id[c]] # "up") =>
       \E d \in Conns : /\ gateway_id[d] = gateway_id[c]
                        /\ duplicate_gateway[d]
                        /\ pc[d] \in {"xmqtt", "xunreg", "destroy", "gone"}

\* A superseded connection ends: its handler leaves the loop, unregisters and
\* destroys the Client, whatever its gateway does.
DuplicateEnds ==
  \A c \in Conns : duplicate_gateway[c] ~> pc[c] = "gone"

\* Sessions of one gateway do not throw each other out forever: a connection
\* that stays the registered one, and has a network thread, in the end keeps
\* its MQTT session.
OwnerKeepsSession ==
  \A c \in Conns :
    <>[](/\ pc[c] = "loop" /\ gateway_id[c] # NoGateway
         /\ ~duplicate_gateway[c] /\ mosq[c] # "null")
      => <>[](mosq[c] = "connected")
=============================================================================

------------------------ MODULE GatewayRegistryProofs ------------------------
(***************************************************************************)
(* Proofs about GatewayRegistry for any number of connections and          *)
(* gateways.  The inductive invariant Inv adds to the four safety          *)
(* properties what they rest on: when a Client has a gateway identifier    *)
(* (Announced), and whose sessions the broker holds (BrokerHolds).         *)
(***************************************************************************)
EXTENDS GatewayRegistry, TLAPS

\* A Client has a gateway identifier only once its first packet was an
\* announcement, gets its one MQTT session after that, and is not told to stop
\* before it is registered.
Announced ==
  \A c \in Conns :
    /\ comm_init_status[c] => gateway_id[c] = NoGateway
    /\ pc[c] = "new" => comm_init_status[c]
    /\ pc[c] \in InitPoints => gateway_id[c] # NoGateway /\ mosq[c] = "null"
    /\ mosq[c] = "destroyed" => pc[c] = "gone"
    /\ pc[c] = "register" => ~duplicate_gateway[c]
    /\ mosq[c] \notin {"null", "destroyed"} => gateway_id[c] # NoGateway

\* The broker's view agrees with the sessions: it holds a session only while
\* the Client that made it, for that gateway, takes it to be established.
BrokerHolds ==
  \A g \in Gateways :
    broker[g] # NoClient => /\ gateway_id[broker[g]] = g
                            /\ mosq[broker[g]] \in {"accepted", "connected"}

Inv ==
  /\ TypeOK
  /\ BrokerHolds
  /\ Announced
  /\ NoDanglingEntry
  /\ OwnerOrDuplicate
  /\ SessionOfLiveClient
  /\ StatusRowStaleOnlyByDuplicate

\* The type invariant: every field of every Client, the registry, the
\* broker's sessions and both tables keep their types.
LEMMA Typing == TypeOK /\ [Next]_vars => TypeOK'
  <1> USE ConnsAssumption, GatewaysAssumption, DropsAssumption
  <1> SUFFICES ASSUME TypeOK, [Next]_vars PROVE TypeOK'
    OBVIOUS
  <1> USE DEF TypeOK, Points, InitPoints, ExitPoints, Sessions, Rows,
              clientVars, mqttVars
  <1>1. ASSUME NEW c \in Conns, accept_and_dispatch(c) PROVE TypeOK'
    BY <1>1 DEF accept_and_dispatch
  <1>2. ASSUME NEW c \in Conns, StopDuplicate(c) PROVE TypeOK'
    BY <1>2 DEF StopDuplicate
  <1>3. ASSUME NEW c \in Conns, poll_timeout_handler(c) PROVE TypeOK'
    BY <1>3 DEF poll_timeout_handler
  <1>4. ASSUME NEW c \in Conns, Receive(c) PROVE TypeOK'
    <2>1. ASSUME NEW g \in Gateways, ReceivePgwid(c, g) PROVE TypeOK'
      BY <2>1 DEF ReceivePgwid
    <2>2. CASE ReceiveInvalidPgwid(c)
      BY <2>2 DEF ReceiveInvalidPgwid
    <2>3. CASE PeerLost(c)
      BY <2>3 DEF PeerLost
    <2> QED
      BY <1>4, <2>1, <2>2, <2>3 DEF Receive
  <1>5. ASSUME NEW c \in Conns, register_client(c) PROVE TypeOK'
    BY ZenonT(40), <1>5 DEF register_client
  <1>6. ASSUME NEW c \in Conns,
               InitStatus(c) \/ InitPull(c) \/ create_mqtt_client(c)
        PROVE  TypeOK'
    BY <1>6 DEF InitStatus, InitPull, create_mqtt_client
  <1>7. ASSUME NEW c \in Conns, LeaveLoop(c) \/ ExitStatus(c) \/ ExitMqtt(c)
        PROVE  TypeOK'
    BY <1>7 DEF LeaveLoop, ExitStatus, ExitMqtt, RowDown
  <1>8. ASSUME NEW c \in Conns, unregister_client(c) PROVE TypeOK'
    BY <1>8 DEF unregister_client
  <1>9. ASSUME NEW c \in Conns, Destroy(c) PROVE TypeOK'
    BY <1>9 DEF Destroy
  <1>10. ASSUME NEW c \in Conns, BrokerAccept(c) PROVE TypeOK'
    BY <1>10 DEF BrokerAccept
  <1>11. ASSUME NEW c \in Conns, on_connect(c) \/ on_disconnect(c)
         PROVE  TypeOK'
    BY <1>11 DEF on_connect, on_disconnect
  <1>12. ASSUME NEW c \in Conns, SessionDrop(c) PROVE TypeOK'
    <2>1. drops' \in 0..MaxDrops
      BY <1>12 DEF SessionDrop
    <2>2. /\ broker' \in [Gateways -> Conns \cup {NoClient}]
          /\ mosq' \in [Conns -> Sessions]
      BY <1>12 DEF SessionDrop
    <2> QED
      BY <1>12, <2>1, <2>2 DEF SessionDrop
  <1>13. CASE UNCHANGED vars
    BY <1>13 DEF vars
  <1> QED
    BY <1>1, <1>2, <1>3, <1>4, <1>5, <1>6, <1>7, <1>8, <1>9, <1>10, <1>11,
       <1>12, <1>13
    DEF Next, initCommunication, Exit, NetworkThread, Drained

\* Only an announcement, made once, gives a Client its gateway.
LEMMA AnnouncedStep == Inv /\ [Next]_vars => Announced'
  <1> USE ConnsAssumption, GatewaysAssumption
  <1> SUFFICES ASSUME Inv, TypeOK', [Next]_vars PROVE Announced'
    BY Typing DEF Inv
  <1> USE DEF Inv, TypeOK, InitPoints, clientVars, mqttVars, Announced, BrokerHolds,
             NoDanglingEntry, Registered
  <1>1. ASSUME NEW c \in Conns, accept_and_dispatch(c) PROVE Announced'
    BY <1>1 DEF accept_and_dispatch
  <1>2. ASSUME NEW c \in Conns, StopDuplicate(c) PROVE Announced'
    BY <1>2 DEF StopDuplicate
  <1>3. ASSUME NEW c \in Conns, poll_timeout_handler(c) PROVE Announced'
    BY <1>3 DEF poll_timeout_handler
  <1>4. ASSUME NEW c \in Conns, NEW g \in Gateways, ReceivePgwid(c, g) PROVE Announced'
    BY <1>4 DEF ReceivePgwid, Polled
  <1>5. ASSUME NEW c \in Conns, ReceiveInvalidPgwid(c) PROVE Announced'
    BY <1>5 DEF ReceiveInvalidPgwid, Polled
  <1>6. ASSUME NEW c \in Conns, PeerLost(c) PROVE Announced'
    BY <1>6 DEF PeerLost
  <1>7. ASSUME NEW c \in Conns, register_client(c) PROVE Announced'
    BY <1>7 DEF register_client
  <1>8. ASSUME NEW c \in Conns, InitStatus(c) PROVE Announced'
    BY <1>8 DEF InitStatus
  <1>9. ASSUME NEW c \in Conns, InitPull(c) PROVE Announced'
    BY <1>9 DEF InitPull
  <1>10. ASSUME NEW c \in Conns, create_mqtt_client(c) PROVE Announced'
    BY <1>10 DEF create_mqtt_client
  <1>11. ASSUME NEW c \in Conns, LeaveLoop(c) PROVE Announced'
    BY <1>11 DEF LeaveLoop
  <1>12. ASSUME NEW c \in Conns, ExitStatus(c) PROVE Announced'
    BY <1>12 DEF ExitStatus, RowDown
  <1>13. ASSUME NEW c \in Conns, ExitMqtt(c) PROVE Announced'
    BY <1>13 DEF ExitMqtt
  <1>14. ASSUME NEW c \in Conns, unregister_client(c) PROVE Announced'
    BY <1>14 DEF unregister_client
  <1>15. ASSUME NEW c \in Conns, Destroy(c) PROVE Announced'
    BY <1>15 DEF Destroy
  <1>16. ASSUME NEW c \in Conns, BrokerAccept(c) PROVE Announced'
    BY <1>16 DEF BrokerAccept
  <1>17. ASSUME NEW c \in Conns, on_connect(c) PROVE Announced'
    BY <1>17 DEF on_connect
  <1>18. ASSUME NEW c \in Conns, on_disconnect(c) PROVE Announced'
    BY <1>18 DEF on_disconnect
  <1>19. ASSUME NEW c \in Conns, SessionDrop(c) PROVE Announced'
    BY <1>19 DEF SessionDrop
  <1>20. CASE UNCHANGED vars
    BY <1>20 DEF vars
  <1> QED
    BY <1>1, <1>2, <1>3, <1>4, <1>5, <1>6, <1>7, <1>8, <1>9, <1>10,
       <1>11, <1>12, <1>13, <1>14, <1>15, <1>16, <1>17, <1>18, <1>19, <1>20
    DEF Next, Receive, initCommunication, Exit, NetworkThread, Drained

\* An entry of the registry stays a live, not superseded Client.
LEMMA NoDanglingEntryStep == Inv /\ [Next]_vars => NoDanglingEntry'
  <1> USE ConnsAssumption, GatewaysAssumption
  <1> SUFFICES ASSUME Inv, TypeOK', [Next]_vars PROVE NoDanglingEntry'
    BY Typing DEF Inv
  <1> USE DEF Inv, TypeOK, InitPoints, clientVars, mqttVars, Announced, BrokerHolds,
             NoDanglingEntry, Registered
  <1>1. ASSUME NEW c \in Conns, accept_and_dispatch(c) PROVE NoDanglingEntry'
    BY <1>1 DEF accept_and_dispatch
  <1>2. ASSUME NEW c \in Conns, StopDuplicate(c) PROVE NoDanglingEntry'
    BY <1>2 DEF StopDuplicate
  <1>3. ASSUME NEW c \in Conns, poll_timeout_handler(c) PROVE NoDanglingEntry'
    BY <1>3 DEF poll_timeout_handler
  <1>4. ASSUME NEW c \in Conns, NEW g \in Gateways, ReceivePgwid(c, g) PROVE NoDanglingEntry'
    BY <1>4 DEF ReceivePgwid, Polled
  <1>5. ASSUME NEW c \in Conns, ReceiveInvalidPgwid(c) PROVE NoDanglingEntry'
    BY <1>5 DEF ReceiveInvalidPgwid, Polled
  <1>6. ASSUME NEW c \in Conns, PeerLost(c) PROVE NoDanglingEntry'
    BY <1>6 DEF PeerLost
  <1>7. ASSUME NEW c \in Conns, register_client(c) PROVE NoDanglingEntry'
    BY <1>7 DEF register_client
  <1>8. ASSUME NEW c \in Conns, InitStatus(c) PROVE NoDanglingEntry'
    BY <1>8 DEF InitStatus
  <1>9. ASSUME NEW c \in Conns, InitPull(c) PROVE NoDanglingEntry'
    BY <1>9 DEF InitPull
  <1>10. ASSUME NEW c \in Conns, create_mqtt_client(c) PROVE NoDanglingEntry'
    BY <1>10 DEF create_mqtt_client
  <1>11. ASSUME NEW c \in Conns, LeaveLoop(c) PROVE NoDanglingEntry'
    BY <1>11 DEF LeaveLoop
  <1>12. ASSUME NEW c \in Conns, ExitStatus(c) PROVE NoDanglingEntry'
    BY <1>12 DEF ExitStatus, RowDown
  <1>13. ASSUME NEW c \in Conns, ExitMqtt(c) PROVE NoDanglingEntry'
    BY <1>13 DEF ExitMqtt
  <1>14. ASSUME NEW c \in Conns, unregister_client(c) PROVE NoDanglingEntry'
    BY <1>14 DEF unregister_client
  <1>15. ASSUME NEW c \in Conns, Destroy(c) PROVE NoDanglingEntry'
    BY <1>15 DEF Destroy
  <1>16. ASSUME NEW c \in Conns, BrokerAccept(c) PROVE NoDanglingEntry'
    BY <1>16 DEF BrokerAccept
  <1>17. ASSUME NEW c \in Conns, on_connect(c) PROVE NoDanglingEntry'
    BY <1>17 DEF on_connect
  <1>18. ASSUME NEW c \in Conns, on_disconnect(c) PROVE NoDanglingEntry'
    BY <1>18 DEF on_disconnect
  <1>19. ASSUME NEW c \in Conns, SessionDrop(c) PROVE NoDanglingEntry'
    BY <1>19 DEF SessionDrop
  <1>20. CASE UNCHANGED vars
    BY <1>20 DEF vars
  <1> QED
    BY <1>1, <1>2, <1>3, <1>4, <1>5, <1>6, <1>7, <1>8, <1>9, <1>10,
       <1>11, <1>12, <1>13, <1>14, <1>15, <1>16, <1>17, <1>18, <1>19, <1>20
    DEF Next, Receive, initCommunication, Exit, NetworkThread, Drained

\* A registered handler stays the entry of its gateway or is told to stop.
LEMMA OwnerOrDuplicateStep == Inv /\ [Next]_vars => OwnerOrDuplicate'
  <1> USE ConnsAssumption, GatewaysAssumption
  <1> SUFFICES ASSUME Inv, TypeOK', [Next]_vars PROVE OwnerOrDuplicate'
    BY Typing DEF Inv
  <1> USE DEF Inv, TypeOK, InitPoints, clientVars, mqttVars, Announced, NoDanglingEntry,
             OwnerOrDuplicate, Registered
  <1>1. ASSUME NEW c \in Conns, accept_and_dispatch(c) PROVE OwnerOrDuplicate'
    BY <1>1 DEF accept_and_dispatch
  <1>2. ASSUME NEW c \in Conns, StopDuplicate(c) PROVE OwnerOrDuplicate'
    BY <1>2 DEF StopDuplicate
  <1>3. ASSUME NEW c \in Conns, poll_timeout_handler(c) PROVE OwnerOrDuplicate'
    BY <1>3 DEF poll_timeout_handler
  <1>4. ASSUME NEW c \in Conns, NEW g \in Gateways, ReceivePgwid(c, g) PROVE OwnerOrDuplicate'
    BY <1>4 DEF ReceivePgwid, Polled
  <1>5. ASSUME NEW c \in Conns, ReceiveInvalidPgwid(c) PROVE OwnerOrDuplicate'
    BY <1>5 DEF ReceiveInvalidPgwid, Polled
  <1>6. ASSUME NEW c \in Conns, PeerLost(c) PROVE OwnerOrDuplicate'
    BY <1>6 DEF PeerLost
  <1>7. ASSUME NEW c \in Conns, register_client(c) PROVE OwnerOrDuplicate'
    BY <1>7 DEF register_client
  <1>8. ASSUME NEW c \in Conns, InitStatus(c) PROVE OwnerOrDuplicate'
    BY <1>8 DEF InitStatus
  <1>9. ASSUME NEW c \in Conns, InitPull(c) PROVE OwnerOrDuplicate'
    BY <1>9 DEF InitPull
  <1>10. ASSUME NEW c \in Conns, create_mqtt_client(c) PROVE OwnerOrDuplicate'
    BY <1>10 DEF create_mqtt_client
  <1>11. ASSUME NEW c \in Conns, LeaveLoop(c) PROVE OwnerOrDuplicate'
    BY <1>11 DEF LeaveLoop
  <1>12. ASSUME NEW c \in Conns, ExitStatus(c) PROVE OwnerOrDuplicate'
    BY <1>12 DEF ExitStatus, RowDown
  <1>13. ASSUME NEW c \in Conns, ExitMqtt(c) PROVE OwnerOrDuplicate'
    BY <1>13 DEF ExitMqtt
  <1>14. ASSUME NEW c \in Conns, unregister_client(c) PROVE OwnerOrDuplicate'
    BY <1>14 DEF unregister_client
  <1>15. ASSUME NEW c \in Conns, Destroy(c) PROVE OwnerOrDuplicate'
    BY <1>15 DEF Destroy
  <1>16. ASSUME NEW c \in Conns, BrokerAccept(c) PROVE OwnerOrDuplicate'
    BY <1>16 DEF BrokerAccept
  <1>17. ASSUME NEW c \in Conns, on_connect(c) PROVE OwnerOrDuplicate'
    BY <1>17 DEF on_connect
  <1>18. ASSUME NEW c \in Conns, on_disconnect(c) PROVE OwnerOrDuplicate'
    BY <1>18 DEF on_disconnect
  <1>19. ASSUME NEW c \in Conns, SessionDrop(c) PROVE OwnerOrDuplicate'
    BY <1>19 DEF SessionDrop
  <1>20. CASE UNCHANGED vars
    BY <1>20 DEF vars
  <1> QED
    BY <1>1, <1>2, <1>3, <1>4, <1>5, <1>6, <1>7, <1>8, <1>9, <1>10,
       <1>11, <1>12, <1>13, <1>14, <1>15, <1>16, <1>17, <1>18, <1>19, <1>20
    DEF Next, Receive, initCommunication, Exit, NetworkThread, Drained

\* The broker's view stays in step with the sessions.
LEMMA BrokerHoldsStep == Inv /\ [Next]_vars => BrokerHolds'
  <1> USE ConnsAssumption, GatewaysAssumption
  <1> SUFFICES ASSUME Inv, TypeOK', [Next]_vars PROVE BrokerHolds'
    BY Typing DEF Inv
  <1> USE DEF Inv, TypeOK, InitPoints, clientVars, mqttVars, Announced, BrokerHolds,
             SessionOfLiveClient
  <1>1. ASSUME NEW c \in Conns, accept_and_dispatch(c) PROVE BrokerHolds'
    BY <1>1 DEF accept_and_dispatch
  <1>2. ASSUME NEW c \in Conns, StopDuplicate(c) PROVE BrokerHolds'
    BY <1>2 DEF StopDuplicate
  <1>3. ASSUME NEW c \in Conns, poll_timeout_handler(c) PROVE BrokerHolds'
    BY <1>3 DEF poll_timeout_handler
  <1>4. ASSUME NEW c \in Conns, NEW g \in Gateways, ReceivePgwid(c, g) PROVE BrokerHolds'
    BY <1>4 DEF ReceivePgwid, Polled
  <1>5. ASSUME NEW c \in Conns, ReceiveInvalidPgwid(c) PROVE BrokerHolds'
    BY <1>5 DEF ReceiveInvalidPgwid, Polled
  <1>6. ASSUME NEW c \in Conns, PeerLost(c) PROVE BrokerHolds'
    BY <1>6 DEF PeerLost
  <1>7. ASSUME NEW c \in Conns, register_client(c) PROVE BrokerHolds'
    BY <1>7 DEF register_client
  <1>8. ASSUME NEW c \in Conns, InitStatus(c) PROVE BrokerHolds'
    BY <1>8 DEF InitStatus
  <1>9. ASSUME NEW c \in Conns, InitPull(c) PROVE BrokerHolds'
    BY <1>9 DEF InitPull
  <1>10. ASSUME NEW c \in Conns, create_mqtt_client(c) PROVE BrokerHolds'
    BY <1>10 DEF create_mqtt_client
  <1>11. ASSUME NEW c \in Conns, LeaveLoop(c) PROVE BrokerHolds'
    BY <1>11 DEF LeaveLoop
  <1>12. ASSUME NEW c \in Conns, ExitStatus(c) PROVE BrokerHolds'
    BY <1>12 DEF ExitStatus, RowDown
  <1>13. ASSUME NEW c \in Conns, ExitMqtt(c) PROVE BrokerHolds'
    BY <1>13 DEF ExitMqtt
  <1>14. ASSUME NEW c \in Conns, unregister_client(c) PROVE BrokerHolds'
    BY <1>14 DEF unregister_client
  <1>15. ASSUME NEW c \in Conns, Destroy(c) PROVE BrokerHolds'
    BY <1>15 DEF Destroy
  <1>16. ASSUME NEW c \in Conns, BrokerAccept(c) PROVE BrokerHolds'
    BY <1>16 DEF BrokerAccept
  <1>17. ASSUME NEW c \in Conns, on_connect(c) PROVE BrokerHolds'
    BY <1>17 DEF on_connect
  <1>18. ASSUME NEW c \in Conns, on_disconnect(c) PROVE BrokerHolds'
    BY <1>18 DEF on_disconnect
  <1>19. ASSUME NEW c \in Conns, SessionDrop(c) PROVE BrokerHolds'
    BY <1>19 DEF SessionDrop
  <1>20. CASE UNCHANGED vars
    BY <1>20 DEF vars
  <1> QED
    BY <1>1, <1>2, <1>3, <1>4, <1>5, <1>6, <1>7, <1>8, <1>9, <1>10,
       <1>11, <1>12, <1>13, <1>14, <1>15, <1>16, <1>17, <1>18, <1>19, <1>20
    DEF Next, Receive, initCommunication, Exit, NetworkThread, Drained

\* The broker's sessions stay those of existing Clients.
LEMMA SessionOfLiveClientStep == Inv /\ [Next]_vars => SessionOfLiveClient'
  <1> USE ConnsAssumption, GatewaysAssumption
  <1> SUFFICES ASSUME Inv, TypeOK', [Next]_vars PROVE SessionOfLiveClient'
    BY Typing DEF Inv
  <1> USE DEF Inv, TypeOK, InitPoints, clientVars, mqttVars, Announced, BrokerHolds,
             SessionOfLiveClient
  <1>1. ASSUME NEW c \in Conns, accept_and_dispatch(c) PROVE SessionOfLiveClient'
    BY <1>1 DEF accept_and_dispatch
  <1>2. ASSUME NEW c \in Conns, StopDuplicate(c) PROVE SessionOfLiveClient'
    BY <1>2 DEF StopDuplicate
  <1>3. ASSUME NEW c \in Conns, poll_timeout_handler(c) PROVE SessionOfLiveClient'
    BY <1>3 DEF poll_timeout_handler
  <1>4. ASSUME NEW c \in Conns, NEW g \in Gateways, ReceivePgwid(c, g) PROVE SessionOfLiveClient'
    BY <1>4 DEF ReceivePgwid, Polled
  <1>5. ASSUME NEW c \in Conns, ReceiveInvalidPgwid(c) PROVE SessionOfLiveClient'
    BY <1>5 DEF ReceiveInvalidPgwid, Polled
  <1>6. ASSUME NEW c \in Conns, PeerLost(c) PROVE SessionOfLiveClient'
    BY <1>6 DEF PeerLost
  <1>7. ASSUME NEW c \in Conns, register_client(c) PROVE SessionOfLiveClient'
    BY <1>7 DEF register_client
  <1>8. ASSUME NEW c \in Conns, InitStatus(c) PROVE SessionOfLiveClient'
    BY <1>8 DEF InitStatus
  <1>9. ASSUME NEW c \in Conns, InitPull(c) PROVE SessionOfLiveClient'
    BY <1>9 DEF InitPull
  <1>10. ASSUME NEW c \in Conns, create_mqtt_client(c) PROVE SessionOfLiveClient'
    BY <1>10 DEF create_mqtt_client
  <1>11. ASSUME NEW c \in Conns, LeaveLoop(c) PROVE SessionOfLiveClient'
    BY <1>11 DEF LeaveLoop
  <1>12. ASSUME NEW c \in Conns, ExitStatus(c) PROVE SessionOfLiveClient'
    BY <1>12 DEF ExitStatus, RowDown
  <1>13. ASSUME NEW c \in Conns, ExitMqtt(c) PROVE SessionOfLiveClient'
    BY <1>13 DEF ExitMqtt
  <1>14. ASSUME NEW c \in Conns, unregister_client(c) PROVE SessionOfLiveClient'
    BY <1>14 DEF unregister_client
  <1>15. ASSUME NEW c \in Conns, Destroy(c) PROVE SessionOfLiveClient'
    BY <1>15 DEF Destroy
  <1>16. ASSUME NEW c \in Conns, BrokerAccept(c) PROVE SessionOfLiveClient'
    BY <1>16 DEF BrokerAccept
  <1>17. ASSUME NEW c \in Conns, on_connect(c) PROVE SessionOfLiveClient'
    BY <1>17 DEF on_connect
  <1>18. ASSUME NEW c \in Conns, on_disconnect(c) PROVE SessionOfLiveClient'
    BY <1>18 DEF on_disconnect
  <1>19. ASSUME NEW c \in Conns, SessionDrop(c) PROVE SessionOfLiveClient'
    BY <1>19 DEF SessionDrop
  <1>20. CASE UNCHANGED vars
    BY <1>20 DEF vars
  <1> QED
    BY <1>1, <1>2, <1>3, <1>4, <1>5, <1>6, <1>7, <1>8, <1>9, <1>10,
       <1>11, <1>12, <1>13, <1>14, <1>15, <1>16, <1>17, <1>18, <1>19, <1>20
    DEF Next, Receive, initCommunication, Exit, NetworkThread, Drained

\* Only the late exit of a superseded connection makes a status row stale.
LEMMA StatusRowStep == Inv /\ [Next]_vars => StatusRowStaleOnlyByDuplicate'
  <1> USE ConnsAssumption, GatewaysAssumption
  <1> SUFFICES ASSUME Inv, TypeOK', [Next]_vars PROVE StatusRowStaleOnlyByDuplicate'
    BY Typing DEF Inv
  <1> USE DEF Inv, TypeOK, InitPoints, clientVars, mqttVars, Announced, OwnerOrDuplicate,
             StatusRowStaleOnlyByDuplicate, Registered
  <1>1. ASSUME NEW c \in Conns, accept_and_dispatch(c) PROVE StatusRowStaleOnlyByDuplicate'
    BY <1>1 DEF accept_and_dispatch
  <1>2. ASSUME NEW c \in Conns, StopDuplicate(c) PROVE StatusRowStaleOnlyByDuplicate'
    BY <1>2 DEF StopDuplicate
  <1>3. ASSUME NEW c \in Conns, poll_timeout_handler(c) PROVE StatusRowStaleOnlyByDuplicate'
    BY <1>3 DEF poll_timeout_handler
  <1>4. ASSUME NEW c \in Conns, NEW g \in Gateways, ReceivePgwid(c, g) PROVE StatusRowStaleOnlyByDuplicate'
    BY <1>4 DEF ReceivePgwid, Polled
  <1>5. ASSUME NEW c \in Conns, ReceiveInvalidPgwid(c) PROVE StatusRowStaleOnlyByDuplicate'
    BY <1>5 DEF ReceiveInvalidPgwid, Polled
  <1>6. ASSUME NEW c \in Conns, PeerLost(c) PROVE StatusRowStaleOnlyByDuplicate'
    BY <1>6 DEF PeerLost
  <1>7. ASSUME NEW c \in Conns, register_client(c) PROVE StatusRowStaleOnlyByDuplicate'
    BY <1>7 DEF register_client
  <1>8. ASSUME NEW c \in Conns, InitStatus(c) PROVE StatusRowStaleOnlyByDuplicate'
    BY <1>8 DEF InitStatus
  <1>9. ASSUME NEW c \in Conns, InitPull(c) PROVE StatusRowStaleOnlyByDuplicate'
    BY <1>9 DEF InitPull
  <1>10. ASSUME NEW c \in Conns, create_mqtt_client(c) PROVE StatusRowStaleOnlyByDuplicate'
    BY <1>10 DEF create_mqtt_client
  <1>11. ASSUME NEW c \in Conns, LeaveLoop(c) PROVE StatusRowStaleOnlyByDuplicate'
    BY <1>11 DEF LeaveLoop
  <1>12. ASSUME NEW c \in Conns, ExitStatus(c) PROVE StatusRowStaleOnlyByDuplicate'
    BY <1>12 DEF ExitStatus, RowDown
  <1>13. ASSUME NEW c \in Conns, ExitMqtt(c) PROVE StatusRowStaleOnlyByDuplicate'
    BY <1>13 DEF ExitMqtt
  <1>14. ASSUME NEW c \in Conns, unregister_client(c) PROVE StatusRowStaleOnlyByDuplicate'
    BY <1>14 DEF unregister_client
  <1>15. ASSUME NEW c \in Conns, Destroy(c) PROVE StatusRowStaleOnlyByDuplicate'
    BY <1>15 DEF Destroy
  <1>16. ASSUME NEW c \in Conns, BrokerAccept(c) PROVE StatusRowStaleOnlyByDuplicate'
    BY <1>16 DEF BrokerAccept
  <1>17. ASSUME NEW c \in Conns, on_connect(c) PROVE StatusRowStaleOnlyByDuplicate'
    BY <1>17 DEF on_connect
  <1>18. ASSUME NEW c \in Conns, on_disconnect(c) PROVE StatusRowStaleOnlyByDuplicate'
    BY <1>18 DEF on_disconnect
  <1>19. ASSUME NEW c \in Conns, SessionDrop(c) PROVE StatusRowStaleOnlyByDuplicate'
    BY <1>19 DEF SessionDrop
  <1>20. CASE UNCHANGED vars
    BY <1>20 DEF vars
  <1> QED
    BY <1>1, <1>2, <1>3, <1>4, <1>5, <1>6, <1>7, <1>8, <1>9, <1>10,
       <1>11, <1>12, <1>13, <1>14, <1>15, <1>16, <1>17, <1>18, <1>19, <1>20
    DEF Next, Receive, initCommunication, Exit, NetworkThread, Drained

LEMMA InitInv == Init => Inv
  <1> USE ConnsAssumption, GatewaysAssumption, DropsAssumption
  <1> SUFFICES ASSUME Init PROVE Inv
    OBVIOUS
  <1>1. TypeOK
    BY DEF Init, TypeOK, Points, Sessions, Rows
  <1>2. Announced /\ BrokerHolds
    BY DEF Init, Announced, BrokerHolds, InitPoints
  <1>3. NoDanglingEntry /\ OwnerOrDuplicate
    BY DEF Init, NoDanglingEntry, OwnerOrDuplicate, Registered
  <1>4. SessionOfLiveClient /\ StatusRowStaleOnlyByDuplicate
    BY DEF Init, SessionOfLiveClient, StatusRowStaleOnlyByDuplicate
  <1> QED
    BY <1>1, <1>2, <1>3, <1>4 DEF Inv

LEMMA InvInductive == Inv /\ [Next]_vars => Inv'
  BY Typing, AnnouncedStep, BrokerHoldsStep, NoDanglingEntryStep,
     OwnerOrDuplicateStep, SessionOfLiveClientStep, StatusRowStep DEF Inv

\* Every reachable state of the server satisfies the inductive invariant.
THEOREM Invariance == Spec => []Inv
  BY InitInv, InvInductive, PTL DEF Spec

\* The type invariant holds for any set of connections and gateways.
THEOREM TypeCorrect == Spec => []TypeOK
  BY Invariance, PTL DEF Inv

\* register_client and unregister_client never leave or meet a pointer to a
\* destroyed Client in Server::g_clients.
THEOREM RegistrySafe == Spec => []NoDanglingEntry
  BY Invariance, PTL DEF Inv

\* Every registered handler thread is the entry of its gateway or was told to
\* stop, so at most one serves a gateway for good.
THEOREM NobodyForgotten == Spec => []OwnerOrDuplicate
  BY Invariance, PTL DEF Inv

\* MQTT callbacks only ever reach existing Clients, and the broker holds one
\* session for each gateway.
THEOREM SessionsSafe == Spec => []SessionOfLiveClient
  BY Invariance, PTL DEF Inv

\* A stale gateway_status_info row is always the work of a superseded
\* connection that left late.
THEOREM StatusRowExplained == Spec => []StatusRowStaleOnlyByDuplicate
  BY Invariance, PTL DEF Inv
=============================================================================

------------------------------ MODULE OnDemand ------------------------------
(***************************************************************************)
(* On-demand requests of one connected gateway.                            *)
(*                                                                         *)
(* The mosquitto network thread validates every command of an MQTT message *)
(* (validate_request_ids), puts it into one of the queues ODM, Failed and  *)
(* RF_Meter_FUOTA or, for CANCEL, filters the queues, then sets ODM_Flag   *)
(* and writes the eventfd.  The handler thread of the connection wakes on  *)
(* the eventfd and runs process_ondemand_request.  The queues have no lock *)
(* of their own: the two threads interleave between queue operations.      *)
(*                                                                         *)
(* One exchange with the mesh (Process_ODM_request) is a step with all its *)
(* outcomes; module OdmExchange has its details.  The two request tables   *)
(* of the database are one function, from request to the last status       *)
(* written for it.  cancelled_requests is a set: every element is treated  *)
(* alike.                                                                  *)
(***************************************************************************)
EXTENDS Naturals, Sequences

CONSTANTS
  Ids,             \* request identifiers
  Messages,        \* payloads the broker may deliver: sequences of items
  MAX_QUEUE_SIZE,  \* capacity of each queue (500 in the code)
  MaxDeliveries,   \* bound: MQTT messages in a behaviour
  MaxPackets       \* bound: packets the gateway sends by itself

\* Command types as far as they are treated differently: 13 and 14 (ping), 27
\* (fuota), 28 (mfuota) and all others (profile).  A command is well formed,
\* has fewer than five parts (short) or another wrong number of them
\* (badparts), or has a wrong field after its numeric request identifier.
Commands == [op: {"CMD"}, id: Ids,
             class: {"ping", "fuota", "mfuota", "profile"},
             form: {"ok", "short", "badparts", "badfield"}]
Cancels  == [op: {"CANCEL"}, ids: SUBSET Ids]

\* A payload without any command would only write the eventfd.
ASSUME MessagesAssumption ==
  Messages \subseteq Seq(Commands \cup Cancels) \ {<<>>}
ASSUME BoundsAssumption == /\ MAX_QUEUE_SIZE \in Nat \ {0}
                           /\ MaxDeliveries \in Nat
                           /\ MaxPackets \in Nat

VARIABLES
  ODM, Failed, RF_Meter_FUOTA,  \* the queues
  cancelled_requests,           \* identifiers to be marked as cancelled
  seen,             \* the identifier deques of the duplicate check, by class
  ODM_Flag, eventfd,
  mpc, todo,                    \* mosquitto thread: control, items
  temp_queue, cmd_bytes,        \* its filter: commands kept, front looked at
  hpc, current,                 \* handler thread: control, command served
  gatewayStatus,
  status,                       \* the rows of the request tables
  readable,                     \* the gateway's socket has data
  deliveries, packets,          \* how much of the bounds is used
  skipped, disturbed            \* history, for the properties only

mqttVars == <<seen, mpc, todo, temp_queue, cmd_bytes, deliveries>>
handlerVars == <<hpc, current, gatewayStatus, status, readable, packets>>
queueVars == <<ODM, Failed, RF_Meter_FUOTA, cancelled_requests>>
signalVars == <<ODM_Flag, eventfd>>
history == <<skipped, disturbed>>
vars == <<queueVars, mqttVars, handlerVars, signalVars, history>>

NoCommand == [op |-> "NONE"]
\* special_req_ids, FUOTA_req_ids and global_seen_req_ids
Deques == {"ping", "fuota", "profile"}
Statuses == {"REQUESTED", "IN_PROGRESS", "SUCCESS_STATUS", "FAILED",
             "FAILED_NO_GW_RESPONSE", "FAILED_INVALID_REQUEST", "CANCELLED",
             "GW_DISCONNECTED"}

(***************************************************************************)
(* Handler control points: poll (in handle_client's loop), pull (in the    *)
(* pull cycle), then process_ondemand_request: acquire, read, cancel,      *)
(* failed, fuota, odm (loop head), work, done, finish; after the loop of   *)
(* handle_client exit, exitpop, destroy and gone; and undefined: a pop()   *)
(* of an empty std::queue or a read past the end of a vector, after which  *)
(* the program may do anything.                                            *)
(***************************************************************************)
HandlerPoints == {"poll", "pull", "acquire", "read", "cancel", "failed",
                  "fuota", "odm", "work", "done", "finish", "exit",
                  "exitpop", "destroy", "gone", "undefined"}
MqttPoints == {"idle", "parse", "filter", "filterpop", "push", "notify"}

TypeOK ==
  /\ ODM \in Seq(Commands) /\ Failed \in Seq(Commands)
  /\ RF_Meter_FUOTA \in Seq(Commands) /\ temp_queue \in Seq(Commands)
  /\ Len(ODM) <= MAX_QUEUE_SIZE
  /\ Len(Failed) <= MAX_QUEUE_SIZE
  /\ cancelled_requests \subseteq Ids
  /\ seen \in [Deques -> Seq(Ids)]
  /\ \A k \in Deques : Len(seen[k]) <= 2
  /\ ODM_Flag \in {0, 1} /\ eventfd \in BOOLEAN
  /\ mpc \in MqttPoints /\ todo \in Seq(Commands \cup Cancels)
  /\ cmd_bytes \in Commands \cup {NoCommand}
  /\ hpc \in HandlerPoints /\ current \in Commands \cup {NoCommand}
  /\ gatewayStatus \in {"CONNECTED", "DISCONNECTED"}
  /\ status \in [Ids -> Statuses]
  /\ readable \in BOOLEAN
  /\ deliveries \in 0..MaxDeliveries /\ packets \in 0..MaxPackets
  /\ skipped \subseteq Ids /\ disturbed \in BOOLEAN

Init ==
  /\ ODM = <<>> /\ Failed = <<>> /\ RF_Meter_FUOTA = <<>>
  /\ temp_queue = <<>> /\ todo = <<>> /\ cmd_bytes = NoCommand
  /\ cancelled_requests = {}
  /\ seen = [k \in Deques |-> <<>>]
  /\ ODM_Flag = 0 /\ eventfd = FALSE
  /\ mpc = "idle" /\ hpc = "poll" /\ current = NoCommand
  /\ gatewayStatus = "CONNECTED"
  /\ status = [i \in Ids |-> "REQUESTED"]
  /\ readable = FALSE
  /\ deliveries = 0 /\ packets = 0
  /\ skipped = {} /\ disturbed = FALSE

-----------------------------------------------------------------------------
(* The mosquitto thread.                                                   *)

\* ~MQTTClient joins the thread; nothing is promised after undefined.
Alive == hpc \notin {"gone", "undefined"}

\* on_message is called with the next payload.
on_message(m) ==
  /\ Alive
  /\ mpc = "idle"
  /\ deliveries < MaxDeliveries
  /\ deliveries' = deliveries + 1
  /\ todo' = m
  /\ mpc' = "parse"
  /\ UNCHANGED <<queueVars, seen, temp_queue, cmd_bytes, handlerVars,
                 signalVars, history>>

\* The check of the request identifier: the deque of the class keeps the last
\* two identifiers that passed, whatever becomes of the command afterwards.
Deque(k) == IF k = "mfuota" THEN "profile" ELSE k
Seen(k, id) == \E n \in DOMAIN seen[Deque(k)] : seen[Deque(k)][n] = id
Remember(s, id) ==
  IF Len(s) < 2 THEN Append(s, id) ELSE <<s[2], id>>

\* Validate_command knows the types up to 25 only.
Validate_command(cmd) == cmd.class \notin {"fuota", "mfuota"}

Valid(cmd) ==
  /\ ~Seen(cmd.class, cmd.id)
  /\ cmd.form = "ok"
  /\ Validate_command(cmd)

\* Faulty variant: the capacity is tested with > instead of >=.
EnqueueOffByOne(q, cmd) ==
  Append(IF Len(q) > MAX_QUEUE_SIZE THEN Tail(q) ELSE q, cmd)

\* A full queue loses its oldest element.
Enqueue(q, cmd) ==
  Append(IF Len(q) >= MAX_QUEUE_SIZE THEN Tail(q) ELSE q, cmd)

\* One command of the message is validated and queued.
ParseCommand ==
  LET cmd == Head(todo)
  IN /\ Alive
     /\ mpc = "parse" /\ todo # <<>> /\ Head(todo).op = "CMD"
     /\ seen' = IF /\ cmd.form \in {"ok", "badfield"}
                   /\ ~Seen(cmd.class, cmd.id)
                  THEN [seen EXCEPT ![Deque(cmd.class)] = Remember(@, cmd.id)]
                  ELSE seen
     /\ IF ~Valid(cmd)
          THEN /\ Failed' = Enqueue(Failed, cmd)
               /\ UNCHANGED <<ODM, RF_Meter_FUOTA, skipped, disturbed>>
          ELSE IF cmd.class \in {"fuota", "mfuota"}
          THEN /\ RF_Meter_FUOTA' = Enqueue(RF_Meter_FUOTA, cmd)
               /\ UNCHANGED <<ODM, Failed, skipped, disturbed>>
          ELSE /\ ODM' = Enqueue(ODM, cmd)
               /\ IF Len(ODM) >= MAX_QUEUE_SIZE
                    THEN /\ skipped' = skipped \cup {Head(ODM).id}
                         /\ disturbed' = TRUE
                    ELSE UNCHANGED <<skipped, disturbed>>
               /\ UNCHANGED <<Failed, RF_Meter_FUOTA>>
     /\ todo' = Tail(todo)
     /\ UNCHANGED <<cancelled_requests, mpc, temp_queue, cmd_bytes,
                    deliveries, handlerVars, signalVars>>

\* CANCEL: remove_commands_by_req_id starts with an empty temporary queue.
ParseCancel ==
  /\ Alive
  /\ mpc = "parse" /\ todo # <<>> /\ Head(todo).op = "CANCEL"
  /\ temp_queue' = <<>>
  /\ mpc' = "filter"
  /\ UNCHANGED <<queueVars, seen, todo, cmd_bytes, deliveries, handlerVars,
                 signalVars, history>>

\* History.  Both threads take the front of ODM in two steps: they look at it
\* (front) and remove it later (pop).  A pop that removes another command than
\* the one looked at loses that command: nobody served, cancelled or marked it.
Lost(lookedAt) ==
  skipped' = skipped \cup (IF Head(ODM) = lookedAt THEN {} ELSE {Head(ODM).id})

\* The filter takes a step while the handler is between its front and its pop.
Disturb ==
  disturbed' = \/ disturbed
               \/ hpc \in {"work", "done", "exit", "exitpop", "destroy"}

\* The handler pops while the filter is running.
DisturbFilter == disturbed' = (disturbed \/ mpc \in {"filter", "filterpop"})

\* One turn of its loop: the front is copied to the temporary queue unless it
\* is to be cancelled ...
FilterFront ==
  LET cmd == Head(ODM)
  IN /\ Alive
     /\ mpc = "filter" /\ ODM # <<>>
     /\ cmd_bytes' = cmd
     /\ temp_queue' = IF cmd.id \in Head(todo).ids
                        THEN temp_queue ELSE Append(temp_queue, cmd)
     /\ mpc' = "filterpop"
     /\ Disturb
     /\ UNCHANGED <<queueVars, seen, todo, deliveries, handlerVars,
                    signalVars, skipped>>

\* ... and then popped, whatever it is by now.
FilterPop ==
  /\ Alive
  /\ mpc = "filterpop"
  /\ IF ODM = <<>>
       THEN hpc' = "undefined" /\ UNCHANGED <<ODM, skipped>>
       ELSE ODM' = Tail(ODM) /\ Lost(cmd_bytes) /\ UNCHANGED hpc
  /\ mpc' = "filter"
  /\ cmd_bytes' = NoCommand
  /\ Disturb
  /\ UNCHANGED <<Failed, RF_Meter_FUOTA, cancelled_requests, seen, todo,
                 temp_queue, deliveries, current, gatewayStatus, status,
                 readable, packets, signalVars>>

\* The queue is replaced by the temporary one; then the FUOTA queue.
FilterSwap ==
  /\ Alive
  /\ mpc = "filter" /\ ODM = <<>>
  /\ ODM' = temp_queue
  /\ IF RF_Meter_FUOTA = <<>>
       THEN UNCHANGED RF_Meter_FUOTA
       ELSE RF_Meter_FUOTA' = SelectSeq(RF_Meter_FUOTA,
                                LAMBDA cmd : cmd.id \notin Head(todo).ids)
  /\ temp_queue' = <<>>
  /\ mpc' = "push"
  /\ Disturb
  /\ UNCHANGED <<Failed, cancelled_requests, seen, todo, cmd_bytes,
                 deliveries, handlerVars, signalVars, skipped>>

\* Under cancelled_mutex.
PushCancelled ==
  /\ Alive
  /\ mpc = "push"
  /\ cancelled_requests' = cancelled_requests \cup Head(todo).ids
  /\ todo' = Tail(todo)
  /\ mpc' = "parse"
  /\ UNCHANGED <<ODM, Failed, RF_Meter_FUOTA, seen, temp_queue, cmd_bytes,
                 deliveries, handlerVars, signalVars, history>>

SetOdmFlag ==
  /\ Alive
  /\ mpc = "parse" /\ todo = <<>>
  /\ ODM_Flag' = 1
  /\ mpc' = "notify"
  /\ UNCHANGED <<queueVars, seen, todo, temp_queue, cmd_bytes, deliveries,
                 handlerVars, eventfd, history>>

\* Faulty variant: the handler is only woken for the ODM queue.
NotifyForOdmOnly ==
  /\ Alive
  /\ mpc = "notify"
  /\ eventfd' = (eventfd \/ ODM # <<>>)
  /\ mpc' = "idle"
  /\ UNCHANGED <<queueVars, seen, todo, temp_queue, cmd_bytes, deliveries,
                 handlerVars, ODM_Flag, history>>

Notify ==
  /\ Alive
  /\ mpc = "notify"
  /\ eventfd' = TRUE
  /\ mpc' = "idle"
  /\ UNCHANGED <<queueVars, seen, todo, temp_queue, cmd_bytes, deliveries,
                 handlerVars, ODM_Flag, history>>

MqttThread == \/ ParseCommand \/ ParseCancel \/ FilterFront \/ FilterPop
              \/ FilterSwap \/ PushCancelled \/ SetOdmFlag \/ Notify

-----------------------------------------------------------------------------
(* The handler thread: the poll loop of handle_client.                     *)

\* The gateway sends something by itself, or closes the connection.
GatewaySends ==
  /\ Alive
  /\ packets < MaxPackets /\ ~readable
  /\ packets' = packets + 1
  /\ readable' = TRUE
  /\ UNCHANGED <<queueVars, mqttVars, hpc, current, gatewayStatus, status,
                 signalVars, history>>

\* The socket goes before the eventfd when both are ready.
PollSocket ==
  /\ hpc = "poll" /\ gatewayStatus = "CONNECTED"
  /\ readable
  /\ readable' = FALSE
  /\ gatewayStatus' \in {"CONNECTED", "DISCONNECTED"}
  /\ UNCHANGED <<queueVars, mqttVars, hpc, current, status, packets,
                 signalVars, history>>

PollEventfd ==
  /\ hpc = "poll" /\ gatewayStatus = "CONNECTED"
  /\ eventfd /\ ~readable
  /\ hpc' = "acquire"
  /\ UNCHANGED <<queueVars, mqttVars, current, gatewayStatus, status,
                 readable, packets, signalVars, history>>

\* poll() times out: the pull cycle starts unless ODM_Flag is set.
PollTimeout ==
  /\ hpc = "poll" /\ gatewayStatus = "CONNECTED"
  /\ ~eventfd /\ ~readable
  /\ ODM_Flag = 0
  /\ hpc' = "pull"
  /\ UNCHANGED <<queueVars, mqttVars, current, gatewayStatus, status,
                 readable, packets, signalVars, history>>

\* The socket is read outside the poll loop: what the gateway sent by itself
\* may be received there, and the gateway may be found gone.
ReceiveAny ==
  /\ readable' \in {readable, FALSE}
  /\ gatewayStatus' \in {"CONNECTED", "DISCONNECTED"}

\* The cycle ends: after the node in hand when ODM_Flag is set or the gateway
\* is gone, otherwise after the last node.
PullEnds ==
  /\ hpc = "pull"
  /\ ReceiveAny
  /\ hpc' = "poll"
  /\ UNCHANGED <<queueVars, mqttVars, current, status, packets, signalVars,
                 history>>

(* Client::process_ondemand_request.                                       *)

\* The network lock of the NMS is asked for, for two minutes at most; then
\* the request is processed in any case.  Meanwhile data is received.
AcquireNetwork ==
  /\ hpc = "acquire"
  /\ ReceiveAny
  /\ hpc' = "read"
  /\ UNCHANGED <<queueVars, mqttVars, current, status, packets, signalVars,
                 history>>

EventfdRead ==
  /\ hpc = "read"
  /\ eventfd' = FALSE
  /\ hpc' = "cancel"
  /\ UNCHANGED <<queueVars, mqttVars, current, gatewayStatus, status,
                 readable, packets, ODM_Flag, history>>

\* Faulty variant: the identifier is taken but its row is not written.
DrainCancelledNoUpdate ==
  /\ hpc = "cancel"
  /\ IF cancelled_requests = {}
       THEN hpc' = "failed" /\ UNCHANGED cancelled_requests
       ELSE cancelled_requests' = {} /\ UNCHANGED hpc
  /\ UNCHANGED <<ODM, Failed, RF_Meter_FUOTA, mqttVars, current, status,
                 gatewayStatus, readable, packets, signalVars, history>>

DrainCancelled ==
  /\ hpc = "cancel"
  /\ IF cancelled_requests = {}
       THEN /\ hpc' = "failed"
            /\ UNCHANGED <<cancelled_requests, status>>
       ELSE \E id \in cancelled_requests :
              /\ status' = [status EXCEPT ![id] = "CANCELLED"]
              /\ cancelled_requests' = cancelled_requests \ {id}
              /\ UNCHANGED hpc
  /\ UNCHANGED <<ODM, Failed, RF_Meter_FUOTA, mqttVars, current,
                 gatewayStatus, readable, packets, signalVars, history>>

\* The type is read from the fifth part also when there are fewer: that may
\* go unnoticed or end the program.
DrainFailed ==
  /\ hpc = "failed"
  /\ \/ /\ Failed = <<>>
        /\ hpc' = "fuota"
        /\ UNCHANGED <<Failed, status>>
     \/ /\ Failed # <<>>
        /\ status' = [status EXCEPT ![Head(Failed).id] =
                                        "FAILED_INVALID_REQUEST"]
        /\ Failed' = Tail(Failed)
        /\ UNCHANGED hpc
     \/ /\ Failed # <<>> /\ Head(Failed).form = "short"
        /\ hpc' = "undefined"
        /\ UNCHANGED <<Failed, status>>
  /\ UNCHANGED <<ODM, RF_Meter_FUOTA, cancelled_requests, mqttVars, current,
                 gatewayStatus, readable, packets, signalVars, history>>

\* At most one FUOTA command is taken and run.
process_fuota_queue ==
  /\ hpc = "fuota"
  /\ RF_Meter_FUOTA' = IF RF_Meter_FUOTA = <<>> THEN <<>>
                                                ELSE Tail(RF_Meter_FUOTA)
  /\ hpc' = "odm"
  /\ UNCHANGED <<ODM, Failed, cancelled_requests, mqttVars, current,
                 gatewayStatus, status, readable, packets, signalVars, history>>

\* The head of the ODM loop: a pending CANCEL ends it; otherwise the front
\* command is copied and its row set to IN_PROGRESS.
OdmHead ==
  /\ hpc = "odm"
  /\ IF ODM = <<>> \/ cancelled_requests # {}
       THEN /\ hpc' = "finish"
            /\ UNCHANGED <<current, status>>
       ELSE /\ current' = Head(ODM)
            /\ status' = [status EXCEPT ![Head(ODM).id] = "IN_PROGRESS"]
            /\ hpc' = "work"
  /\ UNCHANGED <<queueVars, mqttVars, gatewayStatus, readable, packets,
                 signalVars, history>>

\* this->ODM.pop(): whatever is at the front now.
PopOdm ==
  IF ODM = <<>>
    THEN /\ hpc' = "undefined"
         /\ UNCHANGED <<ODM, history>>
    ELSE /\ hpc' = "odm"
         /\ ODM' = Tail(ODM)
         /\ Lost(current)
         /\ DisturbFilter

\* Faulty variant: the "continue" after the pop is missing.
OdmRejectNoContinue ==
  /\ hpc = "work"
  /\ status' = [status EXCEPT ![current.id] = "FAILED_INVALID_REQUEST"]
  /\ ODM' = IF ODM = <<>> THEN <<>> ELSE Tail(ODM)
  /\ hpc' = "done"
  /\ UNCHANGED <<Failed, RF_Meter_FUOTA, cancelled_requests, mqttVars,
                 current, gatewayStatus, readable, packets, signalVars,
                 history>>

\* The path of a multi-hop command is not in the source route table.
OdmReject ==
  /\ hpc = "work"
  /\ status' = [status EXCEPT ![current.id] = "FAILED_INVALID_REQUEST"]
  /\ PopOdm
  /\ UNCHANGED <<Failed, RF_Meter_FUOTA, cancelled_requests, mqttVars,
                 current, gatewayStatus, readable, packets, signalVars>>

\* Process_ODM_request ends: with a final status, and the gateway lost or not
\* (a disconnection may be met on the way to any of them); or without a status
\* because a write failed, which leaves gatewayStatus 0, that is, CONNECTED.
Process_ODM_request ==
  /\ hpc = "work"
  /\ \/ /\ \E s \in {"SUCCESS_STATUS", "FAILED", "FAILED_NO_GW_RESPONSE"} :
             status' = [status EXCEPT ![current.id] = s]
        /\ ReceiveAny
     \/ /\ gatewayStatus' = "CONNECTED"
        /\ readable' \in {readable, FALSE}
        /\ UNCHANGED status
  /\ hpc' = "done"
  /\ UNCHANGED <<queueVars, mqttVars, current, packets, signalVars, skipped,
                 disturbed>>

\* The command stays in the queue when the gateway is gone.
OdmDone ==
  /\ hpc = "done"
  /\ IF gatewayStatus = "DISCONNECTED"
       THEN hpc' = "finish" /\ UNCHANGED <<ODM, history>>
       ELSE PopOdm
  /\ UNCHANGED <<Failed, RF_Meter_FUOTA, cancelled_requests, mqttVars,
                 current, gatewayStatus, status, readable, packets,
                 signalVars>>

\* Faulty variant: the eventfd is cleared after the work instead of before.
OdmFinishClearsEventfd ==
  /\ hpc = "finish"
  /\ ODM_Flag' = 0
  /\ eventfd' = FALSE
  /\ current' = NoCommand
  /\ hpc' = "poll"
  /\ UNCHANGED <<queueVars, mqttVars, gatewayStatus, status, readable,
                 packets, history>>

\* ODM_Flag is reset and the network released.
OdmFinish ==
  /\ hpc = "finish"
  /\ ODM_Flag' = 0
  /\ current' = NoCommand
  /\ hpc' = "poll"
  /\ UNCHANGED <<queueVars, mqttVars, gatewayStatus, status, readable,
                 packets, eventfd, history>>

(* After the poll loop.                                                    *)

LeaveLoop ==
  /\ hpc = "poll" /\ gatewayStatus = "DISCONNECTED"
  /\ hpc' = "exit"
  /\ UNCHANGED <<queueVars, mqttVars, current, gatewayStatus, status,
                 readable, packets, signalVars, history>>

\* Faulty variant: the handler ends without looking at its queue.
DrainOnExitSkipped ==
  /\ hpc = "exit"
  /\ hpc' = "destroy"
  /\ UNCHANGED <<queueVars, mqttVars, current, gatewayStatus, status,
                 readable, packets, signalVars, history>>

\* The commands left in ODM are marked; the other queues are not looked at.
DrainOnExit ==
  /\ hpc = "exit"
  /\ IF ODM = <<>>
       THEN hpc' = "destroy" /\ UNCHANGED <<status, current>>
       ELSE /\ current' = Head(ODM)
            /\ status' = [status EXCEPT ![Head(ODM).id] = "GW_DISCONNECTED"]
            /\ hpc' = "exitpop"
  /\ UNCHANGED <<queueVars, mqttVars, gatewayStatus, readable, packets,
                 signalVars, history>>

ExitPop ==
  /\ hpc = "exitpop"
  /\ IF ODM = <<>>
       THEN hpc' = "undefined" /\ UNCHANGED <<ODM, history>>
       ELSE hpc' = "exit" /\ ODM' = Tail(ODM) /\ Lost(current) /\ DisturbFilter
  /\ UNCHANGED <<Failed, RF_Meter_FUOTA, cancelled_requests, mqttVars,
                 current, gatewayStatus, status, readable, packets,
                 signalVars>>

\* The Client unregisters and is destroyed; the mosquitto thread is cancelled
\* wherever it is.
Destroy ==
  /\ hpc = "destroy"
  /\ hpc' = "gone"
  /\ UNCHANGED <<queueVars, mqttVars, current, gatewayStatus, status,
                 readable, packets, signalVars, history>>

Handler ==
  \/ PollSocket \/ PollEventfd \/ PollTimeout \/ PullEnds
  \/ AcquireNetwork \/ EventfdRead \/ DrainCancelled \/ DrainFailed
  \/ process_fuota_queue \/ OdmHead \/ OdmReject \/ Process_ODM_request
  \/ OdmDone \/ OdmFinish \/ LeaveLoop \/ DrainOnExit
  \/ ExitPop \/ Destroy

Ended == ~Alive /\ UNCHANGED vars

Next ==
  \/ \E m \in Messages : on_message(m)
  \/ MqttThread
  \/ GatewaySends
  \/ Handler
  \/ Ended

\* Both threads go on whenever they can.  The broker need not deliver and the
\* gateway need not send anything.
Spec == Init /\ [][Next]_vars /\ WF_vars(MqttThread) /\ WF_vars(Handler)

-----------------------------------------------------------------------------
(* Properties.                                                             *)

\* The mosquitto thread will still write the eventfd, or has written it.
WakeupDue == eventfd \/ mpc # "idle"

\* No wake-up is lost: when the handler waits in poll() (or will return there
\* without looking at a queue again), anything left in a queue has a written
\* or still to be written eventfd behind it.  It rests on eventfd_read coming
\* before the queues are drained and eventfd_write after they are filled.
NoLostWakeup ==
  (/\ hpc \in {"poll", "pull"} /\ gatewayStatus = "CONNECTED"
   /\ ODM # <<>> \/ Failed # <<>> \/ cancelled_requests # {}) => WakeupDue

\* ODM_Flag, which keeps the pull cycle from starting, is never left set
\* without a request behind it: the handler will run and reset it.
FlagHasWakeup ==
  (hpc \in {"poll", "pull"} /\ ODM_Flag = 1) => WakeupDue

\* An accepted command is removed from ODM without having been served, marked
\* or cancelled only when the queue was full, or when the filter of a CANCEL
\* and the handler were both at work on the queue: the filter took a step
\* while the handler had the front in hand, or the handler popped while the
\* filter was running.  Every pop of either thread counts (Lost).
SkippedOnlyIfDisturbed == skipped # {} => disturbed

\* Every command that enters the ODM queue before its handler has drained it
\* for the last time leaves it again: it is served, cancelled, pushed out, or
\* marked when the gateway disconnects.  The exception is a CANCEL that works
\* on the queue during that last drain.
Queued(id) == \/ \E n \in DOMAIN ODM : ODM[n].id = id
              \/ \E n \in DOMAIN temp_queue : temp_queue[n].id = id

OdmDrained ==
  \A id \in Ids :
    (Queued(id) /\ hpc \notin {"destroy", "gone"}) ~>
      \/ ~Queued(id)
      \/ hpc = "undefined"
      \/ hpc = "gone" /\ (disturbed \/ mpc \in {"filter", "filterpop"})

\* A CANCEL is always recorded in the request's row while the gateway stays
\* connected.
CancelRecorded ==
  \A id \in Ids :
    id \in cancelled_requests ~>
      \/ status[id] = "CANCELLED"
      \/ hpc \in {"exit", "destroy", "gone", "undefined"}

\* client.cpp:1368, "Remove the processed command from the front of the ODM
\* queue": what pop() removes is the command that was processed.
PopRemovesProcessed ==
  [][(hpc = "done" /\ hpc' = "odm") => Head(ODM) = current]_vars
=============================================================================

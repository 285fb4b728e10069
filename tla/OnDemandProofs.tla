--------------------------- MODULE OnDemandProofs ---------------------------
(***************************************************************************)
(* Proofs about OnDemand for any set of requests and messages and for any  *)
(* queue capacity.  The hand-over between the two threads has no lock; the *)
(* proofs rest on Wakeup, which says for each queue from which control     *)
(* points of the handler on its contents need a new wake-up.               *)
(***************************************************************************)
EXTENDS OnDemand, TLAPS

\* The mosquitto thread at work on a CANCEL has that item in front of it, and
\* the two halves of the queue it filters fit into the queue again.
CancelInHand ==
  /\ mpc \in {"filter", "filterpop", "push"} =>
       todo # <<>> /\ Head(todo) \in Cancels
  /\ mpc = "filter" => Len(temp_queue) + Len(ODM) <= MAX_QUEUE_SIZE
  /\ mpc = "filterpop" => /\ Len(temp_queue) + Len(ODM) <= MAX_QUEUE_SIZE + 1
                          /\ Len(temp_queue) <= MAX_QUEUE_SIZE

\* What the handler has in hand is a command.
CommandInHand == hpc \in {"work", "done"} => current \in Commands

\* Once the handler is past the point where it looks at a queue, what is in
\* that queue has a wake-up behind it.
Wakeup ==
  /\ hpc \in {"pull", "acquire"} => gatewayStatus = "CONNECTED"
  /\ (/\ cancelled_requests # {}
      /\ hpc \in {"poll", "pull", "acquire", "read", "failed", "fuota", "odm",
                  "work", "done", "finish"}) => WakeupDue
  /\ (/\ Failed # <<>>
      /\ hpc \in {"poll", "pull", "acquire", "read", "fuota", "odm", "work",
                  "done", "finish"}) => WakeupDue
  /\ (/\ ODM # <<>> /\ gatewayStatus = "CONNECTED"
      /\ hpc \in {"poll", "pull", "acquire", "read", "finish"}) => WakeupDue
  /\ (ODM_Flag = 1 /\ hpc \in {"poll", "pull", "acquire", "read"})
       => WakeupDue

\* Nothing is skipped, and what each thread looked at and is about to pop is
\* the front of the queue, until the queue is disturbed.
FrontInHand ==
  ~disturbed => /\ skipped = {}
                /\ hpc \in {"work", "done", "exitpop"} =>
                     ODM # <<>> /\ Head(ODM) = current
                /\ mpc = "filterpop" =>
                     ODM # <<>> /\ Head(ODM) = cmd_bytes

\* No FUOTA command gets past Validate_command.
NoFuota == RF_Meter_FUOTA = <<>>

Base == TypeOK /\ CancelInHand /\ CommandInHand /\ NoFuota

Inv == Base /\ Wakeup /\ FrontInHand

\* What the two queue operations do to a queue of commands.
LEMMA EnqueueType ==
  ASSUME NEW q \in Seq(Commands), Len(q) <= MAX_QUEUE_SIZE,
         NEW cmd \in Commands
  PROVE  /\ Enqueue(q, cmd) \in Seq(Commands)
         /\ Enqueue(q, cmd) # <<>>
         /\ Len(Enqueue(q, cmd)) <= MAX_QUEUE_SIZE
         /\ Len(q) < MAX_QUEUE_SIZE /\ q # <<>> => Head(Enqueue(q, cmd)) = Head(q)
  <1> USE BoundsAssumption
  <1>1. CASE Len(q) >= MAX_QUEUE_SIZE
    <2>1. q # <<>> /\ Tail(q) \in Seq(Commands) /\ Len(Tail(q)) = Len(q) - 1
      BY <1>1
    <2>2. Enqueue(q, cmd) = Append(Tail(q), cmd)
      BY <1>1 DEF Enqueue
    <2> QED
      BY <1>1, <2>1, <2>2
  <1>2. CASE Len(q) < MAX_QUEUE_SIZE
    <2>1. Enqueue(q, cmd) = Append(q, cmd)
      BY <1>2 DEF Enqueue
    <2> QED
      BY <1>2, <2>1
  <1> QED
    BY <1>1, <1>2

LEMMA RememberType ==
  ASSUME NEW s \in Seq(Ids), Len(s) <= 2, NEW id \in Ids
  PROVE  Remember(s, id) \in Seq(Ids) /\ Len(Remember(s, id)) <= 2
  BY DEF Remember

\* The front of a nonempty list of items is an item.
LEMMA HeadTail ==
  ASSUME NEW S, NEW q \in Seq(S), q # <<>>
  PROVE  Head(q) \in S /\ Tail(q) \in Seq(S) /\ Len(Tail(q)) = Len(q) - 1
  OBVIOUS

\* The history stays a set of identifiers, and a pop of what was looked at
\* adds nothing to it.
LEMMA LostType ==
  ASSUME TypeOK, ODM # <<>>, NEW c, Lost(c)
  PROVE  /\ skipped' \subseteq Ids
         /\ Head(ODM) = c => skipped' = skipped
  <1>1. Head(ODM) \in Commands
    BY HeadTail DEF TypeOK
  <1>2. Head(ODM).id \in Ids
    BY <1>1 DEF Commands
  <1> QED
    BY <1>2 DEF Lost, TypeOK

LEMMA OpsDiffer ==
  /\ \A c \in Commands : c.op = "CMD" /\ c.id \in Ids
                         /\ Deque(c.class) \in Deques
  /\ \A c \in Cancels : c.op = "CANCEL" /\ c.ids \subseteq Ids
  BY DEF Commands, Cancels, Deque, Deques
\* Types and what is in hand are preserved by every step.
LEMMA BaseStep == Base /\ [Next]_vars => Base'
  <1> USE BoundsAssumption, MessagesAssumption
  <1> SUFFICES ASSUME Base, [Next]_vars PROVE Base'
    OBVIOUS
  <1> USE DEF Base, TypeOK, CancelInHand, CommandInHand, NoFuota, HandlerPoints, MqttPoints,
             Statuses, NoCommand, queueVars, mqttVars, handlerVars, signalVars, history
  <1>1. ASSUME NEW m \in Messages, on_message(m) PROVE Base'
    BY <1>1 DEF on_message
  <1>2. CASE ParseCommand
    <2> DEFINE cmd == Head(todo)
    <2>1. cmd \in Commands /\ Tail(todo) \in Seq(Commands \cup Cancels)
      BY <1>2, HeadTail, OpsDiffer DEF ParseCommand
    <2>2. /\ Enqueue(ODM, cmd) \in Seq(Commands)
          /\ Len(Enqueue(ODM, cmd)) <= MAX_QUEUE_SIZE
          /\ Enqueue(Failed, cmd) \in Seq(Commands)
          /\ Len(Enqueue(Failed, cmd)) <= MAX_QUEUE_SIZE
      BY <2>1, EnqueueType
    <2>3. ~Valid(cmd) \/ cmd.class \notin {"fuota", "mfuota"}
      BY DEF Valid, Validate_command
    <2>4. /\ seen' \in [Deques -> Seq(Ids)]
          /\ \A k \in Deques : Len(seen'[k]) <= 2
      <3>1. cmd.id \in Ids /\ Deque(cmd.class) \in Deques
        BY <2>1, OpsDiffer
      <3> DEFINE d == Deque(cmd.class)
                 r == Remember(seen[d], cmd.id)
      <3>2. r \in Seq(Ids) /\ Len(r) <= 2
        BY <3>1, RememberType
      <3>3. seen' = seen \/ seen' = [seen EXCEPT ![d] = r]
        BY <1>2 DEF ParseCommand
      <3> HIDE DEF r, d
      <3> QED
        BY <3>1, <3>2, <3>3 DEF d
    <2>5. skipped' \subseteq Ids /\ disturbed' \in BOOLEAN
      <3>1. CASE Len(ODM) >= MAX_QUEUE_SIZE
        <4>1. Head(ODM) \in Commands
          BY <3>1, HeadTail
        <4> QED
          BY <1>2, <4>1, OpsDiffer DEF ParseCommand
      <3>2. CASE ~(Len(ODM) >= MAX_QUEUE_SIZE)
        BY <1>2, <3>2 DEF ParseCommand
      <3> QED
        BY <3>1, <3>2
    <2>6. /\ ODM' \in {ODM, Enqueue(ODM, cmd)}
          /\ Failed' \in {Failed, Enqueue(Failed, cmd)}
          /\ RF_Meter_FUOTA' = RF_Meter_FUOTA
      BY <1>2, <2>3 DEF ParseCommand
    <2> HIDE DEF cmd
    <2> QED
      BY SMTT(30), <1>2, <2>1, <2>2, <2>4, <2>5, <2>6 DEF ParseCommand, cmd
  <1>3. CASE ParseCancel
    <2>1. Head(todo) \in Cancels
      BY <1>3, HeadTail, OpsDiffer DEF ParseCancel
    <2> QED
      BY <1>3, <2>1 DEF ParseCancel
  <1>4. CASE FilterFront
    <2>1. Head(ODM) \in Commands
      BY <1>4, HeadTail DEF FilterFront
    <2>2. /\ temp_queue' \in Seq(Commands)
          /\ Len(temp_queue') <= Len(temp_queue) + 1
          /\ Len(ODM) >= 1
      BY <1>4, <2>1 DEF FilterFront
    <2> QED
      BY <1>4, <2>2 DEF FilterFront, Disturb
  <1>5. CASE FilterPop
    <2>1. CASE ODM = <<>>
      BY <1>5, <2>1 DEF FilterPop, Disturb
    <2>2. CASE ODM # <<>>
      <3>1. /\ Tail(ODM) \in Seq(Commands) /\ Len(Tail(ODM)) = Len(ODM) - 1
            /\ ODM' = Tail(ODM)
        BY <1>5, <2>2, HeadTail DEF FilterPop
      <3>2. skipped' \subseteq Ids
        BY <1>5, <2>2, LostType DEF FilterPop
      <3> QED
        BY <1>5, <2>2, <3>1, <3>2 DEF FilterPop, Disturb
    <2> QED
      BY <2>1, <2>2
  <1>6. CASE FilterSwap
    BY <1>6 DEF FilterSwap, Disturb
  <1>7. CASE PushCancelled
    <2>1. /\ Head(todo).ids \subseteq Ids
          /\ Tail(todo) \in Seq(Commands \cup Cancels)
      BY <1>7, HeadTail, OpsDiffer DEF PushCancelled
    <2> QED
      BY <1>7, <2>1 DEF PushCancelled
  <1>8. CASE SetOdmFlag
    BY <1>8 DEF SetOdmFlag
  <1>9. CASE Notify
    BY <1>9 DEF Notify
  <1>10. CASE GatewaySends
    BY <1>10 DEF GatewaySends
  <1>11. CASE PollSocket
    BY ZenonT(60), <1>11 DEF PollSocket
  <1>12. CASE PollEventfd
    BY <1>12 DEF PollEventfd
  <1>13. CASE PollTimeout
    BY <1>13 DEF PollTimeout
  <1>14. CASE PullEnds
    BY ZenonT(60), <1>14 DEF PullEnds, ReceiveAny
  <1>15. CASE AcquireNetwork
    BY ZenonT(60), <1>15 DEF AcquireNetwork, ReceiveAny
  <1>16. CASE EventfdRead
    BY ZenonT(60), <1>16 DEF EventfdRead
  <1>17. CASE DrainCancelled
    BY ZenonT(120), <1>17 DEF DrainCancelled
  <1>18. CASE DrainFailed
    <2>1. CASE Failed = <<>>
      BY <1>18, <2>1 DEF DrainFailed
    <2>2. CASE Failed # <<>>
      <3>1. /\ Head(Failed).id \in Ids /\ Tail(Failed) \in Seq(Commands)
            /\ Len(Tail(Failed)) = Len(Failed) - 1
        BY <2>2, HeadTail, OpsDiffer
      <3>2. CASE hpc' = "undefined" /\ UNCHANGED <<Failed, status>>
        BY <1>18, <3>2 DEF DrainFailed
      <3>3. CASE UNCHANGED hpc /\ Failed' = Tail(Failed)
        <4>1. Failed' \in Seq(Commands) /\ Len(Failed') <= MAX_QUEUE_SIZE
          BY <3>1, <3>3
        <4>2. status' \in [Ids -> Statuses]
          BY <1>18, <3>1, <3>3 DEF DrainFailed
        <4> QED
          BY <1>18, <3>3, <4>1, <4>2 DEF DrainFailed
      <3> QED
        BY <1>18, <2>2, <3>2, <3>3 DEF DrainFailed
    <2> QED
      BY <2>1, <2>2
  <1>19. CASE process_fuota_queue
    BY <1>19 DEF process_fuota_queue
  <1>20. CASE OdmHead
    <2>1. CASE ODM = <<>>
      BY <1>20, <2>1 DEF OdmHead
    <2>2. CASE ODM # <<>>
      <3>1. Head(ODM) \in Commands /\ Head(ODM).id \in Ids
        BY <2>2, HeadTail, OpsDiffer
      <3> QED
        BY <1>20, <3>1 DEF OdmHead
    <2> QED
      BY <2>1, <2>2
  <1>21. CASE OdmReject
    <2>1. current \in Commands /\ current.id \in Ids
      BY <1>21, OpsDiffer DEF OdmReject
    <2>2. CASE ODM = <<>>
      BY <1>21, <2>1, <2>2 DEF OdmReject, PopOdm
    <2>3. CASE ODM # <<>>
      <3>1. /\ Head(ODM).id \in Ids /\ Tail(ODM) \in Seq(Commands)
            /\ Len(Tail(ODM)) = Len(ODM) - 1
        BY <2>3, HeadTail, OpsDiffer
      <3>2. /\ ODM' = Tail(ODM)
            /\ UNCHANGED <<mpc, temp_queue>>
        BY <1>21, <2>3 DEF OdmReject, PopOdm, mqttVars
      <3>3. /\ ODM' \in Seq(Commands) /\ Len(ODM') <= MAX_QUEUE_SIZE
            /\ CancelInHand'
        BY <1>21, <3>1, <3>2 DEF OdmReject, PopOdm, mqttVars
      <3>4. skipped' \subseteq Ids
        BY <1>21, <2>3, LostType DEF OdmReject, PopOdm
      <3> QED
        BY <1>21, <2>1, <2>3, <3>1, <3>3, <3>4
        DEF OdmReject, PopOdm, DisturbFilter
    <2> QED
      BY <2>2, <2>3
  <1>22. CASE Process_ODM_request
    <2>1. /\ status' \in [Ids -> Statuses]
          /\ gatewayStatus' \in {"CONNECTED", "DISCONNECTED"}
      BY <1>22 DEF Process_ODM_request, ReceiveAny
    <2>2. hpc' = "done" /\ CommandInHand'
      BY <1>22 DEF Process_ODM_request, ReceiveAny
    <2> QED
      BY ZenonT(60), <1>22, <2>1, <2>2 DEF Process_ODM_request, ReceiveAny
  <1>23. CASE OdmDone
    <2>1. CASE ODM = <<>> \/ gatewayStatus = "DISCONNECTED"
      BY <1>23, <2>1 DEF OdmDone, PopOdm
    <2>2. CASE ODM # <<>> /\ gatewayStatus # "DISCONNECTED"
      <3>1. /\ Head(ODM).id \in Ids /\ Tail(ODM) \in Seq(Commands)
            /\ Len(Tail(ODM)) = Len(ODM) - 1
        BY <2>2, HeadTail, OpsDiffer
      <3>2. /\ ODM' = Tail(ODM)
            /\ UNCHANGED <<mpc, temp_queue>>
        BY <1>23, <2>2 DEF OdmDone, PopOdm, mqttVars
      <3>3. ODM' \in Seq(Commands) /\ Len(ODM') <= MAX_QUEUE_SIZE
        BY <3>1, <3>2
      <3>4. CancelInHand'
        <4>1. UNCHANGED todo
          BY <1>23 DEF OdmDone
        <4> QED
          BY <3>1, <3>2, <4>1
      <3>5. skipped' \subseteq Ids
        BY <1>23, <2>2, LostType DEF OdmDone, PopOdm
      <3> QED
        BY <1>23, <2>2, <3>1, <3>3, <3>4, <3>5
        DEF OdmDone, PopOdm, DisturbFilter
    <2> QED
      BY <2>1, <2>2
  <1>24. CASE OdmFinish
    BY <1>24 DEF OdmFinish
  <1>25. CASE LeaveLoop
    BY <1>25 DEF LeaveLoop
  <1>26. CASE DrainOnExit
    <2>1. CASE ODM = <<>>
      BY <1>26, <2>1 DEF DrainOnExit
    <2>2. CASE ODM # <<>>
      <3>1. Head(ODM) \in Commands /\ Head(ODM).id \in Ids
        BY <2>2, HeadTail, OpsDiffer
      <3>2. status' \in [Ids -> Statuses]
        BY <1>26, <2>2, <3>1 DEF DrainOnExit
      <3> QED
        BY ZenonT(120), <1>26, <2>2, <3>1, <3>2 DEF DrainOnExit
    <2> QED
      BY <2>1, <2>2
  <1>27. CASE ExitPop
    <2>1. CASE ODM = <<>>
      BY <1>27, <2>1 DEF ExitPop
    <2>2. CASE ODM # <<>>
      <3>1. Tail(ODM) \in Seq(Commands) /\ Len(Tail(ODM)) = Len(ODM) - 1
        BY <2>2, HeadTail
      <3>2. /\ ODM' = Tail(ODM)
            /\ UNCHANGED <<mpc, temp_queue>>
        BY <1>27, <2>2 DEF ExitPop, mqttVars
      <3>3. /\ ODM' \in Seq(Commands) /\ Len(ODM') <= MAX_QUEUE_SIZE
            /\ CancelInHand'
        BY <1>27, <3>1, <3>2 DEF ExitPop, mqttVars
      <3>4. skipped' \subseteq Ids
        BY <1>27, <2>2, LostType DEF ExitPop
      <3> QED
        BY <1>27, <2>2, <3>1, <3>3, <3>4 DEF ExitPop, DisturbFilter
    <2> QED
      BY <2>1, <2>2
  <1>28. CASE Destroy
    BY <1>28 DEF Destroy
  <1>29. CASE UNCHANGED vars
    BY <1>29 DEF vars
  <1> QED
    BY <1>1, <1>2, <1>3, <1>4, <1>5, <1>6, <1>7, <1>8, <1>9, <1>10, <1>11,
       <1>12, <1>13, <1>14, <1>15, <1>16, <1>17, <1>18, <1>19, <1>20,
       <1>21, <1>22, <1>23, <1>24, <1>25, <1>26, <1>27, <1>28, <1>29
    DEF Next, MqttThread, Handler, Ended

\* Every step that adds to a queue has its wake-up still before it; the
\* handler clears the eventfd before it looks at the queues.
LEMMA WakeupStep == Inv /\ [Next]_vars => Wakeup'
  <1> USE BoundsAssumption, MessagesAssumption
  <1> SUFFICES ASSUME Inv, [Next]_vars PROVE Wakeup'
    OBVIOUS
  <1> USE DEF Inv, Base, TypeOK, CancelInHand, CommandInHand, NoFuota, Wakeup, WakeupDue,
             HandlerPoints, MqttPoints, queueVars, mqttVars, handlerVars, signalVars, history
  <1>1. ASSUME NEW m \in Messages, on_message(m) PROVE Wakeup'
    BY <1>1 DEF on_message
  <1>2. CASE ParseCommand
    BY <1>2 DEF ParseCommand
  <1>3. CASE ParseCancel
    BY <1>3 DEF ParseCancel
  <1>4. CASE FilterFront
    BY <1>4 DEF FilterFront
  <1>5. CASE FilterPop
    BY <1>5 DEF FilterPop
  <1>6. CASE FilterSwap
    BY <1>6 DEF FilterSwap
  <1>7. CASE PushCancelled
    BY <1>7 DEF PushCancelled
  <1>8. CASE SetOdmFlag
    BY <1>8 DEF SetOdmFlag
  <1>9. CASE Notify
    BY <1>9 DEF Notify
  <1>10. CASE GatewaySends
    BY <1>10 DEF GatewaySends
  <1>11. CASE PollSocket
    BY <1>11 DEF PollSocket
  <1>12. CASE PollEventfd
    BY <1>12 DEF PollEventfd
  <1>13. CASE PollTimeout
    BY <1>13 DEF PollTimeout
  <1>14. CASE PullEnds
    BY <1>14 DEF PullEnds, ReceiveAny
  <1>15. CASE AcquireNetwork
    BY <1>15 DEF AcquireNetwork, ReceiveAny
  <1>16. CASE EventfdRead
    BY <1>16 DEF EventfdRead
  <1>17. CASE DrainCancelled
    BY <1>17 DEF DrainCancelled
  <1>18. CASE DrainFailed
    BY <1>18 DEF DrainFailed
  <1>19. CASE process_fuota_queue
    BY <1>19 DEF process_fuota_queue
  <1>20. CASE OdmHead
    BY <1>20 DEF OdmHead
  <1>21. CASE OdmReject
    BY <1>21 DEF OdmReject, PopOdm
  <1>22. CASE Process_ODM_request
    BY <1>22 DEF Process_ODM_request, ReceiveAny
  <1>23. CASE OdmDone
    BY <1>23 DEF OdmDone, PopOdm
  <1>24. CASE OdmFinish
    BY <1>24 DEF OdmFinish
  <1>25. CASE LeaveLoop
    BY <1>25 DEF LeaveLoop
  <1>26. CASE DrainOnExit
    BY <1>26 DEF DrainOnExit
  <1>27. CASE ExitPop
    BY <1>27 DEF ExitPop
  <1>28. CASE Destroy
    BY <1>28 DEF Destroy
  <1>29. CASE UNCHANGED vars
    BY <1>29 DEF vars
  <1> QED
    BY <1>1, <1>2, <1>3, <1>4, <1>5, <1>6, <1>7, <1>8, <1>9, <1>10, <1>11,
       <1>12, <1>13, <1>14, <1>15, <1>16, <1>17, <1>18, <1>19, <1>20,
       <1>21, <1>22, <1>23, <1>24, <1>25, <1>26, <1>27, <1>28, <1>29
    DEF Next, MqttThread, Handler, Ended

\* Only the handler takes the front command away, unless a CANCEL or an
\* overflow disturbs the queue.
LEMMA FrontStep == Inv /\ [Next]_vars => FrontInHand'
  <1> USE BoundsAssumption, MessagesAssumption
  <1> SUFFICES ASSUME Inv, [Next]_vars PROVE FrontInHand'
    OBVIOUS
  <1> USE DEF Inv, Base, TypeOK, CancelInHand, CommandInHand, NoFuota, FrontInHand,
             HandlerPoints, MqttPoints, queueVars, mqttVars, handlerVars, signalVars, history
  <1>1. ASSUME NEW m \in Messages, on_message(m) PROVE FrontInHand'
    BY <1>1 DEF on_message
  <1>2. CASE ParseCommand
    <2> DEFINE cmd == Head(todo)
    <2>1. cmd \in Commands
      BY <1>2, HeadTail, OpsDiffer DEF ParseCommand
    <2>2. CASE UNCHANGED <<ODM, skipped, disturbed>>
      BY <1>2, <2>2 DEF ParseCommand
    <2>3. CASE ODM' = Enqueue(ODM, cmd) /\ Len(ODM) < MAX_QUEUE_SIZE
      <3>1. /\ ODM' # <<>>
            /\ ODM # <<>> => Head(ODM') = Head(ODM)
        BY <2>1, <2>3, EnqueueType
      <3>2. /\ UNCHANGED <<skipped, disturbed, hpc, current>>
            /\ mpc' = "parse"
        BY <1>2, <2>3 DEF ParseCommand
      <3> QED
        BY <3>1, <3>2
    <2>4. CASE disturbed'
      BY <2>4
    <2> QED
      BY <1>2, <2>2, <2>3, <2>4 DEF ParseCommand
  <1>3. CASE ParseCancel
    BY <1>3 DEF ParseCancel
  <1>4. CASE FilterFront
    BY <1>4 DEF FilterFront, Disturb
  <1>5. CASE FilterPop
    BY <1>5, LostType DEF FilterPop, Disturb
  <1>6. CASE FilterSwap
    BY <1>6 DEF FilterSwap, Disturb
  <1>7. CASE PushCancelled
    BY <1>7 DEF PushCancelled
  <1>8. CASE SetOdmFlag
    BY <1>8 DEF SetOdmFlag
  <1>9. CASE Notify
    BY <1>9 DEF Notify
  <1>10. CASE GatewaySends
    BY <1>10 DEF GatewaySends
  <1>11. CASE PollSocket
    BY <1>11 DEF PollSocket
  <1>12. CASE PollEventfd
    BY <1>12 DEF PollEventfd
  <1>13. CASE PollTimeout
    BY <1>13 DEF PollTimeout
  <1>14. CASE PullEnds
    BY <1>14 DEF PullEnds, ReceiveAny
  <1>15. CASE AcquireNetwork
    BY <1>15 DEF AcquireNetwork, ReceiveAny
  <1>16. CASE EventfdRead
    BY <1>16 DEF EventfdRead
  <1>17. CASE DrainCancelled
    BY <1>17 DEF DrainCancelled
  <1>18. CASE DrainFailed
    BY <1>18 DEF DrainFailed
  <1>19. CASE process_fuota_queue
    BY <1>19 DEF process_fuota_queue
  <1>20. CASE OdmHead
    BY <1>20 DEF OdmHead
  <1>21. CASE OdmReject
    BY <1>21, LostType DEF OdmReject, PopOdm, DisturbFilter
  <1>22. CASE Process_ODM_request
    BY <1>22 DEF Process_ODM_request, ReceiveAny
  <1>23. CASE OdmDone
    BY <1>23, LostType DEF OdmDone, PopOdm, DisturbFilter
  <1>24. CASE OdmFinish
    BY <1>24 DEF OdmFinish
  <1>25. CASE LeaveLoop
    BY <1>25 DEF LeaveLoop
  <1>26. CASE DrainOnExit
    BY <1>26 DEF DrainOnExit
  <1>27. CASE ExitPop
    BY <1>27, LostType DEF ExitPop, DisturbFilter
  <1>28. CASE Destroy
    BY <1>28 DEF Destroy
  <1>29. CASE UNCHANGED vars
    BY <1>29 DEF vars
  <1> QED
    BY <1>1, <1>2, <1>3, <1>4, <1>5, <1>6, <1>7, <1>8, <1>9, <1>10, <1>11,
       <1>12, <1>13, <1>14, <1>15, <1>16, <1>17, <1>18, <1>19, <1>20,
       <1>21, <1>22, <1>23, <1>24, <1>25, <1>26, <1>27, <1>28, <1>29
    DEF Next, MqttThread, Handler, Ended

LEMMA InitInv == Init => Inv
  <1> USE BoundsAssumption
  <1> SUFFICES ASSUME Init PROVE Inv
    OBVIOUS
  <1>1. TypeOK
    <2>1. /\ <<>> \in Seq(Commands) /\ <<>> \in Seq(Ids)
          /\ <<>> \in Seq(Commands \cup Cancels)
      OBVIOUS
    <2>2. /\ seen \in [Deques -> Seq(Ids)]
          /\ \A k \in Deques : Len(seen[k]) <= 2
      BY <2>1 DEF Init
    <2>3. status \in [Ids -> Statuses]
      BY DEF Init, Statuses
    <2>4. Len(ODM) <= MAX_QUEUE_SIZE /\ Len(Failed) <= MAX_QUEUE_SIZE
      BY DEF Init
    <2>5. deliveries \in 0..MaxDeliveries /\ packets \in 0..MaxPackets
      BY DEF Init
    <2> QED
      BY <2>1, <2>2, <2>3, <2>4, <2>5
      DEF Init, TypeOK, HandlerPoints, MqttPoints, NoCommand
  <1>2. CancelInHand /\ CommandInHand /\ NoFuota
    BY DEF Init, CancelInHand, CommandInHand, NoFuota
  <1>3. Wakeup /\ FrontInHand
    BY DEF Init, Wakeup, FrontInHand, WakeupDue
  <1> QED
    BY <1>1, <1>2, <1>3 DEF Inv, Base

\* The inductive invariant holds in every reachable state.
THEOREM Invariance == Spec => []Inv
  <1>1. Inv /\ [Next]_vars => Inv'
    BY BaseStep, WakeupStep, FrontStep DEF Inv
  <1> QED
    BY InitInv, <1>1, PTL DEF Spec

\* The queues never exceed their capacity and all state keeps its type,
\* whatever the payloads and however the two threads interleave.
THEOREM TypeCorrect == Spec => []TypeOK
  <1>1. Inv => TypeOK
    BY DEF Inv, Base
  <1> QED
    BY Invariance, <1>1, PTL

\* No request waits in a queue while the handler sleeps in poll() without a
\* wake-up: the eventfd protocol between on_message and
\* process_ondemand_request loses none.
THEOREM WakeupsNotLost == Spec => []NoLostWakeup
  <1>1. Inv => NoLostWakeup
    BY DEF Inv, Wakeup, NoLostWakeup
  <1> QED
    BY Invariance, <1>1, PTL

\* ODM_Flag never blocks the pull cycle without a request behind it.
THEOREM FlagExplained == Spec => []FlagHasWakeup
  <1>1. Inv => FlagHasWakeup
    BY DEF Inv, Wakeup, FlagHasWakeup
  <1> QED
    BY Invariance, <1>1, PTL

\* A command is removed from ODM without having been served, marked or
\* cancelled only after an overflow, or after the filter of a CANCEL and the
\* handler were at work on the queue together; every pop of either thread
\* counts.
THEOREM LossExplained == Spec => []SkippedOnlyIfDisturbed
  <1>1. Inv => SkippedOnlyIfDisturbed
    BY DEF Inv, FrontInHand, SkippedOnlyIfDisturbed
  <1> QED
    BY Invariance, <1>1, PTL

\* No FUOTA command is ever queued: enqueue_fuota is dead code behind
\* Validate_command.
THEOREM FuotaNeverQueued == Spec => []NoFuota
  <1>1. Inv => NoFuota
    BY DEF Inv, Base
  <1> QED
    BY Invariance, <1>1, PTL
=============================================================================

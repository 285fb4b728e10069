----------------------------- MODULE PullCycle -----------------------------
(***************************************************************************)
(* The periodic download of missing data (Client::hes_start_cycle_activiy). *)
(* Four times an hour the handler takes the network from the NMS, lists    *)
(* the nodes of the gateway with what the database lacks of each, and goes *)
(* through eight phases; in each it visits every node, first on its        *)
(* primary path and then on its alternates.  Everything runs in the        *)
(* handler thread, which blocks in recv(); ODM_Flag and duplicate_gateway  *)
(* are set by other threads.                                               *)
(*                                                                         *)
(* asked holds the commands the mesh has not answered yet, oldest first:   *)
(* an answer may come after its command was given up, and is then read as  *)
(* an answer to a later one.  The scalar phase is one step here.           *)
(***************************************************************************)
EXTENDS Naturals, Integers, Sequences, FiniteSets

CONSTANTS
  NodeCount,     \* nodes of the gateway, in the order of the map
  Alternates,    \* Alternates[n]: alternate paths of node n (at most 1 in use)
  LastPage,      \* every profile has the pages 0..LastPage
  MaxRetries,    \* sends of one command (3 in the code)
  LoopLimit,     \* exit_loop_counter (16 in the code)
  PageLimit,     \* page_index (16 in the code)
  MaxIpCycles,   \* missing instantaneous cycles pulled (4 in the code)
  TxPageIndex,   \* tx_page_index as the last on-demand request left it
  Lacking,       \* what the database may lack at the start
  Renewed,       \* what it may lack of the hour before, in a new hour
  MaxNoise,      \* bound: packets that answer nothing, in a behaviour
  MaxDue,        \* bound: answers the mesh may still owe
  MaxWindow      \* bound: the last window of an hour (8 in the code)

Node == 1..NodeCount
Profiles == {"NAMEPLATE", "INSTANTANEOUS_PROFILE", "DAILY_LOAD", "BLOCK_LOAD",
             "BILLING_HISTORY"}
\* The order of pull_missing_info_for_all_nodes.
Phase == <<"SILENCED", "INTERNAL_FV", "NAMEPLATE", "SCALAR",
           "INSTANTANEOUS_PROFILE", "DAILY_LOAD", "BLOCK_LOAD",
           "BILLING_HISTORY">>
Kinds == Profiles \cup {"SILENCED", "INTERNAL_FV"}
Commissions == {"FUOTA_STATUS", "FUOTA_DISABLE", "FLASH_SAVE", "SOFT_RESET",
                "INTERNAL_FV"}
Commands == Profiles \cup Commissions \cup {"DLMS_CONNECT"}
Page == 0..LastPage
Cycle == 0..MaxIpCycles

ASSUME PullBounds ==
  /\ NodeCount \in Nat \ {0} /\ LastPage \in Nat /\ MaxRetries \in Nat \ {0}
  /\ LoopLimit \in Nat \ {0} /\ PageLimit \in Nat \ {0}
  /\ MaxIpCycles \in Nat \ {0} /\ TxPageIndex \in Nat
  /\ MaxNoise \in Nat /\ MaxDue \in Nat \ {0}
  /\ MaxWindow \in 1..8
  /\ Alternates \in [Node -> {0, 1}]
  /\ Lacking \subseteq [Node -> SUBSET Kinds] /\ Lacking # {}
  /\ Renewed \subseteq [Node -> SUBSET {"INSTANTANEOUS_PROFILE", "BLOCK_LOAD"}]

Query == [node: Node, cmd: Commands \cup {"PING"}, page: 0..PageLimit,
          cycle: Cycle]
\* These codes end an exchange, these leave it waiting for another packet.
Ends == {"SUCCESS", "ENABLED", "NEXT_PAGE_PRESENT", "DLMS_CONNECTION_FAILED",
         "DLMS_ERROR", "DLMS_SUCCESS"}
Waits == {"IN_PROGRESS", "INVALID", "PUSH"}

VARIABLES
  pc,            \* idle, visit, send, recv, done (the exchange returned ret),
                 \* left (a node), undefined
  window,        \* the clock: window 2i-1 of an hour is cycle i-1, an even
                 \* window is outside all of them
  new_hour,      \* the hour is not hes_state.last_hour
  done_mask, current_cycle_id,     \* hes_state
  phase, node,   \* where the cycle is
  cycles,        \* instantaneous cycles still to be pulled from this node
  paths,         \* paths[n][1] is the primary path of n, the rest alternates
  cmd, at, rat,  \* command in flight, index of its path and, when it is a
                 \* reconnect on an alternate, of the reconnect's path (or 0)
  currentState,  \* stateInfo.currentState: how answers are read
  page, loops,   \* page_index, exit_loop_counter
  retry, got, ret, dret,    \* locals of the exchange; what disable returned
  armed,         \* need_to_validate_src_addr
  held,          \* held[p]: the records kept of page p: none, right, wrong or
                 \* double
  asked,         \* commands not answered yet
  meter,         \* silent, awake until the next reset, or saved in flash
  row,           \* row[n][k] in the database: lacking, whole or wrong
  hes,           \* gateway_aquired_by_hes
  gatewayStatus, duplicate_gateway, ODM_Flag, noise,
  late           \* history: a command was sent while an answer was due

schedule == <<window, new_hour, done_mask, current_cycle_id>>
place == <<phase, node, cycles>>
exchange == <<cmd, at, rat, retry, got>>
pages == <<page, loops>>
flags == <<duplicate_gateway, ODM_Flag>>
vars == <<pc, schedule, place, paths, exchange, currentState, pages, ret, dret,
          armed, held, asked, meter, row, hes, gatewayStatus, flags, noise,
          late>>

TypeOK ==
  /\ pc \in {"idle", "visit", "send", "recv", "done", "left", "undefined"}
  /\ window \in 0..8 /\ new_hour \in BOOLEAN
  /\ done_mask \subseteq 0..3 /\ current_cycle_id \in -1..3
  /\ phase \in 1..Len(Phase) /\ node \in Node /\ cycles \in Cycle
  /\ paths \in [Node -> Seq(1..2)]
  /\ cmd \in Commands /\ at \in 1..2 /\ rat \in 0..2
  /\ currentState \in Commands \cup {"IDLE"}
     \* the alternate path goes on behind the limit the primary path stopped at
  /\ page \in 0..(PageLimit + 1) /\ loops \in 0..LoopLimit
  /\ retry \in 0..MaxRetries /\ got \in BOOLEAN
  /\ ret \in Ends \cup {"FAILURE"} /\ dret \in Ends /\ armed \in BOOLEAN
  /\ held \in [Page -> {"none", "right", "wrong", "double"}]
  /\ asked \in Seq(Query) /\ meter \in [Node -> {"silent", "awake", "saved"}]
  /\ row \in [Node -> [Kinds -> {"lacking", "whole", "wrong"}]]
  /\ hes \in BOOLEAN /\ gatewayStatus \in {"CONNECTED", "DISCONNECTED"}
  /\ duplicate_gateway \in BOOLEAN /\ ODM_Flag \in BOOLEAN
  /\ noise \in 0..MaxNoise /\ late \in BOOLEAN

Pending(n, c) == [node |-> n, cmd |-> c, page |-> 0, cycle |-> 0]
\* What get_missing_info_for_all_nodes finds for the nodes.
Rows(l) == [n \in Node |-> [k \in Kinds |-> IF k \in l[n] THEN "lacking"
                                                          ELSE "whole"]]
\* build_node_list_from_db: the primary path of a node, and its alternate if
\* the database has one.  An on-demand ping or connect may have been given up
\* just before: its answer is still due.
Init ==
  /\ pc = "idle" /\ window = 0 /\ new_hour = TRUE
  /\ done_mask = {} /\ current_cycle_id = -1
  /\ phase = 1 /\ node = 1 /\ cycles = 0
  /\ paths = [n \in Node |-> [i \in 1..(1 + Alternates[n]) |-> i]]
  /\ cmd = "FUOTA_STATUS" /\ at = 1 /\ rat = 0 /\ currentState = "IDLE"
  /\ page = 0 /\ loops = 0 /\ retry = 0 /\ got = FALSE
  /\ ret = "SUCCESS" /\ dret = "SUCCESS" /\ armed = FALSE
  /\ held = [p \in Page |-> "none"]
  /\ asked \in {<<>>} \cup 
       {<<Pending(n, c)>> : n \in Node, c \in {"PING", "DLMS_CONNECT"}}
  /\ \E l \in Lacking :
       /\ row = Rows(l)
       /\ meter = [n \in Node |-> IF "SILENCED" \in l[n] THEN "silent"
                                                         ELSE "saved"]
  /\ hes = FALSE /\ gatewayStatus = "CONNECTED"
  /\ duplicate_gateway = FALSE /\ ODM_Flag = FALSE /\ noise = MaxNoise
  /\ late = FALSE

-----------------------------------------------------------------------------
(* The schedule. *)

\* get_cycle_id_from_minute
CycleId(w) == IF w % 2 = 1 THEN w \div 2 ELSE -1

\* The clock moves on while the handler waits in its poll.  A new hour makes
\* the data of the hour before it due.
Tick ==
  /\ pc = "idle"
  /\ \/ \E w \in (window + 1)..MaxWindow : window' = w /\ UNCHANGED <<new_hour, row>>
     \/ /\ new_hour' = TRUE /\ window' = 0
        /\ \E l \in Renewed :
             row' = [n \in Node |-> [k \in Kinds |->
                       IF k \in l[n] THEN "lacking" ELSE row[n][k]]]
  /\ UNCHANGED <<pc, done_mask, current_cycle_id, place, paths, exchange,
                 currentState, pages, ret, dret, armed, held, asked,
                 meter, hes, gatewayStatus, flags, noise, late>>

\* client_hes_cycle_schedule: the done mask of the hour, and whether the
\* window is one to work in.
DoneInHour == IF new_hour THEN {} ELSE done_mask
Schedule(due) ==
  /\ new_hour' = FALSE /\ done_mask' = DoneInHour
  /\ due <=> (CycleId(window) >= 0 /\ CycleId(window) \notin DoneInHour)
  /\ current_cycle_id' = IF due THEN CycleId(window)
                         ELSE IF new_hour THEN -1 ELSE current_cycle_id

\* poll_timeout_handler and hes_start_cycle_activiy: not while an on-demand
\* request runs; the NMS may refuse the network.
StartCycle ==
  /\ pc = "idle" /\ gatewayStatus = "CONNECTED" /\ ~duplicate_gateway
  /\ ~ODM_Flag
  /\ \/ /\ Schedule(FALSE) /\ UNCHANGED <<pc, hes, phase, node>>
     \/ /\ Schedule(TRUE)
        /\ \/ UNCHANGED <<pc, hes, phase, node>>
           \/ hes' = TRUE /\ pc' = "visit" /\ phase' = 1 /\ node' = 1
  /\ UNCHANGED <<window, cycles, paths, exchange, currentState, pages,
                 ret, dret, armed, held, asked, meter, row, gatewayStatus,
                 flags, noise, late>>

\* Faulty variant: an early return without giving the network back.
AbortKeepsLock ==
  /\ pc' = "idle" /\ currentState' = "IDLE"
  /\ UNCHANGED <<hes, done_mask, current_cycle_id, phase, node>>
\* Faulty variant: a cycle that was cut short is marked done.
AbortMarksDone ==
  /\ pc' = "idle" /\ hes' = FALSE /\ currentState' = "IDLE"
  /\ done_mask' = done_mask \cup ({current_cycle_id} \ {-1})
  /\ current_cycle_id' = -1 /\ UNCHANGED <<phase, node>>
\* Every exit of hes_start_cycle_activiy gives the network back.
Abort ==
  /\ pc' = "idle" /\ hes' = FALSE /\ currentState' = "IDLE"
  /\ UNCHANGED <<done_mask, current_cycle_id, phase, node>>

\* The end of the last phase, and mark_hes_cycle_done.
Finish ==
  /\ pc' = "idle" /\ hes' = FALSE /\ currentState' = "IDLE"
  /\ done_mask' = done_mask \cup ({current_cycle_id} \ {-1})
  /\ current_cycle_id' = -1
  /\ UNCHANGED <<phase, node>>

\* The loops over the nodes, and pull_missing_info_for_all_nodes around them.
NextNode ==
  \/ /\ node < NodeCount /\ node' = node + 1 /\ pc' = "visit"
     /\ UNCHANGED <<phase, hes, currentState, done_mask, current_cycle_id>>
  \/ /\ node = NodeCount /\ phase < Len(Phase)
     /\ phase' = phase + 1 /\ node' = 1 /\ pc' = "visit"
     /\ UNCHANGED <<hes, currentState, done_mask, current_cycle_id>>
  \/ node = NodeCount /\ phase = Len(Phase) /\ Finish

\* The locals of a visit end with it.
LocalsGone ==
  /\ cmd' = "FUOTA_STATUS" /\ at' = 1 /\ rat' = 0 /\ retry' = 0 /\ got' = FALSE
  /\ page' = 0 /\ loops' = 0 /\ ret' = "SUCCESS" /\ dret' = "SUCCESS"
  /\ cycles' = 0 /\ held' = [p \in Page |-> "none"]

\* The end of the loop body of each phase.
Leave ==
  /\ pc = "left" /\ LocalsGone
  /\ IF gatewayStatus = "DISCONNECTED" \/ ODM_Flag THEN Abort ELSE NextNode
  /\ UNCHANGED <<window, new_hour, paths, armed, asked, meter, row,
                 gatewayStatus, flags, noise, late>>

\* The scalar profiles of all nodes are pulled or not needed, and the scalers
\* loaded; pull_scalar_profile fails only when the gateway is gone.
ScalarPhase ==
  /\ pc = "visit" /\ Phase[phase] = "SCALAR"
  /\ \/ /\ phase' = phase + 1 /\ node' = 1
        /\ UNCHANGED <<pc, hes, currentState, done_mask, current_cycle_id,
                       gatewayStatus>>
     \/ gatewayStatus' = "DISCONNECTED" /\ Abort
  /\ UNCHANGED <<window, new_hour, cycles, paths, exchange, pages, ret,
                 dret, armed, held, asked, meter, row, flags, noise, late>>

-----------------------------------------------------------------------------
(* One visit of a node. *)

FirstCommand(k) == IF k = "SILENCED" THEN "FUOTA_STATUS" ELSE k

\* A command on a path: transmit_command_on_path_pmesh.
Transmit(c, i, r) ==
  /\ pc' = "send" /\ cmd' = c /\ at' = i /\ rat' = r
  /\ retry' = 0 /\ got' = FALSE

\* The heads of the pull_..._for_a_node: the record of the profile is cleared,
\* the instantaneous one is not between its cycles.
Visit ==
  /\ pc = "visit" /\ Phase[phase] # "SCALAR"
  /\ IF row[node][Phase[phase]] = "lacking"
     THEN /\ Transmit(FirstCommand(Phase[phase]), 1, 0)
          /\ currentState' = FirstCommand(Phase[phase])
          /\ page' = 0 /\ loops' = 1
          /\ held' = [p \in Page |-> "none"]
          /\ IF Phase[phase] = "INSTANTANEOUS_PROFILE"
             THEN cycles' \in 1..MaxIpCycles ELSE cycles' = 0
     ELSE pc' = "left" /\ UNCHANGED <<exchange, currentState, pages, held,
                                      cycles>>
  /\ UNCHANGED <<schedule, phase, node, paths, ret, dret, armed, asked, meter,
                 row, hes, gatewayStatus, flags, noise, late>>

\* Faulty variant: page_index is not reset for the next cycle.
NextIpCycleKeepsPage ==
  /\ Transmit("INSTANTANEOUS_PROFILE", 1, 0)
  /\ UNCHANGED page /\ loops' = 1 /\ cycles' = cycles - 1
  /\ held' = [p \in Page |-> IF held[p] = "none" THEN "none" ELSE "wrong"]
\* The next missing instantaneous cycle: the pages of the last one stay.
NextIpCycle ==
  /\ Transmit("INSTANTANEOUS_PROFILE", 1, 0)
  /\ page' = 0 /\ loops' = 1 /\ cycles' = cycles - 1
  /\ held' = [p \in Page |-> IF held[p] = "none" THEN "none" ELSE "wrong"]

-----------------------------------------------------------------------------
(* The exchange: transmit_command_and_validate_response. *)

Exhausted == pc' = "done" /\ ret' = "FAILURE"
\* When nothing at all was received the gateway is taken for disconnected.
GiveUp(any) ==
  /\ Exhausted
  /\ gatewayStatus' = IF any THEN gatewayStatus ELSE "DISCONNECTED"

\* Faulty variant: the retries are compared after one too many.
TryAgainOnceMore(any) ==
  /\ retry' = retry + 1
  /\ IF retry <= MaxRetries
     THEN pc' = "send" /\ UNCHANGED <<ret, gatewayStatus>>
     ELSE GiveUp(any)
TryAgain(any) ==
  /\ retry' = retry + 1
  /\ IF retry + 1 < MaxRetries
     THEN pc' = "send" /\ UNCHANGED <<ret, gatewayStatus>>
     ELSE GiveUp(any)

\* frame_pmesh_command_packet and the frames of the commands.
Frame == [node |-> node, cmd |-> cmd,
          page |-> IF cmd \in Profiles THEN page ELSE 0, cycle |-> cycles]
Due(q) == IF Len(asked) < MaxDue THEN Append(asked, q)
                                 ELSE Append(Tail(asked), q)

Send ==
  /\ pc = "send"
  /\ \/ /\ pc' = "recv" /\ armed' = TRUE
        /\ asked' = Due(Frame) /\ late' = (late \/ asked # <<>>)
        /\ UNCHANGED <<ret, gatewayStatus>>
     \/ /\ Exhausted /\ gatewayStatus' = "DISCONNECTED"
        /\ UNCHANGED <<armed, asked, late>>
  /\ UNCHANGED <<schedule, place, paths, exchange, currentState, pages, dret,
                 held, meter, row, hes, flags, noise>>

\* recv() returns nothing: its timeout ran out, or the gateway closed.
RecvNothing ==
  /\ pc = "recv"
  /\ \E closed \in BOOLEAN :
       LET gone == closed \/ gatewayStatus = "DISCONNECTED" IN
       \/ /\ gone \/ duplicate_gateway
          /\ Exhausted /\ UNCHANGED retry
          /\ gatewayStatus' = IF gone \/ ~got THEN "DISCONNECTED"
                                              ELSE gatewayStatus
       \/ ~gone /\ ~duplicate_gateway /\ TryAgain(got)
  /\ UNCHANGED <<schedule, place, paths, cmd, at, rat, got, currentState,
                 pages, dret, armed, held, asked, meter, row, hes, flags, noise,
                 late>>

\* What a packet that was read as code c does to the exchange; left is what
\* is_valid_packet left of the source check.  A command in progress does not
\* arm it again.
Received(c, left) ==
  /\ got' = TRUE /\ armed' = (left \/ c = "INVALID")
  /\ \/ c \in Ends /\ pc' = "done" /\ ret' = c /\ UNCHANGED <<retry, gatewayStatus>>
     \/ c \in Waits /\ UNCHANGED <<pc, ret, retry, gatewayStatus>>
     \/ c = "FAILURE" /\ TryAgain(TRUE)

-----------------------------------------------------------------------------
(* How client_process_data reads the answer to q: state is currentState.   *)

\* Faulty variant: data[0] of the status answer is not looked at.
ReadCommissionAnyMode(q, state) ==
  IF q.cmd \in {"FUOTA_STATUS", "FUOTA_DISABLE"} THEN {"SUCCESS"} ELSE {"FAILURE"}
\* The commission answers: the state decides which one is meant.
ReadCommission(q, state) ==
  CASE state = "FUOTA_STATUS" /\ q.cmd \in {"FUOTA_STATUS", "FUOTA_DISABLE"} ->
         IF q.cmd = "FUOTA_STATUS" /\ meter[q.node] = "silent"
         THEN {"ENABLED"} ELSE {"SUCCESS"}
    [] state = "FUOTA_DISABLE" /\ q.cmd \in {"FUOTA_STATUS", "FUOTA_DISABLE"} ->
         {"SUCCESS"}
    [] state \in {"FLASH_SAVE", "SOFT_RESET"} /\ q.cmd = state -> {"SUCCESS"}
    [] state = "INTERNAL_FV" -> {"SUCCESS"}
    [] OTHER -> {"INVALID", "FAILURE"}

\* The profile answers.  One that is not of the profile in hand is read as an
\* answer to an on-demand request.
ReadProfile(q, state) ==
  CASE q.cmd = state ->
         IF q.page >= LastPage THEN {"SUCCESS"} ELSE {"NEXT_PAGE_PRESENT"}
    [] state = "DLMS_CONNECT" /\ q.cmd # state ->
         IF q.page >= LastPage THEN {"SUCCESS"} ELSE {"DLMS_CONNECTION_FAILED"}
    [] q.cmd # state /\ state # "DLMS_CONNECT" ->
         IF q.cmd = "INSTANTANEOUS_PROFILE" \/ q.page # TxPageIndex
         THEN {"INVALID"}
         ELSE IF q.page >= LastPage THEN {"SUCCESS"} ELSE {"FAILURE"}

\* A pong is a success in every state; a connection report is read before the
\* state is looked at.
ReadAnswer(q, state) ==
  CASE q.cmd = "PING" -> {"SUCCESS"}
    [] q.cmd = "DLMS_CONNECT" -> {"DLMS_SUCCESS"}
    [] q.cmd \in Commissions -> ReadCommission(q, state)
    [] q.cmd \in Profiles -> ReadProfile(q, state)

\* A refused or damaged answer; processPacketType knows the DLMS ones.
ReadRefusal(q, state) ==
  CASE q.cmd \in Profiles -> {"DLMS_CONNECTION_FAILED", "DLMS_ERROR"} \cup
                             IF q.cmd = state THEN {"FAILURE"} ELSE {"INVALID"}
    [] q.cmd = "DLMS_CONNECT" -> {"DLMS_CONNECTION_FAILED", "DLMS_ERROR"}
    [] OTHER -> {"INVALID", "FAILURE"}

\* The records of an answer, whole or cut short, are kept.  Blocks are
\* appended, every other profile is indexed and overwritten.
Overwrite(q) == IF q.cmd = Phase[phase] /\ q.cycle = cycles THEN "right"
                                                            ELSE "wrong"
AppendBlocks(q) == IF held[q.page] = "none" THEN Overwrite(q) ELSE "double"
Store(q, whole) ==
  LET kept == IF q.cmd = "BLOCK_LOAD" THEN AppendBlocks(q) ELSE Overwrite(q) IN
  IF q.cmd \in Profiles /\ q.cmd = currentState /\ q.page \in Page
  THEN held' = [held EXCEPT ![q.page] = IF whole \/ kept = "double"
                                        THEN kept ELSE "wrong"]
  ELSE IF currentState = "INTERNAL_FV" /\ q.cmd \in Commissions /\ whole
  THEN held' = [held EXCEPT ![0] = Overwrite(q)]
  ELSE held' = held

\* External: what a command does in the meter.  Without a reset the flash
\* keeps the old mode; a reset returns to what the flash holds.
Obey(q) ==
  [meter EXCEPT ![q.node] =
     CASE q.cmd = "FUOTA_DISABLE" /\ @ = "silent" -> "awake"
       [] q.cmd = "FLASH_SAVE" /\ @ = "awake" -> "saved"
       [] q.cmd = "SOFT_RESET" /\ @ = "awake" -> "silent"
       [] OTHER -> @]

\* The oldest command due is answered; the answer may share the buffer with a
\* push that follows it, whose code is then the one returned.
RecvAnswer ==
  /\ pc = "recv" /\ asked # <<>>
  /\ asked' = Tail(asked)
  /\ \E whole, packed \in BOOLEAN :
       LET q == Head(asked)
           ours == armed /\ q.node = node IN
       /\ packed => noise > 0
       /\ noise' = noise - IF packed THEN 1 ELSE 0
       /\ meter' = IF whole THEN Obey(q) ELSE meter
       /\ IF ours THEN Store(q, whole) ELSE held' = held
       /\ \E c \in IF ~ours THEN {"INVALID"}
                   ELSE IF whole THEN ReadAnswer(q, currentState)
                   ELSE ReadRefusal(q, currentState) :
            Received(IF packed THEN "PUSH" ELSE c, FALSE)
  /\ UNCHANGED <<schedule, place, paths, cmd, at, rat, currentState, pages,
                 dret, row, hes, flags, late>>

\* A report of the mesh on the oldest command due: it failed, or it is under
\* way.  Reports carry no node and pass the source check.
RecvReport ==
  /\ pc = "recv" /\ asked # <<>>
  /\ \/ /\ asked' = Tail(asked) /\ UNCHANGED noise
        /\ Received(IF armed THEN "FAILURE" ELSE "INVALID", FALSE)
     \/ /\ noise > 0 /\ noise' = noise - 1 /\ UNCHANGED asked
        /\ Received(IF armed THEN "IN_PROGRESS" ELSE "INVALID", FALSE)
  /\ UNCHANGED <<schedule, place, paths, cmd, at, rat, currentState, pages,
                 dret, held, meter, row, hes, flags, late>>

\* A push on its own does not touch the source check.
RecvPush ==
  /\ pc = "recv" /\ noise > 0 /\ noise' = noise - 1
  /\ Received("PUSH", armed)
  /\ UNCHANGED <<schedule, place, paths, cmd, at, rat, currentState, pages,
                 dret, held, asked, meter, row, hes, flags, late>>

\* External: the mesh loses a command, before or after the meter obeyed it.
\* Only while the handler waits: before that the loss makes no difference.
Lose ==
  /\ pc = "recv" /\ asked # <<>> /\ asked' = Tail(asked)
  /\ meter' \in {meter, Obey(Head(asked))}
  /\ UNCHANGED <<pc, schedule, place, paths, exchange, currentState, pages, ret,
                 dret, armed, held, row, hes, gatewayStatus, flags, noise, late>>

-----------------------------------------------------------------------------
(* What is done with the code an exchange returned. *)

\* Faulty variant: the old primary path is not put back.
PromotedDropsPrimary(s, i) == <<s[i]>> \o Tail(s)
\* The alternate i becomes the primary path; the old primary goes last.
Promoted(s, i) ==
  [j \in 1..Len(s) |-> IF j = 1 THEN s[i]
                       ELSE IF j = Len(s) THEN s[1]
                       ELSE s[IF j < i THEN j ELSE j + 1]]
Promote == paths' = IF at = 1 THEN paths
                    ELSE [paths EXCEPT ![node] = Promoted(@, at)]

MorePaths == gatewayStatus = "CONNECTED" /\ at < Len(paths[node])

Fill(k, v) == row' = [row EXCEPT ![node][k] = v]
\* delete_node_from_unsilence_nodes_from_fuota
DeleteSilenced == Fill("SILENCED", "whole")
\* The insert of a profile stores what is held of it.
PagesOf(k) == IF k = "INTERNAL_FV" THEN {0} ELSE Page
Insert(k) ==
  Fill(k, IF row[node][k] # "wrong" /\ \A p \in PagesOf(k) : held[p] = "right"
          THEN "whole" ELSE "wrong")

\* check_fuota_status, and what unsilence_all_nodes does with its result: any
\* code but FAILURE counts as an answer.
StatusDone ==
  /\ pc = "done" /\ cmd = "FUOTA_STATUS"
  /\ \/ /\ ret # "FAILURE" /\ Promote
        /\ \/ /\ ret = "SUCCESS" /\ DeleteSilenced /\ pc' = "left"
              /\ UNCHANGED <<exchange, currentState>>
           \/ /\ ret = "ENABLED" /\ currentState' = "FUOTA_DISABLE"
              /\ Transmit("FUOTA_DISABLE", 1, 0) /\ UNCHANGED row
           \/ /\ ret \notin {"SUCCESS", "ENABLED"} /\ pc' = "left"
              /\ UNCHANGED <<exchange, currentState, row>>
     \/ /\ ret = "FAILURE" /\ UNCHANGED <<paths, row>>
        /\ IF MorePaths
           THEN Transmit("FUOTA_STATUS", at + 1, 0) /\ UNCHANGED currentState
           ELSE /\ pc' = "left" /\ currentState' = "IDLE"
                /\ UNCHANGED exchange
  /\ UNCHANGED <<schedule, place, pages, ret, dret, armed, held, asked, meter,
                 hes, gatewayStatus, flags, noise, late>>

\* fuota_disable_for_a_node: the next path, in whatever state the failure
\* left the client.
DisableElsewhere ==
  /\ IF MorePaths THEN Transmit("FUOTA_DISABLE", at + 1, 0)
                  ELSE pc' = "left" /\ UNCHANGED exchange
  /\ UNCHANGED <<currentState, paths, row, dret>>

DisableDone ==
  /\ pc = "done" /\ cmd = "FUOTA_DISABLE"
  /\ IF ret = "SUCCESS" \/ (at > 1 /\ ret # "FAILURE")
     THEN /\ Transmit("FLASH_SAVE", at, 0) /\ currentState' = "FLASH_SAVE"
          /\ dret' = ret /\ UNCHANGED <<paths, row>>
     ELSE DisableElsewhere
  /\ UNCHANGED <<schedule, place, pages, ret, armed, held, asked, meter, hes,
                 gatewayStatus, flags, noise, late>>

\* perform_flash_and_reset: flash_save, then soft_reset.
FlashDone ==
  /\ pc = "done" /\ cmd = "FLASH_SAVE"
  /\ IF ret = "SUCCESS"
     THEN /\ Transmit("SOFT_RESET", at, 0) /\ currentState' = "SOFT_RESET"
          /\ UNCHANGED <<dret, paths, row>>
     ELSE DisableElsewhere
  /\ UNCHANGED <<schedule, place, pages, ret, armed, held, asked, meter, hes,
                 gatewayStatus, flags, noise, late>>

ResetDone ==
  /\ pc = "done" /\ cmd = "SOFT_RESET"
  /\ IF ret = "SUCCESS"
     THEN /\ Promote /\ pc' = "left"
          /\ IF dret = "SUCCESS" THEN DeleteSilenced ELSE row' = row
          /\ UNCHANGED <<exchange, currentState, dret>>
     ELSE DisableElsewhere
  /\ UNCHANGED <<schedule, place, pages, ret, armed, held, asked, meter, hes,
                 gatewayStatus, flags, noise, late>>

\* pull_internal_firmware_version_for_a_node
FirmwareDone ==
  /\ pc = "done" /\ cmd = "INTERNAL_FV"
  /\ \/ /\ ret = "SUCCESS" /\ Promote /\ Insert("INTERNAL_FV") /\ pc' = "left"
        /\ UNCHANGED <<exchange, currentState>>
     \/ /\ ret # "SUCCESS" /\ MorePaths /\ Transmit("INTERNAL_FV", at + 1, 0)
        /\ UNCHANGED <<paths, row, currentState>>
     \/ /\ ret # "SUCCESS" /\ ~MorePaths /\ pc' = "left" /\ currentState' = "IDLE"
        /\ UNCHANGED <<exchange, paths, row>>
  /\ UNCHANGED <<schedule, place, pages, ret, dret, armed, held, asked, meter,
                 hes, gatewayStatus, flags, noise, late>>

\* try_paths_for_profile_pull: the page loop of path at returned c, with s the
\* paths of the node and p the page by then.  The next path goes on with p.
PathDone(c, s, p) ==
  \/ /\ c = "SUCCESS" /\ Insert(Phase[phase])
     /\ paths' = [paths EXCEPT ![node] = IF at = 1 THEN s ELSE Promoted(s, at)]
     /\ IF cycles > 1 THEN NextIpCycle
        ELSE /\ pc' = "left" /\ page' = p
             /\ UNCHANGED <<exchange, loops, cycles, held>>
  \/ /\ c # "SUCCESS" /\ page' = p /\ paths' = [paths EXCEPT ![node] = s]
     /\ IF c = "FAILURE" /\ gatewayStatus = "CONNECTED" /\ at < Len(s)
        THEN Transmit(Phase[phase], at + 1, 0) /\ loops' = 1
        ELSE pc' = "left" /\ UNCHANGED <<exchange, loops>>
     /\ UNCHANGED <<row, cycles, held>>

\* Faulty variant: without exit_loop_counter.
AskPageForever(s, p) ==
  /\ Transmit(Phase[phase], at, 0) /\ page' = (IF p < PageLimit THEN p ELSE page)
  /\ paths' = [paths EXCEPT ![node] = s]
  /\ UNCHANGED <<row, cycles, held, loops>>
\* The head of the loop of pull_profile_pages_on_path, for page p.
AskPage(s, p) ==
  IF (p > page /\ p >= PageLimit) \/ loops >= LoopLimit
  THEN PathDone("FAILURE", s, p)
  ELSE /\ Transmit(Phase[phase], at, 0) /\ page' = p /\ loops' = loops + 1
       /\ paths' = [paths EXCEPT ![node] = s]
       /\ UNCHANGED <<row, cycles, held>>

\* The switch of pull_profile_pages_on_path.
PageDone ==
  /\ pc = "done" /\ cmd \in Profiles
  /\ \/ /\ ret = "NEXT_PAGE_PRESENT" /\ AskPage(paths[node], page + 1)
        /\ UNCHANGED currentState
     \/ /\ ret = "DLMS_CONNECTION_FAILED" /\ Transmit("DLMS_CONNECT", at, 0)
        /\ currentState' = "DLMS_CONNECT"
        /\ UNCHANGED <<paths, row, pages, cycles, held>>
     \/ /\ ret \in {"SUCCESS", "DLMS_ERROR"}
        /\ PathDone(ret, paths[node], page) /\ UNCHANGED currentState
     \/ /\ ret \in {"FAILURE", "DLMS_SUCCESS", "ENABLED"}
        /\ PathDone("FAILURE", paths[node], page) /\ UNCHANGED currentState
  /\ UNCHANGED <<schedule, phase, node, ret, dret, armed, asked, meter, hes,
                 gatewayStatus, flags, noise, late>>

\* attempt_dlms_reconnect_all_paths: the path that failed, then the alternates.
\* A reconnect on an alternate rebuilds the list of alternates, in which the
\* path of the page loop may lie: the old primary first, then the alternates
\* that differ from the new primary, as no two of them are the same.
Reconnected(s, r) ==
  [j \in 1..Len(s) |-> IF j = 1 THEN s[r] ELSE IF j <= r THEN s[j - 1] ELSE s[j]]
ReconnectOk ==
  /\ ret \in {"SUCCESS", "DLMS_SUCCESS"}
  /\ \/ rat = 0 /\ AskPage(paths[node], page)
     \/ rat > 0 /\ at = 1 /\ AskPage(Reconnected(paths[node], rat), page)
     \/ /\ rat > 0 /\ at > 1 /\ pc' = "undefined"
        /\ UNCHANGED <<paths, row, exchange, pages, cycles, held>>

ReconnectFailed ==
  LET next == IF rat = 0 THEN 2 ELSE rat + 1 IN
  /\ ret \notin {"SUCCESS", "DLMS_SUCCESS"}
  /\ IF /\ ret # "DLMS_CONNECTION_FAILED"
        /\ gatewayStatus = "CONNECTED" /\ next <= Len(paths[node])
     THEN /\ Transmit("DLMS_CONNECT", at, next)
          /\ UNCHANGED <<paths, row, pages, cycles, held>>
     ELSE PathDone("DLMS_CONNECTION_FAILED", paths[node], page)

\* attempt_dlms_reconnect puts the state of the profile back.
ReconnectDone ==
  /\ pc = "done" /\ cmd = "DLMS_CONNECT"
  /\ ReconnectOk \/ ReconnectFailed
  /\ currentState' = IF pc' = "send" THEN cmd' ELSE Phase[phase]
  /\ UNCHANGED <<schedule, phase, node, ret, dret, armed, asked, meter, hes,
                 gatewayStatus, flags, noise, late>>

-----------------------------------------------------------------------------
\* The mosquitto thread queues an on-demand request; the handler serves it
\* between two cycles.
RequestQueued ==
  /\ ~ODM_Flag /\ ODM_Flag' = TRUE
  /\ UNCHANGED <<pc, schedule, place, paths, exchange, currentState, pages, ret,
                 dret, armed, held, asked, meter, row, hes, gatewayStatus,
                 duplicate_gateway, noise, late>>
RequestServed ==
  /\ pc = "idle" /\ ODM_Flag /\ ODM_Flag' = FALSE
  /\ UNCHANGED <<pc, schedule, place, paths, exchange, currentState, pages, ret,
                 dret, armed, held, asked, meter, row, hes, gatewayStatus,
                 duplicate_gateway, noise, late>>
\* The gateway connected again on another socket.
Duplicate ==
  /\ ~duplicate_gateway /\ duplicate_gateway' = TRUE
  /\ UNCHANGED <<pc, schedule, place, paths, exchange, currentState, pages, ret,
                 dret, armed, held, asked, meter, row, hes, gatewayStatus,
                 ODM_Flag, noise, late>>

Handler ==
  \/ Visit \/ ScalarPhase \/ Leave \/ Send \/ RecvNothing \/ RecvAnswer
  \/ RecvReport \/ RecvPush
  \/ StatusDone \/ DisableDone \/ FlashDone \/ ResetDone \/ FirmwareDone
  \/ PageDone \/ ReconnectDone
Next ==
  \/ Handler \/ Tick \/ StartCycle \/ Lose
  \/ RequestQueued \/ RequestServed \/ Duplicate

\* recv() has a timeout, so the handler never stops inside a cycle.
Spec == Init /\ [][Next]_vars /\ WF_vars(Handler)

-----------------------------------------------------------------------------
(* Properties. *)

PathSet(n) == {paths[n][i] : i \in DOMAIN paths[n]}
\* Promoting an alternate, and reconnecting on one, only reorders the paths of
\* a node: none is lost or doubled, whatever fails in between
\* (try_paths_for_profile_pull, attempt_dlms_reconnect_all_paths).
PathsKept ==
  \A n \in Node : /\ Len(paths[n]) = 1 + Alternates[n]
                  /\ PathSet(n) = 1..(1 + Alternates[n])

\* As long as no answer comes after its command was given up, a profile stored
\* by the cycle holds every page once, all of them from the node and the
\* cycle asked.  The block load is the exception: a page received again after
\* a failed parse, or after its code was hidden by a push, is appended twice.
RowsTrue ==
  ~late => \A n \in Node : \A k \in Profiles \cup {"INTERNAL_FV"} :
             row[n][k] = "wrong" => k = "BLOCK_LOAD"

\* A node is struck off the list of silenced nodes only when its meter has
\* left the silent mode, unless a late answer was taken for the one to the
\* command sent (unsilence_all_nodes).  Its flash may still hold the silent
\* mode, when only the disable command of an earlier cycle reached it.
StruckOffMeansAwake ==
  ~late => \A n \in Node : row[n]["SILENCED"] # "lacking" => meter[n] # "silent"

\* The handler keeps the NMS out of the network only while a cycle runs: every
\* way out of hes_start_cycle_activiy gives it back.
LockReleased == hes <=> pc # "idle"

\* A cycle is marked done only when every node was visited in every phase, and
\* a window marked done is not started again in its hour.
DoneOnlyAtTheEnd ==
  [][/\ (done_mask' \ done_mask # {}) =>
          phase = Len(Phase) /\ node = NodeCount /\ gatewayStatus = "CONNECTED"
     /\ (pc = "idle" /\ pc' = "visit") => current_cycle_id' \notin done_mask']_vars

\* Every cycle ends, whatever the meters answer, also when the DLMS connection
\* is lost and regained over and over (exit_loop_counter, maxRetries).
CycleEnds == (pc # "idle") ~> (pc \in {"idle", "undefined"})
=============================================================================

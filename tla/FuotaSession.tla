--------------------------- MODULE FuotaSession ---------------------------
(***************************************************************************)
(* The state machine of a firmware update (class Fuota): silence the       *)
(* gateway and the leaves of its network, ask the sector size, announce    *)
(* and erase, transfer the image (module FuotaUpload), end, verify its     *)
(* CRC, activate, read the version, and unsilence.  A command is sent, and *)
(* sent again by the client's timer; each sending is answered at most      *)
(* once.  Answers come in order, but may come after the timer has fired,   *)
(* and then be taken for the answer to a later command.                    *)
(*                                                                         *)
(* At this commit no caller hands received packets to                      *)
(* client_process_rf_fuota_data (see README): the module says what the     *)
(* machine does with the packets it is given.                              *)
(***************************************************************************)
EXTENDS Integers, Sequences, FiniteSets, SequencesExt

CONSTANTS
  Path,        \* the route of each meter: the nodes on the way, itself included
  Scopes,      \* the gateways: nodes, the meters as the database lists them;
               \* and two bounds, the number of firmware requests, each with a
               \* file of its own, and of answers under way at a time
  max_retries  \* the limit of every retry counter, 3 in the code

Meter == DOMAIN Path
Request == UNION {1..s.requests : s \in Scopes}

ASSUME SessionBounds ==
  /\ \A n \in Meter : ToSet(Path[n]) \subseteq Meter
  /\ \A s \in Scopes : /\ s.nodes \in Seq(Meter) /\ IsInjective(s.nodes)
                       /\ {s.requests, s.late} \subseteq Nat \ {0}
  /\ Scopes # {} /\ max_retries \in Nat \ {0}

alternate_maxcnt == 2
AT_ENABLE_FLASHEXIT == 3      \* the last of the four steps of a silencing

State == {"IDLE", "OPEN_FILE", "GATEWAY_PATH_SILENCE", "NETWORK_SILENCE",
          "SECTOR_READ", "FWIMAGE_OF_SECTOR_COUNT", "ERASE_FLASH",
          "FW_IMAGE_TRANSFER", "FW_IMAGE_ENDOF_PAGE_TRANSFER",
          "NEW_FWIMAGE_CRC_CALCULATE", "ACTIVATE_NEW_FWIMAGE", "SEND_ACTIVATE_CMD",
          "READ_AND_COMPARE_FW_VERSION", "NETWORK_UNSILENCE",
          "GATEWAY_PATH_UNSILENCE", "ROLLBACK_TO_NORMAL_COMM_MODE"}

\* Commands: 9B and 9D, flash save and exit, and those of the update.
Commissioning == {"9", "flash", "version"}
Update == {"sector", "count", "erase", "end", "verify", "activate", "status"}
Command == Commissioning \cup Update
\* Answers: to a command, to a piece of the image, a refusal of either kind
\* of command, or the gateway's report of an error, of the command's type.
CommissionAnswer == Commissioning \cup {"nack"}
Answer == CommissionAnswer \cup Update \cup {"piece", "refused", "report 3", "report 9"}

NoNode == "none"
NoFile == 0
Unreadable == -1

VARIABLES
  scope,                    \* the gateway: with leaves, or alone
  state, waiting,           \* ondemand_fuota_state, waiting_for_response
  timer,                    \* whether timeoutState is TIMER_FUOTA_RESPONSE
  tx,                       \* the command in client_tx_buffer
  silence, unsilence,       \* the step of the gateway's two sequences
  network,                  \* network_silence_state
  retry, alternate, alt,    \* of cntx; use_alternate_fuota_route
  loop,                     \* the sequence over the leaves
  current,                  \* current_fuota_target_mac
  queue, request,           \* RF_Meter_FUOTA; request_id
  arrived,                  \* requests that have come (bounds the instance)
  file, sized,              \* firmware_path of the client; total_firmwaresize > 0
  cached,                   \* the file the cached CRC was computed of
  book,                     \* of the current request: its status in
                            \* dlms_fuota_upload, the stages before the last all
                            \* "open", and whether last_status_map has a failure
  answers,                  \* under way to the HES
  flash,                    \* the meter: the file it holds, NoFile when erased
  confirmed                 \* history: the current request's verification succeeded

steps == <<silence, unsilence, network>>
counters == <<retry, alternate, alt>>
leaves == <<loop, current>>
job == <<queue, request, arrived, file, sized>>
sending == <<waiting, timer, tx>>
air == <<answers, flash, confirmed>>
vars == <<scope, state, sending, steps, counters, leaves, job, cached, book, air>>

nodes == scope.nodes

\* The elements of q that lie in S, in their order.
Filtered(q, S) ==
  LET chosen[i \in 0..Len(q)] ==
        IF i = 0 THEN <<>>
        ELSE IF q[i] \in S THEN Append(chosen[i - 1], q[i]) ELSE chosen[i - 1]
  IN chosen[Len(q)]
\* A node is a leaf when no other node's route passes through it.
detect_leaf_nodes ==
  Filtered(nodes, {n \in Meter : \A m \in ToSet(nodes) \ {n} : n \notin ToSet(Path[m])})
filter_out_on_demand(some, n) == Filtered(some, Meter \ {n})

\* todo: leaves still to do, the current one first; off: unsilencing; again:
\* the caller goes on with cansend_fuota_next_command.
NoLoop == [todo |-> <<>>, off |-> FALSE, attempt |-> 0, resent |-> 0, again |-> FALSE]
Looping == loop.todo # <<>>
Busy == Looping \/ state = "FW_IMAGE_TRANSFER"

NewBook == [status |-> "open", final |-> FALSE]

TypeOK ==
  /\ scope \in Scopes
  /\ state \in State /\ waiting \in BOOLEAN /\ timer \in BOOLEAN /\ tx \in Command
  /\ {silence, unsilence, network} \subseteq 0..AT_ENABLE_FLASHEXIT
  /\ retry \in 0..(max_retries + scope.requests + 1)
  /\ alternate \in 0..(alternate_maxcnt + 1) \cup {max_retries} /\ alt \in BOOLEAN
  /\ ToSet(loop.todo) \subseteq ToSet(detect_leaf_nodes)
  /\ loop.attempt \in 0..(max_retries - 1) /\ loop.resent \in 0..(max_retries - 1)
  /\ Looping => current = Head(loop.todo)
  /\ {request, cached} \subseteq Request \cup {NoFile}
  /\ file \in Request \cup {NoFile, Unreadable} /\ sized \in BOOLEAN
  /\ book.status \in {"open", "failed", "timed out", "success"}
  /\ book.final \in BOOLEAN /\ confirmed \in BOOLEAN
  /\ Len(answers) <= scope.late /\ ToSet(answers) \subseteq Answer
  /\ flash \in Request \cup {NoFile, Unreadable}

Init ==
  /\ scope \in Scopes
  /\ state = "IDLE" /\ waiting = FALSE /\ timer = FALSE /\ tx = "9"
  /\ silence = 0 /\ unsilence = 0 /\ network = 0
  /\ retry = 0 /\ alternate = 0 /\ alt = FALSE
  /\ loop = NoLoop /\ current = NoNode
  /\ queue = <<>> /\ arrived = 0 /\ request = NoFile /\ file = NoFile /\ sized = FALSE
  /\ cached = NoFile
  /\ book = NewBook
  /\ answers = <<>> /\ flash = Unreadable /\ confirmed = FALSE

-----------------------------------------------------------------------------
(* The row of the request in dlms_fuota_upload.  A failure is remembered,   *)
(* and no later update of that request is written.                          *)

ondemand_fuota_update_status(b, r, s) ==
  IF r = NoFile \/ b.final THEN b ELSE [status |-> s, final |-> s = "failed"]

(* The network, external: a command is lost, or carried out and its answer  *)
(* lost or on its way, or refused.  ch: the answers under way before; img:  *)
(* what the flash holds.                                                    *)

Put(ch, a) == IF Len(ch) < scope.late THEN Append(ch, a) ELSE ch
Refusals(c) == IF c \in Commissioning THEN {"nack", "report 3"} ELSE {"refused", "report 9"}
\* After a command that changes nothing in the flash.
Heard(ch, c) == {ch} \cup {Put(ch, a) : a \in {c} \cup Refusals(c)}
Carried(c, ch, img) ==
  LET right == img = cached'
      before == confirmed /\ request' = request
  IN \/ /\ answers' \in {ch} \cup {Put(ch, a) : a \in Refusals(c)}
        /\ flash' = img /\ confirmed' = before
     \/ /\ flash' = IF c = "erase" THEN NoFile ELSE img
        /\ confirmed' = (before \/ (c = "verify" /\ right))
        /\ answers' \in {Put(ch, IF c = "verify" /\ ~right THEN "refused" ELSE c)}
                       \cup (IF c \in {"erase", "verify"} THEN {ch} ELSE {})

(* build_and_store_fuota_cmd: with use_alternate_fuota_route set, what is   *)
(* sent is the network's silencing command instead of the one framed.       *)

StepCommand(n) == IF n < 2 THEN "9" ELSE "flash"
build_and_store_fuota_cmd(c, ch) ==
  LET sent == IF alt' THEN StepCommand(network') ELSE c
  IN /\ tx' = sent /\ waiting' = TRUE /\ timer' = TRUE
     /\ Carried(sent, ch, flash)

-----------------------------------------------------------------------------
(* cansend_fuota_next_command.  It is called by a handler that has changed  *)
(* part of the state: g is that part as the handler leaves it, and n the    *)
(* step of the gateway's sequence.                                          *)

Now == [ch |-> answers, waiting |-> waiting, alt |-> alt, cached |-> cached,
        request |-> request, file |-> file, sized |-> sized, book |-> book]
Settle(g) == cached' = g.cached /\ file' = g.file /\ sized' = g.sized /\ book' = g.book
NothingSent(g) ==
  /\ answers' = g.ch /\ waiting' = g.waiting /\ UNCHANGED <<timer, tx, flash>>
  /\ confirmed' = (confirmed /\ request' = request)
Recorded(g, s) ==
  [g EXCEPT !.book = ondemand_fuota_update_status(g.book, g.request, s)]

CommandOf ==
  [SECTOR_READ |-> "sector", FWIMAGE_OF_SECTOR_COUNT |-> "count",
   ERASE_FLASH |-> "erase", FW_IMAGE_ENDOF_PAGE_TRANSFER |-> "end",
   NEW_FWIMAGE_CRC_CALCULATE |-> "verify", ACTIVATE_NEW_FWIMAGE |-> "activate",
   SEND_ACTIVATE_CMD |-> "status", READ_AND_COMPARE_FW_VERSION |-> "version"]
Asking == DOMAIN CommandOf

\* The CRC is computed of the open file, unless one is cached.
calculate_crc_for_target_node(st, g) ==
  IF st = "NEW_FWIMAGE_CRC_CALCULATE" /\ g.cached = NoFile
  THEN [g EXCEPT !.cached = g.file] ELSE g

Ask(st, g) ==
  /\ state' = st /\ Settle(calculate_crc_for_target_node(st, g)) /\ alt' = g.alt
  /\ UNCHANGED <<leaves, network>>
  /\ build_and_store_fuota_cmd(CommandOf[st], g.ch)

AskGateway(st, n, g) ==
  /\ state' = st /\ Settle(g) /\ alt' = g.alt /\ UNCHANGED <<leaves, network>>
  /\ build_and_store_fuota_cmd(StepCommand(n), g.ch)

\* A sequence over leaves begins with the first command to the first of them.
BeginLeaf(todo, off, again, g) ==
  /\ loop' = [todo |-> todo, off |-> off, attempt |-> 0, resent |-> 0, again |-> again]
  /\ current' = Head(todo) /\ network' = 0 /\ Settle(g)
  /\ alt' = (~off \/ g.alt)
  /\ build_and_store_fuota_cmd("9", g.ch)
\* It ends with the sector query, or with the gateway's unsilencing, whose
\* command is sent when the caller goes on.
EndLeaves(off, again, g) ==
  /\ loop' = NoLoop /\ UNCHANGED <<current, network>> /\ Settle(g)
  /\ alt' = (off /\ g.alt)
  /\ state' = IF off THEN "GATEWAY_PATH_UNSILENCE" ELSE "SECTOR_READ"
  /\ IF off /\ ~again THEN NothingSent(g)
     ELSE build_and_store_fuota_cmd(IF off THEN StepCommand(unsilence) ELSE "sector", g.ch)

process_rffuota_enable_sequence_refactored(g) ==
  /\ state' = "NETWORK_SILENCE"
  /\ BeginLeaf(detect_leaf_nodes, FALSE, FALSE, g)
\* The node excluded is the current target: the leaf silenced last.
process_rffuota_disable_sequence(again, g) ==
  LET todo == filter_out_on_demand(detect_leaf_nodes, current)
  IN IF todo = <<>> THEN EndLeaves(TRUE, again, g)
     ELSE state' = "NETWORK_UNSILENCE" /\ BeginLeaf(todo, TRUE, again, g)

\* The file of the request is there and the gateway is told to be silent; or
\* it is not, nothing is sent, and the state changes all the same.
open_requested_firmware(n, g) ==
  \/ /\ g.request # NoFile
     /\ AskGateway("GATEWAY_PATH_SILENCE", n, [g EXCEPT !.file = g.request, !.sized = TRUE])
  \/ /\ state' = "GATEWAY_PATH_SILENCE" /\ alt' = g.alt /\ UNCHANGED <<leaves, network>>
     /\ Settle(Recorded(g, "open")) /\ NothingSent(g)

Rest(st, g) ==
  /\ state' = st /\ alt' = g.alt /\ UNCHANGED <<leaves, network>>
  /\ Settle(g) /\ NothingSent(g)

\* Without nodes the gateway alone is updated (that the query succeeds is
\* assumed).
check_gateway_nodelist_empty_or_not == nodes = <<>>

cansend_fuota_next_command(st, n, g) ==
  \/ st = "OPEN_FILE" /\ open_requested_firmware(n, g)
  \/ st \in {"GATEWAY_PATH_SILENCE", "GATEWAY_PATH_UNSILENCE"} /\ AskGateway(st, n, g)
  \/ st \in Asking /\ Ask(st, g)
  \/ /\ st = "NETWORK_SILENCE"
     /\ IF check_gateway_nodelist_empty_or_not THEN Ask("SECTOR_READ", g)
        ELSE process_rffuota_enable_sequence_refactored(g)
  \/ /\ st = "NETWORK_UNSILENCE"
     /\ IF check_gateway_nodelist_empty_or_not
        THEN AskGateway("GATEWAY_PATH_UNSILENCE", unsilence, g)
        ELSE process_rffuota_disable_sequence(FALSE, g)
  \/ st \in {"IDLE", "FW_IMAGE_TRANSFER", "ROLLBACK_TO_NORMAL_COMM_MODE"} /\ Rest(st, g)

\* The next request is parsed and opened, or the network is unsilenced; then
\* the caller sends the next command, unless it has none to send.
handle_fuota_completion(again, g) ==
  /\ UNCHANGED <<silence, unsilence>>
  /\ IF queue # <<>>
     THEN /\ request' = Head(queue) /\ queue' = Tail(queue)
          /\ LET h == [g EXCEPT !.request = Head(queue), !.file = Unreadable,
                                !.waiting = FALSE, !.book = NewBook]
             IN IF again THEN open_requested_firmware(silence, h) ELSE Rest("OPEN_FILE", h)
     ELSE /\ UNCHANGED <<queue, request>>
          /\ IF nodes = <<>>
             THEN \E ch \in IF again THEN Heard(g.ch, StepCommand(unsilence)) ELSE {g.ch} :
                    AskGateway("GATEWAY_PATH_UNSILENCE", unsilence, [g EXCEPT !.ch = ch])
             ELSE process_rffuota_disable_sequence(again, g)

\* The queue is popped without parsing the request: the request number and
\* the file stay those of the one before.
DequeueOr(st, g) ==
  /\ UNCHANGED <<silence, request>>
  /\ IF queue # <<>>
     THEN queue' = Tail(queue) /\ open_requested_firmware(silence, g)
     ELSE UNCHANGED queue /\ Rest(st, g)

-----------------------------------------------------------------------------
(* client_process_rf_fuota_data: a packet in each of the states. *)

answer == Head(answers)
Got == [Now EXCEPT !.ch = Tail(answers)]
Packet(st) == ~Busy /\ answers # <<>> /\ state = st /\ UNCHANGED <<scope, arrived>>

\* An answer of the update whose byte before the last is 0, or may be: the
\* CRC of a verification and the number of a piece can be anything.
Zero(x) == IF x \in {"verify", "piece"} THEN BOOLEAN
           ELSE {x \in {"sector", "count", "erase", "end", "activate", "status"}}
\* Faulty variant: the verification is taken like the other commands.
AcceptsAnyZero(st, x) ==
  CASE st \in {"SECTOR_READ", "FWIMAGE_OF_SECTOR_COUNT", "ERASE_FLASH",
               "NEW_FWIMAGE_CRC_CALCULATE", "SEND_ACTIVATE_CMD"} -> Zero(x)
    [] st = "FW_IMAGE_ENDOF_PAGE_TRANSFER" ->
         IF x \in {"verify", "piece"} THEN BOOLEAN ELSE {x \in {"erase", "end"}}
    [] st = "ACTIVATE_NEW_FWIMAGE" -> {x = "activate"}
    [] OTHER -> {x \in CommissionAnswer}
\* The answers each state takes for the answer to its command.
Accepts(st, x) ==
  CASE st \in {"SECTOR_READ", "FWIMAGE_OF_SECTOR_COUNT", "ERASE_FLASH",
               "SEND_ACTIVATE_CMD"} -> Zero(x)
    [] st = "FW_IMAGE_ENDOF_PAGE_TRANSFER" ->
         IF x \in {"verify", "piece"} THEN BOOLEAN ELSE {x \in {"erase", "end"}}
    [] st = "NEW_FWIMAGE_CRC_CALCULATE" -> {x = "verify"}
    [] st = "ACTIVATE_NEW_FWIMAGE" -> {x = "activate"}
    [] OTHER -> {x \in CommissionAnswer}

OpenFile ==
  /\ Packet("OPEN_FILE")
  /\ silence' = 0 /\ UNCHANGED <<unsilence, retry, alternate, queue, request>>
  /\ \E ch \in {Got.ch} \cup Heard(Got.ch, StepCommand(silence)) :
       \E f \in IF request = NoFile THEN {FALSE} ELSE BOOLEAN :
         AskGateway("GATEWAY_PATH_SILENCE", 0,
           IF f THEN [Got EXCEPT !.ch = ch, !.file = request, !.sized = TRUE]
           ELSE Recorded(Got, "open"))

\* The retry context is never started: the decision is to terminate.
command_response_timeout_at_fuota(g) ==
  UNCHANGED <<steps, queue, request>> /\ Rest("ROLLBACK_TO_NORMAL_COMM_MODE", g)

GatewaySilence ==
  /\ Packet("GATEWAY_PATH_SILENCE")
  /\ LET g == Recorded(Got, "open")
     IN \/ /\ answer \in {"9", "flash"} /\ silence < AT_ENABLE_FLASHEXIT
           /\ silence' = silence + 1
           /\ UNCHANGED <<unsilence, retry, alternate, queue, request>>
           /\ cansend_fuota_next_command("GATEWAY_PATH_SILENCE", silence + 1, g)
        \/ /\ answer \in {"9", "flash"} /\ silence = AT_ENABLE_FLASHEXIT
           /\ silence' = 0 /\ UNCHANGED <<unsilence, retry, alternate, queue, request>>
           /\ cansend_fuota_next_command("NETWORK_SILENCE", 0, g)
        \/ /\ answer \in {"nack", "version"}
           /\ UNCHANGED <<silence, unsilence, retry, alternate, queue, request>>
           /\ cansend_fuota_next_command("GATEWAY_PATH_SILENCE", silence, g)
        \/ /\ answer \notin CommissionAnswer
           /\ retry' = retry + 1 /\ alternate' = 0
           /\ command_response_timeout_at_fuota([Got EXCEPT !.alt = FALSE])

\* In this state only when every retry of an update failed.
NetworkSilence ==
  /\ Packet("NETWORK_SILENCE")
  /\ \/ /\ answer \in CommissionAnswer
        /\ UNCHANGED <<silence, unsilence, retry, alternate, queue, request>>
        /\ cansend_fuota_next_command(
             IF network < AT_ENABLE_FLASHEXIT THEN "NETWORK_SILENCE" ELSE "SECTOR_READ",
             0, Got)
     \/ /\ answer \notin CommissionAnswer
        /\ retry' = 0 /\ alternate' = 0
        /\ command_response_timeout_at_fuota([Got EXCEPT !.alt = FALSE])

\* dynamic_fuota_calculate: the file is opened again, and its pages counted.
AfterSector ==
  CASE file \in Request -> "FWIMAGE_OF_SECTOR_COUNT"
    [] file = NoFile \/ ~sized -> "NETWORK_UNSILENCE"
    [] OTHER -> "SECTOR_READ"

\* The answer is taken: counters back to zero, and on to the next state.
Proceed(st, g) ==
  /\ retry' = 0 /\ UNCHANGED <<silence, unsilence, queue, request>>
  /\ alternate' = IF state = "NEW_FWIMAGE_CRC_CALCULATE" THEN alternate ELSE 0
  /\ cansend_fuota_next_command(st, 0, g)

Taken ==
  LET here == [Recorded(Got, "open") EXCEPT !.waiting = FALSE, !.alt = FALSE]
      on == [SECTOR_READ |-> AfterSector, FWIMAGE_OF_SECTOR_COUNT |-> "ERASE_FLASH",
             ERASE_FLASH |-> "FW_IMAGE_TRANSFER",
             FW_IMAGE_ENDOF_PAGE_TRANSFER |-> "NEW_FWIMAGE_CRC_CALCULATE",
             ACTIVATE_NEW_FWIMAGE |-> "SEND_ACTIVATE_CMD"]
  IN \/ state \in DOMAIN on /\ Proceed(on[state], here)
     \/ /\ state = "NEW_FWIMAGE_CRC_CALCULATE"
        /\ Proceed("ACTIVATE_NEW_FWIMAGE",
                   [here EXCEPT !.alt = alt, !.cached = NoFile])
     \/ /\ state = "SEND_ACTIVATE_CMD"
        /\ Proceed("READ_AND_COMPARE_FW_VERSION",
                   [Recorded(Got, "success") EXCEPT !.waiting = FALSE, !.alt = FALSE])
     \/ /\ state = "READ_AND_COMPARE_FW_VERSION"
        /\ retry' = 0 /\ alternate' = 0 /\ handle_fuota_completion(TRUE, here)

\* Not taken: the command is sent again, three times (the verification two).
Limit == IF state = "NEW_FWIMAGE_CRC_CALCULATE" THEN max_retries - 1 ELSE max_retries
Refused ==
  \/ /\ retry < Limit
     /\ retry' = retry + 1
     /\ alternate' = IF state = "SECTOR_READ" THEN 0 ELSE alternate
     /\ UNCHANGED <<silence, unsilence, queue, request>>
     /\ LET g == [Got EXCEPT !.waiting = TRUE, !.alt = alt /\ state # "SECTOR_READ"]
        IN cansend_fuota_next_command(
             IF state = "SEND_ACTIVATE_CMD" THEN "ACTIVATE_NEW_FWIMAGE" ELSE state, 0,
             IF state = "ACTIVATE_NEW_FWIMAGE" THEN Recorded(g, "open") ELSE g)
  \/ /\ retry >= Limit
     /\ retry' = 0 /\ UNCHANGED alternate
     /\ LET g == [Got EXCEPT !.waiting = FALSE]
        IN handle_fuota_completion(TRUE,
             IF state \in {"NEW_FWIMAGE_CRC_CALCULATE", "ACTIVATE_NEW_FWIMAGE",
                           "SEND_ACTIVATE_CMD", "READ_AND_COMPARE_FW_VERSION"}
             THEN Recorded(g, "failed") ELSE g)

Answered ==
  /\ state \in Asking /\ Packet(state)
  /\ \E ok \in Accepts(state, answer) : IF ok THEN Taken ELSE Refused

GatewayUnsilence ==
  /\ Packet("GATEWAY_PATH_UNSILENCE")
  /\ UNCHANGED <<retry, alternate>>
  /\ \/ /\ answer \in {"9", "flash"} /\ unsilence < AT_ENABLE_FLASHEXIT
        /\ unsilence' = unsilence + 1 /\ UNCHANGED <<silence, queue, request>>
        /\ cansend_fuota_next_command("GATEWAY_PATH_UNSILENCE", unsilence + 1, Got)
     \/ /\ answer = "report 3"
        /\ UNCHANGED <<silence, unsilence, queue, request>>
        /\ cansend_fuota_next_command("GATEWAY_PATH_UNSILENCE", unsilence, Got)
     \/ /\ answer # "report 3" /\ (answer \in {"9", "flash"} => unsilence = AT_ENABLE_FLASHEXIT)
        /\ UNCHANGED unsilence /\ DequeueOr("ROLLBACK_TO_NORMAL_COMM_MODE", Got)

Rollback ==
  /\ Packet("ROLLBACK_TO_NORMAL_COMM_MODE")
  /\ UNCHANGED <<retry, alternate, unsilence>>
  /\ IF queue # <<>> THEN DequeueOr(state, Got)
     ELSE /\ timer' = FALSE /\ answers' = Tail(answers)
          /\ UNCHANGED <<state, waiting, tx, silence, network, alt, leaves, queue, request, file, sized,
                         cached, book, flash, confirmed>>

-----------------------------------------------------------------------------
(* The image transfer, as module FuotaUpload describes it: it ends with the *)
(* image as it should be, with another one, or with no piece of it stored,  *)
(* and answers of its last pieces may come late; or it is abandoned.        *)

Upload ==
  /\ state = "FW_IMAGE_TRANSFER" /\ UNCHANGED <<scope, arrived, retry>>
  /\ alternate' \in {alternate, alternate_maxcnt + 1}
  /\ \E late \in {<<>>, <<"piece">>},
        img \in {flash, Unreadable} \cup (IF flash = NoFile THEN {file} ELSE {}) :
       \/ /\ state' = "FW_IMAGE_ENDOF_PAGE_TRANSFER" /\ UNCHANGED <<network, alt, leaves>>
          /\ Settle(Now) /\ UNCHANGED <<silence, unsilence, queue, request>>
          /\ tx' = "end" /\ waiting' = TRUE /\ timer' = TRUE
          /\ Carried("end", late, img)
       \/ /\ img = flash
          /\ \E s \in {"open", "failed"} :
               handle_fuota_completion(FALSE, Recorded([Now EXCEPT !.ch = late], s))

-----------------------------------------------------------------------------
(* The sequence over the leaves blocks the handler of the gateway: four     *)
(* commands to each, three attempts at each, each sent again three times.   *)

LeafCommand(ch) ==
  /\ UNCHANGED <<state, current, cached, file, sized, book, alt>>
  /\ build_and_store_fuota_cmd(StepCommand(network'), ch)

\* Done or given up (which only the row of the leaf tells, and nothing here
\* reads it): the next leaf or the end comes.
LeafDone(ch) ==
  LET g == [Now EXCEPT !.ch = ch]
  IN IF Len(loop.todo) = 1 THEN EndLeaves(loop.off, loop.again, g)
     ELSE UNCHANGED state /\ BeginLeaf(Tail(loop.todo), loop.off, loop.again, g)

StepDone(ch) ==
  IF network = AT_ENABLE_FLASHEXIT THEN LeafDone(ch)
  ELSE /\ network' = network + 1
       /\ loop' = [loop EXCEPT !.attempt = 0, !.resent = 0]
       /\ LeafCommand(ch)

AttemptFailed(ch) ==
  IF loop.attempt = max_retries - 1 THEN LeafDone(ch)
  ELSE /\ UNCHANGED network
       /\ loop' = [loop EXCEPT !.attempt = @ + 1, !.resent = 0]
       /\ LeafCommand(ch)

\* Faulty variant: an answer that makes no sense is not counted.
SendAgainUncounted(ch) == UNCHANGED <<loop, network>> /\ LeafCommand(ch)
\* The command is sent again; after the third time the attempt has failed.
SendAgain(ch) ==
  IF loop.resent < max_retries - 1
  THEN /\ loop' = [loop EXCEPT !.resent = @ + 1] /\ UNCHANGED network
       /\ LeafCommand(ch)
  ELSE \E heard \in Heard(ch, tx) : AttemptFailed(heard)

InLoop ==
  Looping /\ UNCHANGED <<scope, arrived, silence, unsilence, retry, alternate, queue, request>>

\* Nothing came in time; or the socket failed, and with it the attempt at once.
LeafTimeout == InLoop /\ (SendAgain(answers) \/ AttemptFailed(answers))

\* No answer is checked against the leaf it is from; that to 9B or 9D need
\* not be one to 9B or 9D.
LeafAnswer ==
  /\ InLoop /\ answers # <<>>
  /\ \/ answer \in {"report 3", "report 9"} /\ SendAgain(Tail(answers))
     \/ /\ answer = "flash" \/ (answer = "9" /\ network < 2)
        /\ StepDone(Tail(answers))
     \/ /\ answer \notin {"report 3", "report 9", "flash"} /\ (answer = "9" => network >= 2)
        /\ AttemptFailed(Tail(answers))

-----------------------------------------------------------------------------
(* The client's timer, when it is the update's and an answer is awaited. *)

Fires ==
  /\ timer /\ waiting /\ ~Busy
  /\ UNCHANGED <<scope, arrived, leaves, steps, state, cached, file, sized>>

Retry ==
  /\ Fires /\ retry < max_retries
  /\ retry' = retry + 1 /\ UNCHANGED <<alternate, alt, queue, request, book>>
  /\ build_and_store_fuota_cmd(tx, answers)

\* Whether the database knows another route to the node.
build_alternate_route == BOOLEAN

\* The alternate is counted by the timer and by prepare_alternate_route_retry,
\* which exhausts the count when there is no other route.
Alternate ==
  /\ Fires /\ retry >= max_retries /\ alternate < alternate_maxcnt
  /\ retry' = 0 /\ alt' = TRUE /\ UNCHANGED <<queue, request>>
  /\ \E found \in build_alternate_route :
       alternate' = IF found THEN alternate + 2
                    ELSE IF state = "FWIMAGE_OF_SECTOR_COUNT" THEN max_retries
                    ELSE alternate_maxcnt
  /\ book' = Recorded(Now, "open").book
  /\ build_and_store_fuota_cmd(tx, answers)

\* All retries failed.  The row is written without remembering the failure,
\* and the queue popped without parsing the request.
FinalFailure ==
  /\ timer /\ waiting /\ ~Busy
  /\ retry >= max_retries /\ alternate >= alternate_maxcnt
  /\ waiting' = FALSE /\ alt' = FALSE /\ retry' = 0 /\ alternate' = 0
  /\ book' = IF request = NoFile THEN book ELSE [book EXCEPT !.status = "timed out"]
  /\ state' = IF queue # <<>> THEN "OPEN_FILE" ELSE "NETWORK_SILENCE"
  /\ queue' = IF queue # <<>> THEN Tail(queue) ELSE queue
  /\ UNCHANGED <<scope, arrived, timer, tx, steps, leaves, request, file, sized, cached, air>>

-----------------------------------------------------------------------------
(* Requests, external; the queue is looked at whenever on-demand requests   *)
(* are processed, an update under way or not.                               *)

Arrive ==
  /\ arrived < scope.requests
  /\ arrived' = arrived + 1 /\ queue' = Append(queue, arrived')
  /\ UNCHANGED <<scope, state, sending, steps, counters, leaves, request, file, sized,
                 cached, book, air>>

process_fuota_queue ==
  /\ ~Busy /\ UNCHANGED <<scope, arrived, silence, unsilence, retry, alternate>>
  /\ IF queue = <<>>
     THEN UNCHANGED <<queue, request>> /\ Rest("ROLLBACK_TO_NORMAL_COMM_MODE", Now)
     ELSE /\ request' = Head(queue) /\ queue' = Tail(queue)
          /\ open_requested_firmware(silence,
               [Now EXCEPT !.request = Head(queue), !.book = NewBook])

\* An update that was under way when the gateway was lost: its file is found,
\* and the one opened is of no name.
resume_rf_fuota_pending_state_process ==
  /\ state = "IDLE" /\ request = NoFile
  /\ sized' = TRUE /\ state' = "GATEWAY_PATH_SILENCE"
  /\ UNCHANGED <<scope, arrived, sending, steps, counters, leaves, queue, request, file, cached,
                 book, air>>

Next ==
  \/ OpenFile \/ GatewaySilence \/ NetworkSilence \/ Answered \/ GatewayUnsilence
  \/ Rollback \/ Upload
  \/ LeafTimeout \/ LeafAnswer
  \/ Retry \/ Alternate \/ FinalFailure
  \/ Arrive \/ process_fuota_queue \/ resume_rf_fuota_pending_state_process

Spec == Init /\ [][Next]_vars

-----------------------------------------------------------------------------
(* Success is recorded for a request (status 21, on an answer that could be *)
(* that to almost any command) only when, during that request, the meter    *)
(* found the CRC of its image equal to the one it was sent: an answer taken *)
(* for another's, or a transfer that never happened, does not lead there.   *)
SuccessVerified == book.status = "success" => confirmed

(* The silencing and the unsilencing of the leaves, which block the thread  *)
(* of the gateway, come to an end whatever the leaves answer or do not:     *)
(* every step but a request's arrival brings the sequence nearer to its     *)
(* end, over its four nested counters (leaf, step, attempt, sending).       *)
Ahead ==
  IF ~Looping THEN 0
  ELSE ((4 * Len(loop.todo) + AT_ENABLE_FLASHEXIT - network) * max_retries
        + max_retries - 1 - loop.attempt) * max_retries + max_retries - 1 - loop.resent
LoopAdvances == [][Looping /\ arrived' = arrived => Ahead' < Ahead]_vars
=============================================================================

--------------------------- MODULE InitConnection ---------------------------
(***************************************************************************)
(* What the handler does right after a gateway has registered              *)
(* (Client::init_connection): it takes the network from the NMS, reads the *)
(* routes, wakes the nodes a firmware update left silent, and pulls the    *)
(* name plates and the scalar profiles that the database lacks.  Each      *)
(* exchange is transmit_command_and_validate_response with the three       *)
(* arguments of init_connection, which is another loop than the one of the *)
(* pull cycle: it checks every answer against the frame it sent, counts    *)
(* time-outs of the mesh apart, and reconnects DLMS on its own.            *)
(*                                                                         *)
(* Node 0 is the gateway.  asked holds the commands not answered yet.      *)
(***************************************************************************)
EXTENDS Naturals, Integers, Sequences, FiniteSets

CONSTANTS
  NodeCount,     \* nodes behind the gateway
  Hop,           \* Hop[n]: hop_count of the route to node n
  MaxHops,       \* the longest route a frame has room for (30 in the code)
  QueueLimit,    \* size of the queues filled from the database (50)
  Connected,     \* nodes with a route, in the order of the table
  SilencedRows,  \* sets of nodes a firmware update may have left silent
  PlateRows,     \* sets of nodes whose name plate the database may lack
  ScalarQueues,  \* what check_for_scalar_profile may queue
  LastPage,      \* every profile has the pages 0..LastPage
  MaxNoise,      \* bound: packets that cost the exchange no retry
  MaxDue         \* bound: answers the mesh may still owe

Node == 0..NodeCount
Page == 0..LastPage
ScalarProfiles == {"IP", "BH", "DLP", "BLP"}
Profiles == {"NAMEPLATE"} \cup ScalarProfiles
Task == [node: Node, cmd: Profiles \cup {"UNSILENCE"}]
Phase == <<"SILENCED", "NAMEPLATE", "SCALAR">>

ASSUME InitBounds ==
  /\ NodeCount \in Nat /\ MaxHops \in Nat /\ QueueLimit \in Nat \ {0}
  /\ LastPage \in Nat /\ MaxNoise \in Nat /\ MaxDue \in Nat \ {0}
  /\ Hop \in [Node -> Nat] /\ Hop[0] = 0
  /\ Connected \in Seq(1..NodeCount)
  /\ ScalarQueues \subseteq Seq([node: Node, cmd: ScalarProfiles])
  /\ ScalarQueues # {}
  /\ SilencedRows \subseteq SUBSET (1..NodeCount) /\ PlateRows \subseteq SUBSET Node

Commands == Profiles \cup {"UNSILENCE", "WAKE", "DLMS_CONNECT"}
Query == [node: Node, cmd: Commands, page: Page]
\* Codes that leave the exchange waiting, without arming the source check.
Ignored == {"FAILURE", "DLMS_CHECKSUM_ERROR", "PMESH_ERROR", "PUSH"}
\* Codes that arm it again.
Rearming == {"INVALID_RESPONSE", "COMMAND_IN_PROGRESS"}

VARIABLES
  pc,            \* start, list, visit, send, recv, done, end
  phase, queue,  \* the phase, and what is left of its queue
  routes,        \* pathSrcRouteQueue
  cmd,           \* the original packet: UNSILENCE, WAKE or a profile
  connecting,    \* need_to_write_dlms_pkt
  page,          \* page_index_count
  retry, retry_timeout, got, ret,      \* locals of the exchange
  again,         \* the last packet was a time-out or a failed response
  armed,         \* need_to_validate_src_addr
  kept,          \* kept[k][p]: whose values lie first in page p of profile k
  asked, meter, noise,
  silenced,      \* rows of unsilenced_nodes_for_fuota
  row,           \* row[n][k] in the database: lacking, own or mixed
  hes, gatewayStatus, duplicate_gateway,
  answered,      \* history: the node of this exchange has answered
  spoilt         \* history: profiles a failed exchange left pages of

place == <<phase, queue, routes>>
counts == <<retry, retry_timeout, again>>
exchange == <<cmd, connecting, page, counts, got, ret>>
history == <<answered, spoilt>>
vars == <<pc, place, exchange, armed, kept, asked, meter, noise, silenced, row,
          hes, gatewayStatus, duplicate_gateway, history>>

TypeOK ==
  /\ pc \in {"start", "list", "visit", "send", "recv", "done", "end"}
  /\ phase \in 1..Len(Phase) /\ queue \in Seq(Task) /\ routes \in Seq(Node)
  /\ Len(queue) <= QueueLimit /\ Len(routes) <= QueueLimit
  /\ cmd \in Profiles \cup {"UNSILENCE", "WAKE"} /\ connecting \in BOOLEAN
  /\ page \in Page /\ retry \in 0..4 /\ retry_timeout \in 0..3
  /\ again \in BOOLEAN /\ got \in BOOLEAN /\ ret \in {"SUCCESS", "FAILURE"}
  /\ armed \in BOOLEAN /\ kept \in [Profiles -> [Page -> Node \cup {-1}]]
  /\ asked \in Seq(Query) /\ meter \in [Node -> {"silent", "awake"}]
  /\ noise \in 0..MaxNoise /\ silenced \subseteq Node
  /\ row \in [Node -> [Profiles -> {"lacking", "own", "mixed"}]]
  /\ hes \in BOOLEAN /\ gatewayStatus \in {"CONNECTED", "DISCONNECTED"}
  /\ duplicate_gateway \in BOOLEAN
  /\ answered \in BOOLEAN /\ spoilt \subseteq Profiles

Nothing == [p \in Page |-> -1]
Blank(l) == [n \in Node |-> [k \in Profiles |->
               IF k = "NAMEPLATE" /\ n \notin l THEN "own" ELSE "lacking"]]
Init ==
  /\ pc = "start" /\ phase = 1 /\ queue = <<>> /\ routes = <<>>
  /\ cmd = "UNSILENCE" /\ connecting = FALSE /\ page = 0 /\ retry = 0
  /\ retry_timeout = 0 /\ again = FALSE /\ got = FALSE /\ ret = "FAILURE"
  /\ armed = FALSE /\ kept = [k \in Profiles |-> Nothing] /\ asked = <<>>
  /\ noise = MaxNoise
  /\ silenced \in SilencedRows
  /\ meter = [n \in Node |-> IF n \in silenced THEN "silent" ELSE "awake"]
  /\ \E l \in PlateRows : row = Blank(l)
  /\ hes = FALSE /\ gatewayStatus = "CONNECTED" /\ duplicate_gateway = FALSE
  /\ answered = FALSE /\ spoilt = {}

-----------------------------------------------------------------------------
(* The queues filled from the database, which drop their oldest element.   *)

\* Faulty variant: the limit is compared after the element was added.
CappedLate(q) == IF Len(q) <= QueueLimit + 1 THEN q
                 ELSE SubSeq(q, Len(q) - QueueLimit, Len(q))
Capped(q) == IF Len(q) <= QueueLimit THEN q
             ELSE SubSeq(q, Len(q) - QueueLimit + 1, Len(q))
Tasks(q, k) == [i \in 1..Len(q) |-> [node |-> q[i], cmd |-> k]]
\* The elements of q that lie in S, in their order.
Filtered(q, S) ==
  LET chosen[i \in 0..Len(q)] ==
        IF i = 0 THEN <<>>
        ELSE IF q[i] \in S THEN Append(chosen[i - 1], q[i]) ELSE chosen[i - 1]
  IN chosen[Len(q)]

\* unsilence_network goes through the hop counts in ascending order.
ByHop(T) ==
  {s \in [1..Cardinality(T) -> T] :
     \A i, j \in DOMAIN s : i < j => s[i] # s[j] /\ Hop[s[i]] <= Hop[s[j]]}
\* check_for_unsilenced_nodes: the nodes of the table that have a route, in
\* whatever order the database returns its rows; the first ones are dropped.
Queueable(T) == LET found == {n \in silenced : \E i \in DOMAIN routes : routes[i] = n}
                IN /\ T \subseteq found
                   /\ Cardinality(T) = IF Cardinality(found) <= QueueLimit
                                       THEN Cardinality(found) ELSE QueueLimit
\* is_NP_data_available: the gateway first.
NamePlateQueue ==
  Tasks(Capped(Filtered(<<0>> \o routes, {n \in Node : row[n]["NAMEPLATE"] = "lacking"})),
        "NAMEPLATE")

\* The lock, the status rows, and fetch_path_record_from_src_route_network_db,
\* whose failure is only logged.
Start ==
  /\ pc = "start" /\ pc' = "list" /\ hes' = TRUE
  /\ routes' \in {<<>>, Capped(Connected)}
  /\ UNCHANGED <<phase, queue, exchange, armed, kept, asked, meter, noise,
                 silenced, row, gatewayStatus, duplicate_gateway, history>>

\* A query that fails skips its phase; the scalar queue is what was queued by
\* then.
List ==
  /\ pc = "list" /\ pc' = "visit"
  /\ \/ phase < 3 /\ queue' = <<>>
     \/ /\ phase = 1
        /\ \E T \in SUBSET Node : /\ Queueable(T)
                                 /\ \E q \in ByHop(T) : queue' = Tasks(q, "UNSILENCE")
     \/ phase = 2 /\ queue' = NamePlateQueue
     \/ phase = 3 /\ \E q \in ScalarQueues : queue' = Capped(q)
  /\ UNCHANGED <<phase, routes, exchange, armed, kept, asked, meter, noise,
                 silenced, row, hes, gatewayStatus, duplicate_gateway, history>>

\* Every return of init_connection gives the network back.
End == pc' = "end" /\ hes' = FALSE /\ UNCHANGED phase

\* frame_unsilence_cmd, frame_NP_cmd_to_pull_data and
\* frame_Scalar_Profile_cmd_to_pull refuse a route that is too long.
Framed(n) == Hop[n] <= MaxHops
Spinning == /\ pc = "visit" /\ phase = 2 /\ queue # <<>>
            /\ ~Framed(Head(queue).node)

\* The heads of the three loops.  Without a frame a name plate stays at the
\* front of its queue: that loop never ends.
Visit ==
  /\ pc = "visit"
  /\ \/ /\ queue = <<>> /\ phase < 3 /\ phase' = phase + 1 /\ pc' = "list"
        /\ UNCHANGED <<queue, exchange, hes>>
     \/ queue = <<>> /\ phase = 3 /\ End /\ UNCHANGED <<queue, exchange>>
     \/ /\ queue # <<>> /\ phase # 2 /\ ~Framed(Head(queue).node)
        /\ queue' = Tail(queue)
        /\ UNCHANGED <<pc, phase, exchange, hes>>
     \/ /\ queue # <<>> /\ Framed(Head(queue).node)
        /\ pc' = "send" /\ cmd' = Head(queue).cmd /\ connecting' = FALSE
        /\ UNCHANGED <<page, counts, got, ret, phase, queue, hes>>
  /\ UNCHANGED <<routes, armed, kept, asked, meter, noise, silenced, row,
                 gatewayStatus, duplicate_gateway, history>>

-----------------------------------------------------------------------------
(* The exchange. *)

node == Head(queue).node
Frame == IF connecting
         THEN [node |-> node, cmd |-> "DLMS_CONNECT", page |-> 0]
         ELSE [node |-> node, cmd |-> cmd, page |-> page]

\* The loop is left: when nothing was received the gateway is taken for gone.
GiveUp(any) ==
  /\ pc' = "done" /\ ret' = "FAILURE"
  /\ gatewayStatus' = IF any THEN gatewayStatus ELSE "DISCONNECTED"

\* A failed send() leaves the loop with gatewayStatus = 0, which is CONNECTED:
\* after an answer in this exchange the three loops go on with the dead socket,
\* the source check armed.
Send ==
  /\ pc = "send"
  /\ \/ /\ pc' = "recv" /\ armed' = TRUE
        /\ asked' = Append(IF Len(asked) < MaxDue THEN asked ELSE Tail(asked),
                           Frame)
        /\ UNCHANGED <<ret, gatewayStatus>>
     \/ GiveUp(got) /\ armed' = got /\ UNCHANGED asked
  /\ UNCHANGED <<place, cmd, connecting, page, counts, got, kept, meter, noise,
                 silenced, row, hes, duplicate_gateway, history>>

\* Another attempt, r and t being the counters by then.
Again(r, t, any) ==
  /\ retry' = r /\ retry_timeout' = t
  /\ IF r > 2 \/ t > 2 THEN GiveUp(any)
     ELSE pc' = "send" /\ UNCHANGED <<ret, gatewayStatus>>

\* recv() timed out.  The code of the packet before it is still in ret: after
\* a time-out of the mesh this counts twice.
TimedOut == IF again THEN Again(retry + 2, retry_timeout + 1, got)
                     ELSE Again(retry + 1, retry_timeout, got)

RecvNothing ==
  /\ pc = "recv"
  /\ \E closed \in BOOLEAN :
       LET gone == closed \/ gatewayStatus = "DISCONNECTED" IN
       \/ /\ gone \/ duplicate_gateway
          /\ pc' = "done" /\ ret' = "FAILURE"
          /\ gatewayStatus' = IF gone \/ ~got THEN "DISCONNECTED"
                                              ELSE gatewayStatus
          /\ UNCHANGED <<retry, retry_timeout>>
       \/ ~gone /\ ~duplicate_gateway /\ TimedOut
  /\ armed' = (armed /\ (pc' = "send" \/ got))
  /\ UNCHANGED <<place, cmd, connecting, page, again, got, kept, asked, meter,
                 noise, silenced, row, hes, duplicate_gateway, history>>

Resend == pc' = "send" /\ UNCHANGED <<ret, gatewayStatus>>
Return(r) ==
  pc' = "done" /\ ret' = r /\ UNCHANGED <<retry, retry_timeout, gatewayStatus>>
\* An alternate path is looked for after two time-outs, but none is ever
\* tried: the copy of it is refused as too long.
CountTimeout ==
  IF (retry_timeout >= 2 /\ cmd \in Profiles) \/ retry >= 2
  THEN Return("FAILURE") ELSE Again(retry + 1, retry_timeout + 1, TRUE)

\* The switch on the code of a packet.  status is byte 16 of the packet: a
\* node that says there that it is silent is sent the wake command.
React(c, status) ==
  \/ /\ c = "SUCCESS" /\ UNCHANGED <<connecting, page>>
     /\ IF cmd = "UNSILENCE" /\ status = 1
        THEN cmd' = "WAKE" /\ retry' = 0 /\ retry_timeout' = 0 /\ Resend
        ELSE Return("SUCCESS") /\ UNCHANGED cmd
  \/ c = "DLMS_ERROR" /\ Return("FAILURE") /\ UNCHANGED <<cmd, connecting, page>>
  \/ /\ c = "SUCCES_NEXT_PAGE" /\ page' = page + 1
     /\ retry' = 0 /\ retry_timeout' = 0 /\ Resend
     /\ UNCHANGED <<cmd, connecting>>
  \/ /\ c = "DLMS_CONNECTION_FAILED" /\ connecting' = TRUE
     /\ retry' = 0 /\ retry_timeout' = 0 /\ Resend /\ UNCHANGED <<cmd, page>>
  \/ /\ c = "DLMS_NOT_CONNECTED" /\ connecting' = TRUE
     /\ Again(retry + 1, retry_timeout, TRUE) /\ UNCHANGED <<cmd, page>>
  \/ /\ c = "DLMS_SUCCESS" /\ connecting' = FALSE /\ Resend
     /\ UNCHANGED <<cmd, page, retry, retry_timeout>>
  \/ /\ c = "PMESH_TIMEOUT_ERROR" /\ CountTimeout
     /\ UNCHANGED <<cmd, connecting, page>>
  \/ /\ c = "FAILED_RESPONSE" /\ Again(retry + 1, retry_timeout + 1, TRUE)
     /\ UNCHANGED <<cmd, connecting, page>>
  \/ /\ c \in Ignored \cup Rearming
     /\ UNCHANGED <<pc, ret, retry, retry_timeout, gatewayStatus, cmd,
                    connecting, page>>

\* A packet read as c; left is what is_valid_packet left of the source check.
Received(c, status, left) ==
  /\ got' = TRUE /\ armed' = (left \/ c \in Rearming)
  /\ again' = (c \in {"PMESH_TIMEOUT_ERROR", "FAILED_RESPONSE"})
  /\ React(c, status)

-----------------------------------------------------------------------------
(* How a packet is read. *)

\* validate_response_buffer: an answer must be to the frame that was sent last,
\* and a commission answer must have status 0.  Reports of a DLMS connection
\* always pass.
ValidResponse(q, status) ==
  \/ q.cmd = "DLMS_CONNECT"
  \/ q.cmd = Frame.cmd /\ q.page = Frame.page /\ status = 0

\* Faulty variant: any source will do.
FromTargetAny(q) == armed
\* is_valid_packet and validate_source_address
FromTarget(q) == armed /\ q.node = node

\* client_process_data.  A silent node may say so in byte 16, in byte 18, or
\* in byte 17 as in the pull cycle, where it is not looked for.
Answers(q) ==
  CASE q.cmd = "UNSILENCE" ->
         {[code |-> "SUCCESS", status |-> 0], [code |-> "FAILURE", status |-> 0]}
         \cup IF meter[q.node] = "silent"
              THEN {[code |-> "SUCCESS", status |-> 1],
                    [code |-> "FAILED_RESPONSE", status |-> 0]}
              ELSE {}
    [] q.cmd = "WAKE" -> {[code |-> "SUCCESS", status |-> 0]}
    [] q.cmd = "DLMS_CONNECT" -> {[code |-> "DLMS_SUCCESS", status |-> 0]}
    [] OTHER -> {[code |-> IF q.page < LastPage THEN "SUCCES_NEXT_PAGE"
                                                ELSE "SUCCESS", status |-> 0]}

\* The parsers append: the first values of an index are the ones used.
Keep(q) == [kept[q.cmd] EXCEPT ![q.page] = IF @ = -1 THEN q.node ELSE @]
Stored(pages) == IF \A p \in Page : pages[p] = node THEN "own" ELSE "mixed"
\* parse_nameplate_profile, and the scalar parsers, which store and clear their
\* profile with its last page (store_scalar_profile_db; that the database takes
\* its statements is assumed).
Parse(q) ==
  CASE q.cmd \in ScalarProfiles /\ q.page = LastPage ->
         /\ kept' = [kept EXCEPT ![q.cmd] = Nothing]
         /\ row' = [row EXCEPT ![node][q.cmd] =
                      IF @ = "lacking" THEN Stored(Keep(q)) ELSE @]
    [] q.cmd \in Profiles /\ ~(q.cmd \in ScalarProfiles /\ q.page = LastPage) ->
         kept' = [kept EXCEPT ![q.cmd] = Keep(q)] /\ UNCHANGED row
    [] OTHER -> UNCHANGED <<kept, row>>

\* External: what a command does in the node.
Obey(q) == IF q.cmd = "WAKE" THEN [meter EXCEPT ![q.node] = "awake"] ELSE meter

\* The oldest command due is answered, perhaps with a push behind the answer
\* in the same buffer, whose code is then the one returned.
RecvAnswer ==
  /\ pc = "recv" /\ asked # <<>> /\ asked' = Tail(asked)
  /\ \E a \in Answers(Head(asked)), packed \in BOOLEAN :
       LET q == Head(asked) IN
       /\ packed => noise > 0
       /\ noise' = noise - (IF packed THEN 1 ELSE 0)
       /\ meter' = Obey(q)
       /\ \/ /\ ~ValidResponse(q, a.status) /\ Received("FAILURE", 0, armed)
             /\ UNCHANGED <<kept, row, answered>>
          \/ /\ ValidResponse(q, a.status) /\ ~FromTarget(q)
             /\ Received(IF packed THEN "PUSH" ELSE "INVALID_RESPONSE", 0, FALSE)
             /\ UNCHANGED <<kept, row, answered>>
          \/ /\ ValidResponse(q, a.status) /\ FromTarget(q)
             /\ Received(IF packed THEN "PUSH" ELSE a.code, a.status, FALSE)
             /\ Parse(q)
             /\ answered' = (answered \/ q.node = node)
  /\ UNCHANGED <<place, silenced, hes, duplicate_gateway, spoilt>>

\* A refused or damaged answer: a DLMS error, or no DLMS connection.
Refusals(q) ==
  CASE q.cmd \in Profiles -> {"DLMS_ERROR", "DLMS_CHECKSUM_ERROR",
                              "DLMS_CONNECTION_FAILED", "INVALID_RESPONSE"}
    [] q.cmd = "DLMS_CONNECT" -> {"DLMS_NOT_CONNECTED"}
    [] OTHER -> {"FAILURE"}
RecvRefusal ==
  /\ pc = "recv" /\ asked # <<>> /\ asked' = Tail(asked)
  /\ \E c \in Refusals(Head(asked)) :
       LET q == Head(asked) IN
       /\ c = "DLMS_CONNECTION_FAILED" => noise > 0
       /\ noise' = noise - (IF c = "DLMS_CONNECTION_FAILED" THEN 1 ELSE 0)
       /\ IF ~ValidResponse(q, 0) THEN Received("FAILURE", 0, armed)
          ELSE Received(IF FromTarget(q) THEN c ELSE "INVALID_RESPONSE", 0, FALSE)
  /\ UNCHANGED <<place, kept, meter, silenced, row, hes, duplicate_gateway,
                 history>>

\* A report of the mesh: time-out, another error, or under way.  It carries no
\* node, and a commission report is not compared with the frame.
RecvReport ==
  /\ pc = "recv" /\ asked # <<>>
  /\ LET q == Head(asked)
         fits == q.cmd = "UNSILENCE" \/ (q.cmd = Frame.cmd /\ q.page = Frame.page)
         Read(c) == IF ~fits THEN Received("FAILURE", 0, armed)
                    ELSE Received(IF armed THEN c ELSE "INVALID_RESPONSE", 0, FALSE)
     IN \/ /\ asked' = Tail(asked) /\ UNCHANGED noise
           /\ \E c \in {"PMESH_TIMEOUT_ERROR", "PMESH_ERROR"} : Read(c)
        \/ /\ noise > 0 /\ noise' = noise - 1 /\ UNCHANGED asked
           /\ Read("COMMAND_IN_PROGRESS")
  /\ UNCHANGED <<place, kept, meter, silenced, row, hes, duplicate_gateway,
                 history>>

\* A push on its own does not touch the source check.
RecvPush ==
  /\ pc = "recv" /\ noise > 0 /\ noise' = noise - 1
  /\ Received("PUSH", 0, armed)
  /\ UNCHANGED <<place, kept, asked, meter, silenced, row, hes,
                 duplicate_gateway, history>>

\* External: the mesh loses a command, before or after it was obeyed.
Lose ==
  /\ pc = "recv" /\ asked # <<>> /\ asked' = Tail(asked)
  /\ meter' \in {meter, Obey(Head(asked))}
  /\ UNCHANGED <<pc, place, exchange, armed, kept, noise, silenced, row, hes,
                 gatewayStatus, duplicate_gateway, history>>

-----------------------------------------------------------------------------
(* What the three loops do with the result. *)

\* Faulty variant: the name plate is not cleared after it was stored.
StorePlateKeeps(n) ==
  /\ row' \in {row, [row EXCEPT ![n]["NAMEPLATE"] = Stored(kept["NAMEPLATE"])]}
  /\ UNCHANGED kept
\* insert_name_plate_db, which may fail, and the reset of name_plate.
StorePlate(n) ==
  /\ row' \in {row, [row EXCEPT ![n]["NAMEPLATE"] = Stored(kept["NAMEPLATE"])]}
  /\ kept' = [kept EXCEPT !["NAMEPLATE"] = Nothing]

\* The next task; the locals of the exchange are gone.
Fresh ==
  /\ cmd' = "UNSILENCE" /\ connecting' = FALSE /\ page' = 0
  /\ retry' = 0 /\ retry_timeout' = 0 /\ again' = FALSE /\ got' = FALSE
  /\ ret' = "FAILURE" /\ answered' = FALSE
Leave == queue' = Tail(queue) /\ Fresh

\* A failure of delete_node_from_db is only logged.
Succeeded ==
  /\ pc = "done" /\ ret = "SUCCESS" /\ pc' = "visit" /\ Leave
  /\ \/ /\ phase = 1 /\ silenced' \in {silenced, silenced \ {node}}
        /\ UNCHANGED <<kept, row>>
     \/ phase = 2 /\ StorePlate(node) /\ UNCHANGED silenced
     \/ phase = 3 /\ UNCHANGED <<kept, row, silenced>>
  /\ UNCHANGED <<phase, routes, armed, asked, meter, noise, hes,
                 gatewayStatus, duplicate_gateway, spoilt>>

\* A failed exchange keeps the pages it has parsed.
Failed ==
  /\ pc = "done" /\ ret = "FAILURE"
  /\ IF gatewayStatus = "DISCONNECTED" THEN End /\ UNCHANGED queue /\ Fresh
     ELSE pc' = "visit" /\ Leave /\ UNCHANGED <<hes, phase>>
  /\ spoilt' = IF cmd \in Profiles /\ kept[cmd] # Nothing
               THEN spoilt \cup {cmd} ELSE spoilt
  /\ UNCHANGED <<routes, armed, kept, asked, meter, noise, silenced, row,
                 gatewayStatus, duplicate_gateway>>

\* The gateway connected again on another socket.
Duplicate ==
  /\ ~duplicate_gateway /\ duplicate_gateway' = TRUE /\ pc # "end"
  /\ UNCHANGED <<pc, place, exchange, armed, kept, asked, meter, noise,
                 silenced, row, hes, gatewayStatus, history>>

Handler == \/ Start \/ List \/ Visit \/ Send \/ RecvNothing \/ RecvAnswer
           \/ RecvRefusal \/ RecvReport \/ RecvPush \/ Succeeded \/ Failed
Next == Handler \/ Lose \/ Duplicate

\* recv() has a timeout: the handler never stops inside init_connection.
Spec == Init /\ [][Next]_vars /\ WF_vars(Handler)

-----------------------------------------------------------------------------
(* Properties. *)

\* A node is struck off the list of silenced nodes only after it has itself
\* answered the unsilence command: an answer of another node that comes after
\* its exchange was given up does not count (need_to_validate_src_addr).
StruckOffAnswered ==
  [][\A n \in silenced \ silenced' : n = node /\ answered]_vars

\* The name plate and the scalar profiles that are stored for a meter hold its
\* own pages only, as long as no earlier exchange for the same profile was
\* given up after it had parsed pages: those are not cleared.
ProfilesOwn ==
  \A n \in Node : \A k \in Profiles : row[n][k] = "mixed" => k \in spoilt


\* A node that reports that it is in silence mode is woken by the 9B command
\* before its row is deleted.
SilentIsWoken ==
  \A n \in Node : meter[n] = "silent" => n \in silenced
=============================================================================

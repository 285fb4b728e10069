---------------------------- MODULE OdmExchange ----------------------------
(***************************************************************************)
(* Client::Process_ODM_request: one on-demand request is sent to a meter   *)
(* through the gateway, and answers are received until one ends it.  The   *)
(* module serves several requests one after the other, because members of  *)
(* Client survive from one to the next: the retry counter, and the pages   *)
(* parsed so far, which only a successful end clears.                      *)
(*                                                                         *)
(* A request asks for a profile (all of them for the same one), reads or   *)
(* writes a single object (data types 15 to 25), or is a ping; the         *)
(* contents of a packet are what the classification looks at.  row is the  *)
(* status written last for a request, to either of the two request tables; *)
(* the status of a stored object goes to a third one, and the row of its   *)
(* request stays in progress.  Writes to the database succeed.             *)
(***************************************************************************)
EXTENDS Naturals, Sequences

CONSTANTS
  MaxRequests,   \* bound: requests served in a behaviour
  MaxPage,       \* last page of the profile of any meter
  MaxPings,      \* repeat count of a ping (at most 3 in the code)
  Packets,       \* packets the gateway may send
  MaxPackets     \* bound: packets received while one request is served

\* AnySource: error reports of the mesh itself (packet types 03, 07 and 0D);
\* their source is not compared.  FromNode: answers of a node.
AnySource == {"TIMEOUT_RECEIVED", "COMMAND_IN_PROGRESS", "PMESH_ERROR"}
FromNode == {"DLMS_SUCCESS", "DLMS_CONNECTION_FAILED", "DLMS_CHECKSUM_ERROR",
             "DLMS_ERROR", "PONG", "FAILURE"}

\* right: from the node the last packet was sent to; trail: what follows in
\* the same recv(); a page of a profile says whether more follow, the value of
\* an object only has a page number.
PacketType ==
  [k: AnySource \cup FromNode \cup {"PUSH", "GARBLED"}, right: BOOLEAN,
   trail: {"none", "push", "other"}] \cup
  [k: {"DATA"}, right: BOOLEAN, trail: {"none", "push", "other"},
   page: 0..MaxPage, more: BOOLEAN] \cup
  [k: {"OBJECT"}, right: BOOLEAN, trail: {"none", "push", "other"},
   page: 0..MaxPage]

Codes == AnySource \cup FromNode \cup
         {"SUCCESS", "SUCCES_NEXT_PAGE", "INVALID_RESPONSE", "POLL_TIMEOUT",
          "PUSH_DATA_RECEIVED"}

ASSUME ExchangeBounds ==
  /\ MaxRequests \in Nat /\ MaxPage \in Nat /\ MaxPackets \in Nat
  /\ MaxPings \in Nat \ {0}
ASSUME PacketsAssumption == Packets \subseteq PacketType

VARIABLES
  pc,             \* idle, call (about to send), wait and got in the main loop,
                  \* dsend, dwait and dgot in handle_connection_failed
  kind,           \* profile, object or ping
  req, count,     \* number of the request, pings still to be sent
  ret,            \* what receive_data_and_validate_response returned
  retry,          \* Client::retry
  poll_retry, once, invalid_resp, dlms_checksum_error_retry, page_index,
  tx_page_index, need_to_validate_src_addr, gatewayStatus,
  profile,        \* pages parsed and not cleared yet, with their requests
  row,            \* the status written last for each request
  closed,         \* the gateway has closed the connection
  budget,         \* packets it may still send
  answered,       \* history: the object asked for was stored
  sendFailed, carried, resends, delivered  \* history, for the properties

locals == <<poll_retry, once, invalid_resp, dlms_checksum_error_retry,
            page_index, tx_page_index>>
request == <<kind, req, count>>
vars == <<pc, request, locals, ret, retry, need_to_validate_src_addr,
          gatewayStatus, profile, row, closed, budget, answered, sendFailed,
          carried, resends, delivered>>

Service == INSTANCE OdmService WITH serving <- pc # "idle"

TypeOK ==
  /\ pc \in {"idle", "call", "wait", "got", "dsend", "dwait", "dgot"}
  /\ kind \in Service!Kinds
  /\ req \in 0..MaxRequests
  /\ count \in 0..MaxPings
  /\ ret \in Codes \cup {"none"}
  /\ retry \in 1..3 /\ poll_retry \in 1..3
  /\ once \in BOOLEAN /\ invalid_resp \in BOOLEAN
  /\ dlms_checksum_error_retry \in 1..4
  /\ tx_page_index \in 0..(MaxPage + 1) /\ page_index \in 1..(MaxPage + 2)
  /\ need_to_validate_src_addr \in BOOLEAN
  /\ gatewayStatus \in {"CONNECTED", "DISCONNECTED"}
  /\ profile \in Seq([req: 1..MaxRequests, page: 0..MaxPage])
  /\ row \in [1..MaxRequests -> Service!Statuses]
  /\ closed \in BOOLEAN /\ budget \in 0..MaxPackets
  /\ answered \in BOOLEAN /\ sendFailed \in BOOLEAN /\ carried \in BOOLEAN
  /\ resends \in 0..MaxPackets /\ delivered \subseteq 1..MaxRequests

Init ==
  /\ pc = "idle" /\ kind = "profile" /\ req = 0
  /\ count = 0
  /\ ret = "none" /\ retry = 1
  /\ poll_retry = 1 /\ once = TRUE /\ invalid_resp = FALSE
  /\ dlms_checksum_error_retry = 1
  /\ page_index = 1 /\ tx_page_index = 0
  /\ need_to_validate_src_addr \in BOOLEAN   \* not initialized
  /\ gatewayStatus = "CONNECTED"
  /\ profile = <<>>
  /\ row = [r \in 1..MaxRequests |-> "REQUESTED"]
  /\ closed = FALSE /\ budget = 0
  /\ answered = FALSE /\ sendFailed = FALSE /\ carried = FALSE
  /\ resends = 0 /\ delivered = {}

-----------------------------------------------------------------------------
\* process_ondemand_request takes the next command; a ping is repeated.
Take(k) ==
  /\ pc = "idle" /\ req < MaxRequests
  /\ gatewayStatus = "CONNECTED"
  /\ pc' = "call"
  /\ kind' = k
  /\ req' = req + 1
  /\ count' \in IF k = "ping" THEN 1..MaxPings ELSE {1}
  /\ row' = [row EXCEPT ![req + 1] = "IN_PROGRESS"]
  /\ budget' = MaxPackets
  /\ answered' = FALSE /\ sendFailed' = FALSE /\ carried' = FALSE
  /\ resends' = 0
  /\ UNCHANGED <<locals, ret, retry, need_to_validate_src_addr, gatewayStatus,
                 profile, closed, delivered>>

\* Process_ODM_request returns; the next ping of the request follows.
Return == IF count > 1 THEN pc' = "call" /\ count' = count - 1
                       ELSE pc' = "idle" /\ UNCHANGED count

\* write_to_client: the answer's source is to be compared from now on.  When
\* send() fails, gatewayStatus becomes 0, which is CONNECTED.
Sent == /\ need_to_validate_src_addr' = TRUE
        /\ UNCHANGED <<gatewayStatus, sendFailed>>
NotSent == /\ need_to_validate_src_addr' = TRUE
           /\ gatewayStatus' = "CONNECTED"
           /\ sendFailed' = TRUE

\* resend_packet, and on failure the caller's return.
Resend == \/ Sent /\ pc' = "wait" /\ UNCHANGED count
          \/ NotSent /\ Return

\* The status of the request is written.
WriteRow(s) == row' = [row EXCEPT ![req] = s]

\* The head of Process_ODM_request: locals are set, the packet is sent.
StartCall ==
  /\ pc = "call"
  /\ poll_retry' = 1 /\ once' = TRUE /\ invalid_resp' = FALSE
  /\ dlms_checksum_error_retry' = 1
  /\ page_index' = 1 /\ tx_page_index' = 0
  /\ Resend
  /\ carried' = (carried \/ retry # 1)
  /\ UNCHANGED <<kind, req, ret, retry, profile, row, closed, budget, answered,
                 resends, delivered>>

-----------------------------------------------------------------------------
(* receive_data_and_validate_response.                                     *)

\* Faulty variant: the page of an answer is not compared.
FirstCodeAnyPage(p) ==
  IF p.k = "PUSH" THEN "PUSH_DATA_RECEIVED"
  ELSE IF \/ p.k = "GARBLED"
          \/ ~need_to_validate_src_addr
          \/ ~p.right /\ p.k \notin AnySource THEN "INVALID_RESPONSE"
  ELSE IF p.k = "DATA"
       THEN IF p.more THEN "SUCCES_NEXT_PAGE" ELSE "SUCCESS"
  ELSE IF p.k \in {"OBJECT", "PONG"} THEN "SUCCESS"
  ELSE p.k

\* The classification of a packet.  is_valid_packet refuses every packet but
\* a push until the next write once one packet was compared.
FirstCode(p) ==
  IF p.k = "PUSH" THEN "PUSH_DATA_RECEIVED"
  ELSE IF \/ p.k = "GARBLED"
          \/ ~need_to_validate_src_addr
          \/ ~p.right /\ p.k \notin AnySource THEN "INVALID_RESPONSE"
  ELSE IF p.k \in {"DATA", "OBJECT"}
       THEN IF p.page # tx_page_index THEN "INVALID_RESPONSE"
            ELSE IF p.k = "DATA" /\ p.more THEN "SUCCES_NEXT_PAGE"
            ELSE "SUCCESS"
  ELSE IF p.k = "PONG" THEN "SUCCESS"
  ELSE p.k

\* Of several packets in one recv() the last one decides; it is a push, or it
\* is refused because the first one was compared.
Code(p) == IF p.trail = "push" THEN "PUSH_DATA_RECEIVED"
           ELSE IF p.trail = "other" THEN "INVALID_RESPONSE"
           ELSE FirstCode(p)

Received == /\ pc \in {"wait", "dwait"}
            /\ pc' = IF pc = "wait" THEN "got" ELSE "dgot"
            /\ UNCHANGED <<request, locals, retry, row, answered, sendFailed,
                           carried, resends, delivered>>

\* The records of an accepted page are appended to the profile in memory.
ReceivePacket(p) ==
  /\ Received
  /\ ~closed /\ budget > 0
  /\ budget' = budget - 1
  /\ ret' = Code(p)
  /\ need_to_validate_src_addr' =
       (need_to_validate_src_addr /\ p.k \in {"PUSH", "GARBLED"})
  /\ profile' = IF p.k = "DATA" /\ FirstCode(p) \in {"SUCCESS", "SUCCES_NEXT_PAGE"}
                  THEN Append(profile, [req |-> req, page |-> p.page])
                  ELSE profile
  /\ UNCHANGED <<gatewayStatus, closed>>

\* recv() returns with EAGAIN.
ReceiveTimeout ==
  /\ Received
  /\ ~closed
  /\ ret' = "POLL_TIMEOUT"
  /\ UNCHANGED <<need_to_validate_src_addr, gatewayStatus, profile, closed,
                 budget>>

\* recv() returns 0 or an error: also reported as POLL_TIMEOUT.
ReceiveClosed ==
  /\ Received
  /\ closed' = TRUE
  /\ gatewayStatus' = "DISCONNECTED"
  /\ ret' = "POLL_TIMEOUT"
  /\ UNCHANGED <<need_to_validate_src_addr, profile, budget>>

-----------------------------------------------------------------------------
(* The branches of the loop in Process_ODM_request.                        *)

\* One turn of the loop ends; ret is a local of the loop's body.
Got(codes) == pc = "got" /\ ret \in codes /\ ret' = "none"

\* What the branches leave alone, but for the history of a stored object.
branch == <<kind, req, closed, budget, carried>>
received == <<branch, answered>>

\* Faulty variant: the profile in memory is not cleared.
update_odm_dbKeepsProfile ==
  CASE kind = "profile" -> /\ WriteRow("SUCCESS_STATUS")
                           /\ delivered' = delivered \cup {req}
                           /\ UNCHANGED <<profile, answered>>
    [] kind = "ping"    -> /\ WriteRow("SUCCESS_STATUS")
                           /\ UNCHANGED <<profile, delivered, answered>>
    [] kind = "object"  -> /\ answered' = TRUE
                           /\ UNCHANGED <<row, profile, delivered>>

\* update_odm_db: the rows of a profile are inserted and the profile is
\* cleared; a ping has only its status; a single object is inserted into
\* programmable_parameter_data, and the row of the request is left alone.
update_odm_db ==
  CASE kind = "profile" -> /\ WriteRow("SUCCESS_STATUS")
                           /\ profile' = <<>>
                           /\ delivered' = delivered \cup {req}
                           /\ UNCHANGED answered
    [] kind = "ping"    -> /\ WriteRow("SUCCESS_STATUS")
                           /\ UNCHANGED <<profile, delivered, answered>>
    [] kind = "object"  -> /\ answered' = TRUE
                           /\ UNCHANGED <<row, profile, delivered>>

\* The frame may not be the one asked for: then the wait goes on.
handle_success ==
  /\ Got({"SUCCESS"})
  /\ retry' = 1
  /\ \/ pc' = "wait" /\ UNCHANGED <<count, row, profile, delivered, answered>>
     \/ Return /\ update_odm_db
  /\ UNCHANGED <<branch, locals, need_to_validate_src_addr, gatewayStatus,
                 sendFailed, resends>>

OnDlmsSuccess ==
  /\ Got({"DLMS_SUCCESS"})
  /\ Resend
  /\ UNCHANGED <<received, locals, retry, profile, row, resends, delivered>>

\* The mesh reports an error, or the meter does (which counts as success).
OnError ==
  /\ \/ Got({"PMESH_ERROR"}) /\ WriteRow("FAILED_PMESH_ERROR")
     \/ Got({"DLMS_ERROR"}) /\ WriteRow("SUCCESS_STATUS")
  /\ Return
  /\ UNCHANGED <<received, locals, retry, need_to_validate_src_addr,
                 gatewayStatus, profile, sendFailed, resends, delivered>>

\* retry is 3 when the mesh reports a timeout or a failed DLMS connection.
OnRetriesUsedUp ==
  /\ Got({"TIMEOUT_RECEIVED", "DLMS_CONNECTION_FAILED"})
  /\ retry = 3
  /\ WriteRow("FAILED_RF_TIMEOUT")
  /\ retry' = 1
  /\ Return
  /\ UNCHANGED <<received, locals, need_to_validate_src_addr, gatewayStatus,
                 profile, sendFailed, resends, delivered>>

\* Faulty variant: one packet too few is sent before the mesh is given up.
OnTimeoutSkips ==
  /\ Got({"TIMEOUT_RECEIVED"}) /\ retry < 3
  /\ IF once THEN WriteRow("RETRY_IN_PROGRESS") ELSE UNCHANGED row
  /\ once' = FALSE
  /\ retry' = 3
  /\ resends' = resends + 1
  /\ Resend
  /\ UNCHANGED <<received, poll_retry, invalid_resp, dlms_checksum_error_retry,
                 page_index, tx_page_index, profile, delivered>>

\* Faulty variant: the retry counter is compared one too late.
OnTimeoutOffByOne ==
  /\ Got({"TIMEOUT_RECEIVED"}) /\ retry <= 3
  /\ IF once THEN WriteRow("RETRY_IN_PROGRESS") ELSE UNCHANGED row
  /\ once' = FALSE
  /\ retry' = retry + 1
  /\ resends' = resends + 1
  /\ Resend
  /\ UNCHANGED <<received, poll_retry, invalid_resp, dlms_checksum_error_retry,
                 page_index, tx_page_index, profile, delivered>>

OnTimeout ==
  /\ Got({"TIMEOUT_RECEIVED"}) /\ retry < 3
  /\ IF once THEN WriteRow("RETRY_IN_PROGRESS") ELSE UNCHANGED row
  /\ once' = FALSE
  /\ retry' = retry + 1
  /\ resends' = resends + 1
  /\ Resend
  /\ UNCHANGED <<received, poll_retry, invalid_resp, dlms_checksum_error_retry,
                 page_index, tx_page_index, profile, delivered>>

OnConnectionFailed ==
  /\ Got({"DLMS_CONNECTION_FAILED"}) /\ retry < 3
  /\ pc' = "dsend"
  /\ UNCHANGED <<received, count, locals, retry, need_to_validate_src_addr,
                 gatewayStatus, profile, row, sendFailed, resends, delivered>>

\* POLL_TIMEOUT: the packet is sent three times in all, a ping once.  The
\* gateway is given up unless something unexpected was received.
OnPollTimeout ==
  /\ Got({"POLL_TIMEOUT"})
  /\ IF kind # "ping" /\ poll_retry < 3
       THEN /\ poll_retry' = poll_retry + 1
            /\ Resend
            /\ UNCHANGED row
       ELSE /\ WriteRow("FAILED_NO_GW_RESPONSE")
            /\ gatewayStatus' = IF kind # "ping" /\ ~invalid_resp
                                  THEN "DISCONNECTED" ELSE gatewayStatus
            /\ Return
            /\ UNCHANGED <<poll_retry, need_to_validate_src_addr, sendFailed>>
  /\ UNCHANGED <<received, once, invalid_resp, dlms_checksum_error_retry,
                 page_index, tx_page_index, retry, profile, resends, delivered>>

\* handle_next_page: the packet asks for page_index now.
OnNextPage ==
  /\ Got({"SUCCES_NEXT_PAGE"})
  /\ tx_page_index' = tx_page_index + 1
  /\ retry' = 1 /\ poll_retry' = 1
  /\ Resend
  /\ page_index' = page_index + 1
  /\ UNCHANGED <<received, once, invalid_resp, dlms_checksum_error_retry,
                 profile, row, resends, delivered>>

\* Wait on: nothing is sent, so the source check stays switched off.
OnIgnored ==
  /\ \/ Got({"INVALID_RESPONSE", "COMMAND_IN_PROGRESS"}) /\ invalid_resp' = TRUE
     \/ Got({"PUSH_DATA_RECEIVED", "FAILURE"}) /\ UNCHANGED invalid_resp
  /\ pc' = "wait"
  /\ UNCHANGED <<received, count, poll_retry, once, dlms_checksum_error_retry,
                 page_index, tx_page_index, retry, need_to_validate_src_addr,
                 gatewayStatus, profile, row, sendFailed, resends, delivered>>

\* The checksum is computed again and the packet sent, also the last time.
OnChecksumError ==
  /\ Got({"DLMS_CHECKSUM_ERROR"})
  /\ dlms_checksum_error_retry' = dlms_checksum_error_retry + 1
  /\ \/ NotSent /\ WriteRow("FAILED_PMESH_ERROR") /\ Return
     \/ /\ Sent
        /\ IF dlms_checksum_error_retry' > 3
             THEN WriteRow("DLMS_FAILED") /\ Return
             ELSE pc' = "wait" /\ UNCHANGED <<row, count>>
  /\ UNCHANGED <<received, poll_retry, once, invalid_resp, page_index,
                 tx_page_index, retry, profile, resends, delivered>>

-----------------------------------------------------------------------------
(* handle_connection_failed.                                               *)

\* Faulty variant: the request is given up without a status.
DlmsEnableSilent ==
  /\ pc = "dsend"
  /\ \/ /\ retry < 3
        /\ retry' = retry + 1
        /\ \/ Sent /\ pc' = "dwait" /\ UNCHANGED count
           \/ NotSent /\ Return
     \/ /\ retry >= 3
        /\ Return
        /\ UNCHANGED <<retry, need_to_validate_src_addr, gatewayStatus,
                       sendFailed>>
  /\ UNCHANGED <<received, ret, locals, profile, row, resends, delivered>>

\* DLMS is enabled again while retry allows it.
DlmsEnable ==
  /\ pc = "dsend"
  /\ \/ /\ retry < 3
        /\ retry' = retry + 1
        /\ \/ Sent /\ pc' = "dwait" /\ UNCHANGED count
           \/ NotSent /\ Return
        /\ UNCHANGED row
     \/ /\ retry >= 3
        /\ WriteRow("DLMS_FAILED")
        /\ Return
        /\ UNCHANGED <<retry, need_to_validate_src_addr, gatewayStatus,
                       sendFailed>>
  /\ UNCHANGED <<received, ret, locals, profile, resends, delivered>>

\* Connected: back to the loop, without sending the request again.
DlmsGot ==
  /\ pc = "dgot"
  /\ IF ret = "DLMS_SUCCESS" THEN retry' = 1 /\ pc' = "wait"
                             ELSE UNCHANGED retry /\ pc' = "dsend"
  /\ ret' = "none"
  /\ UNCHANGED <<received, count, locals, need_to_validate_src_addr,
                 gatewayStatus, profile, row, sendFailed, resends, delivered>>

-----------------------------------------------------------------------------
Process_ODM_request ==
  \/ StartCall
  \/ \E p \in Packets : ReceivePacket(p)
  \/ ReceiveTimeout \/ ReceiveClosed
  \/ handle_success \/ OnDlmsSuccess \/ OnError \/ OnRetriesUsedUp
  \/ OnTimeout \/ OnConnectionFailed \/ OnPollTimeout \/ OnNextPage
  \/ OnIgnored \/ OnChecksumError \/ DlmsEnable \/ DlmsGot

\* No request is left, or the handler leaves its loop.
Done == /\ pc = "idle"
        /\ req = MaxRequests \/ gatewayStatus = "DISCONNECTED"
        /\ UNCHANGED vars

Next ==
  \/ \E k \in Service!Kinds : Take(k)
  \/ Process_ODM_request
  \/ Done

\* The handler thread goes on: recv() returns at the latest when its timeout
\* (SO_RCVTIMEO) expires.
Spec == Init /\ [][Next]_vars /\ WF_vars(Process_ODM_request)

-----------------------------------------------------------------------------
(* Properties.                                                             *)

\* The exchange implements the abstract service: every request that is taken
\* ends, with a final status in its row unless a send failed or the request
\* was for a single object, which was stored.
ServiceSpec == Service!Spec

\* A request is reported as FAILED_RF_TIMEOUT after two resends of its own,
\* unless the retry counter was left above 1 by an exchange before it.
ShortRetryOnlyIfCarried ==
  (pc = "idle" /\ req > 0 /\ row[req] = "FAILED_RF_TIMEOUT")
    => (resends >= 2 \/ carried)

\* A page is never inserted under two requests that both ended with their
\* data: what an earlier request leaves in memory is never what it inserted.
NothingServedTwice ==
  \A n \in DOMAIN profile : profile[n].req \notin delivered

\* When the data of a request is inserted, no page before the last is missing.
NoPageMissing ==
  [][\A r \in delivered' \ delivered :
       \A q \in 0..(tx_page_index - 1) :
         \E n \in DOMAIN profile : profile[n] = [req |-> r, page |-> q]]_vars

\* client.cpp:1761, "Continue waiting if response invalid or command still in
\* progress": the answer that completes a command reported as in progress is
\* accepted.
CompletionAccepted ==
  [][(pc = "got" /\ ret = "COMMAND_IN_PROGRESS" /\ pc' = "wait")
       => \A p \in Packets :
            (p.k = "DATA" /\ p.right /\ p.page = tx_page_index)
              => FirstCode(p)' \in {"SUCCESS", "SUCCES_NEXT_PAGE"}]_vars
=============================================================================

-------------------------- MODULE OdmExchangeProofs --------------------------
(***************************************************************************)
(* Proofs about OdmExchange, for every number of requests, pages, pings    *)
(* and packets.  The invariant has five parts, each preserved with the     *)
(* help of the ones before it:                                             *)
(*   Base    types, and what bounds the counters: how many packets caused  *)
(*           the resends so far, and that a page is asked for only after   *)
(*           the page before it said that more follow;                     *)
(*   Rows    while a request is served its row never says REQUESTED;       *)
(*   Retries the retry counter counts resends of this request, unless it   *)
(*           was carried over;                                             *)
(*   Pages   every page before the one asked for is in memory;             *)
(*   Served  memory holds nothing of a request that has its data.          *)
(***************************************************************************)
EXTENDS OdmExchange, TLAPS

\* The control points between the first send of a call and its end.
Waiting == {"wait", "got", "dsend", "dwait", "dgot"}

Base ==
  /\ TypeOK
  /\ page_index = tx_page_index + 1
  /\ pc \in Waiting => dlms_checksum_error_retry <= 3
  /\ resends + budget <= MaxPackets
  /\ pc = "got" => /\ ret = "TIMEOUT_RECEIVED" => resends + budget < MaxPackets
                   /\ ret = "SUCCES_NEXT_PAGE" => tx_page_index <= MaxPage

Rows == pc # "idle" => /\ req \in 1..MaxRequests
                       /\ row[req] \in Service!Final \cup Service!Progress

Retries ==
  /\ pc \in {"wait", "got"} => carried \/ retry <= resends + 1
  /\ (req > 0 /\ row[req] = "FAILED_RF_TIMEOUT") => (resends >= 2 \/ carried)

Held(q) == \E n \in DOMAIN profile : profile[n] = [req |-> req, page |-> q]

Pages ==
  pc \in Waiting =>
    /\ \A q \in 0..(tx_page_index - 1) : Held(q)
    /\ (pc = "got" /\ ret = "SUCCES_NEXT_PAGE") => Held(tx_page_index)

Served ==
  /\ kind # "ping" => count <= 1
  /\ delivered \subseteq 1..req
  /\ pc # "idle" => req \notin delivered
  /\ \A n \in DOMAIN profile : profile[n].req <= req
  /\ NothingServedTwice

-----------------------------------------------------------------------------
LEMMA KeptOrCleared ==
  ASSUME NEW S, NEW s \in Seq(S), NEW t, t = s \/ t = <<>>
  PROVE  t \in Seq(S)
  <1>1. <<>> \in Seq(S)
    OBVIOUS
  <1> QED
    BY <1>1, Zenon

LEMMA ElementOfSeq ==
  ASSUME NEW S, NEW s \in Seq(S), NEW n \in DOMAIN s
  PROVE  s[n] \in S
  OBVIOUS

\* Where Process_ODM_request returns to: the next ping, or the queue.
LEMMA ReturnFacts ==
  ASSUME TypeOK, Return
  PROVE  /\ pc' \in {"idle", "call"}
         /\ count' \in 0..MaxPings
         /\ count <= 1 => pc' = "idle" /\ count' = count
  <1> count \in 0..MaxPings /\ MaxPings \in Nat
    BY ExchangeBounds DEF TypeOK
  <1> QED
    BY DEF Return

\* A resend waits for the answer, or ends the call with a failed send.
LEMMA ResendFacts ==
  ASSUME TypeOK, Resend
  PROVE  /\ pc' \in {"wait", "idle", "call"}
         /\ count' \in 0..MaxPings
         /\ count <= 1 => pc' # "call" /\ count' = count
         /\ need_to_validate_src_addr' \in BOOLEAN
         /\ gatewayStatus' \in {"CONNECTED", "DISCONNECTED"}
         /\ sendFailed' \in BOOLEAN
  <1>1. CASE Sent /\ pc' = "wait" /\ UNCHANGED count
    BY <1>1 DEF Sent, TypeOK
  <1>2. CASE NotSent /\ Return
    BY <1>2, ReturnFacts DEF NotSent
  <1> QED
    BY <1>1, <1>2 DEF Resend

\* The row of the request in hand gets the status that is written.
LEMMA RowFacts ==
  ASSUME TypeOK, req \in 1..MaxRequests, NEW s \in Service!Statuses, WriteRow(s)
  PROVE  /\ row' \in [1..MaxRequests -> Service!Statuses]
         /\ row'[req] = s
  BY DEF TypeOK, WriteRow

\* What an accepted packet is: only data of the page asked for can ask for
\* the next one.
LEMMA PacketFacts ==
  ASSUME Base, NEW p \in Packets
  PROVE  /\ Code(p) \in Codes
         /\ p.k = "DATA" => p.page \in 0..MaxPage
         /\ Code(p) = "SUCCES_NEXT_PAGE" =>
              /\ FirstCode(p) = "SUCCES_NEXT_PAGE"
              /\ p.k = "DATA" /\ p.page = tx_page_index
  <1>1. p \in PacketType
    BY PacketsAssumption
  <1>2. p.k \in AnySource \cup FromNode \cup {"PUSH", "GARBLED", "DATA", "OBJECT"}
    BY <1>1 DEF PacketType
  <1>3. p.k = "DATA" => p.page \in 0..MaxPage
    BY <1>1 DEF PacketType, AnySource, FromNode
  <1>4. FirstCode(p) \in Codes
    BY <1>2 DEF FirstCode, Codes, AnySource, FromNode
  <1>5. FirstCode(p) = "SUCCES_NEXT_PAGE" =>
          p.k = "DATA" /\ p.page = tx_page_index
    BY <1>2 DEF FirstCode, AnySource, FromNode
  <1>6. Code(p) \in {"PUSH_DATA_RECEIVED", "INVALID_RESPONSE", FirstCode(p)}
    BY DEF Code
  <1> QED
    BY <1>3, <1>4, <1>5, <1>6 DEF Codes

\* What receiving a packet leaves in memory: the old pages, and the new one
\* when it was accepted.
LEMMA ProfileFacts ==
  ASSUME Base, Rows, NEW p \in Packets, ReceivePacket(p)
  PROVE  /\ profile' \in Seq([req: 1..MaxRequests, page: 0..MaxPage])
         /\ \A n \in DOMAIN profile :
              n \in DOMAIN profile' /\ profile'[n] = profile[n]
         /\ \A n \in DOMAIN profile' :
              n \in DOMAIN profile \/ profile'[n].req = req
         /\ ret' = "SUCCES_NEXT_PAGE" =>
              \E n \in DOMAIN profile' :
                profile'[n] = [req |-> req, page |-> tx_page_index]
  <1> DEFINE e == [req |-> req, page |-> p.page]
  <1>1. profile \in Seq([req: 1..MaxRequests, page: 0..MaxPage])
    BY DEF Base, TypeOK
  <1>2. req \in 1..MaxRequests
    BY DEF ReceivePacket, Received, Rows
  <1>3. CASE p.k = "DATA" /\ FirstCode(p) \in {"SUCCESS", "SUCCES_NEXT_PAGE"}
    <2>1. profile' = Append(profile, e)
      BY <1>3 DEF ReceivePacket
    <2>2. e \in [req: 1..MaxRequests, page: 0..MaxPage]
      BY <1>2, <1>3, PacketFacts
    <2>3. /\ profile' \in Seq([req: 1..MaxRequests, page: 0..MaxPage])
          /\ Len(profile') = Len(profile) + 1
          /\ profile'[Len(profile) + 1] = e
          /\ \A n \in 1..Len(profile) : profile'[n] = profile[n]
      BY <1>1, <2>1, <2>2
    <2>4. /\ DOMAIN profile = 1..Len(profile)
          /\ DOMAIN profile' = 1..(Len(profile) + 1)
      BY <1>1, <2>3
    <2>5. ret' = "SUCCES_NEXT_PAGE" => e = [req |-> req, page |-> tx_page_index]
      BY PacketFacts DEF ReceivePacket
    <2>6. Len(profile) \in Nat /\ Len(profile) + 1 \in DOMAIN profile'
      BY <1>1, <2>4
    <2>7. \A n \in DOMAIN profile' : n \in DOMAIN profile \/ n = Len(profile) + 1
      BY <2>4, <2>6
    <2>8. \A n \in DOMAIN profile :
            n \in DOMAIN profile' /\ profile'[n] = profile[n]
      BY <2>3, <2>4, <2>6
    <2>9. e.req = req
      OBVIOUS
    <2> HIDE DEF e
    <2> QED
      BY <2>3, <2>5, <2>6, <2>7, <2>8, <2>9
  <1>4. CASE ~(p.k = "DATA" /\ FirstCode(p) \in {"SUCCESS", "SUCCES_NEXT_PAGE"})
    <2>1. profile' = profile
      BY <1>4 DEF ReceivePacket
    <2>2. ret' # "SUCCES_NEXT_PAGE"
      BY <1>4, PacketFacts DEF ReceivePacket
    <2> QED
      BY <1>1, <2>1, <2>2
  <1> QED
    BY <1>3, <1>4

\* What update_odm_db stores.
LEMMA StoreFacts ==
  ASSUME Base, Rows, pc # "idle", update_odm_db
  PROVE  /\ row' \in [1..MaxRequests -> Service!Statuses]
         /\ row'[req] \in {row[req], "SUCCESS_STATUS"}
         /\ row'[req] \in Service!Final \cup Service!Progress
         /\ profile' \in Seq([req: 1..MaxRequests, page: 0..MaxPage])
         /\ delivered' \subseteq 1..MaxRequests
         /\ answered' \in BOOLEAN
         /\ \/ UNCHANGED <<profile, delivered>>
            \/ kind = "profile" /\ profile' = <<>> /\ delivered' = delivered \cup {req}
         /\ \/ WriteRow("SUCCESS_STATUS") /\ UNCHANGED answered
            \/ kind = "object" /\ answered' = TRUE /\ UNCHANGED row
  <1>1. /\ TypeOK /\ req \in 1..MaxRequests
        /\ row[req] \in Service!Final \cup Service!Progress
    BY DEF Base, Rows
  <1>2. "SUCCESS_STATUS" \in Service!Final /\ "SUCCESS_STATUS" \in Service!Statuses
    BY DEF Service!Final, Service!Statuses
  <1>3. CASE kind = "profile"
    <2>1. /\ WriteRow("SUCCESS_STATUS") /\ profile' = <<>>
          /\ delivered' = delivered \cup {req} /\ UNCHANGED answered
      BY <1>3 DEF update_odm_db
    <2>2. profile' \in Seq([req: 1..MaxRequests, page: 0..MaxPage])
      BY <1>1, <2>1, KeptOrCleared DEF TypeOK
    <2>3. delivered' \subseteq 1..MaxRequests /\ answered' \in BOOLEAN
      BY <1>1, <2>1 DEF TypeOK
    <2> QED
      BY <1>1, <1>2, <1>3, <2>1, <2>2, <2>3, RowFacts
  <1>4. CASE kind = "ping"
    <2>1. WriteRow("SUCCESS_STATUS") /\ UNCHANGED <<profile, delivered, answered>>
      BY <1>4 DEF update_odm_db
    <2>2. /\ profile' \in Seq([req: 1..MaxRequests, page: 0..MaxPage])
          /\ delivered' \subseteq 1..MaxRequests /\ answered' \in BOOLEAN
      BY <1>1, <2>1 DEF TypeOK
    <2> QED
      BY <1>1, <1>2, <2>1, <2>2, RowFacts
  <1>5. CASE kind = "object"
    <2>1. answered' = TRUE /\ UNCHANGED <<row, profile, delivered>>
      BY <1>5 DEF update_odm_db
    <2> QED
      BY <1>1, <1>5, <2>1 DEF TypeOK
  <1>6. kind \in {"profile", "object", "ping"}
    BY <1>1 DEF TypeOK, Service!Kinds
  <1> QED
    BY <1>3, <1>4, <1>5, <1>6

-----------------------------------------------------------------------------
\* Every step preserves Base and Rows.
LEMMA BaseStep ==
  ASSUME Base, Rows, [Next]_vars
  PROVE  Base' /\ Rows'
  <1> USE DEF Base, Rows, TypeOK, Waiting, Codes, AnySource, FromNode,
              Service!Statuses, Service!Final, Service!Progress
  <1>1. CASE \E k \in Service!Kinds : Take(k)
    <2> PICK k \in Service!Kinds : Take(k)
      BY <1>1
    <2>1. count' \in 0..MaxPings
      BY ExchangeBounds DEF Take
    <2>2. req' = req + 1 /\ req + 1 \in 1..MaxRequests
      BY ExchangeBounds DEF Take
    <2>3. /\ row' \in [1..MaxRequests -> Service!Statuses]
          /\ row'[req'] = "IN_PROGRESS"
      BY <2>2 DEF Take
    <2>4. /\ budget' \in 0..MaxPackets /\ resends' \in 0..MaxPackets
          /\ resends' + budget' <= MaxPackets
      BY ExchangeBounds DEF Take
    <2>5. pc' = "call" /\ kind' \in Service!Kinds
      BY DEF Take
    <2>6. UNCHANGED <<locals, ret, retry, need_to_validate_src_addr,
                      gatewayStatus, profile, closed, delivered>>
      BY DEF Take
    <2>7. answered' \in BOOLEAN /\ sendFailed' \in BOOLEAN /\ carried' \in BOOLEAN
      BY DEF Take
    <2> QED
      BY SMTT(30), <2>1, <2>2, <2>3, <2>4, <2>5, <2>6, <2>7 DEF locals
  <1>2. CASE StartCall
    <2>1. TypeOK /\ Resend
      BY <1>2 DEF StartCall
    <2>2. carried' \in BOOLEAN
      BY <1>2 DEF StartCall
    <2>3. 0 \in 0..(MaxPage + 1) /\ 1 \in 1..(MaxPage + 2)
      BY ExchangeBounds
    <2>4. pc = "call"
      BY <1>2 DEF StartCall
    <2>5. /\ poll_retry' = 1 /\ dlms_checksum_error_retry' = 1
          /\ once' \in BOOLEAN /\ invalid_resp' \in BOOLEAN
          /\ page_index' = 1 /\ tx_page_index' = 0
      BY <1>2 DEF StartCall
    <2>6. UNCHANGED <<kind, req, ret, retry, profile, row, closed, budget,
                      answered, resends, delivered>>
      BY <1>2 DEF StartCall
    <2>7. TypeOK'
      BY <2>1, <2>2, <2>3, <2>5, <2>6, ResendFacts
    <2>8. pc' # "got"
      BY <2>1, ResendFacts
    <2> HIDE DEF TypeOK
    <2> QED
      BY <2>4, <2>5, <2>6, <2>7, <2>8
  <1>3. CASE \E p \in Packets : ReceivePacket(p)
    <2> PICK p \in Packets : ReceivePacket(p)
      BY <1>3
    <2>1. /\ ret' \in Codes
          /\ ret' = "SUCCES_NEXT_PAGE" => tx_page_index \in 0..MaxPage
      BY PacketFacts DEF ReceivePacket
    <2>2. need_to_validate_src_addr' \in BOOLEAN /\ budget' = budget - 1 /\ budget > 0
      BY DEF ReceivePacket
    <2>3. profile' \in Seq([req: 1..MaxRequests, page: 0..MaxPage])
      BY ProfileFacts
    <2>4. pc' \in {"got", "dgot"} /\ pc \in {"wait", "dwait"}
      BY DEF ReceivePacket, Received
    <2>5. /\ budget' \in 0..MaxPackets
          /\ resends + budget' < MaxPackets
          /\ resends + budget' <= MaxPackets
      BY <2>2, ExchangeBounds
    <2>6. UNCHANGED <<request, locals, retry, row, answered, sendFailed, carried, resends,
                      delivered, gatewayStatus, closed>>
      BY DEF ReceivePacket, Received
    <2>7. TypeOK'
      BY <2>1, <2>2, <2>3, <2>4, <2>5, <2>6 DEF request, locals
    <2>8. Rows'
      BY <2>4, <2>6 DEF request
    <2>9. /\ page_index' = tx_page_index' + 1
          /\ dlms_checksum_error_retry' <= 3
          /\ resends' + budget' < MaxPackets
          /\ resends' + budget' <= MaxPackets
          /\ ret' = "SUCCES_NEXT_PAGE" => tx_page_index' <= MaxPage
      <3>1. /\ UNCHANGED <<page_index, tx_page_index, resends,
                           dlms_checksum_error_retry>>
            /\ page_index = tx_page_index + 1
            /\ dlms_checksum_error_retry <= 3
        BY <2>4, <2>6 DEF locals
      <3> HIDE DEF Base
      <3> QED
        BY <2>1, <2>5, <3>1, ExchangeBounds
    <2> HIDE DEF TypeOK, Rows
    <2>10. Base'
      BY <2>7, <2>9
    <2> QED
      BY <2>8, <2>10
  <1>4. CASE ReceiveTimeout
    BY <1>4 DEF ReceiveTimeout, Received, request, locals
  <1>5. CASE ReceiveClosed
    BY <1>5 DEF ReceiveClosed, Received, request, locals
  <1>6. CASE handle_success
    <2>1. CASE pc' = "wait" /\ UNCHANGED <<count, row, profile, delivered, answered>>
      BY <1>6, <2>1 DEF handle_success, Got, branch, locals
    <2>2. CASE Return /\ update_odm_db
      <3>1. pc = "got"
        BY <1>6 DEF handle_success, Got
      <3>2. /\ row' \in [1..MaxRequests -> Service!Statuses]
            /\ row'[req] \in Service!Final \cup Service!Progress
            /\ profile' \in Seq([req: 1..MaxRequests, page: 0..MaxPage])
            /\ delivered' \subseteq 1..MaxRequests
            /\ answered' \in BOOLEAN
        <4> HIDE DEF Base, Rows, TypeOK
        <4> QED
          BY <2>2, <3>1, StoreFacts
      <3> QED
        BY <1>6, <2>2, <3>1, <3>2, ReturnFacts DEF handle_success, Got, branch, locals
    <2> QED
      BY <1>6, <2>1, <2>2 DEF handle_success
  <1>7. CASE OnDlmsSuccess
    BY <1>7, ResendFacts DEF OnDlmsSuccess, Got, received, branch, locals
  <1>8. CASE OnError
    <2>1. /\ row' \in [1..MaxRequests -> Service!Statuses]
          /\ row'[req] \in {"FAILED_PMESH_ERROR", "SUCCESS_STATUS"}
      BY <1>8, RowFacts DEF OnError, Got
    <2> QED
      BY <1>8, <2>1, ReturnFacts DEF OnError, Got, received, branch, locals
  <1>9. CASE OnRetriesUsedUp
    <2>1. /\ row' \in [1..MaxRequests -> Service!Statuses]
          /\ row'[req] = "FAILED_RF_TIMEOUT"
      BY <1>9, RowFacts DEF OnRetriesUsedUp, Got
    <2> QED
      BY <1>9, <2>1, ReturnFacts DEF OnRetriesUsedUp, Got, received, branch, locals
  <1>10. CASE OnTimeout
    <2>1. /\ row' \in [1..MaxRequests -> Service!Statuses]
          /\ row'[req] \in {"RETRY_IN_PROGRESS", row[req]}
      BY <1>10, RowFacts DEF OnTimeout, Got
    <2>2. /\ resends' = resends + 1 /\ budget' = budget
          /\ resends + budget < MaxPackets
      BY <1>10 DEF OnTimeout, Got, received, branch
    <2>3. resends' + budget' <= MaxPackets /\ resends' \in 0..MaxPackets
      BY <2>2, ExchangeBounds
    <2>4. once' = FALSE /\ retry < 3 /\ retry' = retry + 1
      BY <1>10 DEF OnTimeout
    <2>7. once' \in BOOLEAN
      BY <2>4
    <2>8. retry' \in 1..3
      BY <2>4
    <2>5. Resend /\ pc = "got" /\ ret' = "none"
      BY <1>10 DEF OnTimeout, Got
    <2>6. UNCHANGED <<received, poll_retry, invalid_resp,
                      dlms_checksum_error_retry, page_index, tx_page_index,
                      profile, delivered>>
      BY <1>10 DEF OnTimeout
    <2> QED
      BY <2>1, <2>3, <2>5, <2>6, <2>7, <2>8, ResendFacts DEF received, branch
  <1>11. CASE OnConnectionFailed
    BY <1>11 DEF OnConnectionFailed, Got, received, branch, locals
  <1>12. CASE OnPollTimeout
    <2>1. CASE kind # "ping" /\ poll_retry < 3
      BY <1>12, <2>1, ResendFacts DEF OnPollTimeout, Got, received, branch, locals
    <2>2. CASE ~(kind # "ping" /\ poll_retry < 3)
      <3>1. Return /\ WriteRow("FAILED_NO_GW_RESPONSE")
        BY <1>12, <2>2 DEF OnPollTimeout
      <3>2. /\ row' \in [1..MaxRequests -> Service!Statuses]
            /\ row'[req] = "FAILED_NO_GW_RESPONSE"
        BY <1>12, <3>1, RowFacts DEF OnPollTimeout, Got
      <3>3. gatewayStatus' \in {"CONNECTED", "DISCONNECTED"}
        BY <1>12, <2>2 DEF OnPollTimeout
      <3> QED
        BY <1>12, <2>2, <3>1, <3>2, <3>3, ReturnFacts
        DEF OnPollTimeout, Got, received, branch, locals
    <2> QED
      BY <2>1, <2>2
  <1>13. CASE OnNextPage
    <2>1. /\ tx_page_index' = tx_page_index + 1 /\ page_index' = page_index + 1
          /\ tx_page_index <= MaxPage
      BY <1>13 DEF OnNextPage, Got
    <2>2. /\ tx_page_index' \in 0..(MaxPage + 1)
          /\ page_index' \in 1..(MaxPage + 2)
          /\ page_index' = tx_page_index' + 1
      BY <2>1, ExchangeBounds
    <2> QED
      BY <1>13, <2>2, ResendFacts DEF OnNextPage, Got, received, branch, locals
  <1>14. CASE OnIgnored
    <2>1. invalid_resp' \in BOOLEAN
      BY <1>14 DEF OnIgnored
    <2> QED
      BY <1>14, <2>1 DEF OnIgnored, Got, received, branch, locals
  <1>15. CASE OnChecksumError
    <2>1. /\ need_to_validate_src_addr' \in BOOLEAN
          /\ gatewayStatus' \in {"CONNECTED", "DISCONNECTED"}
          /\ sendFailed' \in BOOLEAN
      BY <1>15 DEF OnChecksumError, Sent, NotSent
    <2>2. /\ dlms_checksum_error_retry' = dlms_checksum_error_retry + 1
          /\ dlms_checksum_error_retry <= 3
          /\ dlms_checksum_error_retry' \in 1..4
      BY <1>15 DEF OnChecksumError, Got
    <2>3. CASE \E s \in {"FAILED_PMESH_ERROR", "DLMS_FAILED"} :
                 Return /\ WriteRow(s)
      <3>1. /\ row' \in [1..MaxRequests -> Service!Statuses]
            /\ row'[req] \in {"FAILED_PMESH_ERROR", "DLMS_FAILED"}
        BY <1>15, <2>3, RowFacts DEF OnChecksumError, Got
      <3> QED
        BY <1>15, <2>1, <2>2, <2>3, <3>1, ReturnFacts
        DEF OnChecksumError, Got, received, branch, locals
    <2>4. CASE /\ dlms_checksum_error_retry' <= 3
               /\ pc' = "wait" /\ UNCHANGED <<row, count>>
      BY <1>15, <2>1, <2>2, <2>4 DEF OnChecksumError, Got, received, branch, locals
    <2>5. \/ Return /\ WriteRow("FAILED_PMESH_ERROR")
          \/ Return /\ WriteRow("DLMS_FAILED")
          \/ /\ dlms_checksum_error_retry' <= 3
             /\ pc' = "wait" /\ UNCHANGED <<row, count>>
      BY <1>15, <2>2 DEF OnChecksumError
    <2> QED
      BY <2>3, <2>4, <2>5
  <1>16. CASE DlmsEnable
    <2>1. CASE retry < 3
      <3>1. /\ need_to_validate_src_addr' \in BOOLEAN
            /\ gatewayStatus' \in {"CONNECTED", "DISCONNECTED"}
            /\ sendFailed' \in BOOLEAN
            /\ UNCHANGED row
        <4>1. UNCHANGED row /\ (Sent \/ NotSent)
          BY <1>16, <2>1 DEF DlmsEnable
        <4> QED
          BY <4>1 DEF Sent, NotSent
      <3>2. pc' \in {"dwait", "idle", "call"} /\ count' \in 0..MaxPings
        BY <1>16, <2>1, ReturnFacts DEF DlmsEnable
      <3> QED
        BY <1>16, <2>1, <3>1, <3>2 DEF DlmsEnable, received, branch, locals
    <2>2. CASE retry >= 3
      <3>1. Return /\ WriteRow("DLMS_FAILED")
        BY <1>16, <2>2 DEF DlmsEnable
      <3>2. /\ row' \in [1..MaxRequests -> Service!Statuses]
            /\ row'[req] = "DLMS_FAILED"
        BY <1>16, <3>1, RowFacts DEF DlmsEnable
      <3> QED
        BY SMTT(30), <1>16, <2>2, <3>1, <3>2, ReturnFacts DEF DlmsEnable, received, branch, locals
    <2> QED
      BY SMTT(30), <2>1, <2>2
  <1>17. CASE DlmsGot
    BY <1>17 DEF DlmsGot, received, branch, locals
  <1>18. CASE Done
    BY <1>18 DEF Done, vars, request, locals
  <1>19. CASE UNCHANGED vars
    BY <1>19 DEF vars, request, locals
  <1> QED
    BY <1>1, <1>2, <1>3, <1>4, <1>5, <1>6, <1>7, <1>8, <1>9, <1>10, <1>11,
       <1>12, <1>13, <1>14, <1>15, <1>16, <1>17, <1>18, <1>19
    DEF Next, Process_ODM_request

\* Every step preserves Retries.
LEMMA RetriesStep ==
  ASSUME Base, Rows, Retries, [Next]_vars
  PROVE  Retries'
  <1> USE DEF Base, Rows, TypeOK, Retries
  <1>1. CASE \E k \in Service!Kinds : Take(k)
    <2> PICK k \in Service!Kinds : Take(k)
      BY <1>1
    <2>1. req' = req + 1 /\ req + 1 \in 1..MaxRequests
      BY ExchangeBounds DEF Take
    <2>2. row'[req'] = "IN_PROGRESS" /\ pc' = "call"
      BY <2>1 DEF Take
    <2> QED
      BY <2>2
  <1>2. CASE StartCall
    <2>1. UNCHANGED <<req, row, retry, resends>>
      BY <1>2 DEF StartCall
    <2>2. carried' = (carried \/ retry # 1)
      BY <1>2 DEF StartCall
    <2>3. carried' \/ retry' = 1
      BY <2>1, <2>2
    <2>4. carried => carried'
      BY <2>2
    <2> QED
      BY <2>1, <2>3, <2>4
  <1>3. CASE \E p \in Packets : ReceivePacket(p)
    BY <1>3 DEF ReceivePacket, Received, request, locals
  <1>4. CASE ReceiveTimeout
    BY <1>4 DEF ReceiveTimeout, Received, request, locals
  <1>5. CASE ReceiveClosed
    BY <1>5 DEF ReceiveClosed, Received, request, locals
  <1>6. CASE handle_success
    <2>1. pc = "got" /\ retry' = 1 /\ UNCHANGED <<req, carried, resends>>
      BY <1>6 DEF handle_success, Got, branch
    <2>2. row'[req] \in {row[req], "SUCCESS_STATUS"}
      <3>1. UNCHANGED row \/ update_odm_db
        BY <1>6 DEF handle_success
      <3> HIDE DEF Base, Rows
      <3> QED
        BY <2>1, <3>1, StoreFacts
    <2> QED
      BY <2>1, <2>2
  <1>7. CASE OnDlmsSuccess
    BY <1>7 DEF OnDlmsSuccess, Got, Resend, Return, Sent, NotSent, received, branch,
            locals
  <1>8. CASE OnError
    BY <1>8 DEF OnError, Got, Return, WriteRow, received, branch, locals
  <1>9. CASE OnRetriesUsedUp
    BY <1>9 DEF OnRetriesUsedUp, Got, Return, WriteRow, received, branch, locals
  <1>10. CASE OnTimeout
    <2>1. /\ pc = "got" /\ retry' = retry + 1 /\ resends' = resends + 1
          /\ UNCHANGED <<req, carried>>
      BY <1>10 DEF OnTimeout, Got, received, branch
    <2>2. row'[req] \in {row[req], "RETRY_IN_PROGRESS"}
      BY <1>10, <2>1, RowFacts DEF OnTimeout, Service!Statuses, Service!Progress
    <2> QED
      BY <2>1, <2>2
  <1>11. CASE OnConnectionFailed
    BY <1>11 DEF OnConnectionFailed, Got, received, branch, locals
  <1>12. CASE OnPollTimeout
    BY <1>12 DEF OnPollTimeout, Got, Resend, Return, Sent, NotSent, WriteRow,
            received, branch, locals
  <1>13. CASE OnNextPage
    BY <1>13 DEF OnNextPage, Got, Resend, Return, Sent, NotSent, received, branch,
            locals
  <1>14. CASE OnIgnored
    BY <1>14 DEF OnIgnored, Got, received, branch, locals
  <1>15. CASE OnChecksumError
    BY <1>15 DEF OnChecksumError, Got, Return, Sent, NotSent, WriteRow,
            received, branch, locals
  <1>16. CASE DlmsEnable
    BY <1>16 DEF DlmsEnable, Return, Sent, NotSent, WriteRow, received, branch, locals
  <1>17. CASE DlmsGot
    BY <1>17 DEF DlmsGot, received, branch, locals
  <1>18. CASE Done
    BY <1>18 DEF Done, vars, request, locals
  <1>19. CASE UNCHANGED vars
    BY <1>19 DEF vars, request, locals
  <1> QED
    BY <1>1, <1>2, <1>3, <1>4, <1>5, <1>6, <1>7, <1>8, <1>9, <1>10, <1>11,
       <1>12, <1>13, <1>14, <1>15, <1>16, <1>17, <1>18, <1>19
    DEF Next, Process_ODM_request

\* Every step preserves Pages.
LEMMA PagesStep ==
  ASSUME Base, Rows, Pages, [Next]_vars
  PROVE  Pages'
  <1> USE DEF Base, Rows, TypeOK, Pages, Held, Waiting
  <1>1. CASE \E k \in Service!Kinds : Take(k)
    BY <1>1 DEF Take, locals
  <1>2. CASE StartCall
    BY <1>2 DEF StartCall, Resend, Return, Sent, NotSent
  <1>3. CASE \E p \in Packets : ReceivePacket(p)
    <2> PICK p \in Packets : ReceivePacket(p)
      BY <1>3
    <2>1. /\ pc \in {"wait", "dwait"}
          /\ UNCHANGED <<req, tx_page_index>>
      BY DEF ReceivePacket, Received, request, locals
    <2> QED
      BY <2>1, ProfileFacts
  <1>4. CASE ReceiveTimeout
    BY <1>4 DEF ReceiveTimeout, Received, request, locals
  <1>5. CASE ReceiveClosed
    BY <1>5 DEF ReceiveClosed, Received, request, locals
  <1>6. CASE handle_success
    BY <1>6 DEF handle_success, Got, Return, branch, locals
  <1>7. CASE OnDlmsSuccess
    BY <1>7 DEF OnDlmsSuccess, Got, Resend, Return, Sent, NotSent, received, branch,
            locals
  <1>8. CASE OnError
    BY <1>8 DEF OnError, Got, Return, WriteRow, received, branch, locals
  <1>9. CASE OnRetriesUsedUp
    BY <1>9 DEF OnRetriesUsedUp, Got, Return, WriteRow, received, branch, locals
  <1>10. CASE OnTimeout
    BY <1>10 DEF OnTimeout, Got, Resend, Return, Sent, NotSent, WriteRow,
            received, branch, locals
  <1>11. CASE OnConnectionFailed
    BY <1>11 DEF OnConnectionFailed, Got, received, branch, locals
  <1>12. CASE OnPollTimeout
    BY <1>12 DEF OnPollTimeout, Got, Resend, Return, Sent, NotSent, WriteRow,
            received, branch, locals
  <1>13. CASE OnNextPage
    <2>1. /\ pc = "got" /\ ret = "SUCCES_NEXT_PAGE" /\ ret' = "none"
          /\ tx_page_index' = tx_page_index + 1
          /\ UNCHANGED <<req, profile>>
      BY <1>13 DEF OnNextPage, Got, received, branch
    <2>2. \A q \in 0..(tx_page_index' - 1) :
            q \in 0..(tx_page_index - 1) \/ q = tx_page_index
      BY <2>1
    <2>3. \A q \in 0..(tx_page_index' - 1) : Held(q)
      <3> HIDE DEF Held
      <3> QED
        BY <2>1, <2>2
    <2> QED
      BY <2>1, <2>3
  <1>14. CASE OnIgnored
    BY <1>14 DEF OnIgnored, Got, received, branch, locals
  <1>15. CASE OnChecksumError
    BY <1>15 DEF OnChecksumError, Got, Return, Sent, NotSent, WriteRow,
            received, branch, locals
  <1>16. CASE DlmsEnable
    BY <1>16 DEF DlmsEnable, Return, Sent, NotSent, WriteRow, received, branch, locals
  <1>17. CASE DlmsGot
    BY <1>17 DEF DlmsGot, received, branch, locals
  <1>18. CASE Done
    BY <1>18 DEF Done, vars, request, locals
  <1>19. CASE UNCHANGED vars
    BY <1>19 DEF vars, request, locals
  <1> QED
    BY <1>1, <1>2, <1>3, <1>4, <1>5, <1>6, <1>7, <1>8, <1>9, <1>10, <1>11,
       <1>12, <1>13, <1>14, <1>15, <1>16, <1>17, <1>18, <1>19
    DEF Next, Process_ODM_request

\* Every step preserves Served.
LEMMA ServedStep ==
  ASSUME Base, Rows, Served, [Next]_vars
  PROVE  Served'
  <1> USE DEF Base, Rows, TypeOK, Served, NothingServedTwice
  <1>1. CASE \E k \in Service!Kinds : Take(k)
    <2> PICK k \in Service!Kinds : Take(k)
      BY <1>1
    <2>1. req' = req + 1 /\ UNCHANGED <<delivered, profile>>
      BY DEF Take
    <2>2. kind' # "ping" => count' <= 1
      BY DEF Take
    <2>3. delivered' \subseteq 1..req' /\ req' \notin delivered'
      BY <2>1
    <2>4. \A n \in DOMAIN profile : profile[n].req \in Nat
      <3> TAKE n \in DOMAIN profile
      <3>1. profile \in Seq([req: 1..MaxRequests, page: 0..MaxPage])
        OBVIOUS
      <3>2. profile[n] \in [req: 1..MaxRequests, page: 0..MaxPage]
        BY <3>1, ElementOfSeq
      <3> QED
        BY <3>2, ExchangeBounds
    <2>5. \A n \in DOMAIN profile' : profile'[n].req <= req'
      BY SMTT(30), <2>1, <2>4
    <2> QED
      BY <2>1, <2>2, <2>3, <2>5
  <1>2. CASE StartCall
    BY <1>2 DEF StartCall, Resend, Return, Sent, NotSent
  <1>3. CASE \E p \in Packets : ReceivePacket(p)
    <2> PICK p \in Packets : ReceivePacket(p)
      BY <1>3
    <2>1. /\ pc # "idle"
          /\ UNCHANGED <<kind, req, count, delivered>>
      BY DEF ReceivePacket, Received, request
    <2>2. \A n \in DOMAIN profile' :
            \/ n \in DOMAIN profile /\ profile'[n] = profile[n]
            \/ profile'[n].req = req
      BY ProfileFacts
    <2>3. \A n \in DOMAIN profile' :
            profile'[n].req <= req /\ profile'[n].req \notin delivered
      BY SMTT(30), <2>1, <2>2
    <2> QED
      BY <2>1, <2>3
  <1>4. CASE ReceiveTimeout
    BY <1>4 DEF ReceiveTimeout, Received, request, locals
  <1>5. CASE ReceiveClosed
    BY <1>5 DEF ReceiveClosed, Received, request, locals
  <1>6. CASE handle_success
    <2>1. pc = "got" /\ UNCHANGED <<kind, req>>
      BY <1>6 DEF handle_success, Got, branch
    <2>2. CASE UNCHANGED <<count, profile, delivered>>
      BY <2>1, <2>2
    <2>3. CASE Return /\ kind = "profile" /\ profile' = <<>>
               /\ delivered' = delivered \cup {req}
      BY <2>1, <2>3, ReturnFacts
    <2>4. CASE Return /\ UNCHANGED <<profile, delivered>>
      BY <2>1, <2>4, ReturnFacts
    <2>5. \/ UNCHANGED <<count, profile, delivered>>
          \/ Return /\ update_odm_db
      BY <1>6 DEF handle_success
    <2>6. update_odm_db =>
            \/ UNCHANGED <<profile, delivered>>
            \/ kind = "profile" /\ profile' = <<>> /\ delivered' = delivered \cup {req}
      <3> HIDE DEF Base, Rows
      <3> QED
        BY <2>1, StoreFacts
    <2> QED
      BY <2>2, <2>3, <2>4, <2>5, <2>6, Zenon
  <1>7. CASE OnDlmsSuccess
    BY <1>7 DEF OnDlmsSuccess, Got, Resend, Return, Sent, NotSent, received, branch,
            locals
  <1>8. CASE OnError
    BY <1>8 DEF OnError, Got, Return, WriteRow, received, branch, locals
  <1>9. CASE OnRetriesUsedUp
    BY <1>9 DEF OnRetriesUsedUp, Got, Return, WriteRow, received, branch, locals
  <1>10. CASE OnTimeout
    BY <1>10 DEF OnTimeout, Got, Resend, Return, Sent, NotSent, WriteRow,
            received, branch, locals
  <1>11. CASE OnConnectionFailed
    BY <1>11 DEF OnConnectionFailed, Got, received, branch, locals
  <1>12. CASE OnPollTimeout
    BY <1>12 DEF OnPollTimeout, Got, Resend, Return, Sent, NotSent, WriteRow,
            received, branch, locals
  <1>13. CASE OnNextPage
    BY <1>13 DEF OnNextPage, Got, Resend, Return, Sent, NotSent, received, branch,
            locals
  <1>14. CASE OnIgnored
    BY <1>14 DEF OnIgnored, Got, received, branch, locals
  <1>15. CASE OnChecksumError
    BY <1>15 DEF OnChecksumError, Got, Return, Sent, NotSent, WriteRow,
            received, branch, locals
  <1>16. CASE DlmsEnable
    BY <1>16 DEF DlmsEnable, Return, Sent, NotSent, WriteRow, received, branch, locals
  <1>17. CASE DlmsGot
    BY <1>17 DEF DlmsGot, received, branch, locals
  <1>18. CASE Done
    BY <1>18 DEF Done, vars, request, locals
  <1>19. CASE UNCHANGED vars
    BY <1>19 DEF vars, request, locals
  <1> QED
    BY <1>1, <1>2, <1>3, <1>4, <1>5, <1>6, <1>7, <1>8, <1>9, <1>10, <1>11,
       <1>12, <1>13, <1>14, <1>15, <1>16, <1>17, <1>18, <1>19
    DEF Next, Process_ODM_request

-----------------------------------------------------------------------------
IInv == Base /\ Rows /\ Retries /\ Pages /\ Served

LEMMA InitInv == Init => IInv
  <1> SUFFICES ASSUME Init PROVE IInv
    OBVIOUS
  <1>1. /\ row \in [1..MaxRequests -> Service!Statuses]
        /\ profile \in Seq([req: 1..MaxRequests, page: 0..MaxPage])
        /\ DOMAIN profile = {}
    BY DEF Init, Service!Statuses
  <1>2. TypeOK
    <2>1. /\ 0 \in 0..MaxRequests /\ 0 \in 0..MaxPings /\ 0 \in 0..MaxPackets
          /\ 0 \in 0..(MaxPage + 1) /\ 1 \in 1..(MaxPage + 2)
      BY ExchangeBounds
    <2>2. /\ once \in BOOLEAN /\ invalid_resp \in BOOLEAN
          /\ need_to_validate_src_addr \in BOOLEAN /\ closed \in BOOLEAN
          /\ answered \in BOOLEAN /\ sendFailed \in BOOLEAN /\ carried \in BOOLEAN
      BY DEF Init
    <2>3. /\ retry \in 1..3 /\ poll_retry \in 1..3
          /\ dlms_checksum_error_retry \in 1..4
      BY DEF Init
    <2>4. /\ req \in 0..MaxRequests /\ count \in 0..MaxPings
          /\ budget \in 0..MaxPackets /\ resends \in 0..MaxPackets
          /\ tx_page_index \in 0..(MaxPage + 1) /\ page_index \in 1..(MaxPage + 2)
      BY <2>1, Zenon DEF Init
    <2>5. /\ pc \in {"idle", "call", "wait", "got", "dsend", "dwait", "dgot"}
          /\ kind \in Service!Kinds /\ ret \in Codes \cup {"none"}
          /\ gatewayStatus \in {"CONNECTED", "DISCONNECTED"}
          /\ delivered \subseteq 1..MaxRequests
      BY DEF Init, Service!Kinds
    <2> QED
      BY <1>1, <2>2, <2>3, <2>4, <2>5, Zenon DEF TypeOK
  <1>3. Base
    BY <1>2, ExchangeBounds DEF Init, Base, Waiting
  <1>4. Rows /\ Retries /\ Pages
    BY DEF Init, Rows, Retries, Pages, Waiting
  <1>5. Served
    BY <1>1 DEF Init, Served, NothingServedTwice
  <1> QED
    BY <1>3, <1>4, <1>5 DEF IInv

\* The invariant that the results below are taken from.
THEOREM Invariance == Spec => []IInv
  <1>1. IInv /\ [Next]_vars => IInv'
    BY BaseStep, RetriesStep, PagesStep, ServedStep DEF IInv
  <1> QED
    BY InitInv, <1>1, PTL DEF Spec

\* Every variable keeps its type: the counters of Process_ODM_request stay
\* within their limits, and no page beyond the last one is asked for.
THEOREM TypeCorrect == Spec => []TypeOK
  <1>1. IInv => TypeOK
    BY DEF IInv, Base
  <1> QED
    BY Invariance, <1>1, PTL

\* A request is given up as FAILED_RF_TIMEOUT after two resends of its own,
\* unless Client::retry was carried over into it.
THEOREM FullRetries == Spec => []ShortRetryOnlyIfCarried
  <1>1. IInv => ShortRetryOnlyIfCarried
    BY DEF IInv, Retries, ShortRetryOnlyIfCarried
  <1> QED
    BY Invariance, <1>1, PTL

\* The pages in memory are never those of a request that has its data.
THEOREM ServedOnce == Spec => []NothingServedTwice
  <1>1. IInv => NothingServedTwice
    BY DEF IInv, Served
  <1> QED
    BY Invariance, <1>1, PTL

\* When data is inserted for a request, no page before the last is missing.
THEOREM AllPages == Spec => NoPageMissing
  <1> DEFINE Complete ==
        \A r \in delivered' \ delivered :
          \A q \in 0..(tx_page_index - 1) :
            \E n \in DOMAIN profile : profile[n] = [req |-> r, page |-> q]
  <1>1. ASSUME IInv, [Next]_vars, delivered' # delivered
        PROVE  handle_success
    BY <1>1 DEF Next, Process_ODM_request, vars, Take, StartCall, ReceivePacket,
       ReceiveTimeout, ReceiveClosed, Received, OnDlmsSuccess, OnError,
       OnRetriesUsedUp, OnTimeout, OnConnectionFailed, OnPollTimeout, OnNextPage,
       OnIgnored, OnChecksumError, DlmsEnable, DlmsGot, Done
  <1>2. ASSUME IInv, handle_success
        PROVE  Complete
    <2>1. pc = "got" /\ delivered' \subseteq delivered \cup {req}
      BY <1>2 DEF handle_success, Got, update_odm_db, IInv, Base, TypeOK, Service!Kinds
    <2>2. \A q \in 0..(tx_page_index - 1) : Held(q)
      BY <1>2, <2>1 DEF IInv, Pages, Waiting
    <2> QED
      BY <2>1, <2>2 DEF Held
  <1>3. IInv /\ [Next]_vars => [Complete]_vars
    BY <1>1, <1>2
  <1> QED
    BY Invariance, <1>3, PTL DEF Spec, NoPageMissing

-----------------------------------------------------------------------------
(* OdmExchange implements the safety part of OdmService.                   *)

\* A call that ends with a final status is the end of the request, or of one
\* of its pings.
LEMMA EndsRequest ==
  ASSUME Base, Rows, pc # "idle", Return, UNCHANGED <<kind, req, answered, sendFailed>>,
         gatewayStatus' \in {gatewayStatus, "DISCONNECTED"},
         NEW s \in Service!Final, WriteRow(s)
  PROVE  Service!Next
  <1>1. row' = [row EXCEPT ![req] = s]
    BY DEF WriteRow
  <1>2. pc' = "idle" \/ pc' = "call"
    BY ReturnFacts DEF Base
  <1>3. CASE pc' = "idle"
    BY <1>1, <1>3 DEF Service!Next, Service!End
  <1>4. CASE pc' = "call"
    BY <1>1, <1>4 DEF Service!Next, Service!Serve
  <1> QED
    BY <1>2, <1>3, <1>4

\* The row is written, or kept: in both cases it is the row of the request.
LEMMA WrittenOrKept ==
  ASSUME Base, Rows, pc # "idle", NEW s \in Service!Final \cup Service!Progress,
         UNCHANGED row \/ WriteRow(s)
  PROVE  \E t \in Service!Final \cup Service!Progress :
           row' = [row EXCEPT ![req] = t]
  <1>1. CASE UNCHANGED row
    <2>1. /\ row \in [1..MaxRequests -> Service!Statuses]
          /\ row[req] \in Service!Final \cup Service!Progress
      BY DEF Base, TypeOK, Rows
    <2>2. row = [row EXCEPT ![req] = row[req]]
      BY <2>1
    <2> QED
      BY <1>1, <2>1, <2>2
  <1>2. CASE WriteRow(s)
    BY <1>2 DEF WriteRow
  <1> QED
    BY <1>1, <1>2

\* A failed send, wherever the call goes from there.
LEMMA FailedSend ==
  ASSUME Base, Rows, pc # "idle", NotSent, UNCHANGED <<kind, req, answered>>,
         NEW s \in Service!Final \cup Service!Progress,
         UNCHANGED row \/ WriteRow(s)
  PROVE  Service!Next
  <1>1. \E t \in Service!Final \cup Service!Progress :
          row' = [row EXCEPT ![req] = t]
    BY WrittenOrKept
  <1>2. sendFailed' = TRUE /\ gatewayStatus' = "CONNECTED"
    BY DEF NotSent
  <1> QED
    BY <1>1, <1>2 DEF Service!Next, Service!SendFails

\* The call goes on: a stutter, or a change of the row.
LEMMA GoesOn ==
  ASSUME Base, Rows, pc # "idle", pc' # "idle", UNCHANGED <<kind, req, answered, sendFailed>>,
         gatewayStatus' \in {gatewayStatus, "DISCONNECTED"},
         NEW s \in Service!Final \cup Service!Progress,
         UNCHANGED row \/ WriteRow(s)
  PROVE  Service!Next
  <1>1. \E t \in Service!Final \cup Service!Progress :
          row' = [row EXCEPT ![req] = t]
    BY WrittenOrKept
  <1> QED
    BY <1>1 DEF Service!Next, Service!Serve

\* A resend: the call goes on or a send has failed.
LEMMA ResendStep ==
  ASSUME Base, Rows, pc # "idle", Resend, UNCHANGED <<kind, req, answered>>,
         UNCHANGED row \/ WriteRow("RETRY_IN_PROGRESS")
  PROVE  Service!Next
  <1> DEFINE s == "RETRY_IN_PROGRESS"
  <1>1. s \in Service!Final \cup Service!Progress
    BY DEF Service!Progress
  <1>2. CASE Sent /\ pc' = "wait"
    <2>1. UNCHANGED <<gatewayStatus, sendFailed>> /\ pc' # "idle"
      BY <1>2 DEF Sent
    <2> QED
      BY <1>1, <2>1, GoesOn
  <1>3. CASE NotSent
    BY <1>1, <1>3, FailedSend
  <1> QED
    BY <1>2, <1>3 DEF Resend

\* Every step of the exchange is a step of the service, or none.
LEMMA ServiceStep ==
  ASSUME Base, Rows, Served, [Next]_vars
  PROVE  [Service!Next]_(Service!svars)
  <1> USE DEF Service!svars
  <1>0. \A s \in {"SUCCESS_STATUS", "FAILED_RF_TIMEOUT", "DLMS_FAILED",
                  "FAILED_NO_GW_RESPONSE", "FAILED_PMESH_ERROR"} :
          s \in Service!Final
    BY DEF Service!Final
  <1>1. CASE \E k \in Service!Kinds : Take(k)
    BY <1>1 DEF Take, Service!Next, Service!Take
  <1>2. CASE StartCall
    BY <1>2, ResendStep DEF StartCall
  <1>3. CASE (\E p \in Packets : ReceivePacket(p)) \/ ReceiveTimeout
    BY <1>3 DEF ReceivePacket, ReceiveTimeout, Received, request
  <1>4. CASE ReceiveClosed
    BY <1>0, <1>4, GoesOn DEF ReceiveClosed, Received, request
  <1>5. CASE handle_success
    <2>1. pc = "got" /\ UNCHANGED <<kind, req, sendFailed, gatewayStatus>>
      BY <1>5 DEF handle_success, Got, branch
    <2>2. CASE pc' = "wait" /\ UNCHANGED <<row, answered>>
      BY <2>1, <2>2
    <2>3. CASE Return /\ WriteRow("SUCCESS_STATUS") /\ UNCHANGED answered
      BY <1>0, <2>1, <2>3, EndsRequest
    <2>4. CASE Return /\ kind = "object" /\ answered' = TRUE /\ UNCHANGED row
      <3>1. pc' = "idle"
        BY <2>4, ReturnFacts DEF Served, Base
      <3> QED
        BY <2>1, <2>4, <3>1 DEF Service!Next, Service!End
    <2> QED
      BY <1>5, <2>1, <2>2, <2>3, <2>4, StoreFacts DEF handle_success
  <1>6. CASE OnDlmsSuccess
    BY <1>6, ResendStep DEF OnDlmsSuccess, Got, received, branch
  <1>7. CASE OnError
    <2>1. /\ pc = "got" /\ UNCHANGED <<kind, req, answered, sendFailed, gatewayStatus>>
          /\ Return /\ (WriteRow("FAILED_PMESH_ERROR") \/ WriteRow("SUCCESS_STATUS"))
      BY <1>7 DEF OnError, Got, received, branch
    <2> QED
      BY <1>0, <2>1, EndsRequest
  <1>8. CASE OnRetriesUsedUp
    <2>1. /\ pc = "got" /\ UNCHANGED <<kind, req, answered, sendFailed, gatewayStatus>>
          /\ Return /\ WriteRow("FAILED_RF_TIMEOUT")
      BY <1>8 DEF OnRetriesUsedUp, Got, received, branch
    <2> QED
      BY <1>0, <2>1, EndsRequest
  <1>9. CASE OnTimeout
    <2>1. /\ pc = "got" /\ UNCHANGED <<kind, req, answered>> /\ Resend
          /\ UNCHANGED row \/ WriteRow("RETRY_IN_PROGRESS")
      BY <1>9 DEF OnTimeout, Got, received, branch
    <2> QED
      BY <2>1, ResendStep
  <1>10. CASE OnConnectionFailed \/ OnIgnored \/ DlmsGot
    BY <1>10 DEF OnConnectionFailed, OnIgnored, DlmsGot, Got, received, branch
  <1>11. CASE OnPollTimeout
    <2>1. pc = "got" /\ UNCHANGED <<kind, req, answered>>
      BY <1>11 DEF OnPollTimeout, Got, received, branch
    <2>2. CASE kind # "ping" /\ poll_retry < 3
      BY <1>11, <2>1, <2>2, ResendStep DEF OnPollTimeout
    <2>3. CASE ~(kind # "ping" /\ poll_retry < 3)
      <3>1. /\ Return /\ WriteRow("FAILED_NO_GW_RESPONSE") /\ UNCHANGED sendFailed
            /\ gatewayStatus' \in {gatewayStatus, "DISCONNECTED"}
        BY <1>11, <2>3 DEF OnPollTimeout
      <3> QED
        BY <1>0, <2>1, <3>1, EndsRequest
    <2> QED
      BY <2>2, <2>3
  <1>12. CASE OnNextPage
    BY <1>12, ResendStep DEF OnNextPage, Got, received, branch
  <1>13. CASE OnChecksumError
    <2>1. pc = "got" /\ UNCHANGED <<kind, req, answered>>
      BY <1>13 DEF OnChecksumError, Got, received, branch
    <2>2. CASE NotSent /\ WriteRow("FAILED_PMESH_ERROR")
      BY <1>0, <2>1, <2>2, FailedSend
    <2>3. CASE Sent /\ WriteRow("DLMS_FAILED") /\ Return
      <3>1. UNCHANGED <<gatewayStatus, sendFailed>>
        BY <2>3 DEF Sent
      <3> QED
        BY <1>0, <2>1, <2>3, <3>1, EndsRequest
    <2>4. CASE Sent /\ pc' = "wait" /\ UNCHANGED row
      BY <2>1, <2>4 DEF Sent
    <2> QED
      BY <1>13, <2>2, <2>3, <2>4 DEF OnChecksumError
  <1>14. CASE DlmsEnable
    <2>1. pc = "dsend" /\ UNCHANGED <<kind, req, answered>>
      BY <1>14 DEF DlmsEnable, received, branch
    <2>2. CASE Sent /\ pc' = "dwait" /\ UNCHANGED row
      BY <2>1, <2>2 DEF Sent
    <2>3. CASE NotSent /\ UNCHANGED row
      BY <1>0, <2>1, <2>3, FailedSend
    <2>4. CASE WriteRow("DLMS_FAILED") /\ Return
               /\ UNCHANGED <<gatewayStatus, sendFailed>>
      BY <1>0, <2>1, <2>4, EndsRequest
    <2> QED
      BY <1>14, <2>2, <2>3, <2>4 DEF DlmsEnable
  <1>15. CASE Done \/ UNCHANGED vars
    BY <1>15 DEF Done, vars, request
  <1> QED
    BY <1>1, <1>2, <1>3, <1>4, <1>5, <1>6, <1>7, <1>8, <1>9, <1>10, <1>11, <1>12,
       <1>13, <1>14, <1>15
    DEF Next, Process_ODM_request

\* The safety part of ServiceSpec: Process_ODM_request only takes the steps of
\* the abstract service; in particular a request ends with a final status in
\* its row unless a send failed while it was served, or it was for a single
\* object and the value was stored.
THEOREM ImplementsService ==
  Spec => Service!Init /\ [][Service!Next]_(Service!svars)
  <1>1. Init => Service!Init
    BY DEF Init, Service!Init
  <1>2. IInv /\ [Next]_vars => [Service!Next]_(Service!svars)
    BY ServiceStep DEF IInv
  <1> QED
    BY Invariance, <1>1, <1>2, PTL DEF Spec

=============================================================================

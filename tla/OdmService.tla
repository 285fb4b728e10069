----------------------------- MODULE OdmService -----------------------------
(***************************************************************************)
(* What serving one on-demand request promises to the queue it was taken   *)
(* from, whatever the mesh does: every request that is taken ends, and     *)
(* ends with a final status in its row, unless a packet could not be sent, *)
(* or the request was for a single object and its value was stored: no     *)
(* status is written then.  Meanwhile the row only says that the request   *)
(* is in progress or retried.                                              *)
(* Module OdmExchange is the protocol that implements this.                *)
(***************************************************************************)
EXTENDS Naturals

CONSTANT MaxRequests    \* bound: requests served in a behaviour

VARIABLES
  serving,        \* a request is being served
  kind, req,      \* what it asks for, and its number
  row,            \* row[r]: the status written last for request r
  answered,       \* it was for a single object, which was stored
  sendFailed,     \* a send failed while it was served
  gatewayStatus

svars == <<serving, kind, req, row, answered, sendFailed, gatewayStatus>>

Kinds == {"profile", "object", "ping"}

Final == {"SUCCESS_STATUS", "FAILED_RF_TIMEOUT", "FAILED_NO_GW_RESPONSE",
          "DLMS_FAILED", "FAILED_PMESH_ERROR"}
Progress == {"IN_PROGRESS", "RETRY_IN_PROGRESS"}
Statuses == Final \cup Progress \cup {"REQUESTED"}

Init ==
  /\ serving = FALSE /\ kind = "profile" /\ req = 0
  /\ row = [r \in 1..MaxRequests |-> "REQUESTED"]
  /\ answered = FALSE /\ sendFailed = FALSE
  /\ gatewayStatus = "CONNECTED"

Take ==
  /\ ~serving /\ req < MaxRequests
  /\ gatewayStatus = "CONNECTED"
  /\ serving' = TRUE
  /\ kind' \in Kinds
  /\ req' = req + 1
  /\ row' = [row EXCEPT ![req + 1] = "IN_PROGRESS"]
  /\ answered' = FALSE /\ sendFailed' = FALSE
  /\ UNCHANGED gatewayStatus

\* Its row changes while it is served (a request made of several pings may
\* already have a final status), or the gateway is found lost.
Serve ==
  /\ serving
  /\ \E s \in Final \cup Progress : row' = [row EXCEPT ![req] = s]
  /\ gatewayStatus' \in {gatewayStatus, "DISCONNECTED"}
  /\ UNCHANGED <<serving, kind, req, answered, sendFailed>>

\* A send fails: the gateway counts as connected, whatever it was before.
SendFails ==
  /\ serving
  /\ sendFailed' = TRUE
  /\ gatewayStatus' = "CONNECTED"
  /\ serving' \in BOOLEAN
  /\ \E s \in Final \cup Progress : row' = [row EXCEPT ![req] = s]
  /\ UNCHANGED <<kind, req, answered>>

\* The request ends: with a final status, or with the object stored.
End ==
  /\ serving
  /\ serving' = FALSE
  /\ \/ /\ \E s \in Final : row' = [row EXCEPT ![req] = s]
        /\ UNCHANGED answered
     \/ kind = "object" /\ answered' = TRUE /\ UNCHANGED row
  /\ gatewayStatus' \in {gatewayStatus, "DISCONNECTED"}
  /\ UNCHANGED <<kind, req, sendFailed>>

Next == Take \/ Serve \/ SendFails \/ End

\* A request that was taken ends.
Spec == Init /\ [][Next]_svars /\ (serving ~> ~serving)
=============================================================================

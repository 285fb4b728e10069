------------------------ MODULE InitConnectionProofs ------------------------
(***************************************************************************)
(* Proofs about InitConnection, for every network, every contents of the   *)
(* database and every length of the queues.  The invariant has two parts:  *)
(*   Base  types; the queues never exceed their limit; the task in hand is *)
(*         of the phase, and its retries are in bounds;                    *)
(*   Own   the pages kept of a profile are of the node in hand, all pages  *)
(*         before the one asked for are kept, and an exchange that went    *)
(*         well leaves none behind; and it went well only when the node    *)
(*         answered.                                                       *)
(* What Filtered computes is proved by an induction over the numbers whose *)
(* predicate is a set (NatSetInduction).                                   *)
(***************************************************************************)
EXTENDS InitConnection, FiniteSetTheorems, SequenceTheorems, WellFoundedInduction, TLAPS

Sending == {"send", "recv", "done"}
TaskCommands(p) == IF p = 1 THEN {"UNSILENCE"}
                   ELSE IF p = 2 THEN {"NAMEPLATE"} ELSE ScalarProfiles

\* The parts of TypeOK.
TPlace == /\ phase \in 1..3 /\ queue \in Seq(Task) /\ routes \in Seq(Node)
          /\ Len(queue) <= QueueLimit /\ Len(routes) <= QueueLimit
TExchange == /\ cmd \in Profiles \cup {"UNSILENCE", "WAKE"} /\ connecting \in BOOLEAN
             /\ page \in Page
TCounts == retry \in 0..4 /\ retry_timeout \in 0..3 /\ again \in BOOLEAN
TResult == /\ got \in BOOLEAN /\ ret \in {"SUCCESS", "FAILURE"}
           /\ gatewayStatus \in {"CONNECTED", "DISCONNECTED"}
TKept == armed \in BOOLEAN /\ kept \in [Profiles -> [Page -> Node \cup {-1}]]
TAsked == asked \in Seq(Query)
TOutside == /\ meter \in [Node -> {"silent", "awake"}] /\ noise \in 0..MaxNoise
            /\ duplicate_gateway \in BOOLEAN
TRow == /\ silenced \subseteq Node
        /\ row \in [Node -> [Profiles -> {"lacking", "own", "mixed"}]]
THistory == answered \in BOOLEAN /\ spoilt \subseteq Profiles
TControl == pc \in {"start", "list", "visit", "end"} \cup Sending /\ hes \in BOOLEAN

\* The queue holds tasks of the phase; the one at its head is in hand.
Flight ==
  /\ \A i \in DOMAIN queue : queue[i].cmd \in TaskCommands(phase)
  /\ pc \in {"start", "list"} => queue = <<>>
  /\ pc \notin Sending => page = 0 /\ retry = 0 /\ retry_timeout = 0
  /\ pc \in Sending =>
       /\ queue # <<>>
       /\ cmd \in TaskCommands(phase) \cup (IF phase = 1 THEN {"WAKE"} ELSE {})
       /\ pc # "done" => retry <= 2 /\ retry_timeout <= 2

Base == /\ TPlace /\ TExchange /\ TCounts /\ TResult /\ TKept /\ TAsked /\ TOutside
        /\ TRow /\ THistory /\ TControl /\ Flight

\* Nothing is kept of a profile but in its own exchange.
Others == \A k \in Profiles \ spoilt : ~(pc \in Sending /\ cmd = k) => kept[k] = Nothing
\* In it, what is kept is of the node.  A row that is there is not stored again.
Pages ==
  pc \in Sending /\ cmd \in Profiles \ spoilt =>
    /\ \A p \in Page : kept[cmd][p] \in {-1, node}
    /\ cmd = "NAMEPLATE" \/ row[node][cmd] = "lacking" =>
         \A p \in Page : p < page => kept[cmd][p] = node
\* What an exchange that went well leaves.
Well ==
  pc = "done" /\ ret = "SUCCESS" =>
    /\ answered
    /\ cmd = "NAMEPLATE" /\ cmd \notin spoilt => \A p \in Page : kept[cmd][p] = node
    /\ cmd \in ScalarProfiles => kept[cmd] = Nothing
Own == Others /\ Pages /\ Well
IInv == Base /\ Own /\ ProfilesOwn


-----------------------------------------------------------------------------
(* The queues. *)

\* A set of numbers that has 0, and with a number the one after it, has all.
LEMMA NatSetInduction ==
  ASSUME NEW S, 0 \in S, \A n \in Nat : n \in S => n + 1 \in S
  PROVE  Nat \subseteq S
  <1> DEFINE T == Nat \ S
             R == OpToRel(<, Nat)
  <1> SUFFICES ASSUME T # {} PROVE FALSE
    OBVIOUS
  <1>1. IsWellFoundedOn(R, Nat)
    BY NatLessThanWellFounded
  <1>2. \A n \in Nat : <<n, n + 1>> \in R
    BY DEF OpToRel
  <1> HIDE DEF R
  <1>3. PICK x \in T : \A y \in T : <<y, x>> \notin R
    BY <1>1, WFMin
  <1>4. x # 0 /\ x - 1 \in Nat /\ x = (x - 1) + 1
    OBVIOUS
  <1>5. x - 1 \in S
    BY <1>2, <1>3, <1>4
  <1> QED
    BY <1>4, <1>5

\* f is the function Filtered computes over the first m elements.
Filters(f, q, S, m) ==
  f = [i \in 0..m |-> IF i = 0 THEN <<>>
                      ELSE IF q[i] \in S THEN Append(f[i - 1], q[i]) ELSE f[i - 1]]

LEMMA FilterExists ==
  ASSUME NEW q, NEW S, NEW m \in Nat
  PROVE  \E f : Filters(f, q, S, m)
  <1> DEFINE D == {n \in Nat : \E f : Filters(f, q, S, n)}
  <1>1. 0 \in D
    <2> DEFINE f == [i \in 0..0 |-> <<>>]
    <2>1. Filters(f, q, S, 0)
      BY DEF Filters
    <2> QED
      BY <2>1
  <1>2. ASSUME NEW n \in Nat, n \in D PROVE n + 1 \in D
    <2>1. PICK f : Filters(f, q, S, n)
      BY <1>2
    <2> DEFINE last == IF q[n + 1] \in S THEN Append(f[n], q[n + 1]) ELSE f[n]
               g == [i \in 0..(n + 1) |-> IF i <= n THEN f[i] ELSE last]
    <2>2. \A i \in 0..n : f[i] = IF i = 0 THEN <<>>
                                 ELSE IF q[i] \in S THEN Append(f[i - 1], q[i])
                                 ELSE f[i - 1]
      BY <2>1 DEF Filters
    <2>3. ASSUME NEW i \in 0..(n + 1)
          PROVE  g[i] = IF i = 0 THEN <<>>
                        ELSE IF q[i] \in S THEN Append(g[i - 1], q[i]) ELSE g[i - 1]
      <3>1. CASE i = 0
        BY <2>2, <3>1
      <3>2. CASE i # 0 /\ i <= n
        BY <2>2, <3>2
      <3>3. CASE i = n + 1
        BY <3>3
      <3> QED
        BY <3>1, <3>2, <3>3
    <2>4. Filters(g, q, S, n + 1)
      BY <2>3 DEF Filters
    <2> QED
      BY <2>4
  <1>3. Nat \subseteq D
    <2> HIDE DEF D
    <2> QED
      BY <1>1, <1>2, NatSetInduction
  <1> QED
    BY <1>3

\* Filtering keeps elements of q that are in S, and never makes q longer.
LEMMA FilteredFacts ==
  ASSUME NEW T, NEW q \in Seq(T), NEW S
  PROVE  Filtered(q, S) \in Seq(T \cap S) /\ Len(Filtered(q, S)) <= Len(q)
  <1> DEFINE f == CHOOSE g : Filters(g, q, S, Len(q))
  <1>1. Filtered(q, S) = f[Len(q)]
    BY DEF Filtered, Filters
  <1>2. Filters(f, q, S, Len(q))
    BY FilterExists
  <1> HIDE DEF f
  <1>3. \A i \in 0..Len(q) : f[i] = IF i = 0 THEN <<>>
                                    ELSE IF q[i] \in S THEN Append(f[i - 1], q[i])
                                    ELSE f[i - 1]
    BY <1>2 DEF Filters
  <1> DEFINE E == {n \in Nat : n <= Len(q) => f[n] \in Seq(T \cap S) /\ Len(f[n]) <= n}
  <1>4. 0 \in E
    <2>1. 0 \in 0..Len(q)
      OBVIOUS
    <2>2. f[0] = <<>>
      BY <1>3, <2>1
    <2>3. <<>> \in Seq(T \cap S) /\ Len(<<>>) = 0
      OBVIOUS
    <2>4. f[0] \in Seq(T \cap S) /\ Len(f[0]) = 0
      BY <2>2, <2>3
    <2> QED
      BY <2>4
  <1>5. ASSUME NEW n \in Nat, n \in E PROVE n + 1 \in E
    <2> SUFFICES ASSUME n + 1 <= Len(q)
                 PROVE  f[n + 1] \in Seq(T \cap S) /\ Len(f[n + 1]) <= n + 1
      OBVIOUS
    <2>1. f[n] \in Seq(T \cap S) /\ Len(f[n]) <= n
      BY <1>5
    <2>2. f[n + 1] = IF q[n + 1] \in S THEN Append(f[n], q[n + 1]) ELSE f[n]
      BY <1>3
    <2>3. CASE q[n + 1] \in S
      <3>1. q[n + 1] \in T \cap S
        BY <2>3
      <3> QED
        BY <2>1, <2>2, <2>3, <3>1
    <2>4. CASE q[n + 1] \notin S
      BY <2>1, <2>2, <2>4
    <2> QED
      BY <2>3, <2>4
  <1>6. Nat \subseteq E
    <2> HIDE DEF E
    <2> QED
      BY <1>4, <1>5, NatSetInduction
  <1> QED
    BY <1>1, <1>6

\* The newest elements of a queue, as many as it has room for.
LEMMA CappedFacts ==
  ASSUME NEW T, NEW q \in Seq(T)
  PROVE  Capped(q) \in Seq(T) /\ Len(Capped(q)) <= QueueLimit
  <1>1. QueueLimit \in Nat /\ Len(q) \in Nat
    BY InitBounds
  <1>2. CASE Len(q) <= QueueLimit
    BY <1>2 DEF Capped
  <1>3. CASE ~(Len(q) <= QueueLimit)
    <2> DEFINE m == Len(q) - QueueLimit + 1
    <2>1. m \in 1..(Len(q) + 1) /\ Len(q) - m + 1 = QueueLimit /\ m <= Len(q) + 1
      BY <1>1, <1>3
    <2>2. Capped(q) = SubSeq(q, m, Len(q))
      BY <1>3 DEF Capped
    <2>3. SubSeq(q, m, Len(q)) \in Seq(T) /\ Len(SubSeq(q, m, Len(q))) = QueueLimit
      BY <1>1, <2>1
    <2> QED
      BY <1>1, <2>2, <2>3
  <1> QED
    BY <1>2, <1>3

LEMMA TasksFacts ==
  ASSUME NEW q \in Seq(Node), NEW k \in Profiles \cup {"UNSILENCE"}
  PROVE  /\ Tasks(q, k) \in Seq(Task) /\ Len(Tasks(q, k)) = Len(q)
         /\ \A i \in DOMAIN Tasks(q, k) : Tasks(q, k)[i].cmd = k
  BY DEF Tasks, Task

\* A list of distinct nodes is no longer than the set it lists.
LEMMA QueueableFacts ==
  ASSUME TPlace, TRow, NEW T \in SUBSET Node, Queueable(T), NEW s \in ByHop(T)
  PROVE  s \in Seq(Node) /\ Len(s) <= QueueLimit
  <1> DEFINE found == {n \in silenced : \E i \in DOMAIN routes : routes[i] = n}
  <1>1. IsFiniteSet(Node)
    BY FS_Interval, InitBounds DEF Node
  <1>2. IsFiniteSet(T) /\ IsFiniteSet(found)
    BY <1>1, FS_Subset DEF TRow
  <1>3. Cardinality(T) \in Nat /\ Cardinality(found) \in Nat
    BY <1>2, FS_CardinalityType
  <1>4. Cardinality(T) = IF Cardinality(found) <= QueueLimit
                         THEN Cardinality(found) ELSE QueueLimit
    BY DEF Queueable
  <1> HIDE DEF found
  <1>5. Cardinality(T) <= QueueLimit
    BY <1>3, <1>4, InitBounds
  <1>6. s \in [1..Cardinality(T) -> Node]
    BY DEF ByHop
  <1> QED
    BY <1>3, <1>5, <1>6

LEMMA HeadFacts ==
  ASSUME TPlace, Flight, queue # <<>>
  PROVE  /\ Head(queue) \in Task /\ Head(queue).cmd \in TaskCommands(phase) /\ node \in Node
         /\ Tail(queue) \in Seq(Task) /\ Len(Tail(queue)) <= QueueLimit
         /\ \A i \in DOMAIN Tail(queue) : Tail(queue)[i].cmd \in TaskCommands(phase)
  <1>1. /\ queue \in Seq(Task) /\ Len(queue) <= QueueLimit /\ QueueLimit \in Nat
        /\ \A i \in DOMAIN queue : queue[i].cmd \in TaskCommands(phase)
    BY InitBounds DEF TPlace, Flight
  <1>2. Head(queue) \in Task /\ Head(queue) = queue[1] /\ 1 \in DOMAIN queue
    BY <1>1
  <1>3. node \in Node
    BY <1>2 DEF node, Task
  <1>4. Tail(queue) \in Seq(Task) /\ Len(Tail(queue)) = Len(queue) - 1
    BY <1>1
  <1>5. ASSUME NEW i \in DOMAIN Tail(queue)
        PROVE  Tail(queue)[i].cmd \in TaskCommands(phase)
    <2>1. i + 1 \in DOMAIN queue /\ Tail(queue)[i] = queue[i + 1]
      BY <1>1, <1>4
    <2> QED
      BY <1>1, <2>1
  <1>6. Len(Tail(queue)) <= QueueLimit
    BY <1>1, <1>4
  <1> QED
    BY <1>1, <1>2, <1>3, <1>4, <1>5, <1>6

-----------------------------------------------------------------------------
(* The exchange. *)

LEMMA FrameFacts ==
  ASSUME Base, pc \in Sending
  PROVE  Frame \in Query
  <1>1. node \in Node
    BY HeadFacts DEF Base, Flight
  <1>2. cmd \in Commands /\ page \in Page /\ connecting \in BOOLEAN /\ "DLMS_CONNECT" \in Commands
    BY DEF Base, TExchange, Commands
  <1>3. 0 \in Page
    BY InitBounds DEF Page
  <1> QED
    BY <1>1, <1>2, <1>3 DEF Frame, Query

LEMMA AgainFacts ==
  ASSUME Base, NEW r \in 0..4, NEW t \in 0..3, NEW any, Again(r, t, any)
  PROVE  /\ pc' \in {"send", "done"} /\ retry' = r /\ retry_timeout' = t
         /\ pc' # "done" => r <= 2 /\ t <= 2
         /\ ret' \in {"SUCCESS", "FAILURE"} /\ (pc' = "done" => ret' = "FAILURE")
         /\ gatewayStatus' \in {"CONNECTED", "DISCONNECTED"}
  <1>1. ret \in {"SUCCESS", "FAILURE"} /\ gatewayStatus \in {"CONNECTED", "DISCONNECTED"}
    BY DEF Base, TResult
  <1>2. CASE r > 2 \/ t > 2
    BY <1>1, <1>2 DEF Again, GiveUp
  <1>3. CASE ~(r > 2 \/ t > 2)
    BY <1>1, <1>3 DEF Again
  <1> QED
    BY <1>2, <1>3

\* The switch on the code of a packet: only a success ends well, and only a
\* next page turns the page.
LEMMA ReactFacts ==
  ASSUME Base, pc = "recv", NEW c, NEW status, React(c, status)
  PROVE  /\ pc' \in Sending
         /\ retry' \in 0..4 /\ retry_timeout' \in 0..3
         /\ pc' # "done" => retry' <= 2 /\ retry_timeout' <= 2
         /\ ret' \in {"SUCCESS", "FAILURE"}
         /\ gatewayStatus' \in {"CONNECTED", "DISCONNECTED"}
         /\ cmd' = cmd \/ (cmd = "UNSILENCE" /\ cmd' = "WAKE")
         /\ connecting' \in BOOLEAN
         /\ page' = page \/ (c = "SUCCES_NEXT_PAGE" /\ page' = page + 1 /\ pc' = "send")
         /\ pc' = "done" /\ ret' = "SUCCESS" => c = "SUCCESS"
  <1>0. /\ retry \in 0..2 /\ retry_timeout \in 0..2
        /\ ret \in {"SUCCESS", "FAILURE"} /\ gatewayStatus \in {"CONNECTED", "DISCONNECTED"}
        /\ connecting \in BOOLEAN
    <2>1. retry \in 0..4 /\ retry_timeout \in 0..3 /\ retry <= 2 /\ retry_timeout <= 2
      BY DEF Base, TCounts, Flight, Sending
    <2>2. retry \in 0..2 /\ retry_timeout \in 0..2
      BY <2>1
    <2> QED
      BY <2>2 DEF Base, TResult, TExchange
  <1>a. /\ retry + 1 \in 0..4 /\ retry_timeout \in 0..3 /\ retry_timeout + 1 \in 0..3
        /\ retry \in 0..4 /\ retry <= 2 /\ retry_timeout <= 2
        /\ 0 \in 0..4 /\ 0 \in 0..3 /\ 0 <= 2
    BY <1>0
  <1>1. CASE c = "SUCCESS"
    <2>1. UNCHANGED <<connecting, page>>
      BY <1>1 DEF React, Ignored, Rearming
    <2>2. CASE cmd = "UNSILENCE" /\ status = 1
      <3>1. cmd' = "WAKE" /\ retry' = 0 /\ retry_timeout' = 0 /\ Resend
        BY <1>1, <2>2 DEF React, Ignored, Rearming
      <3> QED
        BY <1>0, <1>a, <1>1, <2>1, <2>2, <3>1 DEF Resend, Sending
    <2>3. CASE ~(cmd = "UNSILENCE" /\ status = 1)
      <3>1. Return("SUCCESS") /\ UNCHANGED cmd
        BY <1>1, <2>3 DEF React, Ignored, Rearming
      <3> QED
        BY <1>0, <1>a, <1>1, <2>1, <3>1 DEF Return, Sending
    <2> QED
      BY <2>2, <2>3
  <1>2. CASE c = "DLMS_ERROR"
    <2>1. Return("FAILURE") /\ UNCHANGED <<cmd, connecting, page>>
      BY <1>2 DEF React, Ignored, Rearming
    <2> QED
      BY <1>0, <1>a, <1>2, <2>1 DEF Return, Sending
  <1>3. CASE c = "SUCCES_NEXT_PAGE"
    <2>1. /\ page' = page + 1 /\ retry' = 0 /\ retry_timeout' = 0 /\ Resend
          /\ UNCHANGED <<cmd, connecting>>
      BY <1>3 DEF React, Ignored, Rearming
    <2> QED
      BY <1>0, <1>a, <1>3, <2>1 DEF Resend, Sending
  <1>4. CASE c = "DLMS_CONNECTION_FAILED"
    <2>1. /\ connecting' = TRUE /\ retry' = 0 /\ retry_timeout' = 0 /\ Resend
          /\ UNCHANGED <<cmd, page>>
      BY <1>4 DEF React, Ignored, Rearming
    <2> QED
      BY <1>0, <1>a, <1>4, <2>1 DEF Resend, Sending
  <1>5. CASE c = "DLMS_NOT_CONNECTED"
    <2>1. /\ connecting' = TRUE /\ Again(retry + 1, retry_timeout, TRUE)
          /\ UNCHANGED <<cmd, page>>
      BY <1>5 DEF React, Ignored, Rearming
    <2> QED
      BY <1>0, <1>a, <1>5, <2>1, AgainFacts DEF Sending
  <1>6. CASE c = "DLMS_SUCCESS"
    <2>1. /\ connecting' = FALSE /\ Resend /\ UNCHANGED <<cmd, page, retry, retry_timeout>>
      BY <1>6 DEF React, Ignored, Rearming
    <2> QED
      BY <1>0, <1>a, <1>6, <2>1 DEF Resend, Sending
  <1>7. CASE c = "PMESH_TIMEOUT_ERROR"
    <2>1. CountTimeout /\ UNCHANGED <<cmd, connecting, page>>
      BY <1>7 DEF React, Ignored, Rearming
    <2>2. Return("FAILURE") \/ Again(retry + 1, retry_timeout + 1, TRUE)
      BY <2>1 DEF CountTimeout
    <2>3. CASE Return("FAILURE")
      BY <1>0, <1>a, <1>7, <2>1, <2>3 DEF Return, Sending
    <2>4. CASE Again(retry + 1, retry_timeout + 1, TRUE)
      BY <1>0, <1>a, <1>7, <2>1, <2>4, AgainFacts DEF Sending
    <2> QED
      BY <2>2, <2>3, <2>4
  <1>8. CASE c = "FAILED_RESPONSE"
    <2>1. Again(retry + 1, retry_timeout + 1, TRUE) /\ UNCHANGED <<cmd, connecting, page>>
      BY <1>8 DEF React, Ignored, Rearming
    <2> QED
      BY <1>0, <1>a, <1>8, <2>1, AgainFacts DEF Sending
  <1>9. CASE c \in Ignored \cup Rearming
    <2>1. UNCHANGED <<pc, ret, retry, retry_timeout, gatewayStatus, cmd, connecting, page>>
      BY <1>9 DEF React, Ignored, Rearming
    <2> QED
      BY <1>0, <1>a, <2>1 DEF Sending
  <1> QED
    BY <1>1, <1>2, <1>3, <1>4, <1>5, <1>6, <1>7, <1>8, <1>9 DEF React

\* An answer that passes for one to a profile query is one to the query sent.
LEMMA ValidFacts ==
  ASSUME Base, pc = "recv", NEW q \in Query, NEW status, ValidResponse(q, status),
         q.cmd # "DLMS_CONNECT"
  PROVE  q.cmd = cmd /\ q.page = page
  <1>1. q.cmd = Frame.cmd /\ q.page = Frame.page
    BY DEF ValidResponse
  <1>2. connecting \in BOOLEAN
    BY DEF Base, TExchange
  <1> QED
    BY <1>1, <1>2 DEF Frame

LEMMA AskedTail ==
  ASSUME asked \in Seq(Query), asked # <<>>
  PROVE  Head(asked) \in Query /\ Tail(asked) \in Seq(Query)
  OBVIOUS


LEMMA SeqWider ==
  ASSUME NEW S, NEW T, S \subseteq T, NEW s \in Seq(S)
  PROVE  s \in Seq(T) /\ \A i \in DOMAIN s : s[i] \in S
  OBVIOUS

LEMMA KeepFacts ==
  ASSUME Base, NEW q \in Query, q.cmd \in Profiles
  PROVE  /\ Keep(q) \in [Page -> Node \cup {-1}]
         /\ \A p \in Page : p # q.page => Keep(q)[p] = kept[q.cmd][p]
         /\ Keep(q)[q.page] = IF kept[q.cmd][q.page] = -1 THEN q.node
                              ELSE kept[q.cmd][q.page]
  <1>1. kept[q.cmd] \in [Page -> Node \cup {-1}] /\ q.page \in Page /\ q.node \in Node
    BY DEF Base, TKept, Query
  <1> QED
    BY <1>1 DEF Keep

LEMMA ParseFacts ==
  ASSUME Base, node \in Node, NEW q \in Query, Parse(q)
  PROVE  /\ kept' \in [Profiles -> [Page -> Node \cup {-1}]]
         /\ row' \in [Node -> [Profiles -> {"lacking", "own", "mixed"}]]
         /\ q.cmd \notin Profiles => UNCHANGED <<kept, row>>
         /\ \A k \in Profiles : k # q.cmd => kept'[k] = kept[k]
         /\ \A n \in Node : \A k \in Profiles :
              ~(n = node /\ k = q.cmd) => row'[n][k] = row[n][k]
         /\ q.cmd \in ScalarProfiles /\ q.page = LastPage =>
              /\ kept'[q.cmd] = Nothing
              /\ row'[node][q.cmd] = IF row[node][q.cmd] = "lacking" THEN Stored(Keep(q))
                                     ELSE row[node][q.cmd]
         /\ q.cmd \in Profiles /\ ~(q.cmd \in ScalarProfiles /\ q.page = LastPage) =>
              kept'[q.cmd] = Keep(q) /\ row' = row
  <1>0. /\ kept \in [Profiles -> [Page -> Node \cup {-1}]]
        /\ row \in [Node -> [Profiles -> {"lacking", "own", "mixed"}]]
        /\ ScalarProfiles \subseteq Profiles
        /\ Nothing \in [Page -> Node \cup {-1}]
    BY DEF Base, TKept, TRow, Profiles, Nothing
  <1>1. CASE q.cmd \in ScalarProfiles /\ q.page = LastPage
    <2>1. /\ kept' = [kept EXCEPT ![q.cmd] = Nothing]
          /\ row' = [row EXCEPT ![node][q.cmd] =
                       IF @ = "lacking" THEN Stored(Keep(q)) ELSE @]
      BY <1>0, <1>1 DEF Parse
    <2>2. Stored(Keep(q)) \in {"lacking", "own", "mixed"} /\ q.cmd \in Profiles
      BY <1>0, <1>1 DEF Stored
    <2>3. /\ kept' \in [Profiles -> [Page -> Node \cup {-1}]] /\ kept'[q.cmd] = Nothing
          /\ \A k \in Profiles : k # q.cmd => kept'[k] = kept[k]
      BY <1>0, <2>1, <2>2
    <2> DEFINE v == IF row[node][q.cmd] = "lacking" THEN Stored(Keep(q))
                    ELSE row[node][q.cmd]
    <2>4. row' = [row EXCEPT ![node] = [row[node] EXCEPT ![q.cmd] = v]]
      BY <2>1
    <2>5. v \in {"lacking", "own", "mixed"}
      BY <1>0, <2>2
    <2> HIDE DEF v
    <2>6. /\ row' \in [Node -> [Profiles -> {"lacking", "own", "mixed"}]]
          /\ row'[node][q.cmd] = v
          /\ \A n \in Node : \A k \in Profiles :
               ~(n = node /\ k = q.cmd) => row'[n][k] = row[n][k]
      BY <1>0, <2>2, <2>4, <2>5
    <2> QED
      BY <1>1, <2>2, <2>3, <2>6 DEF v
  <1>2. CASE q.cmd \in Profiles /\ ~(q.cmd \in ScalarProfiles /\ q.page = LastPage)
    <2>1. kept' = [kept EXCEPT ![q.cmd] = Keep(q)] /\ row' = row
      BY <1>2 DEF Parse
    <2>2. Keep(q) \in [Page -> Node \cup {-1}]
      BY <1>2, KeepFacts
    <2> QED
      BY <1>0, <1>2, <2>1, <2>2
  <1>3. CASE q.cmd \notin Profiles
    BY <1>0, <1>3 DEF Parse
  <1> QED
    BY <1>1, <1>2, <1>3

LEMMA BaseInit == Init => Base
  <1> SUFFICES ASSUME Init PROVE Base
    OBVIOUS
  <1>1. 0 \in Page /\ MaxNoise \in 0..MaxNoise /\ 0 <= QueueLimit /\ 0 \in 0..4 /\ 0 \in 0..3
        /\ 1 \in 1..3
    BY InitBounds DEF Page
  <1>2. TPlace
    <2>1. <<>> \in Seq(Task) /\ <<>> \in Seq(Node) /\ Len(<<>>) = 0
      OBVIOUS
    <2> QED
      BY <1>1, <2>1 DEF Init, TPlace
  <1>3. TExchange /\ TCounts /\ TResult
    BY <1>1 DEF Init, TExchange, TCounts, TResult
  <1>4. TKept
    BY DEF Init, TKept, Nothing
  <1>5. TAsked /\ TControl
    <2>1. TAsked
      BY DEF Init, TAsked
    <2>2. TControl
      BY DEF Init, TControl
    <2> QED
      BY <2>1, <2>2
  <1>6. TOutside
    BY <1>1 DEF Init, TOutside
  <1>7. TRow
    <2>1. PICK l \in PlateRows : row = Blank(l)
      BY DEF Init
    <2>2. row \in [Node -> [Profiles -> {"lacking", "own", "mixed"}]]
      BY <2>1 DEF Blank
    <2>3. silenced \subseteq Node
      <3>1. silenced \subseteq 1..NodeCount
        BY InitBounds DEF Init
      <3> QED
        BY <3>1, InitBounds DEF Node
    <2> QED
      BY <2>2, <2>3 DEF TRow
  <1>8. THistory
    BY Zenon DEF Init, THistory
  <1>9. Flight
    <2>1. DOMAIN <<>> = {}
      OBVIOUS
    <2> QED
      BY <2>1 DEF Init, Flight, Sending
  <1> QED
    BY <1>2, <1>3, <1>4, <1>5, <1>6, <1>7, <1>8, <1>9 DEF Base

\* What a packet does to the exchange, when a next page is announced only
\* while there is one.
LEMMA ReceivedFacts ==
  ASSUME Base, pc = "recv", NEW c, NEW status, NEW left \in BOOLEAN,
         Received(c, status, left), UNCHANGED place,
         c = "SUCCES_NEXT_PAGE" => page + 1 \in Page
  PROVE  /\ TPlace' /\ TExchange' /\ TCounts' /\ TResult' /\ Flight'
         /\ pc' \in Sending /\ armed' \in BOOLEAN
  <1>1. /\ got' = TRUE /\ armed' = (left \/ c \in Rearming)
        /\ again' = (c \in {"PMESH_TIMEOUT_ERROR", "FAILED_RESPONSE"})
        /\ React(c, status)
    BY DEF Received
  <1>2. TPlace /\ TExchange /\ Flight
    BY DEF Base
  <1>3. TPlace'
    BY <1>2 DEF TPlace, place
  <1>4. TExchange'
    BY <1>1, <1>2, ReactFacts DEF TExchange
  <1>5. TCounts'
    BY <1>1, ReactFacts DEF TCounts
  <1>6. TResult'
    BY <1>1, ReactFacts DEF TResult
  <1>7. Flight'
    <2>1. /\ queue # <<>> /\ UNCHANGED <<queue, phase>>
          /\ cmd \in TaskCommands(phase) \cup (IF phase = 1 THEN {"WAKE"} ELSE {})
          /\ \A i \in DOMAIN queue : queue[i].cmd \in TaskCommands(phase)
      BY <1>2 DEF Flight, Sending, place
    <2>2. /\ pc' \in Sending /\ (pc' # "done" => retry' <= 2 /\ retry_timeout' <= 2)
          /\ cmd' = cmd \/ (cmd = "UNSILENCE" /\ cmd' = "WAKE")
      BY <1>1, ReactFacts
    <2>3. cmd = "UNSILENCE" => phase = 1
      BY <1>2, <2>1 DEF TaskCommands, ScalarProfiles
    <2>4. pc' \notin {"start", "list"}
      BY <2>2 DEF Sending
    <2>5. cmd' \in TaskCommands(phase) \cup (IF phase = 1 THEN {"WAKE"} ELSE {})
      BY <2>1, <2>2, <2>3
    <2> QED
      BY <2>1, <2>2, <2>4, <2>5 DEF Flight
  <1> QED
    BY <1>1, <1>3, <1>4, <1>5, <1>6, <1>7, ReactFacts

LEMMA BaseStep == Base /\ [Next]_vars => Base'
  <1> SUFFICES ASSUME Base, [Next]_vars PROVE Base'
    OBVIOUS
  <1>0. /\ TPlace /\ TExchange /\ TCounts /\ TResult /\ TKept /\ TAsked /\ TOutside
        /\ TRow /\ THistory /\ TControl /\ Flight
    BY DEF Base
  <1>1. CASE Start
    <2>1. /\ TExchange' /\ TCounts' /\ TResult' /\ TKept' /\ TAsked' /\ TOutside'
          /\ TRow' /\ THistory'
      BY <1>0, <1>1 DEF Start, exchange, counts, history, TExchange, TCounts, TResult, TKept,
           TAsked, TOutside, TRow, THistory
    <2>2. Connected \in Seq(Node)
      <3>1. 1..NodeCount \subseteq Node /\ Connected \in Seq(1..NodeCount)
        BY InitBounds DEF Node
      <3> QED
        BY <3>1, SeqWider
    <2>3. /\ Capped(Connected) \in Seq(Node) /\ Len(Capped(Connected)) <= QueueLimit
          /\ <<>> \in Seq(Node) /\ Len(<<>>) <= QueueLimit
      BY <2>2, CappedFacts, InitBounds
    <2>4. TPlace'
      BY <1>0, <1>1, <2>3 DEF Start, TPlace
    <2>5. Flight'
      BY <1>0, <1>1 DEF Start, Flight, Sending, exchange, counts
    <2>6. TControl'
      BY <1>1 DEF Start, TControl
    <2> QED
      BY <2>1, <2>4, <2>5, <2>6 DEF Base
  <1>2. CASE List
    <2>1. /\ TExchange' /\ TCounts' /\ TResult' /\ TKept' /\ TAsked' /\ TOutside'
          /\ TRow' /\ THistory'
      BY <1>0, <1>2 DEF List, exchange, counts, history, TExchange, TCounts, TResult, TKept,
           TAsked, TOutside, TRow, THistory
    <2>2. /\ queue' \in Seq(Task) /\ Len(queue') <= QueueLimit
          /\ \A i \in DOMAIN queue' : queue'[i].cmd \in TaskCommands(phase)
      <3>1. CASE queue' = <<>>
        BY <3>1, InitBounds
      <3>2. ASSUME phase = 1, NEW T \in SUBSET Node, Queueable(T), NEW q \in ByHop(T),
                   queue' = Tasks(q, "UNSILENCE")
            PROVE  /\ queue' \in Seq(Task) /\ Len(queue') <= QueueLimit
                   /\ \A i \in DOMAIN queue' : queue'[i].cmd \in TaskCommands(phase)
        <4>1. q \in Seq(Node) /\ Len(q) <= QueueLimit
          BY <1>0, <3>2, QueueableFacts
        <4> QED
          BY <3>2, <4>1, TasksFacts DEF TaskCommands
      <3>3. CASE phase = 2 /\ queue' = NamePlateQueue
        <4> DEFINE S == {n \in Node : row[n]["NAMEPLATE"] = "lacking"}
                   all == <<0>> \o routes
        <4>1. all \in Seq(Node)
          <5>1. 0 \in Node
            BY InitBounds DEF Node
          <5> QED
            BY <1>0, <5>1 DEF TPlace
        <4> HIDE DEF all, S
        <4>2. Filtered(all, S) \in Seq(Node \cap S)
          BY <4>1, FilteredFacts
        <4>3. Filtered(all, S) \in Seq(Node)
          BY <4>2
        <4>4. Capped(Filtered(all, S)) \in Seq(Node) /\ Len(Capped(Filtered(all, S))) <= QueueLimit
          BY <4>3, CappedFacts
        <4>5. queue' = Tasks(Capped(Filtered(all, S)), "NAMEPLATE")
          BY <3>3 DEF NamePlateQueue, all, S
        <4>6. "NAMEPLATE" \in Profiles
          BY DEF Profiles
        <4> QED
          BY <3>3, <4>4, <4>5, <4>6, TasksFacts DEF TaskCommands
      <3>4. ASSUME phase = 3, NEW q \in ScalarQueues, queue' = Capped(q)
            PROVE  /\ queue' \in Seq(Task) /\ Len(queue') <= QueueLimit
                   /\ \A i \in DOMAIN queue' : queue'[i].cmd \in TaskCommands(phase)
        <4> DEFINE U == [node: Node, cmd: ScalarProfiles]
        <4>1. q \in Seq(U)
          BY InitBounds
        <4>2. queue' \in Seq(U) /\ Len(queue') <= QueueLimit
          BY <3>4, <4>1, CappedFacts
        <4>3. U \subseteq Task /\ \A t \in U : t.cmd \in ScalarProfiles
          BY DEF Task, Profiles
        <4> HIDE DEF U
        <4>4. \A i \in DOMAIN queue' : queue'[i] \in U
          BY <4>2
        <4>5. queue' \in Seq(Task)
          BY <4>2, <4>3, SeqWider
        <4> QED
          BY <3>4, <4>2, <4>3, <4>4, <4>5 DEF TaskCommands
      <3> QED
        BY <1>2, <3>1, <3>2, <3>3, <3>4 DEF List
    <2>3. UNCHANGED <<phase, routes, hes, exchange>> /\ pc = "list" /\ pc' = "visit"
      BY <1>2 DEF List
    <2>4. TPlace'
      BY <1>0, <2>2, <2>3 DEF TPlace
    <2>5. Flight'
      BY <1>0, <2>2, <2>3 DEF Flight, Sending, exchange, counts
    <2>6. TControl'
      BY <1>0, <2>3 DEF TControl
    <2> QED
      BY <2>1, <2>4, <2>5, <2>6 DEF Base
  <1>3. CASE Visit
    <2>1. /\ TCounts' /\ TResult' /\ TKept' /\ TAsked' /\ TOutside' /\ TRow' /\ THistory'
      <3>1. /\ UNCHANGED <<counts, got, ret, routes, armed, kept, asked, meter, noise, silenced,
                           row, gatewayStatus, duplicate_gateway, history>>
        BY <1>3 DEF Visit, exchange
      <3> QED
        BY <1>0, <3>1 DEF counts, history, TCounts, TResult, TKept, TAsked, TOutside, TRow,
             THistory
    <2>2. pc = "visit" /\ page' = page /\ UNCHANGED <<retry, retry_timeout, routes>>
      BY <1>3 DEF Visit, exchange, counts
    <2>3. page = 0 /\ retry = 0 /\ retry_timeout = 0
      BY <1>0, <2>2 DEF Flight, Sending
    <2>4. CASE queue = <<>> /\ phase < 3 /\ phase' = phase + 1 /\ pc' = "list"
               /\ UNCHANGED <<queue, exchange, hes>>
      <3>1. phase' \in 1..3
        BY <1>0, <2>4 DEF TPlace
      <3>2. TPlace'
        BY <1>0, <2>2, <2>4, <3>1 DEF TPlace
      <3>3. TExchange' /\ TControl'
        BY <1>0, <2>4 DEF TExchange, TControl, exchange
      <3>4. Flight'
        BY <2>2, <2>3, <2>4 DEF Flight, Sending
      <3> QED
        BY <2>1, <3>2, <3>3, <3>4 DEF Base
    <2>5. CASE queue = <<>> /\ End /\ UNCHANGED <<queue, exchange>>
      <3>1. TPlace'
        BY <1>0, <2>2, <2>5 DEF TPlace, End
      <3>2. TExchange' /\ TControl'
        BY <1>0, <2>5 DEF TExchange, TControl, exchange, End
      <3>3. Flight'
        BY <1>0, <2>2, <2>3, <2>5 DEF Flight, Sending, End
      <3> QED
        BY <2>1, <3>1, <3>2, <3>3 DEF Base
    <2>6. CASE queue # <<>> /\ queue' = Tail(queue) /\ UNCHANGED <<pc, phase, exchange, hes>>
      <3>1. TPlace'
        BY <1>0, <2>2, <2>6, HeadFacts DEF TPlace
      <3>2. TExchange' /\ TControl'
        BY <1>0, <2>6 DEF TExchange, TControl, exchange
      <3>3. Flight'
        BY <1>0, <2>2, <2>3, <2>6, HeadFacts DEF Flight, Sending
      <3> QED
        BY <2>1, <3>1, <3>2, <3>3 DEF Base
    <2>7. CASE /\ queue # <<>> /\ pc' = "send" /\ cmd' = Head(queue).cmd /\ connecting' = FALSE
               /\ UNCHANGED <<page, counts, got, ret, phase, queue, hes>>
      <3>1. TPlace'
        BY <1>0, <2>2, <2>7 DEF TPlace
      <3>2. Head(queue).cmd \in TaskCommands(phase)
        BY <1>0, <2>7, HeadFacts
      <3>3. cmd' \in Profiles \cup {"UNSILENCE", "WAKE"}
        BY <2>7, <3>2 DEF TaskCommands, Profiles
      <3>4. TExchange' /\ TControl'
        BY <1>0, <2>7, <3>3 DEF TExchange, TControl, Sending
      <3>5. Flight'
        BY <1>0, <2>2, <2>3, <2>7, <3>2 DEF Flight, Sending
      <3> QED
        BY <2>1, <3>1, <3>4, <3>5 DEF Base
    <2> QED
      BY <1>3, <2>4, <2>5, <2>6, <2>7 DEF Visit
  <1>4. CASE Send
    <2>1. /\ UNCHANGED <<place, cmd, connecting, page, counts, got, kept, meter, noise,
                         silenced, row, hes, duplicate_gateway, history>>
          /\ pc = "send" /\ pc' \in {"recv", "done"} /\ armed' \in BOOLEAN
          /\ ret' \in {ret, "FAILURE"} /\ gatewayStatus' \in {gatewayStatus, "DISCONNECTED"}
      <3>1. got \in BOOLEAN
        BY <1>0 DEF TResult
      <3> QED
        BY <1>4, <3>1 DEF Send, GiveUp
    <2>2. /\ TPlace' /\ TExchange' /\ TCounts' /\ TOutside' /\ TRow' /\ THistory'
      BY <1>0, <2>1 DEF place, counts, history, TPlace, TExchange, TCounts, TOutside, TRow,
           THistory
    <2>3. TResult' /\ TKept'
      BY <1>0, <2>1 DEF TResult, TKept
    <2>4. TControl'
      BY <1>0, <2>1 DEF TControl, Sending
    <2>5. TAsked'
      <3>1. CASE UNCHANGED asked
        BY <1>0, <3>1 DEF TAsked
      <3>2. CASE asked' = Append(IF Len(asked) < MaxDue THEN asked ELSE Tail(asked), Frame)
        <4>1. asked \in Seq(Query) /\ Frame \in Query
          BY <1>0, <2>1, FrameFacts DEF TAsked, Sending
        <4>2. ~(Len(asked) < MaxDue) => Tail(asked) \in Seq(Query)
          BY <4>1, InitBounds
        <4> QED
          BY <3>2, <4>1, <4>2 DEF TAsked
      <3> QED
        BY <1>4, <3>1, <3>2 DEF Send
    <2>6. Flight'
      BY <1>0, <2>1 DEF Flight, Sending, place, counts
    <2> QED
      BY <2>2, <2>3, <2>4, <2>5, <2>6 DEF Base
  <1>5. CASE RecvNothing
    <2>1. /\ UNCHANGED <<place, cmd, connecting, page, again, got, kept, asked, meter,
                 noise, silenced, row, hes, duplicate_gateway, history>>
          /\ pc = "recv" /\ armed' = (armed /\ (pc' = "send" \/ got))
      BY <1>5 DEF RecvNothing
    <2>2. /\ TPlace' /\ TExchange' /\ TOutside' /\ TRow' /\ THistory' /\ TAsked'
      BY <1>0, <2>1 DEF place, history, TPlace, TExchange, TOutside, TRow, THistory, TAsked
    <2>3. /\ pc' \in {"send", "done"} /\ retry' \in 0..4 /\ retry_timeout' \in 0..3
          /\ pc' # "done" => retry' <= 2 /\ retry_timeout' <= 2
          /\ ret' \in {"SUCCESS", "FAILURE"} /\ gatewayStatus' \in {"CONNECTED", "DISCONNECTED"}
      <3>0. /\ retry \in 0..4 /\ retry_timeout \in 0..3 /\ retry <= 2 /\ retry_timeout <= 2
        BY <1>0, <2>1 DEF TCounts, Flight, Sending
      <3>1. /\ retry + 1 \in 0..4 /\ retry + 2 \in 0..4 /\ retry_timeout + 1 \in 0..3
        BY <3>0
      <3>2. CASE TimedOut
        <4>1. CASE Again(retry + 2, retry_timeout + 1, got)
          BY <3>0, <3>1, <4>1, AgainFacts
        <4>2. CASE Again(retry + 1, retry_timeout, got)
          BY <3>0, <3>1, <4>2, AgainFacts
        <4> QED
          BY <3>2, <4>1, <4>2 DEF TimedOut
      <3>3. CASE /\ pc' = "done" /\ ret' = "FAILURE" /\ UNCHANGED <<retry, retry_timeout>>
                 /\ gatewayStatus' \in {gatewayStatus, "DISCONNECTED"}
        BY <1>0, <3>0, <3>3 DEF TResult
      <3> QED
        BY <1>5, <3>2, <3>3 DEF RecvNothing
    <2>4. TCounts'
      BY <1>0, <2>1, <2>3 DEF TCounts
    <2>5. TResult'
      BY <1>0, <2>1, <2>3 DEF TResult
    <2>6. TKept'
      BY <1>0, <2>1 DEF TKept
    <2>7. TControl'
      BY <1>0, <2>1, <2>3 DEF TControl, Sending
    <2>8. Flight'
      BY <1>0, <2>1, <2>3 DEF Flight, Sending, place
    <2> QED
      BY <2>2, <2>4, <2>5, <2>6, <2>7, <2>8 DEF Base
  <1>6. ASSUME RecvAnswer \/ RecvRefusal \/ RecvReport \/ RecvPush
        PROVE  Base'
    <2>1. /\ pc = "recv" /\ UNCHANGED <<place, silenced, hes, duplicate_gateway, spoilt>>
          /\ node \in Node
      <3>1. queue # <<>>
        BY <1>0, <1>6 DEF RecvAnswer, RecvRefusal, RecvReport, RecvPush, Flight, Sending
      <3> QED
        BY <1>0, <1>6, <3>1, HeadFacts
           DEF RecvAnswer, RecvRefusal, RecvReport, RecvPush, history
    <2>2. TAsked'
      <3>1. asked' = asked \/ (asked # <<>> /\ asked' = Tail(asked))
        BY <1>6 DEF RecvAnswer, RecvRefusal, RecvReport, RecvPush
      <3> QED
        BY <1>0, <3>1, AskedTail DEF TAsked
    <2>3. ASSUME RecvAnswer
          PROVE  /\ TOutside' /\ TRow' /\ THistory' /\ TKept'
                 /\ TPlace' /\ TExchange' /\ TCounts' /\ TResult' /\ Flight' /\ pc' \in Sending
      <3> DEFINE q == Head(asked)
      <3>1. q \in Query
        BY <1>0, <2>3, AskedTail DEF RecvAnswer, TAsked
      <3>2. PICK a \in Answers(q), packed \in BOOLEAN :
              /\ packed => noise > 0
              /\ noise' = noise - (IF packed THEN 1 ELSE 0)
              /\ meter' = Obey(q)
              /\ \/ /\ ~ValidResponse(q, a.status) /\ Received("FAILURE", 0, armed)
                    /\ UNCHANGED <<kept, row, answered>>
                 \/ /\ ValidResponse(q, a.status) /\ ~FromTarget(q)
                    /\ Received(IF packed THEN "PUSH" ELSE "INVALID_RESPONSE", 0, FALSE)
                    /\ UNCHANGED <<kept, row, answered>>
                 \/ /\ ValidResponse(q, a.status) /\ FromTarget(q)
                    /\ Received(IF packed THEN "PUSH" ELSE a.code, a.status, FALSE)
                    /\ Parse(q)
                    /\ answered' = (answered \/ q.node = node)
        BY <2>3 DEF RecvAnswer
      <3> HIDE DEF q
      <3>3. TOutside'
        <4>1. noise' \in 0..MaxNoise
          BY <1>0, <3>2, InitBounds DEF TOutside
        <4>2. meter' \in [Node -> {"silent", "awake"}]
          BY <1>0, <3>1, <3>2 DEF TOutside, Obey, Query
        <4> QED
          BY <1>0, <2>1, <4>1, <4>2 DEF TOutside
      <3>4. TRow' /\ kept' \in [Profiles -> [Page -> Node \cup {-1}]]
        <4>1. /\ row' \in [Node -> [Profiles -> {"lacking", "own", "mixed"}]]
              /\ kept' \in [Profiles -> [Page -> Node \cup {-1}]]
          <5>1. CASE UNCHANGED <<kept, row>>
            BY <1>0, <5>1 DEF TRow, TKept
          <5>2. CASE Parse(q)
            BY <2>1, <3>1, <5>2, ParseFacts
          <5> QED
            BY <3>2, <5>1, <5>2
        <4> QED
          BY <1>0, <2>1, <4>1 DEF TRow
      <3>5. THistory'
        <4>1. answered' \in BOOLEAN
          BY <1>0, <3>2 DEF THistory
        <4> QED
          BY <1>0, <2>1, <4>1 DEF THistory
      <3>6. a.code = "SUCCES_NEXT_PAGE" /\ ValidResponse(q, a.status) => page + 1 \in Page
        <4> SUFFICES ASSUME a.code = "SUCCES_NEXT_PAGE", ValidResponse(q, a.status)
                     PROVE  page + 1 \in Page
          OBVIOUS
        <4>1. q.cmd \in Profiles /\ q.page < LastPage
          BY <3>1 DEF Answers, Query, Commands
        <4>2. q.page = page
          BY <2>1, <3>1, <4>1, ValidFacts DEF Profiles, ScalarProfiles
        <4>3. page \in Nat /\ page < LastPage /\ LastPage \in Nat
          BY <1>0, <4>1, <4>2, InitBounds DEF TExchange, Page
        <4> QED
          BY <4>3 DEF Page
      <3>7. /\ TPlace' /\ TExchange' /\ TCounts' /\ TResult' /\ Flight'
            /\ pc' \in Sending /\ armed' \in BOOLEAN
        <4>1. armed \in BOOLEAN
          BY <1>0 DEF TKept
        <4>2. CASE Received("FAILURE", 0, armed)
          BY <2>1, <4>1, <4>2, ReceivedFacts
        <4>3. CASE Received(IF packed THEN "PUSH" ELSE "INVALID_RESPONSE", 0, FALSE)
          BY <2>1, <4>3, ReceivedFacts
        <4>4. CASE /\ ValidResponse(q, a.status)
                   /\ Received(IF packed THEN "PUSH" ELSE a.code, a.status, FALSE)
          BY <2>1, <3>6, <4>4, ReceivedFacts
        <4> QED
          BY <3>2, <4>2, <4>3, <4>4
      <3> QED
        BY <3>3, <3>4, <3>5, <3>7 DEF TKept
    <2>4. ASSUME RecvRefusal \/ RecvReport \/ RecvPush
          PROVE  /\ TOutside' /\ TRow' /\ THistory' /\ TKept'
                 /\ TPlace' /\ TExchange' /\ TCounts' /\ TResult' /\ Flight' /\ pc' \in Sending
      <3>1. /\ UNCHANGED <<kept, meter, row, duplicate_gateway, history, silenced>>
        BY <2>4 DEF RecvRefusal, RecvReport, RecvPush
      <3>2. noise \in Nat /\ noise \in 0..MaxNoise /\ MaxNoise \in Nat
        BY <1>0, InitBounds DEF TOutside
      <3>3. noise' \in 0..MaxNoise
        <4>1. CASE RecvRefusal
          <5>1. PICK c \in Refusals(Head(asked)) :
                  /\ c = "DLMS_CONNECTION_FAILED" => noise > 0
                  /\ noise' = noise - (IF c = "DLMS_CONNECTION_FAILED" THEN 1 ELSE 0)
            BY <4>1 DEF RecvRefusal
          <5> QED
            BY <3>2, <5>1
        <4>2. CASE RecvReport
          <5>1. noise' = noise \/ (noise > 0 /\ noise' = noise - 1)
            BY <4>2 DEF RecvReport
          <5> QED
            BY <3>2, <5>1
        <4>3. CASE RecvPush
          <5>1. noise > 0 /\ noise' = noise - 1
            BY <4>3 DEF RecvPush
          <5> QED
            BY <3>2, <5>1
        <4> QED
          BY <2>4, <4>1, <4>2, <4>3
      <3>4. TOutside' /\ TRow' /\ THistory'
        BY <1>0, <3>1, <3>3 DEF TOutside, TRow, THistory, history
      <3>5. /\ TPlace' /\ TExchange' /\ TCounts' /\ TResult' /\ Flight'
            /\ pc' \in Sending /\ armed' \in BOOLEAN
        <4>1. armed \in BOOLEAN
          BY <1>0 DEF TKept
        <4>2. ASSUME NEW c, NEW left \in BOOLEAN, Received(c, 0, left), c # "SUCCES_NEXT_PAGE"
              PROVE  /\ TPlace' /\ TExchange' /\ TCounts' /\ TResult' /\ Flight'
                     /\ pc' \in Sending /\ armed' \in BOOLEAN
          BY <2>1, <4>2, ReceivedFacts
        <4>3. CASE RecvPush
          BY <4>1, <4>2, <4>3 DEF RecvPush
        <4>4. CASE RecvReport
          <5>1. \E c \in {"FAILURE", "INVALID_RESPONSE", "PMESH_TIMEOUT_ERROR", "PMESH_ERROR",
                          "COMMAND_IN_PROGRESS"}, left \in BOOLEAN : Received(c, 0, left)
            BY <4>1, <4>4 DEF RecvReport
          <5> QED
            BY <4>2, <5>1
        <4>5. CASE RecvRefusal
          <5>1. PICK c \in Refusals(Head(asked)) :
                  \/ Received("FAILURE", 0, armed)
                  \/ Received(c, 0, FALSE)
                  \/ Received("INVALID_RESPONSE", 0, FALSE)
            BY <4>5 DEF RecvRefusal
          <5>2. c # "SUCCES_NEXT_PAGE"
            BY <5>1 DEF Refusals
          <5> QED
            BY <4>1, <4>2, <5>1, <5>2
        <4> QED
          BY <2>4, <4>3, <4>4, <4>5
      <3> QED
        BY <1>0, <3>1, <3>4, <3>5 DEF TKept
    <2>5. TControl'
      BY <1>0, <1>6, <2>1, <2>3, <2>4 DEF TControl, Sending
    <2> QED
      BY <1>6, <2>2, <2>3, <2>4, <2>5 DEF Base
  <1>7. CASE Lose
    <2>1. /\ UNCHANGED <<pc, place, exchange, armed, kept, noise, silenced, row, hes,
                 gatewayStatus, duplicate_gateway, history>>
          /\ asked # <<>> /\ asked' = Tail(asked) /\ meter' \in {meter, Obey(Head(asked))}
      BY <1>7 DEF Lose
    <2>2. /\ TPlace' /\ TExchange' /\ TCounts' /\ TResult' /\ TKept' /\ TRow' /\ THistory'
          /\ TControl' /\ Flight'
      BY <1>0, <2>1 DEF place, exchange, counts, history, TPlace, TExchange, TCounts, TResult,
           TKept, TRow, THistory, TControl, Flight
    <2>3. TAsked' /\ Head(asked) \in Query
      BY <1>0, <2>1, AskedTail DEF TAsked
    <2>4. meter' \in [Node -> {"silent", "awake"}]
      BY <1>0, <2>1, <2>3 DEF TOutside, Obey, Query
    <2>5. TOutside'
      BY <1>0, <2>1, <2>4 DEF TOutside
    <2> QED
      BY <2>2, <2>3, <2>5 DEF Base
  <1>8. ASSUME Succeeded \/ Failed
        PROVE  Base'
    <2>1. /\ pc = "done" /\ queue # <<>> /\ Fresh
          /\ UNCHANGED <<phase, routes, armed, asked, meter, noise, gatewayStatus,
                         duplicate_gateway>>
          /\ \/ pc' = "visit" /\ queue' = Tail(queue) /\ hes' = hes
             \/ pc' = "end" /\ queue' = queue /\ hes' = FALSE
      BY <1>0, <1>8 DEF Succeeded, Failed, Leave, Fresh, End, Flight, Sending
    <2>2. TPlace'
      BY <1>0, <2>1, HeadFacts DEF TPlace
    <2>3. 0 \in Page /\ 0 \in 0..4 /\ 0 \in 0..3
      BY InitBounds DEF Page
    <2>4. TExchange' /\ TCounts'
      BY <2>1, <2>3 DEF TExchange, TCounts, Fresh
    <2>5. TResult'
      BY <1>0, <2>1 DEF TResult, Fresh
    <2>6. TAsked' /\ TOutside'
      BY <1>0, <2>1 DEF TAsked, TOutside
    <2>7. TControl'
      BY <1>0, <2>1 DEF TControl
    <2>8. Flight'
      BY <1>0, <2>1, HeadFacts DEF Flight, Sending, Fresh
    <2>9. TKept' /\ TRow' /\ THistory'
      <3>1. answered' = FALSE
        BY <2>1 DEF Fresh
      <3>2. CASE Succeeded
        <4>1. spoilt' = spoilt /\ silenced' \subseteq silenced /\ armed' = armed
          BY <3>2 DEF Succeeded
        <4>2. CASE UNCHANGED <<kept, row>>
          BY <1>0, <3>1, <4>1, <4>2 DEF TKept, TRow, THistory
        <4>3. CASE StorePlate(node)
          <5>1. "NAMEPLATE" \in Profiles /\ Nothing \in [Page -> Node \cup {-1}]
            BY DEF Profiles, Nothing
          <5>2. kept' \in [Profiles -> [Page -> Node \cup {-1}]]
            BY <1>0, <4>3, <5>1 DEF StorePlate, TKept
          <5>3. row' \in [Node -> [Profiles -> {"lacking", "own", "mixed"}]]
            BY <1>0, <4>3, <5>1 DEF StorePlate, TRow, Stored
          <5> QED
            BY <1>0, <3>1, <4>1, <5>2, <5>3 DEF TKept, TRow, THistory
        <4> QED
          BY <3>2, <4>2, <4>3 DEF Succeeded
      <3>3. CASE Failed
        <4>1. spoilt' \subseteq Profiles /\ UNCHANGED <<silenced, row, kept, armed>>
          BY <1>0, <3>3 DEF Failed, THistory
        <4> QED
          BY <1>0, <3>1, <4>1 DEF TKept, TRow, THistory
      <3> QED
        BY <1>8, <3>2, <3>3
    <2> QED
      BY <2>2, <2>4, <2>5, <2>6, <2>7, <2>8, <2>9 DEF Base
  <1>9. CASE Duplicate \/ UNCHANGED vars
    <2>1. /\ UNCHANGED <<pc, place, exchange, armed, kept, asked, meter, noise,
                 silenced, row, hes, gatewayStatus, history>>
          /\ duplicate_gateway' \in {TRUE, duplicate_gateway}
      BY <1>9 DEF Duplicate, vars
    <2>2. /\ TPlace' /\ TExchange' /\ TCounts' /\ TResult' /\ TKept' /\ TRow' /\ THistory'
          /\ TControl' /\ Flight' /\ TAsked'
      BY <1>0, <2>1 DEF place, exchange, counts, history, TPlace, TExchange, TCounts, TResult,
           TKept, TRow, THistory, TControl, Flight, TAsked
    <2>3. TOutside'
      BY <1>0, <2>1 DEF TOutside
    <2> QED
      BY <2>2, <2>3 DEF Base
  <1> QED
    BY <1>1, <1>2, <1>3, <1>4, <1>5, <1>6, <1>7, <1>8, <1>9 DEF Next, Handler

\* The queues filled from the database never grow past their limit, and the
\* retries and pages of an exchange stay in bounds, whatever the nodes answer.
THEOREM TypeCorrect == Spec => []TypeOK
  <1>1. Base => TypeOK
    <2>1. Len(Phase) = 3
      BY DEF Phase
    <2> QED
      BY <2>1 DEF Base, TypeOK, TPlace, TExchange, TCounts, TResult, TKept, TAsked, TOutside,
           TRow, THistory, TControl, Sending
  <1> QED
    BY BaseInit, BaseStep, <1>1, PTL DEF Spec
-----------------------------------------------------------------------------
(* The pages that are kept. *)

LEMMA IInvInit == Init => IInv
  <1> SUFFICES ASSUME Init PROVE IInv
    OBVIOUS
  <1>1. Own
    BY DEF Init, Own, Others, Pages, Well, Sending
  <1>2. ProfilesOwn
    <2>1. PICK l \in PlateRows : row = Blank(l)
      BY DEF Init
    <2> QED
      BY <2>1 DEF ProfilesOwn, Blank
  <1> QED
    BY <1>1, <1>2, BaseInit DEF IInv

\* A packet that stores nothing and turns no page leaves the pages as they are.
LEMMA OwnKeeps ==
  ASSUME IInv, pc \in Sending, pc' \in Sending, UNCHANGED <<kept, row, spoilt, queue, page>>,
         cmd' = cmd \/ (cmd = "UNSILENCE" /\ cmd' = "WAKE"),
         ~(pc' = "done" /\ ret' = "SUCCESS")
  PROVE  Own' /\ ProfilesOwn'
  <1>1. Others /\ Pages /\ ProfilesOwn
    BY DEF IInv, Own
  <1>2. cmd \in Profiles \/ cmd' \in Profiles => cmd' = cmd
    BY DEF Profiles, ScalarProfiles
  <1>3. node' = node
    BY DEF node
  <1>4. Others'
    BY <1>1, <1>2 DEF Others
  <1>5. Pages'
    BY <1>1, <1>2, <1>3 DEF Pages
  <1>6. Well' /\ ProfilesOwn'
    BY <1>1 DEF Well, ProfilesOwn
  <1> QED
    BY <1>4, <1>5, <1>6 DEF Own

\* Before and after an exchange nothing is kept of a profile without spoilt
\* pages.
LEMMA OwnIdle ==
  ASSUME IInv, pc \notin Sending, pc' \notin Sending \/ (pc' = "send" /\ page' = 0),
         UNCHANGED <<kept, row, spoilt>>
  PROVE  Own' /\ ProfilesOwn'
  <1>1. Others /\ ProfilesOwn
    BY DEF IInv, Own
  <1>2. \A k \in Profiles \ spoilt : kept[k] = Nothing
    BY <1>1 DEF Others
  <1>3. Others' /\ ProfilesOwn' /\ Well'
    BY <1>1, <1>2 DEF Others, ProfilesOwn, Well, Sending
  <1>4. Pages'
    <2> SUFFICES ASSUME pc' = "send", page' = 0, cmd' \in Profiles \ spoilt
                 PROVE  Pages'
      BY DEF Pages
    <2>1. \A p \in Page : kept'[cmd'][p] = -1 /\ ~(p < 0)
      BY <1>2, InitBounds DEF Nothing, Page
    <2> QED
      BY <2>1 DEF Pages
  <1> QED
    BY <1>3, <1>4 DEF Own

\* An answer that is parsed.
LEMMA AnswerKeeps ==
  ASSUME IInv, pc = "recv", NEW q \in Query, NEW a \in Answers(q), NEW packed \in BOOLEAN,
         ValidResponse(q, a.status), FromTarget(q), Parse(q), UNCHANGED <<place, spoilt>>,
         Received(IF packed THEN "PUSH" ELSE a.code, a.status, FALSE),
         answered' = (answered \/ q.node = node)
  PROVE  Own' /\ ProfilesOwn'
  <1> DEFINE c == IF packed THEN "PUSH" ELSE a.code
  <1>1. Base /\ Others /\ Pages /\ ProfilesOwn
    BY DEF IInv, Own
  <1>2. q.node = node /\ answered'
    BY DEF FromTarget
  <1>3. node \in Node
    BY <1>1, HeadFacts DEF Base, Flight, Sending
  <1>4. /\ pc' \in Sending /\ (cmd' = cmd \/ (cmd = "UNSILENCE" /\ cmd' = "WAKE"))
        /\ page' = page \/ (c = "SUCCES_NEXT_PAGE" /\ page' = page + 1 /\ pc' = "send")
        /\ pc' = "done" /\ ret' = "SUCCESS" => c = "SUCCESS"
    BY <1>1, ReactFacts DEF Received
  <1>5. node' = node
    BY DEF node, place
  <1>6. CASE q.cmd \notin Profiles
    <2>1. UNCHANGED <<kept, row>>
      BY <1>1, <1>3, <1>6, ParseFacts
    <2>2. q.cmd \in {"UNSILENCE", "WAKE", "DLMS_CONNECT"}
      BY <1>6 DEF Query, Commands
    <2>3. c # "SUCCES_NEXT_PAGE" /\ page' = page
      BY <1>4, <2>2 DEF Answers
    <2>4. CASE q.cmd = "DLMS_CONNECT"
      <3>1. c # "SUCCESS"
        BY <2>4 DEF Answers
      <3>2. ~(pc' = "done" /\ ret' = "SUCCESS")
        BY <1>4, <3>1
      <3>3. pc \in Sending /\ UNCHANGED <<kept, row, spoilt, queue, page>>
        BY <2>1, <2>3 DEF place, Sending
      <3> QED
        BY <1>4, <3>2, <3>3, OwnKeeps
    <2>5. CASE q.cmd # "DLMS_CONNECT"
      <3>1. cmd \in {"UNSILENCE", "WAKE"} /\ cmd' \in {"UNSILENCE", "WAKE"}
        BY <1>1, <1>4, <2>2, <2>5, ValidFacts
      <3>2. cmd \notin Profiles /\ cmd' \notin Profiles
        BY <3>1 DEF Profiles, ScalarProfiles
      <3>3. Others' /\ ProfilesOwn'
        BY <1>1, <2>1, <3>2 DEF Others, ProfilesOwn
      <3>4. Pages' /\ Well'
        BY <1>2, <3>2 DEF Pages, Well, Profiles
      <3> QED
        BY <3>3, <3>4 DEF Own
    <2> QED
      BY <2>4, <2>5
  <1>7. CASE q.cmd \in Profiles
    <2>1. q.cmd = cmd /\ q.page = page /\ cmd' = cmd /\ cmd \in Profiles
      BY <1>1, <1>4, <1>7, ValidFacts DEF Profiles, ScalarProfiles
    <2>2. page \in Nat /\ LastPage \in Nat /\ page <= LastPage /\ Page = 0..LastPage /\ page \in Page
      BY <1>1, InitBounds DEF Base, TExchange, Page
    <2>3. a.code = IF page < LastPage THEN "SUCCES_NEXT_PAGE" ELSE "SUCCESS"
      BY <1>7, <2>1 DEF Answers, Profiles, ScalarProfiles
    <2>4. c = "SUCCESS" => page = LastPage
      BY <2>2, <2>3
    <2> DEFINE fill == \A p \in Page : p < page => kept[cmd][p] = node
    <2>5. cmd \notin spoilt =>
            /\ \A p \in Page : kept[cmd][p] \in {-1, node}
            /\ cmd = "NAMEPLATE" \/ row[node][cmd] = "lacking" => fill
      BY <1>1, <2>1 DEF Pages, Sending
    <2>6. /\ \A p \in Page : p # page => Keep(q)[p] = kept[cmd][p]
          /\ Keep(q)[page] = IF kept[cmd][page] = -1 THEN node ELSE kept[cmd][page]
      BY <1>1, <1>2, <1>7, <2>1, KeepFacts
    <2>7. cmd \notin spoilt =>
            /\ \A p \in Page : Keep(q)[p] \in {-1, node}
            /\ Keep(q)[page] = node
            /\ fill => \A p \in Page : p < page + 1 => Keep(q)[p] = node
      <3> SUFFICES ASSUME cmd \notin spoilt
                   PROVE  /\ \A p \in Page : Keep(q)[p] \in {-1, node}
                          /\ Keep(q)[page] = node
                          /\ fill => \A p \in Page : p < page + 1 => Keep(q)[p] = node
        OBVIOUS
      <3>1. Keep(q)[page] = node
        BY <2>2, <2>5, <2>6
      <3>2. \A p \in Page : p < page + 1 => p = page \/ p < page
        BY <2>2
      <3> QED
        BY <2>5, <2>6, <3>1, <3>2
    <2>8. /\ \A k \in Profiles : k # cmd => kept'[k] = kept[k]
          /\ \A n \in Node : \A k \in Profiles :
               ~(n = node /\ k = cmd) => row'[n][k] = row[n][k]
      BY <1>1, <1>3, <2>1, ParseFacts
    <2>9. Others'
      BY <1>1, <1>4, <2>1, <2>8 DEF Others
    <2>10. CASE cmd \in ScalarProfiles /\ page = LastPage
      <3>1. /\ kept'[cmd] = Nothing
            /\ row'[node][cmd] = IF row[node][cmd] = "lacking" THEN Stored(Keep(q))
                                 ELSE row[node][cmd]
        BY <1>1, <1>3, <2>1, <2>10, ParseFacts
      <3>2. row'[node][cmd] # "lacking" /\ cmd # "NAMEPLATE"
        BY <2>10, <3>1 DEF Stored, ScalarProfiles
      <3>3. \A p \in Page : kept'[cmd][p] = -1
        BY <3>1 DEF Nothing
      <3>4. Pages'
        BY <1>5, <2>1, <3>2, <3>3 DEF Pages
      <3>5. Well'
        BY <1>2, <2>1, <3>1, <3>2 DEF Well
      <3>6. cmd \notin spoilt /\ row[node][cmd] = "lacking" => Stored(Keep(q)) = "own"
        <4>1. \A p \in Page : p < page + 1
          BY <2>2, <2>10
        <4> QED
          BY <2>5, <2>7, <4>1 DEF Stored
      <3>7. ProfilesOwn'
        <4>1. row'[node][cmd] = "mixed" => cmd \in spoilt
          BY <1>1, <1>3, <2>1, <3>1, <3>6 DEF ProfilesOwn
        <4> QED
          BY <1>1, <2>8, <4>1 DEF ProfilesOwn
      <3> QED
        BY <2>9, <3>4, <3>5, <3>7 DEF Own
    <2>11. CASE ~(cmd \in ScalarProfiles /\ page = LastPage)
      <3>1. kept'[cmd] = Keep(q) /\ row' = row
        BY <1>1, <1>3, <1>7, <2>1, <2>11, ParseFacts
      <3>2. \A p \in Page : p < page' => p < page + 1
        BY <1>4, <2>2
      <3>3. Pages'
        BY <1>5, <2>1, <2>5, <2>7, <3>1, <3>2 DEF Pages
      <3>4. Well'
        <4>1. c = "SUCCESS" => \A p \in Page : p < page + 1
          BY <2>2, <2>4
        <4>2. c = "SUCCESS" => cmd \notin ScalarProfiles
          BY <2>4, <2>11
        <4> QED
          BY <1>2, <1>4, <1>5, <2>1, <2>5, <2>7, <3>1, <4>1, <4>2 DEF Well
      <3>5. ProfilesOwn'
        BY <1>1, <3>1 DEF ProfilesOwn
      <3> QED
        BY <2>9, <3>3, <3>4, <3>5 DEF Own
    <2> QED
      BY <2>10, <2>11
  <1> QED
    BY <1>6, <1>7


LEMMA OwnStep == IInv /\ [Next]_vars => Own' /\ ProfilesOwn'
  <1> SUFFICES ASSUME IInv, [Next]_vars PROVE Own' /\ ProfilesOwn'
    OBVIOUS
  <1>0. Base /\ Others /\ Pages /\ Well /\ ProfilesOwn /\ Flight
    BY DEF IInv, Own, Base
  <1>1. CASE Start \/ List
    <2>1. pc \notin Sending /\ pc' \notin Sending /\ UNCHANGED <<kept, row, spoilt>>
      BY <1>1 DEF Start, List, Sending, history
    <2> QED
      BY <2>1, OwnIdle
  <1>2. CASE Visit
    <2>1. pc \notin Sending /\ UNCHANGED <<kept, row, spoilt>>
      BY <1>2 DEF Visit, Sending, history
    <2>2. pc' \notin Sending \/ (pc' = "send" /\ page' = page)
      BY <1>2 DEF Visit, Sending, End
    <2>3. page = 0
      BY <1>0, <2>1 DEF Flight
    <2> QED
      BY <2>1, <2>2, <2>3, OwnIdle
  <1>3. CASE Send
    <2>1. /\ pc \in Sending /\ pc' \in Sending /\ cmd' = cmd
          /\ UNCHANGED <<kept, row, spoilt, queue, page>>
      BY <1>3 DEF Send, GiveUp, Sending, place, history
    <2>2. ~(pc' = "done" /\ ret' = "SUCCESS")
      BY <1>3 DEF Send, GiveUp
    <2> QED
      BY <2>1, <2>2, OwnKeeps
  <1>4. CASE RecvNothing
    <2>1. /\ pc \in Sending /\ cmd' = cmd /\ UNCHANGED <<kept, row, spoilt, queue, page>>
      BY <1>4 DEF RecvNothing, Sending, place, history
    <2>2. pc' \in Sending /\ ~(pc' = "done" /\ ret' = "SUCCESS")
      BY <1>4 DEF RecvNothing, TimedOut, Again, GiveUp, Sending
    <2> QED
      BY <2>1, <2>2, OwnKeeps
  <1>5. ASSUME pc = "recv", NEW c, NEW status, NEW left, Received(c, status, left),
               c \notin {"SUCCESS", "SUCCES_NEXT_PAGE"},
               UNCHANGED <<kept, row, spoilt, queue>>
        PROVE  Own' /\ ProfilesOwn'
    <2>1. /\ pc' \in Sending /\ (cmd' = cmd \/ (cmd = "UNSILENCE" /\ cmd' = "WAKE"))
          /\ page' = page /\ ~(pc' = "done" /\ ret' = "SUCCESS")
      BY <1>0, <1>5, ReactFacts DEF Received
    <2>2. pc \in Sending
      BY <1>5 DEF Sending
    <2> QED
      BY <1>5, <2>1, <2>2, OwnKeeps
  <1>6. CASE RecvAnswer
    <2> DEFINE q == Head(asked)
    <2>1. q \in Query
      BY <1>0, <1>6, AskedTail DEF RecvAnswer, Base, TAsked
    <2>2. pc = "recv" /\ UNCHANGED <<place, spoilt, queue>>
      BY <1>6 DEF RecvAnswer, place
    <2>3. PICK a \in Answers(q), packed \in BOOLEAN :
            \/ /\ Received("FAILURE", 0, armed)
               /\ UNCHANGED <<kept, row, answered>>
            \/ /\ Received(IF packed THEN "PUSH" ELSE "INVALID_RESPONSE", 0, FALSE)
               /\ UNCHANGED <<kept, row, answered>>
            \/ /\ ValidResponse(q, a.status) /\ FromTarget(q)
               /\ Received(IF packed THEN "PUSH" ELSE a.code, a.status, FALSE)
               /\ Parse(q)
               /\ answered' = (answered \/ q.node = node)
      BY <1>6 DEF RecvAnswer
    <2> HIDE DEF q
    <2>4. CASE /\ Received("FAILURE", 0, armed)
               /\ UNCHANGED <<kept, row, answered>>
      BY <1>5, <2>2, <2>4
    <2>5. CASE /\ Received(IF packed THEN "PUSH" ELSE "INVALID_RESPONSE", 0, FALSE)
               /\ UNCHANGED <<kept, row, answered>>
      <3>1. (IF packed THEN "PUSH" ELSE "INVALID_RESPONSE") \notin {"SUCCESS", "SUCCES_NEXT_PAGE"}
        OBVIOUS
      <3> QED
        BY <1>5, <2>2, <2>5, <3>1
    <2>6. CASE /\ ValidResponse(q, a.status) /\ FromTarget(q)
               /\ Received(IF packed THEN "PUSH" ELSE a.code, a.status, FALSE)
               /\ Parse(q)
               /\ answered' = (answered \/ q.node = node)
      BY <2>1, <2>2, <2>6, AnswerKeeps
    <2> QED
      BY <2>3, <2>4, <2>5, <2>6
  <1>7. CASE RecvRefusal
    <2>1. pc = "recv" /\ UNCHANGED <<kept, row, spoilt, queue>>
      BY <1>7 DEF RecvRefusal, place, history
    <2>2. PICK c \in Refusals(Head(asked)) :
            \/ Received("FAILURE", 0, armed)
            \/ Received(c, 0, FALSE)
            \/ Received("INVALID_RESPONSE", 0, FALSE)
      BY <1>7 DEF RecvRefusal
    <2>3. c \notin {"SUCCESS", "SUCCES_NEXT_PAGE"}
      BY <2>2 DEF Refusals
    <2> QED
      BY <1>5, <2>1, <2>2, <2>3
  <1>8. CASE RecvReport
    <2>1. pc = "recv" /\ UNCHANGED <<kept, row, spoilt, queue>>
      BY <1>8 DEF RecvReport, place, history
    <2>2. \E c \in {"FAILURE", "INVALID_RESPONSE", "PMESH_TIMEOUT_ERROR", "PMESH_ERROR",
                    "COMMAND_IN_PROGRESS"}, left \in {armed, FALSE} : Received(c, 0, left)
      BY <1>8 DEF RecvReport
    <2> QED
      BY <1>5, <2>1, <2>2
  <1>9. CASE RecvPush
    <2>1. pc = "recv" /\ UNCHANGED <<kept, row, spoilt, queue>> /\ Received("PUSH", 0, armed)
      BY <1>9 DEF RecvPush, place, history
    <2> QED
      BY <1>5, <2>1
  <1>10. CASE Lose \/ Duplicate \/ UNCHANGED vars
    <2>1. UNCHANGED <<pc, queue, cmd, page, ret, kept, row, answered, spoilt>>
      BY <1>10 DEF Lose, Duplicate, vars, place, exchange, history
    <2>2. node' = node
      BY <2>1 DEF node
    <2> QED
      BY <1>0, <2>1, <2>2 DEF Own, Others, Pages, Well, ProfilesOwn
  <1>11. ASSUME pc = "done", pc' \notin Sending, \A k \in Profiles \ spoilt' : kept'[k] = Nothing
         PROVE  Own'
    BY <1>11 DEF Own, Others, Pages, Well, Sending
  <1>12. pc = "done" => /\ node \in Node
                        /\ cmd \in TaskCommands(phase) \cup (IF phase = 1 THEN {"WAKE"} ELSE {})
    BY <1>0, HeadFacts DEF Base, Flight, Sending
  <1>13. /\ kept \in [Profiles -> [Page -> Node \cup {-1}]]
         /\ row \in [Node -> [Profiles -> {"lacking", "own", "mixed"}]]
         /\ "NAMEPLATE" \in Profiles
    BY <1>0 DEF Base, TKept, TRow, Profiles
  <1>14. CASE Succeeded
    <2>1. pc = "done" /\ ret = "SUCCESS" /\ pc' \notin Sending /\ spoilt' = spoilt
      BY <1>14 DEF Succeeded, Sending
    <2>2. \A k \in Profiles \ spoilt : k # cmd => kept[k] = Nothing
      BY <1>0 DEF Others
    <2>3. CASE phase = 1 /\ UNCHANGED <<kept, row>>
      <3>1. cmd \notin Profiles
        BY <1>12, <2>1, <2>3 DEF TaskCommands, Profiles, ScalarProfiles
      <3> QED
        BY <1>0, <1>11, <2>1, <2>2, <2>3, <3>1 DEF ProfilesOwn
    <2>4. CASE phase = 2 /\ StorePlate(node)
      <3>1. cmd = "NAMEPLATE"
        BY <1>12, <2>1, <2>4 DEF TaskCommands
      <3>2. kept'["NAMEPLATE"] = Nothing /\ \A k \in Profiles : k # "NAMEPLATE" => kept'[k] = kept[k]
        BY <1>13, <2>4 DEF StorePlate
      <3>3. "NAMEPLATE" \notin spoilt => Stored(kept["NAMEPLATE"]) = "own"
        BY <1>0, <2>1, <3>1 DEF Well, Stored
      <3>4. /\ row'[node]["NAMEPLATE"] \in {row[node]["NAMEPLATE"], Stored(kept["NAMEPLATE"])}
            /\ \A n \in Node : \A k \in Profiles :
                 ~(n = node /\ k = "NAMEPLATE") => row'[n][k] = row[n][k]
        BY <1>12, <1>13, <2>1, <2>4 DEF StorePlate
      <3>5. ProfilesOwn'
        <4>1. row'[node]["NAMEPLATE"] = "mixed" => "NAMEPLATE" \in spoilt
          BY <1>0, <1>12, <1>13, <2>1, <3>3, <3>4 DEF ProfilesOwn
        <4> QED
          BY <1>0, <2>1, <3>4, <4>1 DEF ProfilesOwn
      <3>6. \A k \in Profiles \ spoilt' : kept'[k] = Nothing
        BY <2>1, <2>2, <3>1, <3>2
      <3> QED
        BY <1>11, <2>1, <3>5, <3>6
    <2>5. CASE phase = 3 /\ UNCHANGED <<kept, row>>
      <3>1. cmd \in ScalarProfiles
        BY <1>12, <2>1, <2>5 DEF TaskCommands
      <3>2. kept[cmd] = Nothing
        BY <1>0, <2>1, <3>1 DEF Well
      <3> QED
        BY <1>0, <1>11, <2>1, <2>2, <2>5, <3>2 DEF ProfilesOwn
    <2> QED
      BY <1>14, <2>3, <2>4, <2>5 DEF Succeeded
  <1>15. CASE Failed
    <2>1. /\ pc = "done" /\ pc' \notin Sending /\ UNCHANGED <<kept, row>>
          /\ spoilt' = IF cmd \in Profiles /\ kept[cmd] # Nothing
                       THEN spoilt \cup {cmd} ELSE spoilt
      BY <1>15 DEF Failed, Sending, End
    <2>2. \A k \in Profiles \ spoilt' : kept'[k] = Nothing
      BY <1>0, <2>1 DEF Others
    <2>3. ProfilesOwn'
      BY <1>0, <2>1 DEF ProfilesOwn
    <2> QED
      BY <1>11, <2>1, <2>2, <2>3
  <1> QED
    BY <1>1, <1>2, <1>3, <1>4, <1>6, <1>7, <1>8, <1>9, <1>10, <1>14, <1>15 DEF Next, Handler

LEMMA Invariant == Spec => []IInv
  <1>1. IInv /\ [Next]_vars => IInv'
    BY OwnStep, BaseStep DEF IInv
  <1> QED
    BY IInvInit, <1>1, PTL DEF Spec

\* The row of a name plate or a scalar profile holds the pages of its own meter
\* only, whatever order the answers come in, however often an exchange is
\* repeated and whichever pushes share a buffer with an answer, as long as no
\* exchange for that profile was given up after it had parsed a page.
THEOREM ProfilesSafe == Spec => []ProfilesOwn
  <1>1. IInv => ProfilesOwn
    BY DEF IInv
  <1> QED
    BY Invariant, <1>1, PTL

\* The row of a silenced node is deleted in the exchange with that node, after
\* a packet of that node was accepted in it.
THEOREM StruckOffSafe == Spec => StruckOffAnswered
  <1>1. IInv /\ [Next]_vars => [\A n \in silenced \ silenced' : n = node /\ answered]_vars
    <2> SUFFICES ASSUME IInv, [Next]_vars, NEW n \in silenced \ silenced'
                 PROVE  n = node /\ answered
      OBVIOUS
    <2>1. ~UNCHANGED silenced
      OBVIOUS
    <2>2. Succeeded
      BY <2>1 DEF Next, Handler, vars, Start, List, Visit, Send, RecvNothing, RecvAnswer,
           RecvRefusal, RecvReport, RecvPush, Failed, Lose, Duplicate
    <2>3. n = node /\ pc = "done" /\ ret = "SUCCESS"
      BY <2>2 DEF Succeeded
    <2> QED
      BY <2>3 DEF IInv, Own, Well
  <1> QED
    BY Invariant, <1>1, PTL DEF Spec, StruckOffAnswered
=============================================================================

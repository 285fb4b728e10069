------------------------- MODULE FuotaSessionProofs -------------------------
(***************************************************************************)
(* Proofs about FuotaSession, for every network, every number of requests  *)
(* and of answers under way, and every limit of the retries.               *)
(*                                                                         *)
(* That success is not recorded without a verification rests on the image  *)
(* transfer: it takes all answers that are under way, so that one to a     *)
(* verification of an earlier request cannot be there when the state of    *)
(* the verification is reached (Sound).  That the sequence over the leaves *)
(* ends rests on its four counters, each bounded, and on nothing else      *)
(* moving the machine meanwhile (Guarded).  Types come last: the retries   *)
(* are bounded by the requests taken from the queue (Paid), and the file   *)
(* whose CRC is computed is that of a request (Opened).                    *)
(***************************************************************************)
EXTENDS FuotaSession, WellFoundedInduction, TLAPS

LeafState == {"NETWORK_SILENCE", "NETWORK_UNSILENCE"}
\* From the end of the transfer to the activation.
Verifying == {"FW_IMAGE_ENDOF_PAGE_TRANSFER", "NEW_FWIMAGE_CRC_CALCULATE"}
Activating == {"ACTIVATE_NEW_FWIMAGE", "SEND_ACTIVATE_CMD"}

Has(ch) == \E i \in DOMAIN ch : ch[i] = "verify"

Loop == [todo: Seq(Meter), off: BOOLEAN, attempt: 0..(max_retries - 1),
         resent: 0..(max_retries - 1), again: BOOLEAN]

Book == [status: {"open", "failed", "timed out", "success"}, final: BOOLEAN]

TBook == book \in Book
TAir == answers \in Seq(Answer) /\ tx \in Command /\ scope \in Scopes
TLoop == loop \in Loop /\ network \in 0..AT_ENABLE_FLASHEXIT
Guarded == Looping => state \in LeafState
Sound ==
  /\ state \in Verifying /\ Has(answers) => confirmed
  /\ state \in Activating => confirmed
IInv == TAir /\ TBook /\ TLoop /\ Guarded /\ Sound /\ SuccessVerified

\* A set of numbers that has 0, and with a number the one after it, has all.
LEMMA NatSetInduction ==
  ASSUME NEW S, 0 \in S, \A n \in Nat : n \in S => n + 1 \in S
  PROVE  Nat \subseteq S
  <1> DEFINE T == Nat \ S
             R == OpToRel(<, Nat)
  <1> SUFFICES ASSUME T # {} PROVE FALSE
    OBVIOUS
  <1>1. IsWellFoundedOn(R, Nat)
    BY NatLessThanWellFounded
  <1>2. \A n \in Nat : <<n, n + 1>> \in R
    BY DEF OpToRel
  <1> HIDE DEF R
  <1>3. PICK x \in T : \A y \in T : <<y, x>> \notin R
    BY <1>1, WFMin
  <1>4. x # 0 /\ x - 1 \in Nat /\ x = (x - 1) + 1
    OBVIOUS
  <1>5. x - 1 \in S
    BY <1>2, <1>3, <1>4
  <1> QED
    BY <1>4, <1>5

\* f is the function Filtered computes over the first m elements.
Filters(f, q, S, m) ==
  f = [i \in 0..m |-> IF i = 0 THEN <<>>
                      ELSE IF q[i] \in S THEN Append(f[i - 1], q[i]) ELSE f[i - 1]]

LEMMA FilterExists ==
  ASSUME NEW q, NEW S, NEW m \in Nat
  PROVE  \E f : Filters(f, q, S, m)
  <1> DEFINE D == {n \in Nat : \E f : Filters(f, q, S, n)}
  <1>1. 0 \in D
    <2> DEFINE f == [i \in 0..0 |-> <<>>]
    <2>1. Filters(f, q, S, 0)
      BY DEF Filters
    <2> QED
      BY <2>1
  <1>2. ASSUME NEW n \in Nat, n \in D PROVE n + 1 \in D
    <2>1. PICK f : Filters(f, q, S, n)
      BY <1>2
    <2> DEFINE last == IF q[n + 1] \in S THEN Append(f[n], q[n + 1]) ELSE f[n]
               g == [i \in 0..(n + 1) |-> IF i <= n THEN f[i] ELSE last]
    <2>2. \A i \in 0..n : f[i] = IF i = 0 THEN <<>>
                                 ELSE IF q[i] \in S THEN Append(f[i - 1], q[i])
                                 ELSE f[i - 1]
      BY <2>1 DEF Filters
    <2>3. ASSUME NEW i \in 0..(n + 1)
          PROVE  g[i] = IF i = 0 THEN <<>>
                        ELSE IF q[i] \in S THEN Append(g[i - 1], q[i]) ELSE g[i - 1]
      <3>1. CASE i = 0
        BY <2>2, <3>1
      <3>2. CASE i # 0 /\ i <= n
        BY <2>2, <3>2
      <3>3. CASE i = n + 1
        BY <3>3
      <3> QED
        BY <3>1, <3>2, <3>3
    <2>4. Filters(g, q, S, n + 1)
      BY <2>3 DEF Filters
    <2> QED
      BY <2>4
  <1>3. Nat \subseteq D
    <2> HIDE DEF D
    <2> QED
      BY <1>1, <1>2, NatSetInduction
  <1> QED
    BY <1>3

\* Filtering keeps elements of q that are in S, and never makes q longer.
LEMMA FilteredFacts ==
  ASSUME NEW T, NEW q \in Seq(T), NEW S
  PROVE  Filtered(q, S) \in Seq(T \cap S) /\ Len(Filtered(q, S)) <= Len(q)
  <1> DEFINE f == CHOOSE g : Filters(g, q, S, Len(q))
  <1>1. Filtered(q, S) = f[Len(q)]
    BY DEF Filtered, Filters
  <1>2. Filters(f, q, S, Len(q))
    BY FilterExists
  <1> HIDE DEF f
  <1>3. \A i \in 0..Len(q) : f[i] = IF i = 0 THEN <<>>
                                    ELSE IF q[i] \in S THEN Append(f[i - 1], q[i])
                                    ELSE f[i - 1]
    BY <1>2 DEF Filters
  <1> DEFINE E == {n \in Nat : n <= Len(q) => f[n] \in Seq(T \cap S) /\ Len(f[n]) <= n}
  <1>4. 0 \in E
    <2>1. 0 \in 0..Len(q)
      OBVIOUS
    <2>2. f[0] = <<>>
      BY <1>3, <2>1
    <2>3. <<>> \in Seq(T \cap S) /\ Len(<<>>) = 0
      OBVIOUS
    <2>4. f[0] \in Seq(T \cap S) /\ Len(f[0]) = 0
      BY <2>2, <2>3
    <2> QED
      BY <2>4
  <1>5. ASSUME NEW n \in Nat, n \in E PROVE n + 1 \in E
    <2> SUFFICES ASSUME n + 1 <= Len(q)
                 PROVE  f[n + 1] \in Seq(T \cap S) /\ Len(f[n + 1]) <= n + 1
      OBVIOUS
    <2>1. f[n] \in Seq(T \cap S) /\ Len(f[n]) <= n
      BY <1>5
    <2>2. f[n + 1] = IF q[n + 1] \in S THEN Append(f[n], q[n + 1]) ELSE f[n]
      BY <1>3
    <2>3. CASE q[n + 1] \in S
      <3>1. q[n + 1] \in T \cap S
        BY <2>3
      <3> QED
        BY <2>1, <2>2, <2>3, <3>1
    <2>4. CASE q[n + 1] \notin S
      BY <2>1, <2>2, <2>4
    <2> QED
      BY <2>3, <2>4
  <1>6. Nat \subseteq E
    <2> HIDE DEF E
    <2> QED
      BY <1>4, <1>5, NatSetInduction
  <1> QED
    BY <1>1, <1>6

LEMMA LeavesFacts ==
  ASSUME TAir, NEW n
  PROVE  /\ detect_leaf_nodes \in Seq(Meter)
         /\ filter_out_on_demand(detect_leaf_nodes, n) \in Seq(Meter)
  <1> DEFINE S == {k \in Meter : \A m \in ToSet(nodes) \ {k} : k \notin ToSet(Path[m])}
  <1>1. nodes \in Seq(Meter)
    BY SessionBounds DEF TAir, nodes
  <1>2. ASSUME NEW q \in Seq(Meter), NEW T PROVE Filtered(q, T) \in Seq(Meter)
    <2>1. Filtered(q, T) \in Seq(Meter \cap T)
      BY FilteredFacts
    <2> DEFINE U == Meter \cap T
    <2>2. U \subseteq Meter
      OBVIOUS
    <2> HIDE DEF U
    <2>3. Seq(U) \subseteq Seq(Meter)
      BY <2>2
    <2> QED
      BY <2>1, <2>3 DEF U
  <1>3. detect_leaf_nodes = Filtered(nodes, S)
    BY DEF detect_leaf_nodes
  <1> HIDE DEF S
  <1>4. detect_leaf_nodes \in Seq(Meter)
    BY <1>1, <1>2, <1>3
  <1>5. filter_out_on_demand(detect_leaf_nodes, n) = Filtered(detect_leaf_nodes, Meter \ {n})
    BY DEF filter_out_on_demand
  <1> QED
    BY <1>2, <1>4, <1>5

-----------------------------------------------------------------------------
(* What is sent, and the answers under way. *)

LEMMA ChannelFacts ==
  ASSUME NEW ch \in Seq(Answer)
  PROVE  /\ \A a \in Answer : /\ Put(ch, a) \in Seq(Answer)
                              /\ Has(Put(ch, a)) => Has(ch) \/ a = "verify"
         /\ ch # <<>> => /\ Tail(ch) \in Seq(Answer) /\ (Has(Tail(ch)) => Has(ch))
                         /\ (Head(ch) = "verify" => Has(ch))
  <1>1. ASSUME NEW a \in Answer
        PROVE  Append(ch, a) \in Seq(Answer) /\ (Has(Append(ch, a)) => Has(ch) \/ a = "verify")
    <2> HIDE DEF Answer
    <2>1. Append(ch, a) \in Seq(Answer)
      OBVIOUS
    <2>2. \A i \in DOMAIN Append(ch, a) : \/ i \in DOMAIN ch /\ Append(ch, a)[i] = ch[i]
                                          \/ Append(ch, a)[i] = a
      OBVIOUS
    <2> QED
      BY <2>1, <2>2 DEF Has
  <1>2. ASSUME ch # <<>>
        PROVE  /\ Tail(ch) \in Seq(Answer) /\ (Has(Tail(ch)) => Has(ch))
               /\ (Head(ch) = "verify" => Has(ch))
    <2> HIDE DEF Answer
    <2>1. Tail(ch) \in Seq(Answer) /\ 1 \in DOMAIN ch /\ Head(ch) = ch[1]
      BY <1>2
    <2>2. \A i \in DOMAIN Tail(ch) : i + 1 \in DOMAIN ch /\ Tail(ch)[i] = ch[i + 1]
      BY <1>2
    <2> QED
      BY <2>1, <2>2 DEF Has
  <1> QED
    BY <1>1, <1>2 DEF Put

\* The answers the network may add; none of them is a verification that failed.
LEMMA HeardFacts ==
  ASSUME NEW ch \in Seq(Answer), NEW c \in Command, NEW x \in Heard(ch, c)
  PROVE  x \in Seq(Answer)
  <1>1. Refusals(c) \subseteq Answer /\ c \in Answer
    BY DEF Refusals, Answer, Command, CommissionAnswer
  <1> QED
    BY <1>1, ChannelFacts DEF Heard

\* What a sending leaves: answers after ch.
Kept == /\ answers' \in Seq(Answer) /\ tx' \in Command
        /\ confirmed /\ request' = request => confirmed'
Sent(ch) == Kept /\ (Has(answers') => Has(ch) \/ confirmed')

LEMMA CarriedFacts ==
  ASSUME NEW ch \in Seq(Answer), NEW c \in Command, NEW img, Carried(c, ch, img), tx' \in Command
  PROVE  Sent(ch)
  <1> DEFINE right == img = cached'
             before == confirmed /\ request' = request
             reply == IF c = "verify" /\ ~right THEN "refused" ELSE c
  <1>1. Refusals(c) \subseteq Answer \ {"verify"} /\ reply \in Answer
    BY DEF Refusals, Answer, Command, CommissionAnswer, Commissioning, Update
  <1>2. CASE /\ answers' \in {ch} \cup {Put(ch, a) : a \in Refusals(c)}
             /\ confirmed' = before
    <2>1. answers' \in Seq(Answer) /\ (Has(answers') => Has(ch))
      <3>1. CASE answers' = ch
        BY <3>1
      <3>2. ASSUME NEW a \in Refusals(c), answers' = Put(ch, a)
            PROVE  answers' \in Seq(Answer) /\ (Has(answers') => Has(ch))
        BY <1>1, <3>2, ChannelFacts
      <3> QED
        BY <1>2, <3>1, <3>2
    <2> QED
      BY <1>2, <2>1 DEF Sent, Kept
  <1>3. CASE /\ confirmed' = (before \/ (c = "verify" /\ right))
             /\ answers' \in {Put(ch, reply)} \cup (IF c \in {"erase", "verify"} THEN {ch} ELSE {})
    <2>1. answers' = ch \/ answers' = Put(ch, reply)
      BY <1>3
    <2>2. answers' \in Seq(Answer) /\ (Has(answers') => Has(ch) \/ reply = "verify")
      <3>1. CASE answers' = ch
        BY <3>1
      <3>2. CASE answers' = Put(ch, reply)
        BY <1>1, <3>2, ChannelFacts
      <3> QED
        BY <2>1, <3>1, <3>2
    <2>3. reply = "verify" => c = "verify" /\ right
      OBVIOUS
    <2> QED
      BY <1>3, <2>2, <2>3 DEF Sent, Kept
  <1> QED
    BY <1>2, <1>3 DEF Carried

LEMMA BuildFacts ==
  ASSUME NEW ch \in Seq(Answer), NEW c \in Command, build_and_store_fuota_cmd(c, ch)
  PROVE  Sent(ch)
  <1> DEFINE sent == IF alt' THEN StepCommand(network') ELSE c
  <1>1. sent \in Command
    BY DEF StepCommand, Command, Commissioning
  <1>2. tx' = sent /\ Carried(sent, ch, flash)
    BY DEF build_and_store_fuota_cmd
  <1> HIDE DEF sent
  <1> QED
    BY <1>1, <1>2, CarriedFacts

LEMMA NothingFacts ==
  ASSUME TAir, NEW g, g.ch \in Seq(Answer), NothingSent(g)
  PROVE  Sent(g.ch)
  BY DEF NothingSent, Sent, Kept, TAir

\* The commands that are framed.
LEMMA CommandFacts ==
  /\ \A n : StepCommand(n) \in Command
  /\ \A st \in Asking : CommandOf[st] \in Command
  /\ "9" \in Command /\ "sector" \in Command /\ "end" \in Command
  BY DEF StepCommand, Asking, CommandOf, Command, Commissioning, Update

-----------------------------------------------------------------------------
(* What the parts of cansend_fuota_next_command do, when no sequence over   *)
(* the leaves is under way.                                                 *)

\* The part of the state a handler hands over.
Handed(g) ==
  /\ g = [ch |-> g.ch, waiting |-> g.waiting, alt |-> g.alt, cached |-> g.cached,
          request |-> g.request, file |-> g.file, sized |-> g.sized, book |-> g.book]
  /\ g.ch \in Seq(Answer) /\ g.book \in Book
Steady == /\ loop' \in Loop /\ network' \in 0..AT_ENABLE_FLASHEXIT
          /\ Looping' => state' \in LeafState
Booked(g) == book' \in Book /\ (book'.status = "success" => g.book.status = "success")
Moved(g) == Sent(g.ch) /\ Steady /\ Booked(g)
Resting == TAir /\ TBook /\ TLoop /\ ~Looping

LEMMA HandedFacts ==
  ASSUME NEW g, Handed(g)
  PROVE  /\ \A s \in {"open", "failed", "success"} :
              /\ Handed(Recorded(g, s)) /\ Recorded(g, s).ch = g.ch
              /\ (s # "success" /\ Recorded(g, s).book.status = "success" =>
                    g.book.status = "success")
         /\ \A ch \in Seq(Answer) : Handed([g EXCEPT !.ch = ch])
  <1>1. ASSUME NEW s \in {"open", "failed", "success"}
        PROVE  /\ Handed(Recorded(g, s)) /\ Recorded(g, s).ch = g.ch
               /\ (s # "success" /\ Recorded(g, s).book.status = "success" =>
                     g.book.status = "success")
    <2> DEFINE b == ondemand_fuota_update_status(g.book, g.request, s)
    <2>1. b \in Book /\ (s # "success" /\ b.status = "success" => g.book.status = "success")
      BY DEF ondemand_fuota_update_status, Handed, Book
    <2>2. Recorded(g, s) = [g EXCEPT !.book = b]
      BY DEF Recorded
    <2> HIDE DEF b
    <2> QED
      BY <2>1, <2>2 DEF Handed
  <1>2. ASSUME NEW ch \in Seq(Answer) PROVE Handed([g EXCEPT !.ch = ch])
    BY DEF Handed
  <1> QED
    BY <1>1, <1>2

LEMMA SettleFacts ==
  ASSUME NEW g, Handed(g), Settle(g)
  PROVE  Booked(g)
  BY DEF Settle, Booked, Handed

LEMMA RestFacts ==
  ASSUME Resting, NEW g, Handed(g), NEW st, Rest(st, g)
  PROVE  Moved(g) /\ state' = st
  <1>1. /\ state' = st /\ UNCHANGED <<loop, network>> /\ Settle(g) /\ NothingSent(g)
    BY DEF Rest, leaves
  <1>2. Sent(g.ch)
    BY <1>1, NothingFacts DEF Handed, Resting
  <1>3. Steady
    BY <1>1 DEF Steady, Resting, TLoop, Looping
  <1> QED
    BY <1>1, <1>2, <1>3, SettleFacts DEF Moved

LEMMA AskFacts ==
  ASSUME Resting, NEW g, Handed(g), NEW st \in Asking, Ask(st, g)
  PROVE  Moved(g) /\ state' = st
  <1> DEFINE h == calculate_crc_for_target_node(st, g)
  <1>1. /\ state' = st /\ UNCHANGED <<loop, network>> /\ Settle(h)
        /\ build_and_store_fuota_cmd(CommandOf[st], g.ch)
    BY DEF Ask, leaves
  <1>2. Sent(g.ch)
    BY <1>1, CommandFacts, BuildFacts DEF Handed
  <1>3. Steady
    BY <1>1 DEF Steady, Resting, TLoop, Looping
  <1>4. h.book = g.book
    BY DEF calculate_crc_for_target_node, Handed
  <1> HIDE DEF h
  <1>5. Booked(g)
    BY <1>1, <1>4 DEF Settle, Booked, Handed
  <1> QED
    BY <1>1, <1>2, <1>3, <1>5 DEF Moved

LEMMA AskGatewayFacts ==
  ASSUME Resting, NEW g, Handed(g), NEW st, NEW n, AskGateway(st, n, g)
  PROVE  Moved(g) /\ state' = st
  <1>1. /\ state' = st /\ UNCHANGED <<loop, network>> /\ Settle(g)
        /\ build_and_store_fuota_cmd(StepCommand(n), g.ch)
    BY DEF AskGateway, leaves
  <1>2. Sent(g.ch)
    BY <1>1, CommandFacts, BuildFacts DEF Handed
  <1>3. Steady
    BY <1>1 DEF Steady, Resting, TLoop, Looping
  <1> QED
    BY <1>1, <1>2, <1>3, SettleFacts DEF Moved

\* A sequence begins with the first leaf, or ends.
LEMMA BeginFacts ==
  ASSUME NEW g, Handed(g), NEW todo \in Seq(Meter), NEW off \in BOOLEAN, NEW again \in BOOLEAN,
         BeginLeaf(todo, off, again, g), state' \in LeafState
  PROVE  Moved(g) /\ loop'.todo = todo /\ loop'.attempt = 0 /\ loop'.resent = 0 /\ network' = 0
  <1>1. /\ loop' = [todo |-> todo, off |-> off, attempt |-> 0, resent |-> 0, again |-> again]
        /\ network' = 0 /\ Settle(g) /\ build_and_store_fuota_cmd("9", g.ch)
    BY DEF BeginLeaf
  <1>2. Sent(g.ch)
    BY <1>1, CommandFacts, BuildFacts DEF Handed
  <1>3. 0 \in 0..(max_retries - 1) /\ 0 \in 0..AT_ENABLE_FLASHEXIT
    BY SessionBounds DEF AT_ENABLE_FLASHEXIT
  <1>4. loop' \in Loop
    BY <1>1, <1>3 DEF Loop
  <1> QED
    BY <1>1, <1>2, <1>3, <1>4, SettleFacts DEF Moved, Steady

LEMMA EndFacts ==
  ASSUME TLoop, TAir, NEW g, Handed(g), NEW off \in BOOLEAN, NEW again \in BOOLEAN,
         EndLeaves(off, again, g)
  PROVE  /\ Moved(g) /\ ~Looping' /\ state' \in {"GATEWAY_PATH_UNSILENCE", "SECTOR_READ"}
  <1>1. /\ loop' = NoLoop /\ network' = network /\ Settle(g)
        /\ state' \in {"GATEWAY_PATH_UNSILENCE", "SECTOR_READ"}
        /\ \/ NothingSent(g)
           \/ \E c \in {StepCommand(unsilence), "sector"} : build_and_store_fuota_cmd(c, g.ch)
    BY DEF EndLeaves
  <1>2. Sent(g.ch)
    BY <1>1, NothingFacts, CommandFacts, BuildFacts DEF Handed
  <1>3. 0 \in 0..(max_retries - 1)
    BY SessionBounds
  <1>4. <<>> \in Seq(Meter)
    OBVIOUS
  <1>5. loop' \in Loop /\ ~Looping'
    BY <1>1, <1>3, <1>4 DEF Loop, NoLoop, Looping
  <1> QED
    BY <1>1, <1>2, <1>5, SettleFacts DEF Moved, Steady, TLoop
\* A handler may change any part of what it hands over.
LEMMA PartChanged ==
  ASSUME NEW g, Handed(g), NEW v
  PROVE  /\ LET h == [g EXCEPT !.waiting = v] IN Handed(h) /\ h.ch = g.ch /\ h.book = g.book
         /\ LET h == [g EXCEPT !.alt = v] IN Handed(h) /\ h.ch = g.ch /\ h.book = g.book
         /\ LET h == [g EXCEPT !.cached = v] IN Handed(h) /\ h.ch = g.ch /\ h.book = g.book
         /\ LET h == [g EXCEPT !.request = v] IN Handed(h) /\ h.ch = g.ch /\ h.book = g.book
         /\ LET h == [g EXCEPT !.file = v] IN Handed(h) /\ h.ch = g.ch /\ h.book = g.book
         /\ LET h == [g EXCEPT !.sized = v] IN Handed(h) /\ h.ch = g.ch /\ h.book = g.book
  <1>1. LET h == [g EXCEPT !.waiting = v] IN Handed(h) /\ h.ch = g.ch /\ h.book = g.book
    BY DEF Handed
  <1>2. LET h == [g EXCEPT !.alt = v] IN Handed(h) /\ h.ch = g.ch /\ h.book = g.book
    BY DEF Handed
  <1>3. LET h == [g EXCEPT !.cached = v] IN Handed(h) /\ h.ch = g.ch /\ h.book = g.book
    BY DEF Handed
  <1>4. LET h == [g EXCEPT !.request = v] IN Handed(h) /\ h.ch = g.ch /\ h.book = g.book
    BY DEF Handed
  <1>5. LET h == [g EXCEPT !.file = v] IN Handed(h) /\ h.ch = g.ch /\ h.book = g.book
    BY DEF Handed
  <1>6. LET h == [g EXCEPT !.sized = v] IN Handed(h) /\ h.ch = g.ch /\ h.book = g.book
    BY DEF Handed
  <1> QED
    BY <1>1, <1>2, <1>3, <1>4, <1>5, <1>6

LEMMA BookChanged ==
  ASSUME NEW g, Handed(g), NEW b \in Book
  PROVE  LET h == [g EXCEPT !.book = b] IN Handed(h) /\ h.ch = g.ch /\ h.book = b
  BY DEF Handed

LEMMA FileSizedChanged ==
  ASSUME NEW g, Handed(g), NEW f, NEW z
  PROVE  LET h == [g EXCEPT !.file = f, !.sized = z]
         IN Handed(h) /\ h.ch = g.ch /\ h.book = g.book
  <1> DEFINE h1 == [g EXCEPT !.file = f]
             h2 == [h1 EXCEPT !.sized = z]
  <1>1. [g EXCEPT !.file = f, !.sized = z] = h2
    OBVIOUS
  <1> HIDE DEF h1, h2
  <1>2. Handed(h1) /\ h1.ch = g.ch /\ h1.book = g.book
    BY PartChanged DEF h1
  <1>3. Handed(h2) /\ h2.ch = g.ch /\ h2.book = g.book
    BY ZenonT(40), <1>2, PartChanged DEF h2
  <1> QED
    BY <1>1, <1>3

LEMMA WaitingAltChanged ==
  ASSUME NEW g, Handed(g), NEW w, NEW a
  PROVE  LET h == [g EXCEPT !.waiting = w, !.alt = a]
         IN Handed(h) /\ h.ch = g.ch /\ h.book = g.book
  <1> DEFINE h1 == [g EXCEPT !.waiting = w]
             h2 == [h1 EXCEPT !.alt = a]
  <1>1. [g EXCEPT !.waiting = w, !.alt = a] = h2
    OBVIOUS
  <1> HIDE DEF h1, h2
  <1>2. Handed(h1) /\ h1.ch = g.ch /\ h1.book = g.book
    BY PartChanged DEF h1
  <1>3. Handed(h2) /\ h2.ch = g.ch /\ h2.book = g.book
    BY ZenonT(40), <1>2, PartChanged DEF h2
  <1> QED
    BY <1>1, <1>3

LEMMA EnableFacts ==
  ASSUME Resting, NEW g, Handed(g), process_rffuota_enable_sequence_refactored(g)
  PROVE  Moved(g) /\ state' \in LeafState
  <1>1. /\ state' = "NETWORK_SILENCE"
        /\ BeginLeaf(detect_leaf_nodes, FALSE, FALSE, g)
    BY DEF process_rffuota_enable_sequence_refactored
  <1>2. detect_leaf_nodes \in Seq(Meter)
    BY LeavesFacts DEF Resting
  <1>3. state' \in LeafState
    BY <1>1 DEF LeafState
  <1> HIDE DEF Resting
  <1> QED
    BY <1>1, <1>2, <1>3, BeginFacts

LEMMA DisableFacts ==
  ASSUME Resting, NEW g, Handed(g), NEW again \in BOOLEAN,
         process_rffuota_disable_sequence(again, g)
  PROVE  Moved(g) /\ state' \in LeafState \cup {"GATEWAY_PATH_UNSILENCE", "SECTOR_READ"}
  <1> DEFINE todo == filter_out_on_demand(detect_leaf_nodes, current)
  <1>1. todo \in Seq(Meter)
    BY LeavesFacts DEF Resting
  <1>2. \/ EndLeaves(TRUE, again, g)
        \/ state' = "NETWORK_UNSILENCE" /\ BeginLeaf(todo, TRUE, again, g)
    BY DEF process_rffuota_disable_sequence
  <1> HIDE DEF todo
  <1>3. CASE EndLeaves(TRUE, again, g)
    BY <1>3, EndFacts DEF Resting
  <1>4. CASE state' = "NETWORK_UNSILENCE" /\ BeginLeaf(todo, TRUE, again, g)
    <2>1. state' \in LeafState
      BY <1>4 DEF LeafState
    <2> QED
      BY <1>1, <1>4, <2>1, BeginFacts
  <1> QED
    BY <1>2, <1>3, <1>4

LEMMA OpenFacts ==
  ASSUME Resting, NEW g, Handed(g), NEW n, open_requested_firmware(n, g)
  PROVE  Moved(g) /\ state' = "GATEWAY_PATH_SILENCE"
  <1>1. CASE AskGateway("GATEWAY_PATH_SILENCE", n, [g EXCEPT !.file = g.request, !.sized = TRUE])
    <2> DEFINE yes == TRUE
               h == [g EXCEPT !.file = g.request, !.sized = yes]
    <2> HIDE DEF yes
    <2>1. Handed(h) /\ h.ch = g.ch /\ h.book = g.book
      BY FileSizedChanged
    <2>2. AskGateway("GATEWAY_PATH_SILENCE", n, h)
      BY <1>1 DEF yes
    <2> HIDE DEF h
    <2>3. Moved(h) /\ state' = "GATEWAY_PATH_SILENCE"
      BY <2>1, <2>2, AskGatewayFacts
    <2> QED
      BY <2>1, <2>3 DEF Moved, Booked
  <1>2. CASE /\ state' = "GATEWAY_PATH_SILENCE" /\ UNCHANGED <<leaves, network>>
             /\ Settle(Recorded(g, "open")) /\ NothingSent(g)
    <2>1. Handed(Recorded(g, "open")) /\ (Recorded(g, "open").book.status = "success" =>
                                            g.book.status = "success")
      BY HandedFacts
    <2>2. Sent(g.ch)
      BY <1>2, NothingFacts DEF Handed, Resting
    <2>3. Steady
      BY <1>2 DEF Steady, Resting, TLoop, Looping, leaves
    <2>4. Booked(Recorded(g, "open"))
      BY <1>2, <2>1, SettleFacts
    <2> QED
      BY <1>2, <2>1, <2>2, <2>3, <2>4 DEF Moved, Booked
  <1> QED
    BY <1>1, <1>2 DEF open_requested_firmware

\* A command is sent in a state of the verification or the activation only
\* when the handler asked for that state.
LEMMA NextCommandFacts ==
  ASSUME Resting, NEW g, Handed(g), NEW st, NEW n, cansend_fuota_next_command(st, n, g)
  PROVE  Moved(g) /\ (state' \in Verifying \cup Activating => state' = st)
  <1>1. CASE open_requested_firmware(n, g)
    BY <1>1, OpenFacts DEF Verifying, Activating
  <1>2. CASE AskGateway(st, n, g)
    BY <1>2, AskGatewayFacts
  <1>3. CASE st \in Asking /\ Ask(st, g)
    BY <1>3, AskFacts
  <1>4. CASE /\ st = "NETWORK_SILENCE"
             /\ IF check_gateway_nodelist_empty_or_not THEN Ask("SECTOR_READ", g)
                ELSE process_rffuota_enable_sequence_refactored(g)
    <2>1. "SECTOR_READ" \in Asking
      BY DEF Asking, CommandOf
    <2>2. CASE Ask("SECTOR_READ", g)
      BY <2>1, <2>2, AskFacts DEF Verifying, Activating
    <2>3. CASE process_rffuota_enable_sequence_refactored(g)
      BY <2>3, EnableFacts DEF Verifying, Activating, LeafState
    <2> QED
      BY <1>4, <2>2, <2>3
  <1>5. CASE /\ st = "NETWORK_UNSILENCE"
             /\ IF check_gateway_nodelist_empty_or_not
                THEN AskGateway("GATEWAY_PATH_UNSILENCE", unsilence, g)
                ELSE process_rffuota_disable_sequence(FALSE, g)
    <2>1. CASE AskGateway("GATEWAY_PATH_UNSILENCE", unsilence, g)
      BY <2>1, AskGatewayFacts DEF Verifying, Activating
    <2>2. CASE process_rffuota_disable_sequence(FALSE, g)
      BY <2>2, DisableFacts DEF Verifying, Activating, LeafState
    <2> QED
      BY <1>5, <2>1, <2>2
  <1>6. CASE Rest(st, g)
    BY <1>6, RestFacts
  <1> QED
    BY <1>1, <1>2, <1>3, <1>4, <1>5, <1>6 DEF cansend_fuota_next_command

\* After the completion the machine is away from the verification, and a
\* success that stands is that of the same request.
Finished(g) ==
  /\ Kept /\ Steady /\ book' \in Book
  /\ book'.status = "success" => g.book.status = "success" /\ request' = request
  /\ state' \notin Verifying \cup Activating

LEMMA CompletionFacts ==
  ASSUME Resting, NEW g, Handed(g), NEW again \in BOOLEAN, handle_fuota_completion(again, g)
  PROVE  Finished(g)
  <1>1. CASE queue # <<>>
    <2> DEFINE h1 == [g EXCEPT !.request = Head(queue)]
               h2 == [h1 EXCEPT !.file = Unreadable]
               h3 == [h2 EXCEPT !.waiting = FALSE]
               h == [h3 EXCEPT !.book = NewBook]
    <2>1. open_requested_firmware(silence, h) \/ Rest("OPEN_FILE", h)
      <3>1. h = [g EXCEPT !.request = Head(queue), !.file = Unreadable,
                          !.waiting = FALSE, !.book = NewBook]
        OBVIOUS
      <3> HIDE DEF h
      <3> QED
        BY <1>1, <3>1 DEF handle_fuota_completion
    <2>2. NewBook \in Book /\ NewBook.status = "open"
      BY DEF NewBook, Book
    <2> HIDE DEF h1, h2, h3, h
    <2>3. Handed(h) /\ h.book = NewBook
      <3>1. Handed(h1)
        BY PartChanged DEF h1
      <3>2. Handed(h2)
        BY <3>1, PartChanged DEF h2
      <3>3. Handed(h3)
        BY <3>2, PartChanged DEF h3
      <3> QED
        BY <2>2, <3>3, BookChanged DEF h
    <2>4. Moved(h) /\ state' \in {"GATEWAY_PATH_SILENCE", "OPEN_FILE"}
      BY <2>1, <2>3, OpenFacts, RestFacts
    <2>5. book'.status # "success"
      BY <2>2, <2>3, <2>4 DEF Moved, Booked
    <2> QED
      BY <2>4, <2>5 DEF Finished, Moved, Sent, Booked, Verifying, Activating
  <1>2. CASE queue = <<>>
    <2>1. request' = request
      BY <1>2 DEF handle_fuota_completion
    <2>2. ASSUME NEW h, h.book = g.book, Moved(h), state' \notin Verifying \cup Activating
          PROVE  Finished(g)
      BY <2>1, <2>2 DEF Finished, Moved, Sent, Booked
    <2>3. CASE process_rffuota_disable_sequence(again, g)
      <3>1. Moved(g) /\ state' \notin Verifying \cup Activating
        BY <2>3, DisableFacts DEF Verifying, Activating, LeafState
      <3> QED
        BY <2>2, <3>1
    <2>4. ASSUME NEW ch \in Heard(g.ch, StepCommand(unsilence)) \cup {g.ch},
                 AskGateway("GATEWAY_PATH_UNSILENCE", unsilence, [g EXCEPT !.ch = ch])
          PROVE  Finished(g)
      <3>1. g.ch \in Seq(Answer) /\ StepCommand(unsilence) \in Command
        BY CommandFacts DEF Handed
      <3>2. ch \in Seq(Answer)
        BY <3>1, HeardFacts
      <3> DEFINE h == [g EXCEPT !.ch = ch]
      <3>3. Handed(h)
        BY <3>2, HandedFacts
      <3>4. h.book = g.book
        BY DEF Handed
      <3>5. AskGateway("GATEWAY_PATH_UNSILENCE", unsilence, h)
        BY <2>4
      <3> HIDE DEF h
      <3>6. Moved(h) /\ state' = "GATEWAY_PATH_UNSILENCE"
        BY <3>3, <3>5, AskGatewayFacts
      <3>7. state' \notin Verifying \cup Activating
        BY <3>6 DEF Verifying, Activating
      <3> QED
        BY <2>2, <3>4, <3>6, <3>7
    <2> QED
      BY <1>2, <2>3, <2>4 DEF handle_fuota_completion
  <1> QED
    BY <1>1, <1>2

LEMMA DequeueFacts ==
  ASSUME Resting, NEW g, Handed(g), NEW st, st \notin Verifying \cup Activating, DequeueOr(st, g)
  PROVE  Moved(g) /\ request' = request /\ state' \notin Verifying \cup Activating
  <1>1. request' = request /\ (open_requested_firmware(silence, g) \/ Rest(st, g))
    BY DEF DequeueOr
  <1>2. "GATEWAY_PATH_SILENCE" \notin Verifying \cup Activating
    BY DEF Verifying, Activating
  <1> QED
    BY <1>1, <1>2, OpenFacts, RestFacts

-----------------------------------------------------------------------------
(* From what a handler did to the invariant. *)

LEMMA MovedOn ==
  ASSUME IInv, scope' = scope, NEW g, Moved(g),
         g.book.status = "success" => confirmed /\ request' = request,
         state' \in Verifying => request' = request /\ (Has(g.ch) => confirmed),
         state' \in Activating => request' = request /\ confirmed
  PROVE  IInv'
  <1>1. TAir' /\ TBook' /\ TLoop' /\ Guarded'
    BY DEF IInv, Moved, Sent, Kept, Steady, Booked, TAir, TBook, TLoop, Guarded
  <1>2. Sound'
    BY DEF Moved, Sent, Kept, Sound
  <1>3. SuccessVerified'
    BY DEF Moved, Sent, Kept, Booked, SuccessVerified
  <1> QED
    BY <1>1, <1>2, <1>3 DEF IInv

LEMMA FinishedOn ==
  ASSUME IInv, scope' = scope, NEW g, Finished(g), g.book.status = "success" => confirmed
  PROVE  IInv'
  <1>1. TAir' /\ TBook' /\ TLoop' /\ Guarded'
    BY DEF IInv, Finished, Kept, Steady, TAir, TBook, TLoop, Guarded
  <1>2. Sound'
    BY DEF Finished, Sound
  <1>3. SuccessVerified'
    BY DEF Finished, Kept, SuccessVerified
  <1> QED
    BY <1>1, <1>2, <1>3 DEF IInv

\* What the handlers start from.
LEMMA NowFacts ==
  ASSUME IInv
  PROVE  /\ Handed(Now) /\ Now.ch = answers /\ Now.book = book /\ Now.request = request
         /\ book.status = "success" => confirmed
         /\ ~Looping => Resting
  BY DEF IInv, Now, Handed, TAir, TBook, SuccessVerified, Resting

LEMMA GotFacts ==
  ASSUME IInv, answers # <<>>
  PROVE  /\ Handed(Got) /\ Got.ch = Tail(answers) /\ Got.book = book
         /\ (Has(Got.ch) => Has(answers)) /\ (answer = "verify" => Has(answers))
         /\ answer \in Answer
  <1>1. answers \in Seq(Answer)
    BY DEF IInv, TAir
  <1>2. /\ Tail(answers) \in Seq(Answer) /\ (Has(Tail(answers)) => Has(answers))
        /\ (Head(answers) = "verify" => Has(answers))
    BY <1>1, ChannelFacts
  <1>3. Handed(Got)
    BY <1>2, NowFacts, HandedFacts DEF Got
  <1>4. Got.ch = Tail(answers) /\ Got.book = book
    BY DEF Got, Now
  <1>5. Head(answers) \in Answer
    <2> HIDE DEF Answer
    <2> QED
      BY <1>1
  <1> QED
    BY <1>2, <1>3, <1>4, <1>5 DEF answer
\* A handler that changes neither the request nor, but for failures and for
\* good, the row, and goes on with a command.
LEMMA SentOn ==
  ASSUME IInv, ~Looping, scope' = scope, request' = request, NEW g, Handed(g),
         g.book.status = "success" => book.status = "success",
         NEW st, NEW n, cansend_fuota_next_command(st, n, g),
         st \in Verifying /\ Has(g.ch) => confirmed, st \in Activating => confirmed
  PROVE  IInv'
  <1>1. Resting /\ (book.status = "success" => confirmed)
    BY NowFacts
  <1>2. Moved(g) /\ (state' \in Verifying \cup Activating => state' = st)
    BY <1>1, NextCommandFacts
  <1> QED
    BY <1>1, <1>2, MovedOn

LEMMA AskOn ==
  ASSUME IInv, ~Looping, scope' = scope, request' = request, NEW g, Handed(g),
         g.book.status = "success" => book.status = "success",
         NEW st, NEW n, st \notin Verifying \cup Activating, AskGateway(st, n, g)
  PROVE  IInv'
  <1>1. Resting /\ (book.status = "success" => confirmed)
    BY NowFacts
  <1>2. Moved(g) /\ state' = st
    BY <1>1, AskGatewayFacts
  <1> QED
    BY <1>1, <1>2, MovedOn

LEMMA RestOn ==
  ASSUME IInv, ~Looping, scope' = scope, request' = request, NEW g, Handed(g),
         g.book.status = "success" => book.status = "success",
         NEW st, st \notin Verifying \cup Activating, Rest(st, g)
  PROVE  IInv'
  <1>1. Resting /\ (book.status = "success" => confirmed)
    BY NowFacts
  <1>2. Moved(g) /\ state' = st
    BY <1>1, RestFacts
  <1> QED
    BY <1>1, <1>2, MovedOn

LEMMA DequeueOn ==
  ASSUME IInv, ~Looping, scope' = scope, NEW g, Handed(g),
         g.book.status = "success" => book.status = "success",
         NEW st, st \notin Verifying \cup Activating, DequeueOr(st, g)
  PROVE  IInv'
  <1>1. Resting /\ (book.status = "success" => confirmed)
    BY NowFacts
  <1>2. Moved(g) /\ request' = request /\ state' \notin Verifying \cup Activating
    BY <1>1, DequeueFacts
  <1> QED
    BY <1>1, <1>2, MovedOn

LEMMA CompletionOn ==
  ASSUME IInv, ~Looping, scope' = scope, NEW g, Handed(g),
         g.book.status = "success" => book.status = "success",
         NEW again \in BOOLEAN, handle_fuota_completion(again, g)
  PROVE  IInv'
  <1>1. Resting /\ (book.status = "success" => confirmed)
    BY NowFacts
  <1>2. Finished(g)
    BY <1>1, CompletionFacts
  <1> QED
    BY <1>1, <1>2, FinishedOn

LEMMA PacketFacts ==
  ASSUME IInv, NEW st, Packet(st)
  PROVE  /\ ~Looping /\ answers # <<>> /\ state = st /\ scope' = scope
         /\ Handed(Got) /\ Got.book = book /\ Got.ch = Tail(answers)
         /\ Handed(Recorded(Got, "open"))
         /\ Recorded(Got, "open").book.status = "success" => book.status = "success"
         /\ Recorded(Got, "open").ch = Got.ch
  <1>1. ~Looping /\ answers # <<>> /\ state = st /\ scope' = scope
    BY DEF Packet, Busy
  <1>2. Handed(Got) /\ Got.book = book /\ Got.ch = Tail(answers)
    BY <1>1, GotFacts
  <1> QED
    BY <1>1, <1>2, HandedFacts

-----------------------------------------------------------------------------
(* The steps. *)

LEMMA OpenFileKeeps ==
  ASSUME IInv, OpenFile
  PROVE  IInv'
  <1>0. Packet("OPEN_FILE") /\ request' = request
    BY DEF OpenFile
  <1>1. /\ ~Looping /\ scope' = scope /\ Handed(Got) /\ Got.book = book
        /\ Handed(Recorded(Got, "open"))
        /\ Recorded(Got, "open").book.status = "success" => book.status = "success"
    BY <1>0, PacketFacts
  <1>2. "GATEWAY_PATH_SILENCE" \notin Verifying \cup Activating
    BY DEF Verifying, Activating
  <1>3. PICK ch \in {Got.ch} \cup Heard(Got.ch, StepCommand(silence)) :
          \/ AskGateway("GATEWAY_PATH_SILENCE", 0,
                        [Got EXCEPT !.ch = ch, !.file = request, !.sized = TRUE])
          \/ AskGateway("GATEWAY_PATH_SILENCE", 0, Recorded(Got, "open"))
    BY DEF OpenFile
  <1>4. ch \in Seq(Answer)
    <2>1. Got.ch \in Seq(Answer) /\ StepCommand(silence) \in Command
      BY <1>1, CommandFacts DEF Handed
    <2> QED
      BY <1>3, <2>1, HeardFacts
  <1>5. CASE AskGateway("GATEWAY_PATH_SILENCE", 0,
                        [Got EXCEPT !.ch = ch, !.file = request, !.sized = TRUE])
    <2> DEFINE h1 == [Got EXCEPT !.ch = ch]
               h2 == [h1 EXCEPT !.file = request]
               h == [h2 EXCEPT !.sized = TRUE]
    <2>1. h = [Got EXCEPT !.ch = ch, !.file = request, !.sized = TRUE]
      OBVIOUS
    <2>2. Handed(h1) /\ h1.book = book
      BY <1>1, <1>4, HandedFacts DEF Handed
    <2> HIDE DEF h1, h2, h
    <2>3. Handed(h2) /\ h2.book = book
      BY <2>2, PartChanged DEF h2
    <2>4. Handed(h) /\ h.book = book
      BY <2>3, PartChanged DEF h
    <2>5. AskGateway("GATEWAY_PATH_SILENCE", 0, h)
      BY <1>5, <2>1
    <2> QED
      BY <1>0, <1>1, <1>2, <2>4, <2>5, AskOn
  <1>6. CASE AskGateway("GATEWAY_PATH_SILENCE", 0, Recorded(Got, "open"))
    BY <1>0, <1>1, <1>2, <1>6, AskOn
  <1> QED
    BY <1>3, <1>5, <1>6

\* A refusal that ends the update.
LEMMA TerminatedKeeps ==
  ASSUME IInv, ~Looping, scope' = scope, Handed(Got), Got.book = book,
         command_response_timeout_at_fuota([Got EXCEPT !.alt = FALSE])
  PROVE  IInv'
  <1> DEFINE h == [Got EXCEPT !.alt = FALSE]
  <1>1. Handed(h) /\ h.book = book
    BY PartChanged
  <1>2. request' = request /\ Rest("ROLLBACK_TO_NORMAL_COMM_MODE", h)
    BY DEF command_response_timeout_at_fuota
  <1>3. "ROLLBACK_TO_NORMAL_COMM_MODE" \notin Verifying \cup Activating
    BY DEF Verifying, Activating
  <1> HIDE DEF h
  <1> QED
    BY <1>1, <1>2, <1>3, RestOn

LEMMA GatewaySilenceKeeps ==
  ASSUME IInv, GatewaySilence
  PROVE  IInv'
  <1> DEFINE g == Recorded(Got, "open")
  <1>0. Packet("GATEWAY_PATH_SILENCE")
    BY DEF GatewaySilence
  <1>1. /\ ~Looping /\ scope' = scope /\ Handed(Got) /\ Got.book = book
        /\ Handed(g)
        /\ g.book.status = "success" => book.status = "success"
    BY <1>0, PacketFacts
  <1>2. {"GATEWAY_PATH_SILENCE", "NETWORK_SILENCE"} \cap (Verifying \cup Activating) = {}
    BY DEF Verifying, Activating
  <1>3. \/ /\ request' = request
           /\ \E st \in {"GATEWAY_PATH_SILENCE", "NETWORK_SILENCE"},
                 n \in {silence + 1, 0, silence} : cansend_fuota_next_command(st, n, g)
        \/ command_response_timeout_at_fuota([Got EXCEPT !.alt = FALSE])
    BY DEF GatewaySilence
  <1> HIDE DEF g
  <1>4. CASE /\ request' = request
             /\ \E st \in {"GATEWAY_PATH_SILENCE", "NETWORK_SILENCE"},
                   n \in {silence + 1, 0, silence} : cansend_fuota_next_command(st, n, g)
    <2>1. PICK st \in {"GATEWAY_PATH_SILENCE", "NETWORK_SILENCE"},
               n \in {silence + 1, 0, silence} : cansend_fuota_next_command(st, n, g)
      BY <1>4
    <2>2. st \notin Verifying /\ st \notin Activating
      BY <1>2, <2>1
    <2> QED
      BY <1>1, <1>4, <2>1, <2>2, SentOn
  <1> QED
    BY <1>1, <1>3, <1>4, TerminatedKeeps

LEMMA NetworkSilenceKeeps ==
  ASSUME IInv, NetworkSilence
  PROVE  IInv'
  <1>0. Packet("NETWORK_SILENCE")
    BY DEF NetworkSilence
  <1>1. ~Looping /\ scope' = scope /\ Handed(Got) /\ Got.book = book
    BY <1>0, PacketFacts
  <1>2. \/ /\ request' = request
           /\ \E st \in {"NETWORK_SILENCE", "SECTOR_READ"} : cansend_fuota_next_command(st, 0, Got)
        \/ command_response_timeout_at_fuota([Got EXCEPT !.alt = FALSE])
    BY DEF NetworkSilence
  <1>3. CASE /\ request' = request
             /\ \E st \in {"NETWORK_SILENCE", "SECTOR_READ"} : cansend_fuota_next_command(st, 0, Got)
    <2>1. PICK st \in {"NETWORK_SILENCE", "SECTOR_READ"} : cansend_fuota_next_command(st, 0, Got)
      BY <1>3
    <2>2. st \notin Verifying /\ st \notin Activating
      BY <2>1 DEF Verifying, Activating
    <2> QED
      BY <1>1, <1>3, <2>1, <2>2, SentOn
  <1> QED
    BY <1>1, <1>2, <1>3, TerminatedKeeps

LEMMA GatewayUnsilenceKeeps ==
  ASSUME IInv, GatewayUnsilence
  PROVE  IInv'
  <1>0. Packet("GATEWAY_PATH_UNSILENCE")
    BY DEF GatewayUnsilence
  <1>1. ~Looping /\ scope' = scope /\ Handed(Got) /\ Got.book = book
    BY <1>0, PacketFacts
  <1>2. \A st \in {"GATEWAY_PATH_UNSILENCE", "ROLLBACK_TO_NORMAL_COMM_MODE"} :
          st \notin Verifying /\ st \notin Activating
    BY DEF Verifying, Activating
  <1>3. \/ /\ request' = request
           /\ \E n \in {unsilence + 1, unsilence} :
                cansend_fuota_next_command("GATEWAY_PATH_UNSILENCE", n, Got)
        \/ DequeueOr("ROLLBACK_TO_NORMAL_COMM_MODE", Got)
    BY DEF GatewayUnsilence
  <1>4. CASE /\ request' = request
             /\ \E n \in {unsilence + 1, unsilence} :
                  cansend_fuota_next_command("GATEWAY_PATH_UNSILENCE", n, Got)
    BY <1>1, <1>2, <1>4, SentOn
  <1>5. CASE DequeueOr("ROLLBACK_TO_NORMAL_COMM_MODE", Got)
    BY <1>1, <1>2, <1>5, DequeueOn
  <1> QED
    BY <1>3, <1>4, <1>5

LEMMA RollbackKeeps ==
  ASSUME IInv, Rollback
  PROVE  IInv'
  <1>0. Packet("ROLLBACK_TO_NORMAL_COMM_MODE")
    BY DEF Rollback
  <1>1. /\ ~Looping /\ scope' = scope /\ Handed(Got) /\ Got.book = book
        /\ state = "ROLLBACK_TO_NORMAL_COMM_MODE" /\ Got.ch = Tail(answers)
    BY <1>0, PacketFacts
  <1>2. state \notin Verifying /\ state \notin Activating
    BY <1>1 DEF Verifying, Activating
  <1>3. CASE DequeueOr(state, Got)
    BY <1>1, <1>2, <1>3, DequeueOn
  <1>4. CASE /\ answers' = Tail(answers)
             /\ UNCHANGED <<state, tx, network, loop, book, confirmed>>
    <2>1. TAir'
      BY <1>1, <1>4 DEF IInv, TAir, Handed
    <2>2. TBook' /\ TLoop' /\ Guarded' /\ SuccessVerified'
      BY <1>4 DEF IInv, TBook, TLoop, Guarded, Looping, SuccessVerified
    <2>3. Sound'
      BY <1>2, <1>4 DEF Sound
    <2> QED
      BY <2>1, <2>2, <2>3 DEF IInv
  <1> QED
    BY <1>3, <1>4 DEF Rollback, leaves
\* An answer that is taken.  In the state of the verification that is its
\* answer and no other, so the image was verified.
LEMMA TakenKeeps ==
  ASSUME IInv, state \in Asking, Packet(state), Taken,
         state = "NEW_FWIMAGE_CRC_CALCULATE" => answer = "verify"
  PROVE  IInv'
  <1> DEFINE open == Recorded(Got, "open")
             here == [open EXCEPT !.waiting = FALSE, !.alt = FALSE]
             verified == [here EXCEPT !.alt = alt, !.cached = NoFile]
             won == [Recorded(Got, "success") EXCEPT !.waiting = FALSE, !.alt = FALSE]
             on == [SECTOR_READ |-> AfterSector, FWIMAGE_OF_SECTOR_COUNT |-> "ERASE_FLASH",
                    ERASE_FLASH |-> "FW_IMAGE_TRANSFER",
                    FW_IMAGE_ENDOF_PAGE_TRANSFER |-> "NEW_FWIMAGE_CRC_CALCULATE",
                    ACTIVATE_NEW_FWIMAGE |-> "SEND_ACTIVATE_CMD"]
  <1>1. /\ ~Looping /\ scope' = scope /\ answers # <<>> /\ Handed(Got)
        /\ Handed(open) /\ open.ch = Got.ch
        /\ open.book.status = "success" => book.status = "success"
    BY PacketFacts
  <1>2. /\ Handed(Recorded(Got, "success"))
    BY <1>1, HandedFacts
  <1>3. \/ state \in DOMAIN on /\ Proceed(on[state], here)
        \/ /\ state = "NEW_FWIMAGE_CRC_CALCULATE"
           /\ Proceed("ACTIVATE_NEW_FWIMAGE", verified)
        \/ /\ state = "SEND_ACTIVATE_CMD" /\ Proceed("READ_AND_COMPARE_FW_VERSION", won)
        \/ handle_fuota_completion(TRUE, here)
    BY DEF Taken
  <1>4. Handed(here) /\ here.ch = open.ch /\ here.book = open.book
    <2>1. Handed(Recorded(Got, "open"))
      BY <1>1
    <2> QED
      BY <2>1, WaitingAltChanged
  <1>5. Handed(won)
    BY <1>2, WaitingAltChanged
  <1> HIDE DEF open, here, won
  <1>6. Handed(verified) /\ verified.book = open.book
    <2> DEFINE v == [here EXCEPT !.alt = alt]
    <2>1. verified = [v EXCEPT !.cached = NoFile]
      OBVIOUS
    <2>2. Handed(v) /\ v.book = open.book
      BY ZenonT(40), <1>4, PartChanged
    <2> HIDE DEF v, verified
    <2> QED
      BY ZenonT(40), <2>1, <2>2, PartChanged
  <1> HIDE DEF verified
  <1>7. here.book.status = "success" => book.status = "success"
    BY <1>1, <1>4
  <1>8. Has(here.ch) => Has(answers)
    BY <1>1, <1>4, GotFacts
  <1>9. /\ state \in Verifying /\ Has(answers) => confirmed
        /\ state \in Activating => confirmed
    BY DEF IInv, Sound
  <1>10. CASE state \in DOMAIN on /\ Proceed(on[state], here)
    <2> DEFINE st == on[state]
    <2>1. st \in Verifying => state \in Verifying
      BY <1>10 DEF AfterSector, Verifying
    <2>2. st \in Activating => state \in Activating
      BY <1>10 DEF AfterSector, Activating
    <2>3. request' = request /\ cansend_fuota_next_command(st, 0, here)
      BY <1>10 DEF Proceed
    <2> HIDE DEF st
    <2>4. (st \in Verifying /\ Has(here.ch) => confirmed) /\ (st \in Activating => confirmed)
      BY <1>8, <1>9, <2>1, <2>2
    <2> QED
      BY <1>1, <1>4, <1>7, <2>3, <2>4, SentOn
  <1>11. CASE /\ state = "NEW_FWIMAGE_CRC_CALCULATE"
              /\ Proceed("ACTIVATE_NEW_FWIMAGE", verified)
    <2>1. confirmed
      BY <1>1, <1>9, <1>11, GotFacts DEF Verifying
    <2>2. request' = request /\ cansend_fuota_next_command("ACTIVATE_NEW_FWIMAGE", 0, verified)
      BY <1>11 DEF Proceed
    <2> QED
      BY <1>1, <1>6, <2>1, <2>2, SentOn
  <1>12. CASE state = "SEND_ACTIVATE_CMD" /\ Proceed("READ_AND_COMPARE_FW_VERSION", won)
    <2>1. confirmed
      BY <1>9, <1>12 DEF Activating
    <2>2. request' = request /\ cansend_fuota_next_command("READ_AND_COMPARE_FW_VERSION", 0, won)
      BY <1>12 DEF Proceed
    <2>3. Resting
      BY <1>1, NowFacts
    <2>4. Moved(won) /\ state' \notin Verifying \cup Activating
      <3>1. "READ_AND_COMPARE_FW_VERSION" \notin Verifying \cup Activating
        BY DEF Verifying, Activating
      <3> QED
        BY <1>5, <2>2, <2>3, <3>1, NextCommandFacts
    <2> QED
      BY <1>1, <2>1, <2>2, <2>4, MovedOn
  <1>13. CASE handle_fuota_completion(TRUE, here)
    BY <1>1, <1>4, <1>7, <1>13, CompletionOn
  <1> QED
    BY <1>3, <1>10, <1>11, <1>12, <1>13

LEMMA RefusedKeeps ==
  ASSUME IInv, state \in Asking, Packet(state), Refused
  PROVE  IInv'
  <1> DEFINE still == alt /\ state # "SECTOR_READ"
             g == [Got EXCEPT !.waiting = TRUE, !.alt = still]
             h == IF state = "ACTIVATE_NEW_FWIMAGE" THEN Recorded(g, "open") ELSE g
             st == IF state = "SEND_ACTIVATE_CMD" THEN "ACTIVATE_NEW_FWIMAGE" ELSE state
             late == {"NEW_FWIMAGE_CRC_CALCULATE", "ACTIVATE_NEW_FWIMAGE",
                      "SEND_ACTIVATE_CMD", "READ_AND_COMPARE_FW_VERSION"}
             q == [Got EXCEPT !.waiting = FALSE]
             r == IF state \in late THEN Recorded(q, "failed") ELSE q
  <1>1. ~Looping /\ scope' = scope /\ answers # <<>> /\ Handed(Got) /\ Got.book = book
    BY PacketFacts
  <1>2. \/ request' = request /\ cansend_fuota_next_command(st, 0, h)
        \/ handle_fuota_completion(TRUE, r)
    BY DEF Refused
  <1>3. Handed(g) /\ g.ch = Got.ch /\ g.book = book
    <2> HIDE DEF still
    <2> QED
      BY ZenonT(40), <1>1, WaitingAltChanged
  <1>4. Handed(q) /\ q.book = book
    BY <1>1, PartChanged
  <1> HIDE DEF g, q, late
  <1>5. Handed(r) /\ (r.book.status = "success" => book.status = "success")
    BY <1>4, HandedFacts
  <1>6. Handed(h) /\ h.ch = Got.ch /\ (h.book.status = "success" => book.status = "success")
    BY <1>3, HandedFacts
  <1> HIDE DEF h, r
  <1>7. /\ state \in Verifying /\ Has(answers) => confirmed
        /\ state \in Activating => confirmed
    BY DEF IInv, Sound
  <1>8. st \in Verifying => state \in Verifying
    BY DEF Verifying
  <1>9. st \in Activating => state \in Activating
    BY DEF Activating
  <1>10. Has(h.ch) => Has(answers)
    BY <1>1, <1>6, GotFacts
  <1> HIDE DEF st
  <1>11. CASE request' = request /\ cansend_fuota_next_command(st, 0, h)
    BY <1>1, <1>6, <1>7, <1>8, <1>9, <1>10, <1>11, SentOn
  <1>12. CASE handle_fuota_completion(TRUE, r)
    BY <1>1, <1>5, <1>12, CompletionOn
  <1> QED
    BY <1>2, <1>11, <1>12

LEMMA AnsweredKeeps ==
  ASSUME IInv, Answered
  PROVE  IInv'
  <1>1. /\ state \in Asking /\ Packet(state)
        /\ \E ok \in Accepts(state, answer) : IF ok THEN Taken ELSE Refused
    BY DEF Answered
  <1>2. CASE Refused
    BY <1>1, <1>2, RefusedKeeps
  <1>3. ASSUME NEW ok \in Accepts(state, answer), ok, Taken
        PROVE  IInv'
    <2>1. state = "NEW_FWIMAGE_CRC_CALCULATE" => answer = "verify"
      <3>1. ASSUME state = "NEW_FWIMAGE_CRC_CALCULATE"
            PROVE  Accepts(state, answer) = {answer = "verify"}
        BY <3>1 DEF Accepts
      <3> QED
        BY <1>3, <3>1
    <2> QED
      BY <1>1, <1>3, <2>1, TakenKeeps
  <1> QED
    BY <1>1, <1>2, <1>3

\* No answer to a verification is under way when the transfer ends.
LEMMA UploadKeeps ==
  ASSUME IInv, Upload
  PROVE  IInv'
  <1>1. state = "FW_IMAGE_TRANSFER" /\ scope' = scope
    BY DEF Upload
  <1>2. ~Looping
    BY <1>1 DEF IInv, Guarded, LeafState
  <1>3. PICK late \in {<<>>, <<"piece">>} :
          \/ /\ state' = "FW_IMAGE_ENDOF_PAGE_TRANSFER" /\ UNCHANGED <<network, leaves>>
             /\ Settle(Now) /\ request' = request /\ tx' = "end"
             /\ \E img : Carried("end", late, img)
          \/ \E s \in {"open", "failed"} :
               handle_fuota_completion(FALSE, Recorded([Now EXCEPT !.ch = late], s))
    BY DEF Upload
  <1>4. late \in Seq(Answer) /\ ~Has(late)
    <2>1. <<>> \in Seq(Answer)
      OBVIOUS
    <2>2. "piece" \in Answer
      BY DEF Answer
    <2>3. <<"piece">> \in Seq(Answer)
      <3> HIDE DEF Answer
      <3> QED
        BY <2>2
    <2>4. ~Has(<<>>) /\ ~Has(<<"piece">>)
      BY DEF Has
    <2> QED
      BY <1>3, <2>1, <2>3, <2>4
  <1>5. /\ Handed(Now) /\ Now.book = book /\ (book.status = "success" => confirmed)
    BY NowFacts
  <1>6. CASE /\ state' = "FW_IMAGE_ENDOF_PAGE_TRANSFER" /\ UNCHANGED <<network, leaves>>
             /\ Settle(Now) /\ request' = request /\ tx' = "end"
             /\ \E img : Carried("end", late, img)
    <2>1. Sent(late)
      BY <1>4, <1>6, CommandFacts, CarriedFacts
    <2>2. Booked(Now)
      BY <1>5, <1>6, SettleFacts
    <2>3. TAir' /\ TBook' /\ TLoop'
      BY <1>1, <1>6, <2>1, <2>2 DEF IInv, TAir, TBook, TLoop, Sent, Kept, Booked, leaves
    <2>4. ~Looping'
      BY <1>2, <1>6 DEF Looping, leaves
    <2>5. Sound'
      BY <1>4, <1>6, <2>1 DEF Sound, Sent, Activating
    <2>6. SuccessVerified'
      BY <1>5, <1>6, <2>1, <2>2 DEF SuccessVerified, Sent, Kept, Booked
    <2> QED
      BY <2>3, <2>4, <2>5, <2>6 DEF IInv, Guarded
  <1>7. ASSUME NEW s \in {"open", "failed"},
               handle_fuota_completion(FALSE, Recorded([Now EXCEPT !.ch = late], s))
        PROVE  IInv'
    <2> DEFINE n == [Now EXCEPT !.ch = late]
               g == Recorded(n, s)
    <2>1. Handed(n)
      BY <1>4, <1>5, HandedFacts
    <2>2. n.book = book
      BY DEF Now
    <2> HIDE DEF n
    <2>3. Handed(g) /\ (g.book.status = "success" => book.status = "success")
      BY <2>1, <2>2, HandedFacts
    <2>4. handle_fuota_completion(FALSE, g)
      BY <1>7 DEF n
    <2> HIDE DEF g
    <2> QED
      BY <1>1, <1>2, <2>3, <2>4, CompletionOn
  <1> QED
    BY <1>3, <1>6, <1>7
-----------------------------------------------------------------------------
(* The sequence over the leaves: each of its steps lowers the number that   *)
(* its counters spell, the leaf and its step first, then the attempt, then  *)
(* the sending.                                                             *)

LEMMA ProductsGrow ==
  ASSUME NEW a \in Nat, NEW c \in Nat, NEW b \in Nat, a <= c
  PROVE  a * b <= c * b
  <1>1. c - a \in Nat /\ c = a + (c - a)
    OBVIOUS
  <1>2. PICK d \in Nat : c = a + d
    BY <1>1
  <1>3. c * b = a * b + d * b
    BY <1>2
  <1>4. a * b \in Nat /\ d * b \in Nat
    OBVIOUS
  <1> QED
    BY <1>3, <1>4

\* A number of two digits is the smaller when its first digit is.
LEMMA Digits ==
  ASSUME NEW r \in Nat, NEW x \in Nat, NEW y \in Nat, NEW p \in 0..(r - 1), NEW q \in 0..(r - 1), x < y
  PROVE  x * r + p < y * r + q
  <1>1. (x + 1) * r <= y * r
    BY ProductsGrow
  <1>2. (x + 1) * r = x * r + r
    OBVIOUS
  <1>3. x * r \in Nat /\ y * r \in Nat
    OBVIOUS
  <1> DEFINE u == x * r
             v == y * r
  <1>4. u + r <= v /\ u \in Nat /\ v \in Nat
    BY <1>1, <1>2, <1>3
  <1> HIDE DEF u, v
  <1>5. u + p < v + q
    BY <1>4
  <1> QED
    BY <1>5 DEF u, v

Rank(a, b, c) ==
  (a * max_retries + (max_retries - 1 - b)) * max_retries + (max_retries - 1 - c)

LEMMA RankFacts ==
  ASSUME NEW a \in Nat, NEW b \in 0..(max_retries - 1), NEW c \in 0..(max_retries - 1),
         NEW d \in Nat, NEW e \in 0..(max_retries - 1), NEW f \in 0..(max_retries - 1)
  PROVE  /\ a < d => Rank(a, b, c) < Rank(d, e, f)
         /\ a = d /\ b > e => Rank(a, b, c) < Rank(d, e, f)
         /\ a = d /\ b = e /\ c > f => Rank(a, b, c) < Rank(d, e, f)
         /\ a > 0 => Rank(a, b, c) > 0
  <1> DEFINE R == max_retries
             s == R - 1 - b
             t == R - 1 - e
             p == R - 1 - c
             q == R - 1 - f
             x == a * R + s
             y == d * R + t
  <1>1. R \in Nat \ {0}
    BY SessionBounds
  <1>2. /\ s \in 0..(R - 1) /\ t \in 0..(R - 1) /\ p \in 0..(R - 1) /\ q \in 0..(R - 1)
        /\ (b > e => s < t) /\ (b = e => s = t) /\ (c > f => p < q)
    BY <1>1
  <1>3. Rank(a, b, c) = x * R + p /\ Rank(d, e, f) = y * R + q
    BY DEF Rank
  <1>4. a * R \in Nat /\ d * R \in Nat
    BY <1>1
  <1>5. a < d => x < y
    <2> HIDE DEF R, s, t
    <2> QED
      BY <1>1, <1>2, Digits
  <1>6. a = d => a * R = d * R
    OBVIOUS
  <1> HIDE DEF R, s, t, p, q
  <1>7. x \in Nat /\ y \in Nat /\ x * R \in Nat
    <2>1. x \in Nat /\ y \in Nat
      BY <1>1, <1>2, <1>4
    <2> HIDE DEF x, y
    <2> QED
      BY <1>1, <2>1
  <1>8. a = d /\ s < t => x < y
    <2> DEFINE k == a * R
               l == d * R
    <2>1. k \in Nat /\ l \in Nat /\ (a = d => k = l)
      BY <1>4, <1>6
    <2>2. x = k + s /\ y = l + t
      OBVIOUS
    <2> HIDE DEF k, l, x, y
    <2> QED
      BY <1>2, <2>1, <2>2
  <1>9. a = d /\ s = t => x = y
    BY <1>6
  <1>10. a > 0 => x > 0
    <2> SUFFICES ASSUME a > 0 PROVE x > 0
      OBVIOUS
    <2>1. 1 * R <= a * R
      BY <1>1, ProductsGrow
    <2>2. 1 * R = R
      BY <1>1
    <2> QED
      BY <1>1, <1>2, <1>4, <2>1, <2>2
  <1> HIDE DEF x, y
  <1>11. x < y => x * R + p < y * R + q
    BY <1>1, <1>2, <1>7, Digits
  <1>12. x = y /\ p < q => x * R + p < y * R + q
    <2> SUFFICES ASSUME x = y, p < q PROVE x * R + p < y * R + q
      OBVIOUS
    <2> DEFINE k == x * R
    <2>1. k \in Nat /\ y * R = k
      BY <1>7
    <2> HIDE DEF k
    <2>2. k + p < k + q
      BY <1>2, <2>1
    <2> QED
      BY <2>1, <2>2 DEF k
  <1>13. x > 0 => x * R + p > 0
    <2> SUFFICES ASSUME x > 0 PROVE x * R + p > 0
      OBVIOUS
    <2>1. 1 * R <= x * R /\ 1 * R = R
      BY <1>1, <1>7, ProductsGrow
    <2> DEFINE k == x * R
    <2>2. k >= R /\ k \in Nat
      BY <1>7, <2>1
    <2> HIDE DEF k
    <2>3. k + p > 0
      BY <1>1, <1>2, <2>2
    <2> QED
      BY <2>3 DEF k
  <1>14. /\ a < d => Rank(a, b, c) < Rank(d, e, f)
         /\ a > 0 => Rank(a, b, c) > 0
    BY <1>3, <1>5, <1>10, <1>11, <1>13
  <1>15. a = d /\ b > e => Rank(a, b, c) < Rank(d, e, f)
    BY <1>2, <1>3, <1>8, <1>11
  <1>16. a = d /\ b = e /\ c > f => Rank(a, b, c) < Rank(d, e, f)
    BY <1>2, <1>3, <1>9, <1>12
  <1> QED
    BY <1>14, <1>15, <1>16

\* The steps left to do, over all leaves.
Left(l, n) == 4 * Len(l.todo) + AT_ENABLE_FLASHEXIT - n

LEMMA RankOf ==
  ASSUME NEW l \in Loop, l.todo # <<>>, NEW n \in 0..AT_ENABLE_FLASHEXIT
  PROVE  /\ ((4 * Len(l.todo) + AT_ENABLE_FLASHEXIT - n) * max_retries
             + max_retries - 1 - l.attempt) * max_retries + max_retries - 1 - l.resent
            = Rank(Left(l, n), l.attempt, l.resent)
         /\ Left(l, n) \in Nat /\ Left(l, n) > 0
  <1>1. /\ l.todo \in Seq(Meter) /\ n \in 0..3
        /\ l.attempt \in 0..(max_retries - 1) /\ l.resent \in 0..(max_retries - 1)
    BY DEF Loop, AT_ENABLE_FLASHEXIT
  <1>2. Len(l.todo) \in Nat /\ Len(l.todo) > 0
    BY <1>1
  <1>3. Left(l, n) \in Nat /\ Left(l, n) > 0
    BY <1>1, <1>2 DEF Left, AT_ENABLE_FLASHEXIT
  <1> DEFINE R == max_retries
             a == Left(l, n)
             b == l.attempt
             c == l.resent
             u == a * R
             w == (u + R - 1 - b) * R
  <1>4. R \in Nat /\ b \in Int /\ c \in Int
    BY <1>1, SessionBounds
  <1>5. ((4 * Len(l.todo) + AT_ENABLE_FLASHEXIT - n) * max_retries
             + max_retries - 1 - l.attempt) * max_retries + max_retries - 1 - l.resent
        = w + R - 1 - c
    BY DEF Left
  <1>6. u \in Nat
    BY <1>3, <1>4
  <1> HIDE DEF R, a, b, c, u
  <1>7. u + R - 1 - b = u + (R - 1 - b) /\ u + R - 1 - b \in Int
    BY <1>4, <1>6
  <1>8. w \in Int
    BY <1>4, <1>7
  <1>9. w = (u + (R - 1 - b)) * R
    BY <1>7
  <1> HIDE DEF w
  <1>10. w + R - 1 - c = w + (R - 1 - c)
    BY <1>4, <1>8
  <1>11. w + R - 1 - c = Rank(a, b, c)
    BY <1>9, <1>10 DEF Rank, R, u
  <1> QED
    BY <1>3, <1>5, <1>11 DEF a, b, c

LEMMA AheadIs ==
  ASSUME TLoop, Looping
  PROVE  /\ Ahead = Rank(Left(loop, network), loop.attempt, loop.resent)
         /\ Left(loop, network) \in Nat /\ Left(loop, network) > 0
         /\ loop.attempt \in 0..(max_retries - 1) /\ loop.resent \in 0..(max_retries - 1)
         /\ loop.todo \in Seq(Meter) /\ loop.todo # <<>>
  <1>1. loop \in Loop /\ loop.todo # <<>> /\ network \in 0..AT_ENABLE_FLASHEXIT
    BY DEF TLoop, Looping
  <1>2. /\ Ahead = Rank(Left(loop, network), loop.attempt, loop.resent)
        /\ Left(loop, network) \in Nat /\ Left(loop, network) > 0
    BY <1>1, RankOf DEF Ahead, Looping
  <1> QED
    BY <1>1, <1>2 DEF Loop

LEMMA AheadNext ==
  ASSUME loop' \in Loop, network' \in 0..AT_ENABLE_FLASHEXIT, loop'.todo # <<>>
  PROVE  /\ Ahead' = Rank(Left(loop', network'), loop'.attempt, loop'.resent)
         /\ Left(loop', network') \in Nat
         /\ loop'.attempt \in 0..(max_retries - 1) /\ loop'.resent \in 0..(max_retries - 1)
  <1>1. /\ Ahead' = Rank(Left(loop', network'), loop'.attempt, loop'.resent)
        /\ Left(loop', network') \in Nat
    BY RankOf DEF Ahead, Looping
  <1> QED
    BY <1>1 DEF Loop
LEMMA TailFacts ==
  ASSUME NEW S, NEW q \in Seq(S), q # <<>>, Len(q) # 1
  PROVE  Tail(q) \in Seq(S) /\ Tail(q) # <<>> /\ Len(Tail(q)) = Len(q) - 1
  <1>1. Len(q) \in Nat /\ (Len(q) = 0 => q = <<>>)
    OBVIOUS
  <1>2. Len(q) > 1
    <2> DEFINE n == Len(q)
    <2>1. n \in Nat /\ n # 0 /\ n # 1
      BY <1>1
    <2> HIDE DEF n
    <2>2. n > 1
      BY <2>1
    <2> QED
      BY <2>2 DEF n
  <1>3. Tail(q) \in Seq(S) /\ Len(Tail(q)) = Len(q) - 1
    OBVIOUS
  <1>4. Len(<<>>) = 0
    OBVIOUS
  <1>5. Tail(q) # <<>>
    BY <1>1, <1>2, <1>3, <1>4
  <1> QED
    BY <1>3, <1>5

Nearer == Ahead' < Ahead

\* A command to the current leaf.
LEMMA LeafCommandKeeps ==
  ASSUME IInv, Looping, scope' = scope, request' = request, NEW ch \in Seq(Answer),
         LeafCommand(ch), loop' \in Loop, network' \in 0..AT_ENABLE_FLASHEXIT
  PROVE  IInv'
  <1>1. /\ state' = state /\ book' = book
        /\ build_and_store_fuota_cmd(StepCommand(network'), ch)
    BY DEF LeafCommand
  <1>2. Sent(ch)
    BY <1>1, CommandFacts, BuildFacts
  <1>3. state \in LeafState
    BY DEF IInv, Guarded
  <1>4. TAir' /\ TBook' /\ TLoop'
    BY <1>1, <1>2 DEF IInv, TAir, TBook, TLoop, Sent, Kept
  <1>5. Guarded' /\ Sound'
    BY <1>1, <1>3 DEF Guarded, Sound, LeafState, Verifying, Activating
  <1>6. SuccessVerified'
    BY <1>1, <1>2 DEF IInv, SuccessVerified, Sent, Kept
  <1> QED
    BY <1>4, <1>5, <1>6 DEF IInv

LEMMA LeafDoneKeeps ==
  ASSUME IInv, Looping, scope' = scope, request' = request, NEW ch \in Seq(Answer), LeafDone(ch)
  PROVE  IInv' /\ Nearer
  <1> DEFINE g == [Now EXCEPT !.ch = ch]
  <1>1. Handed(Now) /\ Now.book = book /\ (book.status = "success" => confirmed)
    BY NowFacts
  <1>2. Handed(g)
    BY <1>1, HandedFacts
  <1>3. g.book = book
    BY DEF Now
  <1>4. \/ Len(loop.todo) = 1 /\ EndLeaves(loop.off, loop.again, g)
        \/ /\ Len(loop.todo) # 1 /\ state' = state
           /\ BeginLeaf(Tail(loop.todo), loop.off, loop.again, g)
    BY DEF LeafDone
  <1> HIDE DEF g
  <1>5. TLoop /\ TAir /\ state \in LeafState
    BY DEF IInv, Guarded
  <1>6. loop.off \in BOOLEAN /\ loop.again \in BOOLEAN
    BY <1>5 DEF TLoop, Loop
  <1>7. /\ Ahead = Rank(Left(loop, network), loop.attempt, loop.resent)
        /\ Left(loop, network) \in Nat /\ Left(loop, network) > 0
        /\ loop.attempt \in 0..(max_retries - 1) /\ loop.resent \in 0..(max_retries - 1)
        /\ loop.todo \in Seq(Meter) /\ loop.todo # <<>>
    BY <1>5, AheadIs
  <1>8. CASE Len(loop.todo) = 1 /\ EndLeaves(loop.off, loop.again, g)
    <2>1. Moved(g) /\ ~Looping' /\ state' \in {"GATEWAY_PATH_UNSILENCE", "SECTOR_READ"}
      BY <1>2, <1>5, <1>6, <1>8, EndFacts
    <2>2. state' \notin Verifying /\ state' \notin Activating
      BY <2>1 DEF Verifying, Activating
    <2>3. IInv'
      BY <1>1, <1>3, <2>1, <2>2, MovedOn
    <2>4. Ahead' = 0
      BY <2>1 DEF Ahead
    <2>5. Ahead > 0
      BY <1>7, RankFacts
    <2> QED
      BY <2>3, <2>4, <2>5 DEF Nearer
  <1>9. CASE /\ Len(loop.todo) # 1 /\ state' = state
             /\ BeginLeaf(Tail(loop.todo), loop.off, loop.again, g)
    <2> DEFINE rest == Tail(loop.todo)
    <2>1. rest \in Seq(Meter) /\ rest # <<>> /\ Len(rest) = Len(loop.todo) - 1
      BY <1>7, <1>9, TailFacts
    <2>2. state' \in LeafState /\ BeginLeaf(rest, loop.off, loop.again, g)
      BY <1>5, <1>9
    <2> HIDE DEF rest
    <2>3. /\ Moved(g) /\ loop'.todo = rest /\ loop'.attempt = 0 /\ loop'.resent = 0
          /\ network' = 0
      BY <1>2, <1>6, <2>1, <2>2, BeginFacts
    <2>4. state' \notin Verifying /\ state' \notin Activating
      BY <2>2 DEF LeafState, Verifying, Activating
    <2>5. IInv'
      BY <1>1, <1>3, <2>3, <2>4, MovedOn
    <2>6. loop' \in Loop /\ network' \in 0..AT_ENABLE_FLASHEXIT /\ loop'.todo # <<>>
      BY <2>1, <2>3 DEF Moved, Steady
    <2>7. /\ Ahead' = Rank(Left(loop', network'), loop'.attempt, loop'.resent)
          /\ Left(loop', network') \in Nat
          /\ loop'.attempt \in 0..(max_retries - 1) /\ loop'.resent \in 0..(max_retries - 1)
      BY <2>6, AheadNext
    <2>8. Left(loop', network') < Left(loop, network)
      <3>1. Len(rest) = Len(loop.todo) - 1 /\ Len(loop.todo) \in Nat /\ network \in 0..3
        BY <1>5, <1>7, <2>1 DEF TLoop, AT_ENABLE_FLASHEXIT
      <3>2. Left(loop', network') = 4 * Len(rest) + 3 - 0
        BY <2>3 DEF Left, AT_ENABLE_FLASHEXIT
      <3>3. Left(loop, network) = 4 * Len(loop.todo) + 3 - network
        BY DEF Left, AT_ENABLE_FLASHEXIT
      <3> QED
        BY <3>1, <3>2, <3>3
    <2> QED
      BY <1>7, <2>5, <2>7, <2>8, RankFacts DEF Nearer
  <1> QED
    BY <1>4, <1>8, <1>9

LEMMA StepDoneKeeps ==
  ASSUME IInv, Looping, scope' = scope, request' = request, NEW ch \in Seq(Answer), StepDone(ch)
  PROVE  IInv' /\ Nearer
  <1>1. CASE network = AT_ENABLE_FLASHEXIT
    BY <1>1, LeafDoneKeeps DEF StepDone
  <1>2. CASE network # AT_ENABLE_FLASHEXIT
    <2>1. /\ network' = network + 1 /\ LeafCommand(ch)
          /\ loop' = [loop EXCEPT !.attempt = 0, !.resent = 0]
      BY <1>2 DEF StepDone
    <2>2. TLoop /\ loop \in Loop /\ network \in 0..3
      BY DEF IInv, TLoop, AT_ENABLE_FLASHEXIT
    <2>3. network' \in 0..AT_ENABLE_FLASHEXIT
      BY <1>2, <2>1, <2>2 DEF AT_ENABLE_FLASHEXIT
    <2>4. 0 \in 0..(max_retries - 1)
      BY SessionBounds
    <2>5. loop' \in Loop /\ loop'.todo = loop.todo
      BY <2>1, <2>2, <2>4 DEF Loop
    <2>6. IInv'
      BY <2>1, <2>3, <2>5, LeafCommandKeeps
    <2>7. /\ Ahead = Rank(Left(loop, network), loop.attempt, loop.resent)
          /\ Left(loop, network) \in Nat
          /\ loop.attempt \in 0..(max_retries - 1) /\ loop.resent \in 0..(max_retries - 1)
          /\ loop.todo \in Seq(Meter) /\ loop.todo # <<>>
      BY <2>2, AheadIs
    <2>8. /\ Ahead' = Rank(Left(loop', network'), loop'.attempt, loop'.resent)
          /\ Left(loop', network') \in Nat
          /\ loop'.attempt \in 0..(max_retries - 1) /\ loop'.resent \in 0..(max_retries - 1)
      BY <2>3, <2>5, <2>7, AheadNext
    <2>9. Left(loop', network') < Left(loop, network)
      <3>1. Len(loop.todo) \in Nat
        BY <2>7
      <3>2. Left(loop', network') = 4 * Len(loop.todo) + 3 - (network + 1)
        BY <2>1, <2>5 DEF Left, AT_ENABLE_FLASHEXIT
      <3>3. Left(loop, network) = 4 * Len(loop.todo) + 3 - network
        BY DEF Left, AT_ENABLE_FLASHEXIT
      <3>4. network \in Int
        BY <2>2
      <3> QED
        BY <3>1, <3>2, <3>3, <3>4
    <2> QED
      BY <2>6, <2>7, <2>8, <2>9, RankFacts DEF Nearer
  <1> QED
    BY <1>1, <1>2

LEMMA AttemptFailedKeeps ==
  ASSUME IInv, Looping, scope' = scope, request' = request, NEW ch \in Seq(Answer),
         AttemptFailed(ch)
  PROVE  IInv' /\ Nearer
  <1>1. CASE loop.attempt = max_retries - 1
    BY <1>1, LeafDoneKeeps DEF AttemptFailed
  <1>2. CASE loop.attempt # max_retries - 1
    <2>1. /\ network' = network /\ LeafCommand(ch)
          /\ loop' = [loop EXCEPT !.attempt = loop.attempt + 1, !.resent = 0]
      BY <1>2 DEF AttemptFailed
    <2>2. TLoop /\ loop \in Loop /\ network \in 0..AT_ENABLE_FLASHEXIT
      BY DEF IInv, TLoop
    <2>3. /\ Ahead = Rank(Left(loop, network), loop.attempt, loop.resent)
          /\ Left(loop, network) \in Nat
          /\ loop.attempt \in 0..(max_retries - 1) /\ loop.resent \in 0..(max_retries - 1)
          /\ loop.todo \in Seq(Meter) /\ loop.todo # <<>>
      BY <2>2, AheadIs
    <2>4. 0 \in 0..(max_retries - 1) /\ loop.attempt + 1 \in 0..(max_retries - 1)
      BY <1>2, <2>3, SessionBounds
    <2>5. loop' \in Loop /\ loop'.todo = loop.todo /\ loop'.attempt = loop.attempt + 1
      BY <2>1, <2>2, <2>4 DEF Loop
    <2>6. IInv'
      BY <2>1, <2>2, <2>5, LeafCommandKeeps
    <2>7. /\ Ahead' = Rank(Left(loop', network'), loop'.attempt, loop'.resent)
          /\ Left(loop', network') \in Nat
          /\ loop'.attempt \in 0..(max_retries - 1) /\ loop'.resent \in 0..(max_retries - 1)
      BY <2>1, <2>2, <2>3, <2>5, AheadNext
    <2>8. Left(loop', network') = Left(loop, network)
      BY <2>1, <2>5 DEF Left
    <2>9. loop'.attempt > loop.attempt
      BY <2>3, <2>5
    <2> QED
      BY <2>3, <2>6, <2>7, <2>8, <2>9, RankFacts DEF Nearer
  <1> QED
    BY <1>1, <1>2

LEMMA SendAgainKeeps ==
  ASSUME IInv, Looping, scope' = scope, request' = request, NEW ch \in Seq(Answer), SendAgain(ch)
  PROVE  IInv' /\ Nearer
  <1>1. CASE loop.resent < max_retries - 1
    <2>1. /\ network' = network /\ LeafCommand(ch)
          /\ loop' = [loop EXCEPT !.resent = loop.resent + 1]
      BY <1>1 DEF SendAgain
    <2>2. TLoop /\ loop \in Loop /\ network \in 0..AT_ENABLE_FLASHEXIT
      BY DEF IInv, TLoop
    <2>3. /\ Ahead = Rank(Left(loop, network), loop.attempt, loop.resent)
          /\ Left(loop, network) \in Nat
          /\ loop.attempt \in 0..(max_retries - 1) /\ loop.resent \in 0..(max_retries - 1)
          /\ loop.todo \in Seq(Meter) /\ loop.todo # <<>>
      BY <2>2, AheadIs
    <2>4. loop.resent + 1 \in 0..(max_retries - 1)
      BY <1>1, <2>3, SessionBounds
    <2>5. /\ loop' \in Loop /\ loop'.todo = loop.todo /\ loop'.attempt = loop.attempt
          /\ loop'.resent = loop.resent + 1
      BY <2>1, <2>2, <2>4 DEF Loop
    <2>6. IInv'
      BY <2>1, <2>2, <2>5, LeafCommandKeeps
    <2>7. /\ Ahead' = Rank(Left(loop', network'), loop'.attempt, loop'.resent)
          /\ Left(loop', network') \in Nat
          /\ loop'.attempt \in 0..(max_retries - 1) /\ loop'.resent \in 0..(max_retries - 1)
      BY <2>1, <2>2, <2>3, <2>5, AheadNext
    <2>8. Left(loop', network') = Left(loop, network)
      BY <2>1, <2>5 DEF Left
    <2>9. loop'.resent > loop.resent
      BY <2>3, <2>5
    <2> QED
      BY <2>3, <2>5, <2>6, <2>7, <2>8, <2>9, RankFacts DEF Nearer
  <1>2. CASE ~(loop.resent < max_retries - 1)
    <2>1. PICK heard \in Heard(ch, tx) : AttemptFailed(heard)
      BY <1>2 DEF SendAgain
    <2>2. tx \in Command
      BY DEF IInv, TAir
    <2>3. heard \in Seq(Answer)
      BY <2>1, <2>2, HeardFacts
    <2> QED
      BY <2>1, <2>3, AttemptFailedKeeps
  <1> QED
    BY <1>1, <1>2

LEMMA LeafTimeoutKeeps ==
  ASSUME IInv, LeafTimeout
  PROVE  IInv' /\ Nearer
  <1>1. /\ Looping /\ scope' = scope /\ request' = request
        /\ SendAgain(answers) \/ AttemptFailed(answers)
    BY DEF LeafTimeout, InLoop
  <1>2. answers \in Seq(Answer)
    BY DEF IInv, TAir
  <1> QED
    BY <1>1, <1>2, SendAgainKeeps, AttemptFailedKeeps

LEMMA LeafAnswerKeeps ==
  ASSUME IInv, LeafAnswer
  PROVE  IInv' /\ Nearer
  <1>1. Looping /\ scope' = scope /\ request' = request /\ answers # <<>>
    BY DEF LeafAnswer, InLoop
  <1>2. Tail(answers) \in Seq(Answer)
    BY <1>1, GotFacts DEF Handed
  <1>3. \/ SendAgain(Tail(answers)) \/ StepDone(Tail(answers)) \/ AttemptFailed(Tail(answers))
    BY DEF LeafAnswer
  <1> QED
    BY <1>1, <1>2, <1>3, SendAgainKeeps, StepDoneKeeps, AttemptFailedKeeps
-----------------------------------------------------------------------------
(* The timer, the requests, and the theorems. *)

LEMMA TimerKeeps ==
  ASSUME IInv, Retry \/ Alternate \/ FinalFailure
  PROVE  IInv'
  <1>1. ~Looping /\ scope' = scope /\ request' = request /\ UNCHANGED <<loop, network>>
    BY DEF Retry, Alternate, FinalFailure, Fires, Busy, leaves, steps
  <1>2. TLoop' /\ Guarded'
    BY <1>1 DEF IInv, TLoop, Guarded, Looping
  <1>3. /\ answers \in Seq(Answer) /\ tx \in Command /\ book \in Book
        /\ (book.status = "success" => confirmed)
        /\ (state \in Verifying /\ Has(answers) => confirmed)
        /\ (state \in Activating => confirmed)
    BY DEF IInv, TAir, TBook, SuccessVerified, Sound
  <1>4. CASE Retry \/ Alternate
    <2>1. state' = state /\ build_and_store_fuota_cmd(tx, answers)
      BY <1>4 DEF Retry, Alternate, Fires
    <2>2. Sent(answers)
      BY <1>3, <2>1, BuildFacts
    <2>3. book' \in Book /\ (book'.status = "success" => book.status = "success")
      <3>1. CASE Retry
        BY <1>3, <3>1 DEF Retry
      <3>2. CASE Alternate
        <4>1. book' = Recorded(Now, "open").book
          BY <3>2 DEF Alternate
        <4>2. /\ Handed(Recorded(Now, "open"))
              /\ Recorded(Now, "open").book.status = "success" => Now.book.status = "success"
          BY NowFacts, HandedFacts
        <4> QED
          BY <4>1, <4>2, NowFacts DEF Handed
      <3> QED
        BY <1>4, <3>1, <3>2
    <2>4. TAir' /\ TBook'
      BY <1>1, <2>2, <2>3 DEF IInv, TAir, TBook, Sent, Kept
    <2>5. Sound'
      BY <1>1, <1>3, <2>1, <2>2 DEF Sound, Sent, Kept
    <2>6. SuccessVerified'
      BY <1>1, <1>3, <2>2, <2>3 DEF SuccessVerified, Sent, Kept
    <2> QED
      BY <1>2, <2>4, <2>5, <2>6 DEF IInv
  <1>5. CASE FinalFailure
    <2>1. /\ UNCHANGED <<tx, answers, confirmed>> /\ state' \in {"OPEN_FILE", "NETWORK_SILENCE"}
          /\ book' \in {book, [book EXCEPT !.status = "timed out"]}
      BY <1>5 DEF FinalFailure, air
    <2>2. book' \in Book /\ (book'.status = "success" => book.status = "success")
      BY <1>3, <2>1 DEF Book
    <2>3. TAir' /\ TBook'
      BY <1>1, <1>3, <2>1, <2>2 DEF IInv, TAir, TBook
    <2>4. Sound'
      BY <2>1 DEF Sound, Verifying, Activating
    <2>5. SuccessVerified'
      BY <1>3, <2>1, <2>2 DEF SuccessVerified
    <2> QED
      BY <1>2, <2>3, <2>4, <2>5 DEF IInv
  <1> QED
    BY <1>4, <1>5

LEMMA QueueKeeps ==
  ASSUME IInv, process_fuota_queue
  PROVE  IInv'
  <1>1. ~Looping /\ scope' = scope
    BY DEF process_fuota_queue, Busy
  <1>2. Handed(Now) /\ Now.book = book /\ Resting
    BY <1>1, NowFacts
  <1>3. CASE queue = <<>>
    <2>1. request' = request /\ Rest("ROLLBACK_TO_NORMAL_COMM_MODE", Now)
      BY <1>3 DEF process_fuota_queue
    <2>2. "ROLLBACK_TO_NORMAL_COMM_MODE" \notin Verifying \cup Activating
      BY DEF Verifying, Activating
    <2> QED
      BY <1>1, <1>2, <2>1, <2>2, RestOn
  <1>4. CASE queue # <<>>
    <2> DEFINE h1 == [Now EXCEPT !.request = Head(queue)]
               h == [h1 EXCEPT !.book = NewBook]
    <2>1. h = [Now EXCEPT !.request = Head(queue), !.book = NewBook]
      OBVIOUS
    <2>2. NewBook \in Book /\ NewBook.status = "open"
      BY DEF NewBook, Book
    <2> HIDE DEF h1, h
    <2>3. Handed(h1)
      BY <1>2, PartChanged DEF h1
    <2>4. Handed(h) /\ h.book = NewBook
      BY <2>2, <2>3, BookChanged DEF h
    <2>5. open_requested_firmware(silence, h)
      BY <1>4, <2>1 DEF process_fuota_queue
    <2>6. Moved(h) /\ state' = "GATEWAY_PATH_SILENCE"
      BY <1>2, <2>4, <2>5, OpenFacts
    <2>7. state' \notin Verifying /\ state' \notin Activating
      BY <2>6 DEF Verifying, Activating
    <2>8. h.book.status # "success"
      BY <2>2, <2>4
    <2> QED
      BY <1>1, <2>6, <2>7, <2>8, MovedOn
  <1> QED
    BY <1>3, <1>4

LEMMA OutsideKeeps ==
  ASSUME IInv, Arrive \/ resume_rf_fuota_pending_state_process \/ UNCHANGED vars
  PROVE  IInv'
  <1>1. /\ UNCHANGED <<scope, tx, answers, confirmed, book, loop, network>>
        /\ \/ state' = state
           \/ state = "IDLE" /\ state' = "GATEWAY_PATH_SILENCE"
    BY DEF Arrive, resume_rf_fuota_pending_state_process, vars, sending, steps, leaves, air
  <1>2. TAir' /\ TBook' /\ TLoop' /\ SuccessVerified'
    BY <1>1 DEF IInv, TAir, TBook, TLoop, SuccessVerified
  <1>3. Guarded'
    BY <1>1 DEF IInv, Guarded, Looping, LeafState
  <1>4. Sound'
    BY <1>1 DEF IInv, Sound, Verifying, Activating
  <1> QED
    BY <1>2, <1>3, <1>4 DEF IInv

LEMMA InitHolds ==
  ASSUME Init
  PROVE  IInv
  <1>1. TAir
    <2>1. <<>> \in Seq(Answer)
      OBVIOUS
    <2>2. "9" \in Command
      BY CommandFacts
    <2> QED
      BY <2>1, <2>2 DEF Init, TAir
  <1>2. TBook /\ SuccessVerified
    BY DEF Init, TBook, Book, NewBook, SuccessVerified
  <1>3. TLoop /\ Guarded
    <2>1. 0 \in 0..(max_retries - 1) /\ 0 \in 0..AT_ENABLE_FLASHEXIT
      BY SessionBounds DEF AT_ENABLE_FLASHEXIT
    <2>2. <<>> \in Seq(Meter)
      OBVIOUS
    <2> QED
      BY <2>1, <2>2 DEF Init, TLoop, Loop, NoLoop, Guarded, Looping
  <1>4. Sound
    BY DEF Init, Sound, Verifying, Activating
  <1> QED
    BY <1>1, <1>2, <1>3, <1>4 DEF IInv

LEMMA NextKeeps ==
  ASSUME IInv, [Next]_vars
  PROVE  IInv'
  BY OpenFileKeeps, GatewaySilenceKeeps, NetworkSilenceKeeps, AnsweredKeeps,
     GatewayUnsilenceKeeps, RollbackKeeps, UploadKeeps, LeafTimeoutKeeps, LeafAnswerKeeps,
     TimerKeeps, QueueKeeps, OutsideKeeps DEF Next

\* The bound of the instance on the requests that come is a number; and the
\* thread that runs the sequence over the leaves does nothing else.
LEMMA ArrivedFacts ==
  ASSUME [Next]_vars
  PROVE  arrived' = arrived \/ Arrive
  BY DEF Next, vars, job, OpenFile, GatewaySilence, NetworkSilence, Answered, GatewayUnsilence,
         Rollback, Packet, Upload, LeafTimeout, LeafAnswer, InLoop, Retry, Alternate, Fires,
         FinalFailure, process_fuota_queue, resume_rf_fuota_pending_state_process

LEMMA OnlyTheLoop ==
  ASSUME IInv, Looping, Next, ~Arrive
  PROVE  LeafTimeout \/ LeafAnswer
  <1>1. state \notin {"FW_IMAGE_TRANSFER", "IDLE"}
    BY DEF IInv, Guarded, LeafState
  <1>2. ~OpenFile /\ ~GatewaySilence /\ ~NetworkSilence /\ ~Answered /\ ~GatewayUnsilence
        /\ ~Rollback
    BY DEF OpenFile, GatewaySilence, NetworkSilence, Answered, GatewayUnsilence, Rollback,
           Packet, Busy
  <1>3. ~Upload /\ ~resume_rf_fuota_pending_state_process
    BY <1>1 DEF Upload, resume_rf_fuota_pending_state_process
  <1>4. ~Retry /\ ~Alternate /\ ~FinalFailure /\ ~process_fuota_queue
    BY DEF Retry, Alternate, FinalFailure, process_fuota_queue, Fires, Busy
  <1> QED
    BY <1>2, <1>3, <1>4 DEF Next

\* A firmware update is recorded as a success only when, during that request,
\* the meter found the CRC of its image equal to the one it was sent, whatever
\* answers are lost, late or taken for another's (client_process_rf_fuota_data).
THEOREM SuccessSafe == Spec => []SuccessVerified
  <1>1. Init => IInv
    BY InitHolds
  <1>2. IInv /\ [Next]_vars => IInv'
    BY NextKeeps
  <1>3. IInv => SuccessVerified
    BY DEF IInv
  <1> QED
    BY <1>1, <1>2, <1>3, PTL DEF Spec

\* Every step taken while the leaves of the network are silenced or unsilenced,
\* but a request's arrival, brings that sequence nearer to its end, for every
\* network and every limit of the retries: it cannot block the thread for ever.
THEOREM LoopEnds == Spec => LoopAdvances
  <1> DEFINE J == IInv /\ arrived \in Nat
             Step == Looping /\ arrived' = arrived => Ahead' < Ahead
  <1>1. Init => J
    <2>1. Init => arrived \in Nat
      BY DEF Init
    <2> QED
      BY <2>1, InitHolds
  <1>2. J /\ [Next]_vars => J'
    <2>1. ASSUME arrived \in Nat, [Next]_vars PROVE arrived' \in Nat
      BY <2>1, ArrivedFacts DEF Arrive
    <2> QED
      BY <2>1, NextKeeps
  <1>3. J /\ [Next]_vars => [Step]_vars
    <2> SUFFICES ASSUME J, Next, Looping, arrived' = arrived PROVE Ahead' < Ahead
      OBVIOUS
    <2>1. ~Arrive
      <3>1. Arrive => arrived' = arrived + 1
        BY DEF Arrive
      <3> QED
        BY <3>1
    <2>2. LeafTimeout \/ LeafAnswer
      BY <2>1, OnlyTheLoop
    <2> QED
      BY <2>2, LeafTimeoutKeeps, LeafAnswerKeeps DEF Nearer
  <1> HIDE DEF J
  <1>4. Spec => [][Step]_vars
    BY <1>1, <1>2, <1>3, PTL DEF Spec
  <1> QED
    BY <1>4 DEF LoopAdvances

-----------------------------------------------------------------------------
(* Type correctness: first the counters and the queue. *)

\* States a request is opened in.  An answer that makes no sense is counted
\* there beyond the limit of the retries, and ends the update.
Opening == {"IDLE", "OPEN_FILE", "GATEWAY_PATH_SILENCE"}
Claim == IF state \in Opening THEN 1 ELSE 0
\* The retries beyond the limit are paid for by requests taken from the queue.
Paid == retry + Len(queue) + Claim <= max_retries + arrived + 1
Jobs ==
  /\ arrived \in 0..scope.requests /\ queue \in Seq(1..scope.requests)
  /\ Len(queue) <= arrived /\ request \in Request \cup {NoFile}
Counters ==
  /\ state \in State /\ {silence, unsilence} \subseteq 0..AT_ENABLE_FLASHEXIT
  /\ retry \in Nat /\ alternate \in 0..(alternate_maxcnt + 1) \cup {max_retries}
CInv == Jobs /\ Counters /\ Paid

\* States that are left for one of Opening only with a request from the queue.
Closed == State \ Opening

LEMMA NextState ==
  ASSUME NEW st, NEW n, NEW g, cansend_fuota_next_command(st, n, g)
  PROVE  /\ st \in State => state' \in State
         /\ st \in Closed => state' \in Closed
  BY DEF cansend_fuota_next_command, open_requested_firmware, AskGateway, Ask, Rest,
         process_rffuota_enable_sequence_refactored, process_rffuota_disable_sequence,
         EndLeaves, State, Closed, Opening

\* The handler goes on with a command in a state of S.
Goes(S) == \E st \in S : \E n, g : cansend_fuota_next_command(st, n, g)

LEMMA GoesFacts ==
  ASSUME NEW S, Goes(S)
  PROVE  /\ S \subseteq State => state' \in State
         /\ S \subseteq Closed => state' \in Closed
  BY NextState DEF Goes

\* The queue loses its first request, or stays.
LEMMA QueueFacts ==
  ASSUME Jobs, scope \in Scopes
  PROVE  /\ Len(queue) \in Nat /\ arrived \in Nat /\ max_retries \in Nat \ {0}
         /\ scope.requests \in Nat /\ 1..scope.requests \subseteq Request
         /\ queue # <<>> => /\ Tail(queue) \in Seq(1..scope.requests)
                            /\ Len(Tail(queue)) = Len(queue) - 1
                            /\ Len(queue) > 0 /\ Tail(queue) # queue
                            /\ Head(queue) \in 1..scope.requests
  <1>1. scope.requests \in Nat /\ max_retries \in Nat \ {0}
    BY SessionBounds
  <1>2. 1..scope.requests \subseteq Request
    BY DEF Request
  <1> DEFINE S == 1..scope.requests
  <1>3. queue \in Seq(S) /\ arrived \in Nat
    BY <1>1 DEF Jobs
  <1> HIDE DEF S
  <1>4. /\ Len(queue) \in Nat
        /\ queue # <<>> => /\ Tail(queue) \in Seq(S) /\ Len(Tail(queue)) = Len(queue) - 1
                           /\ Len(queue) > 0 /\ Head(queue) \in S
    BY <1>3
  <1>5. queue # <<>> => Tail(queue) # queue
    BY <1>4
  <1> QED
    BY <1>1, <1>2, <1>3, <1>4, <1>5 DEF S

\* Three ways a step keeps the account: the state is not one of Opening, or was
\* already; or a request was taken from the queue; or the retries start again.
LEMMA PaidFacts ==
  ASSUME CInv, scope \in Scopes, UNCHANGED <<scope, arrived>>, retry' \in Nat,
         UNCHANGED queue \/ (queue # <<>> /\ queue' = Tail(queue)),
         \/ retry' <= max_retries
         \/ retry' = retry /\ (queue' = queue /\ state' \in Opening => state \in Opening)
         \/ retry' = retry + 1 /\ state \in Opening /\ state' \notin Opening
  PROVE  Paid' /\ queue' \in Seq(1..scope'.requests) /\ Len(queue') <= arrived'
  <1>1. /\ Len(queue) \in Nat /\ arrived \in Nat /\ max_retries \in Nat
        /\ queue # <<>> => /\ Tail(queue) \in Seq(1..scope.requests)
                           /\ Len(Tail(queue)) = Len(queue) - 1
                           /\ Len(queue) > 0
    BY QueueFacts DEF CInv
  <1>2. /\ queue' \in Seq(1..scope'.requests) /\ Len(queue') \in Nat
        /\ Len(queue') <= Len(queue)
        /\ queue' = queue \/ Len(queue') = Len(queue) - 1
    BY <1>1 DEF CInv, Jobs
  <1>3. /\ retry \in Nat /\ Len(queue) <= arrived
        /\ retry + Len(queue) + Claim <= max_retries + arrived + 1
    BY DEF CInv, Jobs, Counters, Paid
  <1>4. Claim \in {0, 1} /\ Claim' \in {0, 1}
    BY DEF Claim
  <1>5. /\ state \in Opening => Claim = 1
        /\ state \notin Opening => Claim = 0
        /\ state' \in Opening => Claim' = 1
        /\ state' \notin Opening => Claim' = 0
    BY DEF Claim
  <1>6. retry' + Len(queue') + Claim' <= max_retries + arrived + 1
    <2>1. CASE retry' <= max_retries
      BY <1>1, <1>2, <1>3, <1>4, <2>1
    <2>2. CASE retry' = retry /\ (queue' = queue /\ state' \in Opening => state \in Opening)
      BY <1>1, <1>2, <1>3, <1>4, <1>5, <2>2
    <2>3. CASE retry' = retry + 1 /\ state \in Opening /\ state' \notin Opening
      BY <1>1, <1>2, <1>3, <1>4, <1>5, <2>3
    <2> QED
      BY <2>1, <2>2, <2>3
  <1> QED
    BY <1>1, <1>2, <1>3, <1>6 DEF Paid

\* The rest of the invariant, from what a step did to each of its parts.
LEMMA CountersOn ==
  ASSUME CInv, scope \in Scopes, UNCHANGED <<scope, arrived>>, retry' \in Nat,
         UNCHANGED queue \/ (queue # <<>> /\ queue' = Tail(queue)),
         \/ retry' <= max_retries
         \/ retry' = retry /\ (queue' = queue /\ state' \in Opening => state \in Opening)
         \/ retry' = retry + 1 /\ state \in Opening /\ state' \notin Opening,
         request' = request \/ (queue # <<>> /\ request' = Head(queue)),
         state' \in State, {silence', unsilence'} \subseteq 0..AT_ENABLE_FLASHEXIT,
         alternate' \in 0..(alternate_maxcnt + 1) \cup {max_retries}
  PROVE  CInv'
  <1>1. Paid' /\ queue' \in Seq(1..scope'.requests) /\ Len(queue') <= arrived'
    BY PaidFacts
  <1>2. request' \in Request \cup {NoFile}
    BY QueueFacts DEF CInv, Jobs
  <1>3. Jobs'
    BY <1>1, <1>2 DEF CInv, Jobs
  <1>4. Counters'
    BY DEF Counters
  <1> QED
    BY <1>1, <1>3, <1>4 DEF CInv

LEMMA CountersFacts ==
  ASSUME CInv
  PROVE  /\ retry \in Nat /\ state \in State
         /\ silence \in 0..3 /\ unsilence \in 0..3 /\ AT_ENABLE_FLASHEXIT = 3
         /\ alternate \in 0..(alternate_maxcnt + 1) \cup {max_retries}
         /\ 0 \in 0..(alternate_maxcnt + 1) /\ max_retries \in Nat
  BY SessionBounds DEF CInv, Counters, AT_ENABLE_FLASHEXIT, alternate_maxcnt

\* The packet handlers.
LEMMA CompletionCounts ==
  ASSUME CInv, scope \in Scopes, UNCHANGED <<scope, arrived>>, NEW g, NEW again \in BOOLEAN,
         handle_fuota_completion(again, g), retry' \in {0, retry},
         alternate' \in 0..(alternate_maxcnt + 1) \cup {max_retries}
  PROVE  CInv'
  <1>1. retry \in Nat /\ silence \in 0..3 /\ unsilence \in 0..3 /\ AT_ENABLE_FLASHEXIT = 3
        /\ max_retries \in Nat
    BY CountersFacts
  <1>2. {silence', unsilence'} \subseteq 0..AT_ENABLE_FLASHEXIT
    BY <1>1 DEF handle_fuota_completion
  <1>3. /\ UNCHANGED queue \/ (queue # <<>> /\ queue' = Tail(queue))
        /\ request' = request \/ (queue # <<>> /\ request' = Head(queue))
    BY DEF handle_fuota_completion
  <1>4. CASE queue # <<>>
    <2>1. queue' = Tail(queue) /\ state' \in {"GATEWAY_PATH_SILENCE", "OPEN_FILE"}
      BY <1>4 DEF handle_fuota_completion, open_requested_firmware, AskGateway, Rest
    <2>2. queue' # queue
      BY <1>4, <2>1, QueueFacts DEF CInv
    <2>3. state' \in State
      BY <2>1 DEF State
    <2> QED
      BY <1>1, <1>2, <1>3, <2>2, <2>3, CountersOn
  <1>5. CASE queue = <<>>
    <2>1. state' \in {"GATEWAY_PATH_UNSILENCE", "NETWORK_UNSILENCE"}
      BY <1>5 DEF handle_fuota_completion, AskGateway, process_rffuota_disable_sequence,
                  EndLeaves
    <2>2. state' \in State /\ state' \notin Opening
      BY <2>1 DEF State, Opening
    <2> QED
      BY <1>1, <1>2, <1>3, <2>2, CountersOn
  <1> QED
    BY <1>4, <1>5

LEMMA DequeueCounts ==
  ASSUME CInv, scope \in Scopes, UNCHANGED <<scope, arrived, retry, alternate, unsilence>>, NEW g,
         DequeueOr("ROLLBACK_TO_NORMAL_COMM_MODE", g)
  PROVE  CInv'
  <1>1. retry \in Nat /\ silence \in 0..3 /\ unsilence \in 0..3 /\ AT_ENABLE_FLASHEXIT = 3
        /\ alternate \in 0..(alternate_maxcnt + 1) \cup {max_retries}
    BY CountersFacts
  <1>2. /\ UNCHANGED <<silence, request>>
        /\ \/ /\ queue # <<>> /\ queue' = Tail(queue) /\ state' = "GATEWAY_PATH_SILENCE"
           \/ /\ UNCHANGED queue /\ state' = "ROLLBACK_TO_NORMAL_COMM_MODE"
    BY DEF DequeueOr, open_requested_firmware, AskGateway, Rest
  <1>3. state' \in State /\ (queue' = queue => state' \notin Opening)
    <2>1. CASE queue # <<>> /\ queue' = Tail(queue) /\ state' = "GATEWAY_PATH_SILENCE"
      <3>1. queue' # queue
        BY <2>1, QueueFacts DEF CInv
      <3> QED
        BY <2>1, <3>1 DEF State
    <2>2. CASE UNCHANGED queue /\ state' = "ROLLBACK_TO_NORMAL_COMM_MODE"
      BY <2>2 DEF State, Opening
    <2> QED
      BY <1>2, <2>1, <2>2
  <1> QED
    BY <1>1, <1>2, <1>3, CountersOn

LEMMA PacketCounts ==
  ASSUME CInv, scope \in Scopes,
         OpenFile \/ GatewaySilence \/ NetworkSilence \/ GatewayUnsilence \/ Rollback
  PROVE  CInv'
  <1>1. /\ retry \in Nat /\ silence \in 0..3 /\ unsilence \in 0..3 /\ AT_ENABLE_FLASHEXIT = 3
        /\ alternate \in 0..(alternate_maxcnt + 1) \cup {max_retries} /\ state \in State
        /\ 0 \in 0..(alternate_maxcnt + 1) /\ max_retries \in Nat
    BY CountersFacts
  <1>2. CASE OpenFile
    <2>1. /\ UNCHANGED <<scope, arrived, unsilence, retry, alternate, queue, request>>
          /\ silence' = 0 /\ state' = "GATEWAY_PATH_SILENCE" /\ state = "OPEN_FILE"
      BY <1>2 DEF OpenFile, Packet, AskGateway
    <2>2. state' \in State /\ state \in Opening
      BY <2>1 DEF State, Opening
    <2>3. {silence', unsilence'} \subseteq 0..AT_ENABLE_FLASHEXIT
      BY <1>1, <2>1
    <2> QED
      BY <1>1, <2>1, <2>2, <2>3, CountersOn
  <1>3. CASE GatewaySilence
    <2>1. /\ UNCHANGED <<scope, arrived, unsilence, queue, request>>
          /\ state = "GATEWAY_PATH_SILENCE" /\ state \in Opening
      BY <1>3 DEF GatewaySilence, Packet, command_response_timeout_at_fuota, steps, Opening
    <2>2. \/ /\ UNCHANGED <<retry, alternate>>
             /\ \/ silence < AT_ENABLE_FLASHEXIT /\ silence' = silence + 1
                \/ silence' = 0 \/ silence' = silence
             /\ Goes({"GATEWAY_PATH_SILENCE", "NETWORK_SILENCE"})
          \/ /\ retry' = retry + 1 /\ alternate' = 0 /\ silence' = silence
             /\ state' = "ROLLBACK_TO_NORMAL_COMM_MODE"
      BY <1>3 DEF GatewaySilence, command_response_timeout_at_fuota, steps, Rest, Goes
    <2>3. {silence', unsilence'} \subseteq 0..AT_ENABLE_FLASHEXIT
      BY <1>1, <2>1, <2>2
    <2>4. state' \in State /\ (retry' = retry + 1 => state' \notin Opening)
      BY <1>1, <2>2, GoesFacts DEF State, Opening
    <2> QED
      BY <1>1, <2>1, <2>2, <2>3, <2>4, CountersOn
  <1>4. CASE NetworkSilence
    <2>1. /\ UNCHANGED <<scope, arrived, silence, unsilence, queue, request>>
          /\ \/ /\ UNCHANGED <<retry, alternate>>
                /\ Goes({"NETWORK_SILENCE", "SECTOR_READ"})
             \/ retry' = 0 /\ alternate' = 0 /\ state' = "ROLLBACK_TO_NORMAL_COMM_MODE"
      BY <1>4 DEF NetworkSilence, Packet, command_response_timeout_at_fuota, steps, Rest, Goes
    <2>2. state' \in Closed
      BY <2>1, GoesFacts DEF Closed, State, Opening
    <2>3. state' \in State /\ state' \notin Opening
      BY <2>2 DEF Closed
    <2> QED
      BY <1>1, <2>1, <2>3, CountersOn
  <1>5. CASE GatewayUnsilence
    <2>1. UNCHANGED <<scope, arrived, retry, alternate>>
      BY <1>5 DEF GatewayUnsilence, Packet
    <2>2. CASE /\ UNCHANGED <<silence, queue, request>>
               /\ \/ unsilence < AT_ENABLE_FLASHEXIT /\ unsilence' = unsilence + 1
                  \/ unsilence' = unsilence
               /\ Goes({"GATEWAY_PATH_UNSILENCE"})
      <3>1. state' \in Closed
        BY <2>2, GoesFacts DEF Closed, State, Opening
      <3>2. state' \in State /\ state' \notin Opening
        BY <3>1 DEF Closed
      <3>3. {silence', unsilence'} \subseteq 0..AT_ENABLE_FLASHEXIT
        BY <1>1, <2>2
      <3> QED
        BY <1>1, <2>1, <2>2, <3>2, <3>3, CountersOn
    <2>3. CASE unsilence' = unsilence /\ DequeueOr("ROLLBACK_TO_NORMAL_COMM_MODE", Got)
      BY <2>1, <2>3, DequeueCounts
    <2> QED
      BY <1>5, <2>2, <2>3 DEF GatewayUnsilence, Goes
  <1>6. CASE Rollback
    <2>1. /\ UNCHANGED <<scope, arrived, retry, alternate, unsilence>>
          /\ state = "ROLLBACK_TO_NORMAL_COMM_MODE"
      BY <1>6 DEF Rollback, Packet
    <2>2. CASE DequeueOr(state, Got)
      BY <2>1, <2>2, DequeueCounts
    <2>3. CASE UNCHANGED <<state, silence, queue, request>>
      BY <1>1, <2>1, <2>3, CountersOn
    <2> QED
      BY <1>6, <2>2, <2>3 DEF Rollback
  <1> QED
    BY <1>2, <1>3, <1>4, <1>5, <1>6

LEMMA AnsweredCounts ==
  ASSUME CInv, scope \in Scopes, Answered
  PROVE  CInv'
  <1>1. /\ retry \in Nat /\ silence \in 0..3 /\ unsilence \in 0..3 /\ AT_ENABLE_FLASHEXIT = 3
        /\ alternate \in 0..(alternate_maxcnt + 1) \cup {max_retries} /\ state \in State
        /\ 0 \in 0..(alternate_maxcnt + 1) /\ max_retries \in Nat
    BY CountersFacts
  <1>2. state \in Asking /\ UNCHANGED <<scope, arrived>> /\ (Taken \/ Refused)
    BY DEF Answered, Packet
  <1>3. ASSUME NEW S \in SUBSET Closed, Goes(S),
               UNCHANGED <<silence, unsilence, queue, request>>,
               alternate' \in {alternate, 0}, retry' \in Nat, retry' <= max_retries
        PROVE  CInv'
    <2>1. state' \in State
      BY <1>3, GoesFacts DEF Closed
    <2> QED
      BY <1>1, <1>2, <1>3, <2>1, CountersOn
  <1>4. Asking \subseteq Closed /\ "ACTIVATE_NEW_FWIMAGE" \in Closed
    BY DEF Asking, CommandOf, Closed, State, Opening
  <1>5. CASE Taken
    <2>1. ASSUME NEW st \in Closed, NEW g, Proceed(st, g)
          PROVE  CInv'
      <3>1. Goes({st}) /\ {st} \in SUBSET Closed
        BY <2>1 DEF Proceed, Goes
      <3> QED
        BY <1>1, <1>3, <2>1, <3>1 DEF Proceed
    <2> DEFINE on == [SECTOR_READ |-> AfterSector, FWIMAGE_OF_SECTOR_COUNT |-> "ERASE_FLASH",
                      ERASE_FLASH |-> "FW_IMAGE_TRANSFER",
                      FW_IMAGE_ENDOF_PAGE_TRANSFER |-> "NEW_FWIMAGE_CRC_CALCULATE",
                      ACTIVATE_NEW_FWIMAGE |-> "SEND_ACTIVATE_CMD"]
    <2>2. \A st \in DOMAIN on : on[st] \in Closed
      BY DEF AfterSector, Closed, State, Opening
    <2>3. "READ_AND_COMPARE_FW_VERSION" \in Closed
      BY DEF Closed, State, Opening
    <2>4. \/ \E st \in Closed : \E g : Proceed(st, g)
          \/ /\ retry' = 0 /\ alternate' = 0
             /\ \E g : handle_fuota_completion(TRUE, g)
      BY <1>4, <1>5, <2>2, <2>3 DEF Taken
    <2> HIDE DEF on
    <2> QED
      BY <1>1, <1>2, <2>1, <2>4, CompletionCounts
  <1>6. CASE Refused
    <2>1. Limit <= max_retries /\ Limit \in Int
      BY <1>1 DEF Limit
    <2>2. \/ /\ retry < Limit /\ retry' = retry + 1 /\ alternate' \in {alternate, 0}
             /\ UNCHANGED <<silence, unsilence, queue, request>>
             /\ Goes({"ACTIVATE_NEW_FWIMAGE", state})
          \/ /\ retry' = 0 /\ UNCHANGED alternate
             /\ \E g : handle_fuota_completion(TRUE, g)
      BY <1>6 DEF Refused, Goes
    <2>3. CASE /\ retry < Limit /\ retry' = retry + 1 /\ alternate' \in {alternate, 0}
               /\ UNCHANGED <<silence, unsilence, queue, request>>
               /\ Goes({"ACTIVATE_NEW_FWIMAGE", state})
      <3>1. retry' \in Nat /\ retry' <= max_retries
        BY <1>1, <2>1, <2>3
      <3>2. {"ACTIVATE_NEW_FWIMAGE", state} \in SUBSET Closed
        BY <1>2, <1>4
      <3> QED
        BY <1>3, <2>3, <3>1, <3>2
    <2>4. CASE retry' = 0 /\ UNCHANGED alternate /\ \E g : handle_fuota_completion(TRUE, g)
      BY <1>1, <1>2, <2>4, CompletionCounts
    <2> QED
      BY <2>2, <2>3, <2>4
  <1> QED
    BY <1>2, <1>5, <1>6

LEMMA LeafCounts ==
  ASSUME CInv, scope \in Scopes, LeafTimeout \/ LeafAnswer
  PROVE  CInv'
  <1>1. retry \in Nat /\ silence \in 0..3 /\ unsilence \in 0..3 /\ AT_ENABLE_FLASHEXIT = 3
        /\ alternate \in 0..(alternate_maxcnt + 1) \cup {max_retries} /\ state \in State
    BY CountersFacts
  <1>2. /\ UNCHANGED <<scope, arrived, silence, unsilence, retry, alternate, queue, request>>
        /\ \E ch : SendAgain(ch) \/ StepDone(ch) \/ AttemptFailed(ch)
    BY DEF LeafTimeout, LeafAnswer, InLoop
  <1>3. ASSUME NEW ch, LeafDone(ch) \/ LeafCommand(ch)
        PROVE  state' \in {state, "GATEWAY_PATH_UNSILENCE", "SECTOR_READ"}
    BY <1>3 DEF LeafDone, LeafCommand, EndLeaves
  <1>4. \E ch : LeafDone(ch) \/ LeafCommand(ch)
    BY <1>2 DEF SendAgain, StepDone, AttemptFailed
  <1>5. state' \in {state, "GATEWAY_PATH_UNSILENCE", "SECTOR_READ"}
    BY <1>3, <1>4
  <1>6. state' \in State /\ (state' \in Opening => state \in Opening)
    BY <1>1, <1>5 DEF State, Opening
  <1> QED
    BY <1>1, <1>2, <1>6, CountersOn

LEMMA TimerCounts ==
  ASSUME CInv, scope \in Scopes, Retry \/ Alternate \/ FinalFailure
  PROVE  CInv'
  <1>1. /\ retry \in Nat /\ silence \in 0..3 /\ unsilence \in 0..3 /\ AT_ENABLE_FLASHEXIT = 3
        /\ alternate \in 0..(alternate_maxcnt + 1) \cup {max_retries} /\ state \in State
        /\ 0 \in 0..(alternate_maxcnt + 1) /\ max_retries \in Nat
    BY CountersFacts
  <1>2. UNCHANGED <<scope, arrived, silence, unsilence, request>>
    BY DEF Retry, Alternate, FinalFailure, Fires, steps
  <1>3. CASE Retry
    <2>1. retry < max_retries /\ retry' = retry + 1 /\ UNCHANGED <<alternate, queue, state>>
      BY <1>3 DEF Retry, Fires
    <2>2. retry' \in Nat /\ retry' <= max_retries
      BY <1>1, <2>1
    <2> QED
      BY <1>1, <1>2, <2>1, <2>2, CountersOn
  <1>4. CASE Alternate
    <2>1. /\ retry' = 0 /\ UNCHANGED <<queue, state>> /\ alternate < alternate_maxcnt
          /\ alternate' = alternate + 2 \/ alternate' = max_retries
             \/ alternate' = alternate_maxcnt
      BY <1>4 DEF Alternate, Fires
    <2>2. alternate' \in 0..(alternate_maxcnt + 1) \cup {max_retries}
      BY <1>1, <2>1 DEF alternate_maxcnt
    <2> QED
      BY <1>1, <1>2, <2>1, <2>2, CountersOn
  <1>5. CASE FinalFailure
    <2>1. /\ retry' = 0 /\ alternate' = 0
          /\ UNCHANGED queue \/ (queue # <<>> /\ queue' = Tail(queue))
          /\ state' \in {"OPEN_FILE", "NETWORK_SILENCE"}
      BY <1>5 DEF FinalFailure
    <2>2. state' \in State
      BY <2>1 DEF State
    <2> QED
      BY <1>1, <1>2, <2>1, <2>2, CountersOn
  <1> QED
    BY <1>3, <1>4, <1>5

LEMMA UploadCounts ==
  ASSUME CInv, scope \in Scopes, Upload
  PROVE  CInv'
  <1>1. /\ retry \in Nat /\ silence \in 0..3 /\ unsilence \in 0..3 /\ AT_ENABLE_FLASHEXIT = 3
        /\ alternate \in 0..(alternate_maxcnt + 1) \cup {max_retries}
    BY CountersFacts
  <1>2. UNCHANGED <<scope, arrived, retry>> /\ alternate' \in {alternate, alternate_maxcnt + 1}
    BY DEF Upload
  <1>3. alternate' \in 0..(alternate_maxcnt + 1) \cup {max_retries}
    BY <1>1, <1>2 DEF alternate_maxcnt
  <1>4. \/ /\ state' = "FW_IMAGE_ENDOF_PAGE_TRANSFER"
           /\ UNCHANGED <<silence, unsilence, queue, request>>
        \/ \E g : handle_fuota_completion(FALSE, g)
    BY DEF Upload
  <1>5. CASE /\ state' = "FW_IMAGE_ENDOF_PAGE_TRANSFER"
             /\ UNCHANGED <<silence, unsilence, queue, request>>
    <2>1. state' \in State /\ state' \notin Opening
      BY <1>5 DEF State, Opening
    <2> QED
      BY <1>1, <1>2, <1>3, <1>5, <2>1, CountersOn
  <1>6. CASE \E g : handle_fuota_completion(FALSE, g)
    BY <1>1, <1>2, <1>3, <1>6, CompletionCounts
  <1> QED
    BY <1>4, <1>5, <1>6

LEMMA QueueCounts ==
  ASSUME CInv, scope \in Scopes, process_fuota_queue
  PROVE  CInv'
  <1>1. retry \in Nat /\ silence \in 0..3 /\ unsilence \in 0..3 /\ AT_ENABLE_FLASHEXIT = 3
        /\ alternate \in 0..(alternate_maxcnt + 1) \cup {max_retries}
    BY CountersFacts
  <1>2. UNCHANGED <<scope, arrived, silence, unsilence, retry, alternate>>
    BY DEF process_fuota_queue
  <1>3. CASE queue = <<>>
    <2>1. UNCHANGED <<queue, request>> /\ state' = "ROLLBACK_TO_NORMAL_COMM_MODE"
      BY <1>3 DEF process_fuota_queue, Rest
    <2>2. state' \in State /\ state' \notin Opening
      BY <2>1 DEF State, Opening
    <2> QED
      BY <1>1, <1>2, <2>1, <2>2, CountersOn
  <1>4. CASE queue # <<>>
    <2>1. /\ request' = Head(queue) /\ queue' = Tail(queue) /\ state' = "GATEWAY_PATH_SILENCE"
      BY <1>4 DEF process_fuota_queue, open_requested_firmware, AskGateway
    <2>2. queue' # queue
      BY <1>4, <2>1, QueueFacts DEF CInv
    <2>3. state' \in State
      BY <2>1 DEF State
    <2> QED
      BY <1>1, <1>2, <1>4, <2>1, <2>2, <2>3, CountersOn
  <1> QED
    BY <1>3, <1>4

LEMMA ArriveCounts ==
  ASSUME CInv, scope \in Scopes, Arrive
  PROVE  CInv'
  <1>1. /\ arrived < scope.requests /\ arrived' = arrived + 1 /\ queue' = Append(queue, arrived')
        /\ UNCHANGED <<scope, state, silence, unsilence, retry, alternate, request>>
    BY DEF Arrive, steps, counters
  <1>2. Len(queue) \in Nat /\ arrived \in Nat /\ max_retries \in Nat /\ scope.requests \in Nat
    BY QueueFacts DEF CInv
  <1> DEFINE S == 1..scope.requests
  <1>3. arrived + 1 \in S /\ arrived + 1 \in 0..scope.requests
    BY <1>1, <1>2
  <1>4. queue \in Seq(S)
    BY DEF CInv, Jobs
  <1> HIDE DEF S
  <1>5. queue' \in Seq(S) /\ Len(queue') = Len(queue) + 1
    BY <1>1, <1>3, <1>4
  <1>6. Jobs'
    BY <1>1, <1>2, <1>3, <1>5 DEF CInv, Jobs, S
  <1>7. Counters'
    BY <1>1 DEF CInv, Counters
  <1>8. Paid'
    <2>1. retry + Len(queue) + Claim <= max_retries + arrived + 1 /\ retry \in Nat
      BY DEF CInv, Counters, Paid
    <2>2. Claim' = Claim /\ Claim \in {0, 1}
      BY <1>1 DEF Claim
    <2> QED
      BY <1>1, <1>2, <1>5, <2>1, <2>2 DEF Paid
  <1> QED
    BY <1>6, <1>7, <1>8 DEF CInv

LEMMA OtherCounts ==
  ASSUME CInv, scope \in Scopes, resume_rf_fuota_pending_state_process \/ UNCHANGED vars
  PROVE  CInv'
  <1>1. /\ UNCHANGED <<scope, arrived, silence, unsilence, retry, alternate, queue, request>>
        /\ state' = state \/ (state = "IDLE" /\ state' = "GATEWAY_PATH_SILENCE")
    BY DEF resume_rf_fuota_pending_state_process, vars, steps, counters, job
  <1>2. retry \in Nat /\ silence \in 0..3 /\ unsilence \in 0..3 /\ AT_ENABLE_FLASHEXIT = 3
        /\ alternate \in 0..(alternate_maxcnt + 1) \cup {max_retries} /\ state \in State
    BY CountersFacts
  <1>3. state' \in State /\ (state' \in Opening => state \in Opening)
    BY <1>1, <1>2 DEF State, Opening
  <1> QED
    BY <1>1, <1>2, <1>3, CountersOn

LEMMA NextCounts ==
  ASSUME CInv, scope \in Scopes, [Next]_vars
  PROVE  CInv'
  BY PacketCounts, AnsweredCounts, UploadCounts, LeafCounts, TimerCounts, ArriveCounts,
     QueueCounts, OtherCounts DEF Next

-----------------------------------------------------------------------------
(* Then the files, the answers under way, and the leaves. *)

File == Request \cup {NoFile}
\* From the count of sectors to the verification, the open file is a request's:
\* dynamic_fuota_calculate lets no other pass.
Transferring == {"FWIMAGE_OF_SECTOR_COUNT", "ERASE_FLASH", "FW_IMAGE_TRANSFER",
                 "FW_IMAGE_ENDOF_PAGE_TRANSFER", "NEW_FWIMAGE_CRC_CALCULATE"}
Opened == state \in Transferring => file \in Request
Filed ==
  /\ cached \in File /\ file \in File \cup {Unreadable} /\ flash \in File \cup {Unreadable}
  /\ {waiting, timer, alt, sized, confirmed} \subseteq BOOLEAN
Short == Len(answers) <= scope.late
Todo ==
  /\ ToSet(loop.todo) \subseteq ToSet(detect_leaf_nodes)
  /\ Looping => current = Head(loop.todo)
DInv == Filed /\ Short /\ Todo /\ Opened

\* What a handler hands over, with the types of its parts.
Held(g) ==
  /\ Handed(g) /\ {g.waiting, g.alt, g.sized} \subseteq BOOLEAN
  /\ g.cached \in File /\ g.request \in File /\ g.file \in File \cup {Unreadable}
  /\ Len(g.ch) <= scope.late

\* A handler may change parts of it to values of the same type.
LEMMA HeldParts ==
  ASSUME NEW g, Held(g)
  PROVE  /\ \A v \in BOOLEAN : LET h == [g EXCEPT !.waiting = v] IN Held(h) /\ h.file = g.file
         /\ \A v \in BOOLEAN : LET h == [g EXCEPT !.alt = v] IN Held(h) /\ h.file = g.file
         /\ \A v \in File : LET h == [g EXCEPT !.cached = v] IN Held(h) /\ h.file = g.file
         /\ \A v \in File : LET h == [g EXCEPT !.request = v] IN Held(h) /\ h.file = g.file
         /\ \A v \in Book : LET h == [g EXCEPT !.book = v] IN Held(h) /\ h.file = g.file
         /\ \A v \in BOOLEAN : Held([g EXCEPT !.sized = v])
         /\ \A v \in File \cup {Unreadable} : Held([g EXCEPT !.file = v])
         /\ \A v \in Seq(Answer) : Len(v) <= scope.late => Held([g EXCEPT !.ch = v])
  <1>1. ASSUME NEW v \in BOOLEAN
        PROVE  LET h == [g EXCEPT !.waiting = v] IN Held(h) /\ h.file = g.file
    BY DEF Held, Handed
  <1>2. ASSUME NEW v \in BOOLEAN
        PROVE  LET h == [g EXCEPT !.alt = v] IN Held(h) /\ h.file = g.file
    BY DEF Held, Handed
  <1>3. ASSUME NEW v \in File
        PROVE  LET h == [g EXCEPT !.cached = v] IN Held(h) /\ h.file = g.file
    BY DEF Held, Handed
  <1>4. ASSUME NEW v \in File
        PROVE  LET h == [g EXCEPT !.request = v] IN Held(h) /\ h.file = g.file
    BY DEF Held, Handed
  <1>5. ASSUME NEW v \in Book
        PROVE  LET h == [g EXCEPT !.book = v] IN Held(h) /\ h.file = g.file
    BY DEF Held, Handed
  <1>6. ASSUME NEW v \in BOOLEAN
        PROVE  Held([g EXCEPT !.sized = v])
    BY DEF Held, Handed
  <1>7. ASSUME NEW v \in File \cup {Unreadable}
        PROVE  Held([g EXCEPT !.file = v])
    BY DEF Held, Handed
  <1>8. ASSUME NEW v \in Seq(Answer), Len(v) <= scope.late
        PROVE  Held([g EXCEPT !.ch = v])
    BY <1>8 DEF Held, Handed
  <1> QED
    BY <1>1, <1>2, <1>3, <1>4, <1>5, <1>6, <1>7, <1>8

LEMMA HeldRecorded ==
  ASSUME NEW g, Held(g), NEW s \in {"open", "failed", "success"}
  PROVE  Held(Recorded(g, s)) /\ Recorded(g, s).file = g.file
  <1> DEFINE b == ondemand_fuota_update_status(g.book, g.request, s)
  <1>1. b \in Book
    BY DEF ondemand_fuota_update_status, Held, Handed, Book
  <1>2. Recorded(g, s) = [g EXCEPT !.book = b]
    BY DEF Recorded
  <1> HIDE DEF b
  <1> QED
    BY <1>1, <1>2, HeldParts

\* The answers under way are never more than the bound.
LEMMA PutLength ==
  ASSUME scope \in Scopes, NEW ch \in Seq(Answer), Len(ch) <= scope.late, NEW a \in Answer
  PROVE  Len(Put(ch, a)) <= scope.late
  <1>1. scope.late \in Nat
    BY SessionBounds
  <1>2. Len(Append(ch, a)) = Len(ch) + 1 /\ Len(ch) \in Nat
    <2> HIDE DEF Answer
    <2> QED
      OBVIOUS
  <1> QED
    BY <1>1, <1>2 DEF Put

LEMMA HeardLength ==
  ASSUME scope \in Scopes, NEW ch \in Seq(Answer), Len(ch) <= scope.late, NEW c \in Command,
         NEW x \in Heard(ch, c)
  PROVE  x \in Seq(Answer) /\ Len(x) <= scope.late
  <1>1. Refusals(c) \subseteq Answer /\ c \in Answer
    BY DEF Refusals, Answer, Command, CommissionAnswer
  <1> QED
    BY <1>1, PutLength, HeardFacts DEF Heard

LEMMA CarriedTypes ==
  ASSUME scope \in Scopes, confirmed \in BOOLEAN,
         NEW ch \in Seq(Answer), Len(ch) <= scope.late, NEW c \in Command,
         NEW img \in File \cup {Unreadable}, Carried(c, ch, img)
  PROVE  /\ Len(answers') <= scope.late /\ flash' \in File \cup {Unreadable}
         /\ confirmed' \in BOOLEAN
  <1> DEFINE right == img = cached'
             before == confirmed /\ request' = request
             reply == IF c = "verify" /\ ~right THEN "refused" ELSE c
  <1>1. Refusals(c) \subseteq Answer /\ reply \in Answer
    BY DEF Refusals, Answer, Command, CommissionAnswer, Commissioning, Update
  <1>2. answers' = ch \/ \E a \in Refusals(c) \cup {reply} : answers' = Put(ch, a)
    BY DEF Carried
  <1>3. confirmed' = before \/ confirmed' = (before \/ (c = "verify" /\ right))
    BY DEF Carried
  <1>4. flash' = img \/ flash' = NoFile
    BY DEF Carried
  <1> HIDE DEF reply
  <1>5. Len(answers') <= scope.late
    BY <1>1, <1>2, PutLength
  <1>6. confirmed' \in BOOLEAN
    BY <1>3
  <1> QED
    BY <1>4, <1>5, <1>6 DEF File

\* What the handlers rely on.
Ready == DInv /\ scope \in Scopes /\ scope' = scope

LEMMA BuildTypes ==
  ASSUME Ready, NEW g, Held(g), NEW c \in Command, build_and_store_fuota_cmd(c, g.ch)
  PROVE  /\ Short' /\ flash' \in File \cup {Unreadable}
         /\ confirmed' \in BOOLEAN /\ waiting' \in BOOLEAN /\ timer' \in BOOLEAN
  <1> DEFINE sent == IF alt' THEN StepCommand(network') ELSE c
  <1>1. sent \in Command
    BY DEF StepCommand, Command, Commissioning
  <1>2. waiting' = TRUE /\ timer' = TRUE /\ Carried(sent, g.ch, flash)
    BY DEF build_and_store_fuota_cmd
  <1>3. /\ scope \in Scopes /\ scope' = scope /\ confirmed \in BOOLEAN
        /\ flash \in File \cup {Unreadable} /\ g.ch \in Seq(Answer) /\ Len(g.ch) <= scope.late
    BY DEF Ready, DInv, Filed, Held, Handed
  <1> HIDE DEF sent
  <1>4. /\ Len(answers') <= scope.late /\ flash' \in File \cup {Unreadable}
        /\ confirmed' \in BOOLEAN
    BY <1>1, <1>2, <1>3, CarriedTypes
  <1> QED
    BY <1>2, <1>3, <1>4 DEF Short

LEMMA NothingTypes ==
  ASSUME Ready, NEW g, Held(g), NothingSent(g)
  PROVE  /\ Short' /\ flash' \in File \cup {Unreadable}
         /\ confirmed' \in BOOLEAN /\ waiting' \in BOOLEAN /\ timer' \in BOOLEAN
  BY DEF Ready, DInv, Filed, Held, NothingSent, Short

LEMMA SettleTypes ==
  ASSUME NEW g, Held(g), Settle(g)
  PROVE  /\ cached' \in File /\ file' \in File \cup {Unreadable} /\ sized' \in BOOLEAN
         /\ file' = g.file
  BY DEF Held, Settle

\* The list of the leaves to do stays.
LEMMA SameLeaves ==
  ASSUME Ready, UNCHANGED leaves
  PROVE  Todo'
  BY DEF Ready, DInv, Todo, leaves, Looping, detect_leaf_nodes, nodes

LEMMA TypesOn ==
  ASSUME Todo', Short', flash' \in File \cup {Unreadable},
         confirmed' \in BOOLEAN, waiting' \in BOOLEAN, timer' \in BOOLEAN, alt' \in BOOLEAN,
         cached' \in File, file' \in File \cup {Unreadable}, sized' \in BOOLEAN,
         state' \in Transferring => file' \in Request
  PROVE  DInv'
  BY DEF DInv, Filed, Opened

LEMMA RestTypes ==
  ASSUME Ready, NEW g, Held(g), NEW st, Rest(st, g), st \in Transferring => g.file \in Request
  PROVE  DInv'
  <1>1. /\ state' = st /\ alt' = g.alt /\ UNCHANGED leaves /\ Settle(g) /\ NothingSent(g)
    BY DEF Rest
  <1>2. Todo'
    BY <1>1, SameLeaves
  <1>3. alt' \in BOOLEAN
    BY <1>1 DEF Held
  <1> QED
    BY <1>1, <1>2, <1>3, SettleTypes, NothingTypes, TypesOn

LEMMA AskTypes ==
  ASSUME Ready, NEW g, Held(g), NEW st \in Asking, Ask(st, g),
         st \in Transferring => g.file \in Request
  PROVE  DInv'
  <1> DEFINE h == calculate_crc_for_target_node(st, g)
  <1>1. /\ state' = st /\ alt' = g.alt /\ UNCHANGED leaves /\ Settle(h)
        /\ build_and_store_fuota_cmd(CommandOf[st], g.ch)
    BY DEF Ask
  <1>2. Todo'
    BY <1>1, SameLeaves
  <1>3. alt' \in BOOLEAN
    BY <1>1 DEF Held
  <1>4. Held(h) /\ h.file = g.file
    <2>1. CASE st = "NEW_FWIMAGE_CRC_CALCULATE" /\ g.cached = NoFile
      <3>1. g.file \in File
        BY <2>1 DEF Transferring, File
      <3>2. h = [g EXCEPT !.cached = g.file]
        BY <2>1 DEF calculate_crc_for_target_node
      <3> QED
        BY <3>1, <3>2, HeldParts
    <2>2. CASE ~(st = "NEW_FWIMAGE_CRC_CALCULATE" /\ g.cached = NoFile)
      BY <2>2 DEF calculate_crc_for_target_node
    <2> QED
      BY <2>1, <2>2
  <1> HIDE DEF h
  <1>5. /\ Short' /\ flash' \in File \cup {Unreadable}
        /\ confirmed' \in BOOLEAN /\ waiting' \in BOOLEAN /\ timer' \in BOOLEAN
    BY <1>1, CommandFacts, BuildTypes
  <1> QED
    BY <1>1, <1>2, <1>3, <1>4, <1>5, SettleTypes, TypesOn

LEMMA AskGatewayTypes ==
  ASSUME Ready, NEW g, Held(g), NEW st, NEW n, AskGateway(st, n, g), st \notin Transferring
  PROVE  DInv'
  <1>1. /\ state' = st /\ alt' = g.alt /\ UNCHANGED leaves /\ Settle(g)
        /\ build_and_store_fuota_cmd(StepCommand(n), g.ch)
    BY DEF AskGateway
  <1>2. Todo'
    BY <1>1, SameLeaves
  <1>3. alt' \in BOOLEAN
    BY <1>1 DEF Held
  <1>4. /\ Short' /\ flash' \in File \cup {Unreadable}
        /\ confirmed' \in BOOLEAN /\ waiting' \in BOOLEAN /\ timer' \in BOOLEAN
    BY <1>1, CommandFacts, BuildTypes
  <1> QED
    BY <1>1, <1>2, <1>3, <1>4, SettleTypes, TypesOn

LEMMA BeginTypes ==
  ASSUME Ready, NEW g, Held(g), NEW todo, NEW off \in BOOLEAN, NEW again,
         ToSet(todo) \subseteq ToSet(detect_leaf_nodes),
         BeginLeaf(todo, off, again, g), state' \notin Transferring
  PROVE  DInv'
  <1>1. /\ loop'.todo = todo /\ current' = Head(todo) /\ Settle(g) /\ alt' = (~off \/ g.alt)
        /\ build_and_store_fuota_cmd("9", g.ch)
    BY DEF BeginLeaf
  <1>2. detect_leaf_nodes' = detect_leaf_nodes
    BY DEF Ready, detect_leaf_nodes, nodes
  <1>3. Todo'
    BY <1>1, <1>2 DEF Todo
  <1>4. alt' \in BOOLEAN
    BY <1>1
  <1>5. /\ Short' /\ flash' \in File \cup {Unreadable}
        /\ confirmed' \in BOOLEAN /\ waiting' \in BOOLEAN /\ timer' \in BOOLEAN
    BY <1>1, CommandFacts, BuildTypes
  <1> QED
    BY <1>3, <1>4, <1>5, <1>1, SettleTypes, TypesOn

LEMMA EndTypes ==
  ASSUME Ready, NEW g, Held(g), NEW off \in BOOLEAN, NEW again \in BOOLEAN,
         EndLeaves(off, again, g)
  PROVE  DInv'
  <1>1. /\ loop' = NoLoop /\ Settle(g) /\ alt' = (off /\ g.alt)
        /\ state' \in {"GATEWAY_PATH_UNSILENCE", "SECTOR_READ"}
        /\ \/ NothingSent(g)
           \/ \E c \in {StepCommand(unsilence), "sector"} : build_and_store_fuota_cmd(c, g.ch)
    BY DEF EndLeaves
  <1>2. ToSet(<<>>) = {}
    BY DEF ToSet
  <1>3. Todo'
    BY <1>1, <1>2 DEF Todo, Looping, NoLoop
  <1>4. alt' \in BOOLEAN
    BY <1>1
  <1>5. state' \notin Transferring
    BY <1>1 DEF Transferring
  <1>6. /\ Short' /\ flash' \in File \cup {Unreadable}
        /\ confirmed' \in BOOLEAN /\ waiting' \in BOOLEAN /\ timer' \in BOOLEAN
    BY <1>1, CommandFacts, BuildTypes, NothingTypes
  <1> QED
    BY <1>1, <1>3, <1>4, <1>5, <1>6, SettleTypes, TypesOn

\* Leaves left out are leaves no more, and the others stay.
LEMMA FilteredLeaves ==
  ASSUME TAir, NEW n
  PROVE  ToSet(filter_out_on_demand(detect_leaf_nodes, n)) \subseteq ToSet(detect_leaf_nodes)
  <1> DEFINE q == detect_leaf_nodes
             T == ToSet(q)
             U == T \cap (Meter \ {n})
             r == Filtered(q, Meter \ {n})
  <1>1. q \in Seq(Meter)
    BY LeavesFacts
  <1>2. r = filter_out_on_demand(q, n)
    BY DEF filter_out_on_demand
  <1> HIDE DEF q
  <1>3. q \in Seq(T)
    BY <1>1 DEF ToSet
  <1> HIDE DEF T
  <1>4. r \in Seq(T \cap (Meter \ {n}))
    BY <1>3, FilteredFacts
  <1>5. r \in Seq(U) /\ U \subseteq T
    BY <1>4
  <1> HIDE DEF U, r
  <1>6. ToSet(r) \subseteq U
    BY <1>5 DEF ToSet
  <1> QED
    BY <1>2, <1>5, <1>6 DEF q, T

LEMMA DisableTypes ==
  ASSUME Ready, TAir, NEW g, Held(g), NEW again \in BOOLEAN,
         process_rffuota_disable_sequence(again, g)
  PROVE  DInv'
  <1> DEFINE todo == filter_out_on_demand(detect_leaf_nodes, current)
  <1>1. ToSet(todo) \subseteq ToSet(detect_leaf_nodes)
    BY FilteredLeaves
  <1>2. \/ EndLeaves(TRUE, again, g)
        \/ state' = "NETWORK_UNSILENCE" /\ BeginLeaf(todo, TRUE, again, g)
    BY DEF process_rffuota_disable_sequence
  <1> HIDE DEF todo
  <1>3. CASE EndLeaves(TRUE, again, g)
    BY <1>3, EndTypes
  <1>4. CASE state' = "NETWORK_UNSILENCE" /\ BeginLeaf(todo, TRUE, again, g)
    <2>1. state' \notin Transferring
      BY <1>4 DEF Transferring
    <2> QED
      BY <1>1, <1>4, <2>1, BeginTypes
  <1> QED
    BY <1>2, <1>3, <1>4

LEMMA OpenTypes ==
  ASSUME Ready, NEW g, Held(g), NEW n, open_requested_firmware(n, g)
  PROVE  DInv'
  <1>0. "GATEWAY_PATH_SILENCE" \notin Transferring
    BY DEF Transferring
  <1>1. CASE AskGateway("GATEWAY_PATH_SILENCE", n, [g EXCEPT !.file = g.request, !.sized = TRUE])
    <2> DEFINE f == [g EXCEPT !.file = g.request]
               h == [f EXCEPT !.sized = TRUE]
    <2>1. h = [g EXCEPT !.file = g.request, !.sized = TRUE]
      OBVIOUS
    <2>2. g.request \in File \cup {Unreadable}
      BY DEF Held
    <2>3. Held(f)
      BY <2>2, HeldParts
    <2> HIDE DEF f
    <2>4. Held(h)
      BY <2>3, HeldParts
    <2> HIDE DEF h
    <2> QED
      BY <1>0, <1>1, <2>1, <2>4, AskGatewayTypes
  <1>2. CASE /\ state' = "GATEWAY_PATH_SILENCE" /\ alt' = g.alt /\ UNCHANGED leaves
             /\ Settle(Recorded(g, "open")) /\ NothingSent(g)
    <2>1. Held(Recorded(g, "open"))
      BY HeldRecorded
    <2>2. Todo'
      BY <1>2, SameLeaves
    <2>3. alt' \in BOOLEAN
      BY <1>2 DEF Held
    <2>4. state' \notin Transferring
      BY <1>0, <1>2
    <2> QED
      BY <1>2, <2>1, <2>2, <2>3, <2>4, SettleTypes, NothingTypes, TypesOn
  <1> QED
    BY <1>1, <1>2 DEF open_requested_firmware

LEMMA NextTypes ==
  ASSUME Ready, TAir, NEW g, Held(g), NEW st, NEW n, cansend_fuota_next_command(st, n, g),
         st \in Transferring => g.file \in Request
  PROVE  DInv'
  <1>1. CASE open_requested_firmware(n, g)
    BY <1>1, OpenTypes
  <1>2. CASE st \in {"GATEWAY_PATH_SILENCE", "GATEWAY_PATH_UNSILENCE"} /\ AskGateway(st, n, g)
    <2>1. st \notin Transferring
      BY <1>2 DEF Transferring
    <2> QED
      BY <1>2, <2>1, AskGatewayTypes
  <1>3. CASE st \in Asking /\ Ask(st, g)
    BY <1>3, AskTypes
  <1>4. CASE Ask("SECTOR_READ", g)
    <2>1. "SECTOR_READ" \in Asking /\ "SECTOR_READ" \notin Transferring
      BY DEF Asking, CommandOf, Transferring
    <2> QED
      BY <1>4, <2>1, AskTypes
  <1>5. CASE process_rffuota_enable_sequence_refactored(g)
    <2>1. state' \notin Transferring /\ BeginLeaf(detect_leaf_nodes, FALSE, FALSE, g)
      BY <1>5 DEF process_rffuota_enable_sequence_refactored, Transferring
    <2> QED
      BY <2>1, BeginTypes
  <1>6. CASE AskGateway("GATEWAY_PATH_UNSILENCE", unsilence, g)
    <2>1. "GATEWAY_PATH_UNSILENCE" \notin Transferring
      BY DEF Transferring
    <2> QED
      BY <1>6, <2>1, AskGatewayTypes
  <1>7. CASE process_rffuota_disable_sequence(FALSE, g)
    BY <1>7, DisableTypes
  <1>8. CASE Rest(st, g)
    BY <1>8, RestTypes
  <1> QED
    BY <1>1, <1>2, <1>3, <1>4, <1>5, <1>6, <1>7, <1>8 DEF cansend_fuota_next_command

LEMMA CompletionTypes ==
  ASSUME Ready, TAir, Jobs, NEW g, Held(g), NEW again \in BOOLEAN,
         handle_fuota_completion(again, g)
  PROVE  DInv'
  <1>1. CASE queue # <<>>
    <2> DEFINE h1 == [g EXCEPT !.request = Head(queue)]
               h2 == [h1 EXCEPT !.file = Unreadable]
               h3 == [h2 EXCEPT !.waiting = FALSE]
               h == [h3 EXCEPT !.book = NewBook]
    <2>1. open_requested_firmware(silence, h) \/ Rest("OPEN_FILE", h)
      <3>1. h = [g EXCEPT !.request = Head(queue), !.file = Unreadable,
                          !.waiting = FALSE, !.book = NewBook]
        OBVIOUS
      <3> HIDE DEF h
      <3> QED
        BY <1>1, <3>1 DEF handle_fuota_completion
    <2>2. NewBook \in Book /\ Head(queue) \in File /\ "OPEN_FILE" \notin Transferring
      BY <1>1, QueueFacts DEF Ready, NewBook, Book, File, Transferring
    <2> HIDE DEF h1, h2, h3, h
    <2>3. Held(h)
      <3>1. Held(h1)
        BY <2>2, HeldParts DEF h1
      <3>2. Held(h2)
        BY <3>1, HeldParts DEF h2
      <3>3. Held(h3)
        BY <3>2, HeldParts DEF h3
      <3> QED
        BY <2>2, <3>3, HeldParts DEF h
    <2> QED
      BY <2>1, <2>2, <2>3, OpenTypes, RestTypes
  <1>2. CASE queue = <<>>
    <2>1. CASE process_rffuota_disable_sequence(again, g)
      BY <2>1, DisableTypes
    <2>2. ASSUME NEW ch \in Heard(g.ch, StepCommand(unsilence)) \cup {g.ch},
                 AskGateway("GATEWAY_PATH_UNSILENCE", unsilence, [g EXCEPT !.ch = ch])
          PROVE  DInv'
      <3>1. /\ g.ch \in Seq(Answer) /\ Len(g.ch) <= scope.late
            /\ StepCommand(unsilence) \in Command
        BY CommandFacts DEF Held, Handed
      <3>2. ch \in Seq(Answer) /\ Len(ch) <= scope.late
        BY <2>2, <3>1, HeardLength DEF Ready
      <3> DEFINE h == [g EXCEPT !.ch = ch]
      <3>3. Held(h)
        BY <3>2, HeldParts
      <3>4. AskGateway("GATEWAY_PATH_UNSILENCE", unsilence, h)
        BY <2>2
      <3>5. "GATEWAY_PATH_UNSILENCE" \notin Transferring
        BY DEF Transferring
      <3> HIDE DEF h
      <3> QED
        BY <3>3, <3>4, <3>5, AskGatewayTypes
    <2> QED
      BY <1>2, <2>1, <2>2 DEF handle_fuota_completion
  <1> QED
    BY <1>1, <1>2

LEMMA DequeueTypes ==
  ASSUME Ready, NEW g, Held(g), DequeueOr("ROLLBACK_TO_NORMAL_COMM_MODE", g)
  PROVE  DInv'
  <1>1. \/ open_requested_firmware(silence, g)
        \/ Rest("ROLLBACK_TO_NORMAL_COMM_MODE", g)
    BY DEF DequeueOr
  <1>2. "ROLLBACK_TO_NORMAL_COMM_MODE" \notin Transferring
    BY DEF Transferring
  <1> QED
    BY <1>1, <1>2, OpenTypes, RestTypes

\* What the handlers start from.
LEMMA NowTypes ==
  ASSUME IInv, CInv, DInv
  PROVE  /\ Held(Now) /\ Now.file = file /\ Now.ch = answers
         /\ answers # <<>> => Held(Got) /\ Got.file = file /\ Got.ch = Tail(answers)
  <1>1. /\ scope \in Scopes /\ answers \in Seq(Answer) /\ Len(answers) <= scope.late
        /\ request \in File
    BY DEF IInv, TAir, DInv, Short, CInv, Jobs, File
  <1>2. /\ Handed(Now) /\ Now.ch = answers /\ Now.request = request /\ Now.file = file
        /\ Now.waiting = waiting /\ Now.alt = alt /\ Now.sized = sized /\ Now.cached = cached
    BY NowFacts DEF Now
  <1>3. Held(Now)
    BY <1>1, <1>2 DEF Held, DInv, Filed
  <1>4. ASSUME answers # <<>>
        PROVE  Held(Got) /\ Got.file = file /\ Got.ch = Tail(answers)
    <2>1. Tail(answers) \in Seq(Answer) /\ Len(Tail(answers)) <= scope.late
      <3>1. scope.late \in Nat
        BY <1>1, SessionBounds
      <3> HIDE DEF Answer
      <3>2. Tail(answers) \in Seq(Answer) /\ Len(Tail(answers)) = Len(answers) - 1
            /\ Len(answers) \in Nat
        BY <1>1, <1>4
      <3> QED
        BY <1>1, <3>1, <3>2
    <2>2. Held(Got)
      BY <1>3, <2>1, HeldParts DEF Got
    <2>3. Got.file = file /\ Got.ch = Tail(answers)
      BY DEF Got, Now
    <2> QED
      BY <2>2, <2>3
  <1> QED
    BY <1>2, <1>3, <1>4

LEMMA PacketTypes ==
  ASSUME IInv, CInv, DInv, NEW st, Packet(st)
  PROVE  /\ Ready /\ TAir /\ Jobs /\ state = st /\ Held(Got) /\ Got.file = file
         /\ Held(Recorded(Got, "open")) /\ Recorded(Got, "open").file = file
  <1>1. answers # <<>> /\ state = st /\ scope' = scope
    BY DEF Packet
  <1>2. Held(Got) /\ Got.file = file
    BY <1>1, NowTypes
  <1>3. Held(Recorded(Got, "open")) /\ Recorded(Got, "open").file = file
    BY <1>2, HeldRecorded
  <1> QED
    BY <1>1, <1>2, <1>3 DEF Ready, IInv, TAir, CInv

\* A refusal that ends the update.
LEMMA TerminatedTypes ==
  ASSUME Ready, Held(Got), command_response_timeout_at_fuota([Got EXCEPT !.alt = FALSE])
  PROVE  DInv'
  <1> DEFINE h == [Got EXCEPT !.alt = FALSE]
  <1>1. Held(h)
    BY HeldParts
  <1>2. Rest("ROLLBACK_TO_NORMAL_COMM_MODE", h)
    BY DEF command_response_timeout_at_fuota
  <1>3. "ROLLBACK_TO_NORMAL_COMM_MODE" \notin Transferring
    BY DEF Transferring
  <1> HIDE DEF h
  <1> QED
    BY <1>1, <1>2, <1>3, RestTypes

LEMMA OpenFileTypes ==
  ASSUME IInv, CInv, DInv, OpenFile
  PROVE  DInv'
  <1>0. Packet("OPEN_FILE")
    BY DEF OpenFile
  <1>1. Ready /\ Held(Got) /\ Held(Recorded(Got, "open"))
    BY <1>0, PacketTypes
  <1>2. "GATEWAY_PATH_SILENCE" \notin Transferring
    BY DEF Transferring
  <1>3. PICK ch \in {Got.ch} \cup Heard(Got.ch, StepCommand(silence)) :
          \/ AskGateway("GATEWAY_PATH_SILENCE", 0,
                        [Got EXCEPT !.ch = ch, !.file = request, !.sized = TRUE])
          \/ AskGateway("GATEWAY_PATH_SILENCE", 0, Recorded(Got, "open"))
    BY DEF OpenFile
  <1>4. ch \in Seq(Answer) /\ Len(ch) <= scope.late
    <2>1. /\ Got.ch \in Seq(Answer) /\ Len(Got.ch) <= scope.late
          /\ StepCommand(silence) \in Command
      BY <1>1, CommandFacts DEF Held, Handed
    <2> QED
      BY <1>1, <1>3, <2>1, HeardLength DEF Ready
  <1>5. CASE AskGateway("GATEWAY_PATH_SILENCE", 0,
                        [Got EXCEPT !.ch = ch, !.file = request, !.sized = TRUE])
    <2> DEFINE h1 == [Got EXCEPT !.ch = ch]
               h2 == [h1 EXCEPT !.file = request]
               h == [h2 EXCEPT !.sized = TRUE]
    <2>1. h = [Got EXCEPT !.ch = ch, !.file = request, !.sized = TRUE]
      OBVIOUS
    <2>2. request \in File \cup {Unreadable}
      BY DEF CInv, Jobs, File
    <2>3. Held(h1)
      BY <1>1, <1>4, HeldParts
    <2> HIDE DEF h1, h2, h
    <2>4. Held(h2)
      BY <2>2, <2>3, HeldParts DEF h2
    <2>5. Held(h)
      BY <2>4, HeldParts DEF h
    <2> QED
      BY <1>1, <1>2, <1>5, <2>1, <2>5, AskGatewayTypes
  <1>6. CASE AskGateway("GATEWAY_PATH_SILENCE", 0, Recorded(Got, "open"))
    BY <1>1, <1>2, <1>6, AskGatewayTypes
  <1> QED
    BY <1>3, <1>5, <1>6

LEMMA GatewayTypes ==
  ASSUME IInv, CInv, DInv, GatewaySilence \/ NetworkSilence \/ GatewayUnsilence
  PROVE  DInv'
  <1>1. \E st : Packet(st)
    BY DEF GatewaySilence, NetworkSilence, GatewayUnsilence
  <1>2. Ready /\ TAir /\ Held(Got) /\ Held(Recorded(Got, "open"))
    BY <1>1, PacketTypes
  <1>3. \/ \E st \in {"GATEWAY_PATH_SILENCE", "NETWORK_SILENCE", "SECTOR_READ",
                      "GATEWAY_PATH_UNSILENCE"} :
             \E n, g : g \in {Got, Recorded(Got, "open")} /\ cansend_fuota_next_command(st, n, g)
        \/ command_response_timeout_at_fuota([Got EXCEPT !.alt = FALSE])
        \/ DequeueOr("ROLLBACK_TO_NORMAL_COMM_MODE", Got)
    <2>1. CASE GatewaySilence
      BY <2>1 DEF GatewaySilence
    <2>2. CASE NetworkSilence
      BY <2>2 DEF NetworkSilence
    <2>3. CASE GatewayUnsilence
      BY <2>3 DEF GatewayUnsilence
    <2> QED
      BY <2>1, <2>2, <2>3
  <1>4. ASSUME NEW st \in {"GATEWAY_PATH_SILENCE", "NETWORK_SILENCE", "SECTOR_READ",
                           "GATEWAY_PATH_UNSILENCE"}, NEW n, NEW g,
               Held(g), cansend_fuota_next_command(st, n, g)
        PROVE  DInv'
    <2>1. st \notin Transferring
      BY DEF Transferring
    <2> QED
      BY <1>2, <1>4, <2>1, NextTypes
  <1> QED
    BY <1>2, <1>3, <1>4, TerminatedTypes, DequeueTypes

LEMMA RollbackTypes ==
  ASSUME IInv, CInv, DInv, Rollback
  PROVE  DInv'
  <1>0. Packet("ROLLBACK_TO_NORMAL_COMM_MODE")
    BY DEF Rollback
  <1>1. Ready /\ state = "ROLLBACK_TO_NORMAL_COMM_MODE" /\ Held(Got)
    BY <1>0, PacketTypes
  <1>2. CASE DequeueOr(state, Got)
    BY <1>1, <1>2, DequeueTypes
  <1>3. CASE /\ timer' = FALSE /\ answers' = Tail(answers)
             /\ UNCHANGED <<state, waiting, alt, leaves, file, sized, cached, flash, confirmed>>
    <2>1. Todo'
      BY <1>1, <1>3, SameLeaves
    <2>2. Short'
      <3>1. Len(Tail(answers)) <= scope.late
        BY <1>0, <1>1, NowTypes DEF Packet, Held
      <3> QED
        BY <1>1, <1>3, <3>1 DEF Short, Ready
    <2> QED
      BY <1>3, <2>1, <2>2 DEF DInv, Filed, Opened
  <1> QED
    BY <1>2, <1>3 DEF Rollback

\* The count of sectors is reached only with a request's file open, and every
\* state after it up to the verification only from the one before it.
LEMMA TakenTypes ==
  ASSUME IInv, CInv, DInv, Packet(state), Taken
  PROVE  DInv'
  <1> DEFINE open == Recorded(Got, "open")
             here == [open EXCEPT !.waiting = FALSE, !.alt = FALSE]
             verified == [here EXCEPT !.alt = alt, !.cached = NoFile]
             success == Recorded(Got, "success")
             won == [success EXCEPT !.waiting = FALSE, !.alt = FALSE]
             on == [SECTOR_READ |-> AfterSector, FWIMAGE_OF_SECTOR_COUNT |-> "ERASE_FLASH",
                    ERASE_FLASH |-> "FW_IMAGE_TRANSFER",
                    FW_IMAGE_ENDOF_PAGE_TRANSFER |-> "NEW_FWIMAGE_CRC_CALCULATE",
                    ACTIVATE_NEW_FWIMAGE |-> "SEND_ACTIVATE_CMD"]
  <1>1. /\ Ready /\ TAir /\ Jobs /\ Held(open) /\ open.file = file
        /\ Held(success) /\ alt \in BOOLEAN
    BY PacketTypes, HeldRecorded DEF DInv, Filed
  <1>2. \/ state \in DOMAIN on /\ Proceed(on[state], here)
        \/ Proceed("ACTIVATE_NEW_FWIMAGE", verified)
        \/ Proceed("READ_AND_COMPARE_FW_VERSION", won)
        \/ handle_fuota_completion(TRUE, here)
    BY DEF Taken
  <1> HIDE DEF open, success
  <1>3. ASSUME NEW g, Held(g)
        PROVE  LET h == [g EXCEPT !.waiting = FALSE, !.alt = FALSE]
               IN Held(h) /\ h.file = g.file
    <2> DEFINE h1 == [g EXCEPT !.waiting = FALSE]
               h == [h1 EXCEPT !.alt = FALSE]
    <2>1. h = [g EXCEPT !.waiting = FALSE, !.alt = FALSE]
      OBVIOUS
    <2>2. Held(h1) /\ h1.file = g.file
      BY <1>3, HeldParts
    <2> HIDE DEF h1
    <2>3. Held(h) /\ h.file = g.file
      BY <2>2, HeldParts
    <2> HIDE DEF h
    <2> QED
      BY <2>1, <2>3
  <1>4. Held(here) /\ here.file = file
    BY <1>1, <1>3
  <1>5. Held(won)
    BY <1>1, <1>3
  <1> HIDE DEF here, won
  <1>6. Held(verified)
    <2> DEFINE v == [here EXCEPT !.alt = alt]
    <2>1. verified = [v EXCEPT !.cached = NoFile]
      OBVIOUS
    <2>2. Held(v) /\ NoFile \in File
      BY <1>1, <1>4, HeldParts DEF File
    <2> HIDE DEF v, verified
    <2> QED
      BY <2>1, <2>2, HeldParts
  <1> HIDE DEF verified
  <1>7. ASSUME NEW st, NEW g, Held(g), st \in Transferring => g.file \in Request, Proceed(st, g)
        PROVE  DInv'
    <2>1. cansend_fuota_next_command(st, 0, g)
      BY <1>7 DEF Proceed
    <2> QED
      BY <1>1, <1>7, <2>1, NextTypes
  <1>8. CASE state \in DOMAIN on /\ Proceed(on[state], here)
    <2> DEFINE st == on[state]
    <2>1. st \in Transferring => state \in Transferring \/ st = AfterSector
      BY <1>8 DEF Transferring
    <2>2. AfterSector \in Transferring => file \in Request
      BY DEF AfterSector, Transferring
    <2>3. state \in Transferring => file \in Request
      BY DEF DInv, Opened
    <2> HIDE DEF st
    <2>4. st \in Transferring => here.file \in Request
      BY <1>4, <2>1, <2>2, <2>3
    <2>5. Proceed(st, here)
      BY <1>8 DEF st
    <2> QED
      BY <1>4, <1>7, <2>4, <2>5
  <1>9. "ACTIVATE_NEW_FWIMAGE" \notin Transferring /\ "READ_AND_COMPARE_FW_VERSION" \notin Transferring
    BY DEF Transferring
  <1>10. CASE handle_fuota_completion(TRUE, here)
    BY <1>1, <1>4, <1>10, CompletionTypes
  <1> HIDE DEF on
  <1> QED
    BY <1>2, <1>5, <1>6, <1>7, <1>8, <1>9, <1>10

LEMMA RefusedTypes ==
  ASSUME IInv, CInv, DInv, state \in Asking, Packet(state), Refused
  PROVE  DInv'
  <1> DEFINE still == alt /\ state # "SECTOR_READ"
             g1 == [Got EXCEPT !.waiting = TRUE]
             g == [g1 EXCEPT !.alt = still]
             h == IF state = "ACTIVATE_NEW_FWIMAGE" THEN Recorded(g, "open") ELSE g
             st == IF state = "SEND_ACTIVATE_CMD" THEN "ACTIVATE_NEW_FWIMAGE" ELSE state
             late == {"NEW_FWIMAGE_CRC_CALCULATE", "ACTIVATE_NEW_FWIMAGE",
                      "SEND_ACTIVATE_CMD", "READ_AND_COMPARE_FW_VERSION"}
             q == [Got EXCEPT !.waiting = FALSE]
             r == IF state \in late THEN Recorded(q, "failed") ELSE q
  <1>1. Ready /\ TAir /\ Jobs /\ Held(Got) /\ Got.file = file /\ still \in BOOLEAN
    BY PacketTypes DEF DInv, Filed
  <1>2. \/ cansend_fuota_next_command(st, 0, h)
        \/ handle_fuota_completion(TRUE, r)
    <2>1. g = [Got EXCEPT !.waiting = TRUE, !.alt = still]
      OBVIOUS
    <2>2. \/ cansend_fuota_next_command(st, 0,
               IF state = "ACTIVATE_NEW_FWIMAGE"
               THEN Recorded([Got EXCEPT !.waiting = TRUE, !.alt = still], "open")
               ELSE [Got EXCEPT !.waiting = TRUE, !.alt = still])
          \/ handle_fuota_completion(TRUE, r)
      BY DEF Refused
    <2> HIDE DEF g, st, r, still
    <2> QED
      BY <2>1, <2>2
  <1> HIDE DEF still
  <1>3. Held(g1) /\ g1.file = file
    BY <1>1, HeldParts
  <1> HIDE DEF g1
  <1>4. Held(g) /\ g.file = file
    BY <1>1, <1>3, HeldParts
  <1>5. Held(q)
    BY <1>1, HeldParts
  <1> HIDE DEF g, q, late
  <1>6. Held(h) /\ h.file = file
    BY <1>4, HeldRecorded
  <1>7. Held(r)
    BY <1>5, HeldRecorded
  <1>8. st \in Transferring => file \in Request
    BY DEF DInv, Opened, Transferring
  <1> HIDE DEF h, r, st
  <1> QED
    BY <1>1, <1>2, <1>6, <1>7, <1>8, NextTypes, CompletionTypes

LEMMA AnsweredTypes ==
  ASSUME IInv, CInv, DInv, Answered
  PROVE  DInv'
  <1>1. state \in Asking /\ Packet(state) /\ (Taken \/ Refused)
    BY DEF Answered
  <1> QED
    BY <1>1, TakenTypes, RefusedTypes

LEMMA UploadTypes ==
  ASSUME IInv, CInv, DInv, Upload
  PROVE  DInv'
  <1>1. state = "FW_IMAGE_TRANSFER" /\ scope' = scope /\ Ready /\ TAir /\ Jobs
    BY DEF Upload, Ready, IInv, TAir, CInv
  <1>2. file \in Request /\ flash \in File \cup {Unreadable} /\ alt \in BOOLEAN
        /\ confirmed \in BOOLEAN
    BY <1>1 DEF DInv, Opened, Filed, Transferring
  <1>3. PICK late \in {<<>>, <<"piece">>} :
          \/ /\ state' = "FW_IMAGE_ENDOF_PAGE_TRANSFER" /\ UNCHANGED <<alt, leaves>>
             /\ Settle(Now) /\ waiting' = TRUE /\ timer' = TRUE
             /\ \E img \in {flash, Unreadable, file} : Carried("end", late, img)
          \/ \E s \in {"open", "failed"} :
               handle_fuota_completion(FALSE, Recorded([Now EXCEPT !.ch = late], s))
    BY DEF Upload
  <1>4. late \in Seq(Answer) /\ Len(late) <= scope.late
    <2>1. scope.late \in Nat \ {0}
      BY <1>1, SessionBounds DEF Ready
    <2>2. "piece" \in Answer
      BY DEF Answer
    <2>3. <<>> \in Seq(Answer) /\ <<"piece">> \in Seq(Answer)
          /\ Len(<<>>) = 0 /\ Len(<<"piece">>) = 1
      <3> HIDE DEF Answer
      <3> QED
        BY <2>2
    <2>4. late = <<>> \/ late = <<"piece">>
      BY <1>3
    <2> HIDE DEF Answer
    <2>5. CASE late = <<>>
      BY <2>1, <2>3, <2>5
    <2>6. CASE late = <<"piece">>
      BY <2>1, <2>3, <2>6
    <2> QED
      BY <2>4, <2>5, <2>6
  <1>5. Held(Now) /\ Now.file = file
    BY NowTypes
  <1>6. CASE /\ state' = "FW_IMAGE_ENDOF_PAGE_TRANSFER" /\ UNCHANGED <<alt, leaves>>
             /\ Settle(Now) /\ waiting' = TRUE /\ timer' = TRUE
             /\ \E img \in {flash, Unreadable, file} : Carried("end", late, img)
    <2>1. PICK img \in {flash, Unreadable, file} : Carried("end", late, img)
      BY <1>6
    <2>2. img \in File \cup {Unreadable} /\ "end" \in Command
      BY <1>2, CommandFacts DEF File
    <2>3. /\ Len(answers') <= scope.late /\ flash' \in File \cup {Unreadable}
          /\ confirmed' \in BOOLEAN
      BY <1>1, <1>2, <1>4, <2>1, <2>2, CarriedTypes DEF Ready
    <2>4. Short' /\ Todo'
      BY <1>1, <1>6, <2>3, SameLeaves DEF Short
    <2>5. /\ cached' \in File /\ file' \in File \cup {Unreadable} /\ sized' \in BOOLEAN
          /\ file' \in Request
      BY <1>2, <1>5, <1>6, SettleTypes
    <2>6. alt' \in BOOLEAN /\ waiting' \in BOOLEAN /\ timer' \in BOOLEAN
      BY <1>2, <1>6
    <2> QED
      BY <2>3, <2>4, <2>5, <2>6, TypesOn
  <1>7. ASSUME NEW s \in {"open", "failed"},
               handle_fuota_completion(FALSE, Recorded([Now EXCEPT !.ch = late], s))
        PROVE  DInv'
    <2> DEFINE h == [Now EXCEPT !.ch = late]
    <2>1. Held(h)
      BY <1>4, <1>5, HeldParts
    <2> HIDE DEF h
    <2>2. Held(Recorded(h, s))
      BY <2>1, HeldRecorded
    <2>3. handle_fuota_completion(FALSE, Recorded(h, s))
      BY <1>7 DEF h
    <2> QED
      BY <1>1, <2>2, <2>3, CompletionTypes
  <1> QED
    BY <1>3, <1>6, <1>7

-----------------------------------------------------------------------------
(* The leaves, the timer and the requests. *)

LEMMA LeafCommandTypes ==
  ASSUME IInv, CInv, DInv, scope' = scope, NEW ch \in Seq(Answer), Len(ch) <= scope.late,
         LeafCommand(ch), loop'.todo = loop.todo
  PROVE  DInv'
  <1> DEFINE g == [Now EXCEPT !.ch = ch]
  <1>1. Ready
    BY DEF Ready, IInv, TAir
  <1>2. Held(g)
    BY NowTypes, HeldParts
  <1>3. g.ch = ch
    BY DEF Now
  <1>4. /\ UNCHANGED <<state, current, cached, file, sized, alt>>
        /\ build_and_store_fuota_cmd(StepCommand(network'), ch)
    BY DEF LeafCommand
  <1> HIDE DEF g
  <1>5. /\ Short' /\ flash' \in File \cup {Unreadable}
        /\ confirmed' \in BOOLEAN /\ waiting' \in BOOLEAN /\ timer' \in BOOLEAN
    BY <1>1, <1>2, <1>3, <1>4, CommandFacts, BuildTypes
  <1>6. Todo'
    BY <1>1, <1>4 DEF Ready, DInv, Todo, Looping, detect_leaf_nodes, nodes
  <1> QED
    BY <1>4, <1>5, <1>6 DEF DInv, Filed, Opened

LEMMA LeafDoneTypes ==
  ASSUME IInv, CInv, DInv, scope' = scope, Looping, NEW ch \in Seq(Answer), Len(ch) <= scope.late,
         LeafDone(ch)
  PROVE  DInv'
  <1> DEFINE g == [Now EXCEPT !.ch = ch]
             rest == Tail(loop.todo)
  <1>1. Ready
    BY DEF Ready, IInv, TAir
  <1>2. Held(g)
    BY NowTypes, HeldParts
  <1>3. /\ loop.off \in BOOLEAN /\ loop.again \in BOOLEAN /\ loop.todo \in Seq(Meter)
        /\ loop.todo # <<>>
    BY DEF IInv, TLoop, Loop, Looping
  <1>4. \/ EndLeaves(loop.off, loop.again, g)
        \/ UNCHANGED state /\ BeginLeaf(rest, loop.off, loop.again, g)
    BY DEF LeafDone
  <1>5. ToSet(rest) \subseteq ToSet(loop.todo)
    <2>1. \A i \in DOMAIN rest : i + 1 \in DOMAIN loop.todo /\ rest[i] = loop.todo[i + 1]
      BY <1>3
    <2> HIDE DEF rest
    <2> QED
      BY <2>1 DEF ToSet
  <1>6. ToSet(rest) \subseteq ToSet(detect_leaf_nodes)
    BY <1>5 DEF DInv, Todo
  <1>7. state \notin Transferring
    BY DEF IInv, Guarded, LeafState, Transferring
  <1> HIDE DEF g, rest
  <1> QED
    BY <1>1, <1>2, <1>3, <1>4, <1>6, <1>7, EndTypes, BeginTypes

LEMMA LeafTypes ==
  ASSUME IInv, CInv, DInv, LeafTimeout \/ LeafAnswer
  PROVE  DInv'
  <1>1. /\ Looping /\ scope' = scope /\ answers \in Seq(Answer) /\ Len(answers) <= scope.late
        /\ scope \in Scopes /\ tx \in Command /\ loop \in Loop
    BY DEF LeafTimeout, LeafAnswer, InLoop, IInv, TAir, TLoop, DInv, Short
  <1>2. PICK ch \in {answers, Tail(answers)} :
          /\ ch = Tail(answers) => answers # <<>> \/ ch = answers
          /\ SendAgain(ch) \/ StepDone(ch) \/ AttemptFailed(ch)
    BY DEF LeafTimeout, LeafAnswer
  <1>3. ch \in Seq(Answer) /\ Len(ch) <= scope.late
    BY <1>1, <1>2, NowTypes DEF Held, Handed
  <1>4. ASSUME NEW c \in Seq(Answer), Len(c) <= scope.late, AttemptFailed(c)
        PROVE  DInv'
    <2>1. \/ LeafDone(c)
          \/ /\ LeafCommand(c)
             /\ loop' = [loop EXCEPT !.attempt = loop.attempt + 1, !.resent = 0]
      BY <1>4 DEF AttemptFailed
    <2>2. CASE LeafDone(c)
      BY <1>1, <1>4, <2>2, LeafDoneTypes
    <2>3. CASE /\ LeafCommand(c)
               /\ loop' = [loop EXCEPT !.attempt = loop.attempt + 1, !.resent = 0]
      <3>1. loop'.todo = loop.todo
        BY <1>1, <2>3 DEF Loop
      <3> QED
        BY <1>1, <1>4, <2>3, <3>1, LeafCommandTypes
    <2> QED
      BY <2>1, <2>2, <2>3
  <1>5. CASE StepDone(ch)
    <2>1. \/ LeafDone(ch)
          \/ LeafCommand(ch) /\ loop' = [loop EXCEPT !.attempt = 0, !.resent = 0]
      BY <1>5 DEF StepDone
    <2>2. CASE LeafDone(ch)
      BY <1>1, <1>3, <2>2, LeafDoneTypes
    <2>3. CASE LeafCommand(ch) /\ loop' = [loop EXCEPT !.attempt = 0, !.resent = 0]
      <3>1. loop'.todo = loop.todo
        BY <1>1, <2>3 DEF Loop
      <3> QED
        BY <1>1, <1>3, <2>3, <3>1, LeafCommandTypes
    <2> QED
      BY <2>1, <2>2, <2>3
  <1>6. CASE SendAgain(ch)
    <2>1. \/ LeafCommand(ch) /\ loop' = [loop EXCEPT !.resent = loop.resent + 1]
          \/ \E heard \in Heard(ch, tx) : AttemptFailed(heard)
      BY <1>6 DEF SendAgain
    <2>2. CASE LeafCommand(ch) /\ loop' = [loop EXCEPT !.resent = loop.resent + 1]
      <3>1. loop'.todo = loop.todo
        BY <1>1, <2>2 DEF Loop
      <3> QED
        BY <1>1, <1>3, <2>2, <3>1, LeafCommandTypes
    <2>3. ASSUME NEW heard \in Heard(ch, tx), AttemptFailed(heard)
          PROVE  DInv'
      <3>1. heard \in Seq(Answer) /\ Len(heard) <= scope.late
        BY <1>1, <1>3, HeardLength
      <3> QED
        BY <1>4, <2>3, <3>1
    <2> QED
      BY <2>1, <2>2, <2>3
  <1> QED
    BY <1>2, <1>3, <1>4, <1>5, <1>6

LEMMA TimerTypes ==
  ASSUME IInv, CInv, DInv, Retry \/ Alternate \/ FinalFailure
  PROVE  DInv'
  <1>1. scope' = scope /\ Ready /\ UNCHANGED <<leaves, cached, file, sized>>
    BY DEF Retry, Alternate, FinalFailure, Fires, Ready, IInv, TAir
  <1>2. Todo'
    BY <1>1, SameLeaves
  <1>3. CASE Retry \/ Alternate
    <2>1. /\ state' = state /\ alt' \in {alt, TRUE} /\ build_and_store_fuota_cmd(tx, answers)
      BY <1>3 DEF Retry, Alternate, Fires
    <2>2. Held(Now) /\ Now.ch = answers /\ tx \in Command
      BY NowTypes DEF IInv, TAir
    <2>3. /\ Short' /\ flash' \in File \cup {Unreadable}
          /\ confirmed' \in BOOLEAN /\ waiting' \in BOOLEAN /\ timer' \in BOOLEAN
      BY <1>1, <2>1, <2>2, BuildTypes
    <2> QED
      BY <1>1, <1>2, <2>1, <2>3 DEF DInv, Filed, Opened
  <1>4. CASE FinalFailure
    <2>1. /\ waiting' = FALSE /\ alt' = FALSE /\ UNCHANGED <<timer, answers, flash, confirmed>>
          /\ state' \in {"OPEN_FILE", "NETWORK_SILENCE"}
      BY <1>4 DEF FinalFailure, air
    <2>2. state' \notin Transferring
      BY <2>1 DEF Transferring
    <2> QED
      BY <1>1, <1>2, <2>1, <2>2 DEF DInv, Filed, Opened, Short
  <1> QED
    BY <1>3, <1>4

LEMMA RequestTypes ==
  ASSUME IInv, CInv, DInv,
         \/ Arrive \/ process_fuota_queue \/ resume_rf_fuota_pending_state_process
         \/ UNCHANGED vars
  PROVE  DInv'
  <1>1. scope' = scope /\ Ready
    BY DEF Arrive, process_fuota_queue, resume_rf_fuota_pending_state_process, vars,
           Ready, IInv, TAir
  <1>2. CASE process_fuota_queue
    <2>1. Held(Now)
      BY NowTypes
    <2>2. CASE queue = <<>>
      <3>1. Rest("ROLLBACK_TO_NORMAL_COMM_MODE", Now)
        BY <1>2, <2>2 DEF process_fuota_queue
      <3>2. "ROLLBACK_TO_NORMAL_COMM_MODE" \notin Transferring
        BY DEF Transferring
      <3> QED
        BY <1>1, <2>1, <3>1, <3>2, RestTypes
    <2>3. CASE queue # <<>>
      <3> DEFINE h1 == [Now EXCEPT !.request = Head(queue)]
                 h == [h1 EXCEPT !.book = NewBook]
      <3>1. h = [Now EXCEPT !.request = Head(queue), !.book = NewBook]
        OBVIOUS
      <3>2. NewBook \in Book /\ Head(queue) \in File
        BY <1>1, <2>3, QueueFacts DEF Ready, CInv, NewBook, Book, File
      <3> HIDE DEF h1, h
      <3>3. Held(h1)
        BY <2>1, <3>2, HeldParts DEF h1
      <3>4. Held(h)
        BY <3>2, <3>3, HeldParts DEF h
      <3>5. open_requested_firmware(silence, h)
        BY <1>2, <2>3, <3>1 DEF process_fuota_queue
      <3> QED
        BY <1>1, <3>4, <3>5, OpenTypes
    <2> QED
      BY <2>2, <2>3
  <1>3. CASE Arrive \/ resume_rf_fuota_pending_state_process \/ UNCHANGED vars
    <2>1. /\ UNCHANGED <<leaves, cached, file, flash, waiting, timer, alt, confirmed, answers>>
          /\ sized' \in {sized, TRUE} /\ state' \in {state, "GATEWAY_PATH_SILENCE"}
      BY <1>3 DEF Arrive, resume_rf_fuota_pending_state_process, vars, sending, counters, job, air
    <2>2. Todo'
      BY <1>1, <2>1, SameLeaves
    <2>3. state' \in Transferring => state \in Transferring
      BY <2>1 DEF Transferring
    <2> QED
      BY <1>1, <2>1, <2>2, <2>3 DEF DInv, Filed, Opened, Short
  <1> QED
    BY <1>2, <1>3

LEMMA NextKeepsTypes ==
  ASSUME IInv, CInv, DInv, [Next]_vars
  PROVE  DInv'
  BY OpenFileTypes, GatewayTypes, RollbackTypes, AnsweredTypes, UploadTypes, LeafTypes,
     TimerTypes, RequestTypes DEF Next

TInv == IInv /\ CInv /\ DInv

LEMMA Types == Spec => []TInv
  <1>1. Init => TInv
    <2> SUFFICES ASSUME Init PROVE TInv
      OBVIOUS
    <2>1. IInv
      BY InitHolds
    <2>2. scope \in Scopes /\ scope.requests \in Nat /\ scope.late \in Nat /\ max_retries \in Nat
      BY SessionBounds DEF Init
    <2>3. Len(<<>>) = 0 /\ ToSet(<<>>) = {}
      BY DEF ToSet
    <2>4. CInv
      <3>1. <<>> \in Seq(1..scope.requests)
        OBVIOUS
      <3>2. Jobs
        BY <2>2, <2>3, <3>1 DEF Init, Jobs
      <3>3. Counters
        BY DEF Init, Counters, State, AT_ENABLE_FLASHEXIT, alternate_maxcnt
      <3>4. Paid
        BY <2>2, <2>3 DEF Init, Paid, Claim
      <3> QED
        BY <3>2, <3>3, <3>4 DEF CInv
    <2>5. DInv
      <3>1. Filed
        BY DEF Init, Filed, File
      <3>2. Short
        BY <2>2, <2>3 DEF Init, Short
      <3>3. Todo
        BY <2>3 DEF Init, Todo, Looping, NoLoop
      <3>4. Opened
        BY DEF Init, Opened, Transferring
      <3> QED
        BY <3>1, <3>2, <3>3, <3>4 DEF DInv
    <2> QED
      BY <2>1, <2>4, <2>5 DEF TInv
  <1>2. TInv /\ [Next]_vars => TInv'
    <2> SUFFICES ASSUME TInv, [Next]_vars PROVE TInv'
      OBVIOUS
    <2>1. IInv /\ CInv /\ DInv /\ scope \in Scopes
      BY DEF TInv, IInv, TAir
    <2>2. IInv' /\ CInv' /\ DInv'
      BY <2>1, NextKeeps, NextCounts, NextKeepsTypes
    <2> QED
      BY <2>2 DEF TInv
  <1> QED
    BY <1>1, <1>2, PTL DEF Spec

\* Type correctness of the state machine of the update, for every network, every
\* number of requests and every limit of the retries.  It holds the bound of the
\* retry counter, which an unexpected answer in the gateway's silencing counts
\* past its limit: each request in the queue pays for one such count.
THEOREM TypeCorrect == Spec => []TypeOK
  <1>1. TInv => TypeOK
    <2> SUFFICES ASSUME IInv, CInv, DInv PROVE TypeOK
      BY DEF TInv
    <2>1. /\ scope \in Scopes /\ tx \in Command /\ answers \in Seq(Answer) /\ loop \in Loop
          /\ network \in 0..AT_ENABLE_FLASHEXIT /\ book \in Book
      BY DEF IInv, TAir, TLoop, TBook
    <2>2. ToSet(answers) \subseteq Answer
      <3> HIDE DEF Answer
      <3> QED
        BY <2>1 DEF ToSet
    <2>3. retry \in 0..(max_retries + scope.requests + 1)
      <3>1. /\ Len(queue) \in Nat /\ arrived \in Nat /\ max_retries \in Nat
            /\ scope.requests \in Nat
        BY <2>1, QueueFacts DEF CInv
      <3>2. Claim \in {0, 1} /\ arrived <= scope.requests /\ retry \in Nat
        BY <3>1 DEF Claim, CInv, Jobs, Counters
      <3> QED
        BY <3>1, <3>2 DEF CInv, Paid
    <2>4. /\ loop.attempt \in 0..(max_retries - 1) /\ loop.resent \in 0..(max_retries - 1)
          /\ book.status \in {"open", "failed", "timed out", "success"}
          /\ book.final \in BOOLEAN
      BY <2>1 DEF Loop, Book
    <2> QED
      BY <2>1, <2>2, <2>3, <2>4 DEF TypeOK, CInv, Jobs, Counters, DInv, Filed, Short, Todo, File
  <1> QED
    BY <1>1, Types, PTL

\* From the count of the sectors to the verification of the CRC the open file is
\* that of a request, whatever requests were taken from the queue unparsed, files
\* not found or updates resumed before: dynamic_fuota_calculate lets no other
\* pass, and nothing opens another until the machine has left these states.
THEOREM TransferOfRequest == Spec => []Opened
  <1>1. TInv => Opened
    BY DEF TInv, DInv
  <1> QED
    BY <1>1, Types, PTL
=============================================================================

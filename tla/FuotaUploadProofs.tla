------------------------- MODULE FuotaUploadProofs -------------------------
(***************************************************************************)
(* Proofs about FuotaUpload, for every size of the file, of the flash      *)
(* sector and of the radio packet.  The invariant has three parts:         *)
(*   Base     types, and what bounds the loop's counters, the retry        *)
(*            counters and the pages an answer can name;                   *)
(*   InStep   until the loop jumps, the file position is the place of the  *)
(*            piece in hand, and the meter stored the pieces before the    *)
(*            one it expects, and no other;                                *)
(*   InOrder  if moreover no count is jumped over, the meter expects the   *)
(*            piece in hand or, when the answer was lost, the one after.   *)
(***************************************************************************)
EXTENDS FuotaUpload, TLAPS

P == get_max_page_count
S == get_max_sub_page_count

\* A piece was read from the file and is not done with.
InHand == {"send", "wait", "ask", "asked"}

\* The answers under way: as many as may be, and none names a page that the
\* file does not have.
Names(q) ==
  /\ q \in Seq(Answer) /\ Len(q) <= MaxLate
  /\ \A i \in DOMAIN q : q[i].kind # "refused" => q[i].page < P

Fits ==
  /\ pc \in InHand =>
       /\ page_count < P /\ subpage_count < S + pos /\ retry < MAX_FUOTA_RETRIES
       /\ frame.page = page_count /\ frame.sub = subpage_count
  /\ subpage_count <= S + pos
  /\ alternate <= max_retries + uploads
  /\ pc \notin Ended => /\ alternate < max_retries + uploads
                        /\ paths # "none" => alternate_retry = 0
  /\ at[1] = P => at[2] = 0
  /\ Names(answers)

Base == TypeOK /\ Fits

\* The order in which pieces are sent.
Before(x, y) == x[1] < y[1] \/ (x[1] = y[1] /\ x[2] < y[2])

Stored == \A x \in Piece : flash[x] = IF Before(x, at) THEN Own(x[1], x[2]) ELSE None

\* The answers of q that take a piece are about pieces before y.
Acked(q, y) ==
  \A i \in DOMAIN q : q[i].kind = "ack" => Before(<<q[i].page, q[i].sub>>, y)

InStep ==
  ~jumped =>
    /\ Stored
    /\ page_count \in 0..P /\ subpage_count \in Subpage
    /\ pc = "read" => /\ pos = Offset(page_count, subpage_count)
                      /\ page_count = P => subpage_count = 0
    /\ pc \in InHand =>
         /\ last_subpage = (subpage_count = S - 1)
         /\ frame.bytes = Own(page_count, subpage_count)
         /\ pos = Offset(page_count, subpage_count) + PieceLength(subpage_count)

InOrder ==
  /\ Acked(answers, at)
  /\ ~jumped /\ paths # "none" =>
       /\ pc = "read" => at = <<page_count, subpage_count>>
       /\ pc \in InHand => at \in {<<page_count, subpage_count>>,
                                   After(page_count, subpage_count)}
       /\ pc = "complete" => at = <<P, 0>>

-----------------------------------------------------------------------------
(* Arithmetic of pages and subpages. *)

LEMMA DivMod ==
  ASSUME NEW a \in Nat, NEW b \in Nat \ {0}
  PROVE  /\ a \div b \in Nat /\ a % b \in 0..(b - 1)
         /\ a = (a \div b) * b + (a % b)
  BY SMT

LEMMA PagesBefore ==
  ASSUME NEW p \in Nat, NEW q \in Nat, NEW c \in Nat, p < q
  PROVE  p * c \in Nat /\ q * c \in Nat /\ (p + 1) * c = p * c + c /\ p * c + c <= q * c
  BY SMT

LEMMA MinOfTwo ==
  ASSUME NEW a \in Int, NEW b \in Int
  PROVE  Min({a, b}) = IF a <= b THEN a ELSE b
  BY DEF Min

\* A page has at least two subpages and the last is shorter than a packet.
LEMMA Sizes ==
  /\ P \in Nat /\ P * Sector \in Nat /\ P * Sector <= FileSize
  /\ S \in Nat /\ S >= 2
  /\ Sector = (S - 1) * Payload + get_min_payload_size
  /\ get_min_payload_size \in 1..(Payload - 1)
  /\ FileSize \in Nat /\ Sector \in Nat /\ Payload \in Nat
  /\ Sector > 0 /\ Payload > 0 /\ Payload <= Sector
  <1> DEFINE d == Sector \div Payload
             e == Sector % Payload
             p == FileSize \div Sector
  <1>1. /\ FileSize \in Nat /\ Sector \in Nat \ {0} /\ Payload \in Nat \ {0}
        /\ Payload <= Sector /\ e # 0
    BY UploadBounds
  <1>2. d \in Nat /\ e \in 0..(Payload - 1) /\ Sector = d * Payload + e
    BY <1>1, DivMod
  <1>3. p \in Nat /\ FileSize % Sector \in 0..(Sector - 1)
          /\ FileSize = p * Sector + (FileSize % Sector)
    BY <1>1, DivMod
  <1>4. p * Sector \in Nat /\ d * Payload \in Nat
    BY <1>1, <1>2, <1>3
  <1>5. d # 0
    BY <1>1, <1>2
  <1>6. /\ P = p /\ S = d + 1
        /\ get_min_payload_size = Sector - (S - 1) * Payload
    <2>1. P = p /\ S = d + 1
      BY DEF P, S, get_max_page_count, get_max_sub_page_count
    <2>2. get_min_payload_size = Sector - (S - 1) * Payload
      BY Zenon DEF get_min_payload_size, S
    <2> QED
      BY <2>1, <2>2
  <1> HIDE DEF d, e, p
  <1>7. S - 1 = d
    BY <1>2, <1>6
  <1>8. get_min_payload_size = e
    BY <1>1, <1>2, <1>4, <1>6, <1>7
  <1> QED
    BY <1>1, <1>2, <1>3, <1>4, <1>5, <1>6, <1>7, <1>8

LEMMA Counts ==
  /\ P \in Nat /\ S \in Nat /\ S >= 2 /\ FileSize \in Nat /\ Sector \in Nat
  /\ MaxLate \in Nat /\ MaxUploads \in Nat /\ MaxUploads >= 1
  BY Sizes, UploadBounds

LEMMA Lengths ==
  ASSUME NEW s
  PROVE  PieceLength(s) \in 1..Payload /\ PieceLength(s) \in 1..Sector
  BY Sizes DEF PieceLength

\* Pieces lie in the file one behind the other.
LEMMA Offsets ==
  ASSUME NEW p \in Nat, NEW s \in Subpage
  PROVE  /\ Offset(p, s) \in Nat
         /\ Offset(p, s) + PieceLength(s) = Offset(After(p, s)[1], After(p, s)[2])
         /\ p < P => Offset(p, s) + PieceLength(s) <= FileSize
  <1> DEFINE m == get_min_payload_size
  <1>1. s \in Nat /\ s <= S - 1
    BY Sizes DEF Subpage, S
  <1>2. /\ p * Sector \in Nat /\ s * Payload \in Nat /\ (S - 1) * Payload \in Nat
        /\ (s + 1) * Payload = s * Payload + Payload
        /\ (p + 1) * Sector = p * Sector + Sector
    BY <1>1, Sizes
  <1>3. Offset(p, s) = p * Sector + s * Payload
    BY DEF Offset
  <1>4. CASE s = S - 1
    <2>1. After(p, s) = <<p + 1, 0>> /\ PieceLength(s) = m
      BY <1>4, Sizes DEF After, PieceLength, S
    <2>2. Offset(p + 1, 0) = p * Sector + Sector
      BY <1>2, Sizes DEF Offset
    <2>3. Offset(p, s) + m = p * Sector + Sector
      BY <1>2, <1>3, <1>4, Sizes
    <2>4. p < P => p * Sector + Sector <= P * Sector
      BY PagesBefore, Sizes
    <2> QED
      BY <1>2, <1>3, <2>1, <2>2, <2>3, <2>4, Sizes
  <1>5. CASE s < S - 1
    <2>1. After(p, s) = <<p, s + 1>> /\ PieceLength(s) = Payload
      BY <1>1, <1>5, Sizes DEF After, PieceLength, S
    <2>2. Offset(p, s + 1) = p * Sector + s * Payload + Payload
      BY <1>2, Sizes DEF Offset
    <2>3. s * Payload + Payload <= (S - 1) * Payload
      BY <1>1, <1>5, PagesBefore, Sizes
    <2>4. p < P => p * Sector + Sector <= P * Sector
      BY PagesBefore, Sizes
    <2> QED
      BY <1>2, <1>3, <2>1, <2>2, <2>3, <2>4, Sizes
  <1> QED
    BY <1>1, <1>4, <1>5, Sizes

-----------------------------------------------------------------------------
(* Types and bounds. *)

LEMMA NamesAppend ==
  ASSUME NEW q, Names(q), Len(q) < MaxLate,
         NEW a \in Answer, a.kind # "refused" => a.page < P
  PROVE  Names(Append(q, a))
  <1>1. q \in Seq(Answer) /\ MaxLate \in Nat
    BY UploadBounds DEF Names
  <1>2. Append(q, a) \in Seq(Answer) /\ Len(Append(q, a)) = Len(q) + 1
    BY <1>1
  <1>3. \A i \in DOMAIN Append(q, a) :
          \/ i \in DOMAIN q /\ Append(q, a)[i] = q[i]
          \/ Append(q, a)[i] = a
    BY <1>1
  <1> QED
    BY <1>1, <1>2, <1>3 DEF Names

LEMMA NamesTail ==
  ASSUME NEW q, Names(q), q # <<>>
  PROVE  /\ Names(Tail(q))
         /\ Head(q) \in Answer
         /\ Head(q).kind # "refused" => Head(q).page < P
         /\ Head(q) = q[1] /\ 1 \in DOMAIN q
         /\ \A i \in DOMAIN Tail(q) : i + 1 \in DOMAIN q /\ Tail(q)[i] = q[i + 1]
  <1>1. q \in Seq(Answer) /\ MaxLate \in Nat
    BY UploadBounds DEF Names
  <1>2. Tail(q) \in Seq(Answer) /\ Len(Tail(q)) = Len(q) - 1 /\ Len(q) \in Nat
    BY <1>1
  <1>3. \A i \in DOMAIN Tail(q) : i + 1 \in DOMAIN q /\ Tail(q)[i] = q[i + 1]
    BY <1>1
  <1>4. Head(q) = q[1] /\ 1 \in DOMAIN q /\ Head(q) \in Answer
    BY <1>1
  <1> QED
    BY <1>1, <1>2, <1>3, <1>4 DEF Names

LEMMA RefusedNames == Refused \in Answer /\ Refused.kind = "refused"
  BY Counts DEF Refused, Answer, P

\* The meter goes on to the next piece of the file, or to its end.
LEMMA AfterFacts ==
  ASSUME NEW p \in 0..(P - 1), NEW s \in Subpage
  PROVE  /\ After(p, s) \in (0..P) \X Subpage
         /\ After(p, s)[1] = P => After(p, s)[2] = 0
         /\ Before(<<p, s>>, After(p, s))
         /\ ~Before(<<p, s>>, <<p, s>>)
         /\ \A x \in Piece : Before(x, After(p, s)) <=> Before(x, <<p, s>>) \/ x = <<p, s>>
  <1>1. P \in Nat /\ S \in Nat /\ S >= 2 /\ p \in Nat /\ p < P /\ s \in Nat /\ s < S
    BY Counts DEF Subpage, S
  <1>2. CASE s + 1 < S
    <2>1. After(p, s) = <<p, s + 1>>
      BY <1>2 DEF After, S
    <2> QED
      BY <1>1, <1>2, <2>1 DEF Before, Subpage, Piece, Page, P, S
  <1>3. CASE s + 1 = S
    <2>1. After(p, s) = <<p + 1, 0>>
      BY <1>1, <1>3 DEF After, S
    <2> QED
      BY <1>1, <1>3, <2>1 DEF Before, Subpage, Piece, Page, P, S
  <1> QED
    BY <1>1, <1>2, <1>3

\* What the meter and the air make of a frame that is sent.
LEMMA SendFacts ==
  ASSUME Base, pc = "send", Deliver(frame) \/ Drop
  PROVE  /\ Names(answers')
         /\ flash' \in [Piece -> Bytes \cup {None}]
         /\ at' \in (0..P) \X Subpage
         /\ at'[1] = P => at'[2] = 0
         /\ \/ UNCHANGED meter
            \/ /\ at = <<page_count, subpage_count>>
               /\ page_count \in 0..(P - 1) /\ subpage_count \in Subpage
               /\ at' = After(page_count, subpage_count)
               /\ flash' = [flash EXCEPT ![at] = frame.bytes]
  <1> DEFINE p == page_count
             s == subpage_count
  <1>1. /\ Names(answers) /\ p \in Nat /\ s \in Nat /\ p < P
        /\ frame.page = p /\ frame.sub = s /\ frame.bytes \in Bytes
        /\ at \in (0..P) \X Subpage /\ (at[1] = P => at[2] = 0)
        /\ flash \in [Piece -> Bytes \cup {None}]
    <2>1. /\ Names(answers) /\ p < P /\ frame.page = p /\ frame.sub = s
          /\ at[1] = P => at[2] = 0
      BY DEF Base, Fits, InHand
    <2>2. frame.bytes \in Bytes
      BY DEF Base, TypeOK
    <2>4. p \in Nat /\ s \in Nat
      <3>1. p \in 0..(P + 1) /\ s \in 0..(S + FileSize)
        BY DEF Base, TypeOK, P, S
      <3> QED
        BY <3>1, Counts
    <2>3. at \in (0..P) \X Subpage /\ flash \in [Piece -> Bytes \cup {None}]
      BY DEF Base, TypeOK, P
    <2> QED
      BY <2>1, <2>2, <2>3, <2>4
  <1>2. CASE Drop
    BY <1>1, <1>2, NamesAppend, RefusedNames DEF Drop, meter
  <1>3. CASE Deliver(frame)
    <2>1. Verdict(frame) \in Answer /\ Verdict(frame).page < P
      BY <1>1, Counts DEF Verdict, Answer, P, S
    <2>2. Names(answers')
      BY <1>1, <1>3, <2>1, NamesAppend, RefusedNames DEF Deliver
    <2>3. CASE <<p, s>> = at
      <3>1. p \in 0..(P - 1) /\ s \in Subpage /\ at \in Piece
        BY <1>1, <2>3, Counts DEF Piece, Page, P
      <3>2. at' = After(p, s) /\ flash' = [flash EXCEPT ![at] = frame.bytes]
        BY <1>1, <1>3, <2>3 DEF Deliver
      <3>3. flash' \in [Piece -> Bytes \cup {None}]
        BY <1>1, <3>1, <3>2
      <3> QED
        BY <2>2, <2>3, <3>1, <3>2, <3>3, AfterFacts
    <2>4. CASE <<p, s>> # at
      BY <1>1, <1>3, <2>2, <2>4 DEF Deliver, meter
    <2> QED
      BY <2>3, <2>4
  <1> QED
    BY <1>2, <1>3

\* What Base says of the numbers.
LEMMA Numbers ==
  ASSUME Base
  PROVE  /\ page_count \in 0..(P + 1) /\ subpage_count \in Nat
         /\ subpage_count <= S + pos
         /\ pos \in 0..FileSize /\ retry \in 0..3
         /\ alternate \in Nat /\ alternate <= 3 + uploads
         /\ alternate_retry \in 0..3
         /\ uploads \in 1..MaxUploads
         /\ query.attempt \in 0..3
         /\ pc \in InHand => /\ page_count \in 0..(P - 1) /\ page_count < P
                            /\ subpage_count < S + pos /\ retry < 3
         /\ pc \notin Ended => alternate < 3 + uploads
  <1>1. /\ page_count \in 0..(P + 1) /\ subpage_count \in 0..(S + FileSize)
        /\ pos \in 0..FileSize /\ retry \in 0..3
        /\ alternate \in 0..(3 + MaxUploads) /\ alternate_retry \in 0..3
        /\ uploads \in 1..MaxUploads
    BY DEF Base, TypeOK, P, S, MAX_FUOTA_RETRIES, max_retries
  <1>2. query.attempt \in 0..3
    BY DEF Base, TypeOK
  <1>3. /\ pc \in InHand => page_count < P /\ subpage_count < S + pos /\ retry < 3
        /\ subpage_count <= S + pos
        /\ alternate <= 3 + uploads
        /\ pc \notin Ended => alternate < 3 + uploads
    BY DEF Base, Fits, MAX_FUOTA_RETRIES, max_retries
  <1> QED
    BY <1>1, <1>2, <1>3, Counts

LEMMA AdvanceFacts ==
  ASSUME Base, pc \in InHand, Advance(page_count, subpage_count, last_subpage)
  PROVE  /\ pc' = "read" /\ page_count' \in 0..P
         /\ subpage_count' \in 0..(S + FileSize) /\ subpage_count' <= S + pos
  BY Numbers, Counts DEF Advance

\* After a failed attempt: the same piece again, the next one, or the end.
LEMMA ResendFacts ==
  ASSUME Base, pc = "wait", NEW n \in 0..3, NEW alt \in 0..3, Resend(n, alt)
  PROVE  /\ pc' \in {"send", "read", "aborted"}
         /\ pc' = "send" => n < 3 /\ UNCHANGED <<page_count, subpage_count>>
         /\ pc' = "read" => /\ alt = 3
                            /\ Advance(page_count, subpage_count, last_subpage)
         /\ page_count' \in 0..P
         /\ subpage_count' \in 0..(S + FileSize) /\ subpage_count' <= S + pos
         /\ using_alternate_path' \in BOOLEAN
         /\ alternate' \in 0..(3 + MaxUploads) /\ alternate' < 3 + uploads
  <1>1. pc \in InHand /\ pc \notin Ended
    BY DEF InHand, Ended
  <1>2. using_alternate_path \in BOOLEAN
    BY DEF Base, TypeOK
  <1>3. CASE n < 3
    BY <1>1, <1>2, <1>3, Numbers, Counts DEF Resend, MAX_FUOTA_RETRIES
  <1>4. CASE n = 3
    <2>1. using_alternate_path' = TRUE /\ alternate' = alt
      BY <1>4 DEF Resend, MAX_FUOTA_RETRIES
    <2>2. CASE alt < 3
      BY <1>1, <1>4, <2>1, <2>2, Numbers, Counts DEF Resend, MAX_FUOTA_RETRIES
    <2>3. CASE alt = 3
      <3>1. Advance(page_count, subpage_count, last_subpage)
        BY <1>4, <2>3 DEF Resend, MAX_FUOTA_RETRIES
      <3> QED
        BY <1>1, <2>1, <2>3, <3>1, AdvanceFacts, Numbers, Counts
    <2> QED
      BY <2>2, <2>3
  <1> QED
    BY <1>3, <1>4

\* How much is read of the file.
LEMMA ReadFacts ==
  ASSUME Base
  PROVE  LET n == Min({PieceLength(subpage_count), FileSize - pos})
         IN  /\ n \in 0..Sector /\ pos + n \in 0..FileSize
             /\ PieceLength(subpage_count) <= FileSize - pos => n = PieceLength(subpage_count)
  <1> DEFINE a == PieceLength(subpage_count)
             b == FileSize - pos
  <1>1. a \in 1..Sector /\ b \in 0..FileSize /\ pos \in 0..FileSize
    BY Lengths, Numbers, Counts
  <1>2. Min({a, b}) = IF a <= b THEN a ELSE b
    BY <1>1, MinOfTwo
  <1> QED
    BY <1>1, <1>2, Counts, UploadBounds

\* Where a report, or what is taken for one, sends the loop.
LEMMA JumpFacts ==
  ASSUME Base, pc = "asked", NEW a \in Answer, a.page < P, Jump(a)
  PROVE  /\ pc' = "read" /\ page_count' \in 0..(P + 1)
         /\ subpage_count' \in 0..(S + FileSize) /\ subpage_count' <= S + pos'
         /\ pos' \in 0..FileSize /\ expected' \in {"own", "cleared"}
         /\ jumped'
  <1> DEFINE told == Report(a)
             s == IF query.kind = "page" THEN told[2] + 1 ELSE told[2]
             to == Fixed(told[1], s)
  <1>1. told[1] \in 0..(P - 1) /\ told[2] \in Nat
    BY Counts DEF Report, Answer, P
  <1>2. s \in Nat
    BY <1>1
  <1> HIDE DEF s, told
  <1>3. to[1] \in 0..P /\ to[2] \in 0..(S - 1)
    BY <1>1, <1>2, Counts DEF Fixed, S
  <1> HIDE DEF to
  <1>4. /\ pos' = Min({Offset(to[1], to[2]), FileSize}) /\ jumped'
        /\ expected' \in {"own", "cleared"}
        /\ Advance(to[1], to[2], last_subpage)
    BY DEF Jump, to, s, told
  <1>5. Offset(to[1], to[2]) \in Nat
    <2>1. to[1] \in Nat /\ to[2] \in Subpage
      BY <1>3, Counts DEF Subpage, S
    <2> QED
      BY <2>1, Offsets
  <1>6. pos' \in 0..FileSize
    BY <1>4, <1>5, MinOfTwo, Counts
  <1>7. /\ pc' = "read" /\ page_count' \in 0..(P + 1)
        /\ subpage_count' \in 0..S
    BY <1>3, <1>4, Counts DEF Advance
  <1> QED
    BY <1>4, <1>6, <1>7, Counts

LEMMA BaseInit == Init => Base
  <1> SUFFICES ASSUME Init PROVE Base
    OBVIOUS
  <1> USE DEF Init
  <1>1. Names(answers)
    BY Counts DEF Names
  <1>2. frame \in [page: 0..P, bytes: Bytes, sub: 0..(S + FileSize)]
    BY Counts DEF NoFrame, Bytes
  <1>3. flash \in [Piece -> Bytes \cup {None}] /\ at \in (0..P) \X Subpage
    BY Counts DEF Erased, Subpage, S
  <1>4. query \in [kind: {"page", "subpage"}, attempt: 0..3]
    BY DEF NoQuery
  <1>5. /\ page_count \in 0..(P + 1) /\ subpage_count \in 0..(S + FileSize)
        /\ pos \in 0..FileSize /\ retry \in 0..3 /\ alternate \in 0..(3 + MaxUploads)
        /\ alternate_retry \in 0..3 /\ uploads \in 1..MaxUploads
        /\ subpage_count <= S + pos /\ alternate < 3 + uploads
        /\ alternate <= 3 + uploads
    BY Counts
  <1>6. TypeOK
    BY <1>1, <1>2, <1>3, <1>4, <1>5
       DEF TypeOK, Names, P, S, MAX_FUOTA_RETRIES, max_retries
  <1>7. Fits
    BY <1>1, <1>5 DEF Fits, InHand, max_retries
  <1> QED
    BY <1>6, <1>7 DEF Base

LEMMA BaseStep == Base /\ [Next]_vars => Base'
  <1> SUFFICES ASSUME Base, [Next]_vars PROVE Base'
    OBVIOUS
  <1> USE DEF loop, counters, meter, Ended, InHand, MAX_FUOTA_RETRIES, max_retries
  <1>0. TypeOK /\ Fits /\ Names(answers)
    BY DEF Base, Fits
  <1>1. CASE UploadDone
    BY ZenonT(40), <1>0, <1>1 DEF UploadDone, Base, TypeOK, Fits
  <1>2. CASE ReadPiece
    <2> DEFINE n == Min({PieceLength(subpage_count), FileSize - pos})
    <2>1. /\ n \in 0..Sector /\ pos + n \in 0..FileSize
          /\ page_count \in Nat /\ page_count < P
      BY <1>2, ReadFacts, Numbers, Counts DEF ReadPiece, P
    <2> HIDE DEF n
    <2>2. CASE n = 0
      BY ZenonT(40), <1>0, <1>2, <2>2 DEF n, ReadPiece, Base, TypeOK, Fits
    <2>3. CASE n # 0
      <3>1. /\ pos' = pos + n /\ pc' = "send" /\ retry' = 0
            /\ frame' = [page |-> page_count, sub |-> subpage_count,
                         bytes |-> <<pos, n>>]
            /\ expected' \in {"own", "headless"}
            /\ status' \in {status, "transfer"}
            /\ last_subpage' \in BOOLEAN
            /\ UNCHANGED <<page_count, subpage_count, alternate, alternate_retry,
                 using_alternate_path, query, paths, uploads, answers, meter, jumped>>
        BY <1>2, <2>3 DEF n, ReadPiece, ondemand_fuota_update_status
      <3>2. frame' \in [page: 0..P, bytes: Bytes, sub: 0..(S + FileSize)]
        BY <2>1, <3>1, Numbers, Counts DEF Bytes
      <3>3. /\ pos' \in 0..FileSize /\ retry' \in 0..3 /\ page_count' < P
            /\ subpage_count' < S + pos' /\ subpage_count' <= S + pos'
        BY <2>1, <2>3, <3>1, Numbers, Counts
      <3>4. TypeOK'
        BY <1>0, <3>1, <3>2, <3>3 DEF TypeOK, P, S
      <3>5. Fits'
        BY <1>0, <1>2, <3>1, <3>3 DEF Fits, ReadPiece
      <3> QED
        BY <3>4, <3>5 DEF Base
    <2> QED
      BY <2>2, <2>3
  <1>3. CASE Send
    <2>1. pc = "send" /\ (Deliver(frame) \/ Drop)
      BY <1>3 DEF Send
    <2>2. /\ Names(answers')
          /\ flash' \in [Piece -> Bytes \cup {None}]
          /\ at' \in (0..P) \X Subpage /\ (at'[1] = P => at'[2] = 0)
      BY <2>1, SendFacts
    <2>3. TypeOK'
      BY ZenonT(60), <1>0, <1>3, <2>2 DEF TypeOK, Send, Names, P
    <2>4. Fits'
      BY <1>0, <1>3, <2>2 DEF Fits, Send
    <2> QED
      BY <2>3, <2>4 DEF Base
  <1>4. CASE SendFails
    BY <1>0, <1>4 DEF SendFails, Base, TypeOK, Fits, ondemand_fuota_update_status
  <1>5. CASE PollTimeout
    <2>1. retry + 1 \in 0..3 /\ alternate_retry \in 0..3 /\ pc = "wait"
      BY <1>5, Numbers DEF PollTimeout
    <2>2. /\ pc' \in {"send", "read", "aborted"}
          /\ pc' = "send" => retry + 1 < 3 /\ UNCHANGED <<page_count, subpage_count>>
          /\ pc' = "read" => alternate_retry = 3
          /\ page_count' \in 0..P
          /\ subpage_count' \in 0..(S + FileSize) /\ subpage_count' <= S + pos
          /\ using_alternate_path' \in BOOLEAN
          /\ alternate' \in 0..(3 + MaxUploads) /\ alternate' < 3 + uploads
      BY <1>5, <2>1, ResendFacts DEF PollTimeout
    <2>3. /\ retry' = retry + 1 /\ retry' \in 0..3 /\ page_count' \in 0..(P + 1)
          /\ alternate' <= 3 + uploads
          /\ pc' = "send" => page_count' < P /\ subpage_count' < S + pos
      BY <1>5, <2>1, <2>2, Counts, Numbers DEF PollTimeout
    <2>4. TypeOK'
      BY ZenonT(40), <1>0, <1>5, <2>2, <2>3 DEF PollTimeout, TypeOK, P, S
    <2>5. Fits'
      BY <1>0, <1>5, <2>1, <2>2, <2>3 DEF PollTimeout, Fits
    <2> QED
      BY <2>4, <2>5 DEF Base
  <1>6. CASE handle_fuota_post_read
    <2> DEFINE a == Head(answers)
    <2>1. Names(answers') /\ a \in Answer /\ pc = "wait"
      BY <1>0, <1>6, NamesTail DEF handle_fuota_post_read
    <2>2. UNCHANGED <<paths, uploads, meter>>
      BY <1>6 DEF handle_fuota_post_read
    <2> HIDE DEF a
    <2>3. CASE Matched
      <3>1. Advance(page_count, subpage_count, last_subpage)
        BY <2>3 DEF Matched
      <3>2. /\ pc' = "read" /\ page_count' \in 0..P
            /\ subpage_count' \in 0..(S + FileSize) /\ subpage_count' <= S + pos
        BY <2>1, <3>1, AdvanceFacts
      <3>3. /\ page_count' \in 0..(P + 1) /\ 0 <= 3 + uploads /\ 0 < 3 + uploads
            /\ 0 \in 0..(3 + MaxUploads) /\ 0 \in 0..3
        BY <3>2, Counts, Numbers
      <3>4. TypeOK'
        BY <1>0, <2>1, <2>2, <2>3, <3>2, <3>3 DEF Matched, TypeOK, Names, P, S
      <3>5. Fits'
        BY <1>0, <2>1, <2>2, <2>3, <3>2, <3>3 DEF Matched, Fits
      <3> QED
        BY <3>4, <3>5 DEF Base
    <2>4. ASSUME NEW k \in {"page", "subpage"}, Mismatched(k)
          PROVE  Base'
      <3>1. query' \in [kind: {"page", "subpage"}, attempt: 0..3]
        <4>1. query' = [kind |-> k, attempt |-> 0]
          BY <2>4, Zenon DEF Mismatched
        <4>2. 0 \in 0..3
          OBVIOUS
        <4> QED
          BY <4>1, <4>2
      <3>2. status' \in {status, "last sector"}
        BY <2>4 DEF Mismatched, ondemand_fuota_update_status
      <3> QED
        BY ZenonT(40), <1>0, <2>1, <2>2, <2>4, <3>1, <3>2 DEF Mismatched, Base, TypeOK, Fits, Names
    <2>5. CASE PrimaryRetry
      <3> DEFINE alt == prepare_alternate_sameroute_retry
      <3>1. retry + 1 \in 0..3 /\ retry' = retry + 1 /\ alternate_retry \in 0..3
        BY <2>1, <2>5, Numbers DEF PrimaryRetry
      <3>2. paths # "none" => alternate_retry = 0
        BY <1>0, <2>1 DEF Fits
      <3>3. alt \in 0..3 /\ (paths # "none" => alt = 1)
        BY <3>1, <3>2 DEF prepare_alternate_sameroute_retry
      <3> HIDE DEF alt
      <3>4. PICK b \in 0..3 : /\ Resend(retry + 1, b) /\ alternate_retry' = b
                              /\ paths # "none" => b < 3
                              /\ b = 0 \/ retry + 1 >= 3 \/ paths = "none"
        BY <2>5, <3>1, <3>2, <3>3 DEF PrimaryRetry, alt
      <3>5. /\ pc' \in {"send", "read", "aborted"}
            /\ pc' = "send" => /\ retry + 1 < 3
                               /\ UNCHANGED <<page_count, subpage_count>>
            /\ pc' = "read" => b = 3
            /\ page_count' \in 0..P
            /\ subpage_count' \in 0..(S + FileSize) /\ subpage_count' <= S + pos
            /\ using_alternate_path' \in BOOLEAN
            /\ alternate' \in 0..(3 + MaxUploads) /\ alternate' < 3 + uploads
        BY <2>1, <3>1, <3>4, ResendFacts
      <3>6. /\ retry' \in 0..3 /\ page_count' \in 0..(P + 1)
            /\ alternate' <= 3 + uploads
            /\ pc' = "send" => page_count' < P /\ subpage_count' < S + pos /\ retry' < 3
            /\ pc' \notin {"complete", "aborted", "failed"} =>
                 (paths # "none" => alternate_retry' = 0)
        BY <2>1, <3>1, <3>4, <3>5, Counts, Numbers
      <3>7. /\ expected' \in {expected, "cleared"} /\ status' \in {status, "alternate"}
            /\ UNCHANGED <<last_subpage, frame, pos, query, jumped>>
        BY <2>5 DEF PrimaryRetry, ondemand_fuota_update_status
      <3>8. TypeOK'
        BY ZenonT(40), <1>0, <2>1, <2>2, <3>4, <3>5, <3>6, <3>7 DEF TypeOK, Names, P, S
      <3>9. Fits'
        BY <1>0, <2>1, <2>2, <3>5, <3>6, <3>7 DEF Fits
      <3> QED
        BY <3>8, <3>9 DEF Base
    <2>6. CASE AlternateRetry
      <3>1. /\ pc' \in {"send", "aborted"} /\ alternate' = alternate + 1
            /\ pc' = "send" => alternate + 1 < 3
            /\ expected' \in {expected, "cleared"} /\ status' \in {status, "failed"}
            /\ UNCHANGED <<loop, retry, alternate_retry, using_alternate_path,
                           query, jumped>>
        BY <2>6 DEF AlternateRetry, ondemand_fuota_update_status
      <3>2. /\ alternate' \in 0..(3 + MaxUploads) /\ alternate' <= 3 + uploads
            /\ pc' = "send" => alternate' < 3 + uploads
        BY <2>1, <3>1, Counts, Numbers
      <3>3. TypeOK'
        <4>1. /\ pc' \in {"read", "send", "wait", "ask", "asked"} \cup Ended
              /\ page_count' \in 0..(get_max_page_count + 1)
              /\ subpage_count' \in 0..(get_max_sub_page_count + FileSize)
              /\ last_subpage' \in BOOLEAN /\ pos' \in 0..FileSize
              /\ frame' \in [page: 0..get_max_page_count, bytes: Bytes,
                           sub: 0..(get_max_sub_page_count + FileSize)]
              /\ retry' \in 0..MAX_FUOTA_RETRIES /\ alternate_retry' \in 0..max_retries
              /\ using_alternate_path' \in BOOLEAN
          BY ZenonT(60), <1>0, <2>1, <2>2, <3>1 DEF TypeOK
        <4>2. /\ query' \in [kind: {"page", "subpage"}, attempt: 0..3]
              /\ paths' \in {"direct", "none", "some"} /\ uploads' \in 1..MaxUploads
              /\ answers' \in Seq(Answer) /\ Len(answers') <= MaxLate
              /\ flash' \in [Piece -> Bytes \cup {None}]
              /\ at' \in (0..get_max_page_count) \X Subpage /\ jumped' \in BOOLEAN
          BY ZenonT(60), <1>0, <2>1, <2>2, <3>1 DEF TypeOK, Names
        <4>3. /\ alternate' \in 0..(max_retries + MaxUploads)
              /\ expected' \in {"own", "cleared", "headless"}
              /\ status' \in {"none", "transfer", "last sector", "alternate", "failed"}
          BY <1>0, <3>1, <3>2 DEF TypeOK, max_retries
        <4> QED
          BY ZenonT(60), <4>1, <4>2, <4>3 DEF TypeOK
      <3>4. Fits'
        BY <1>0, <2>1, <2>2, <3>1, <3>2 DEF Fits
      <3> QED
        BY <3>3, <3>4 DEF Base
    <2> QED
      BY <1>6, <2>3, <2>4, <2>5, <2>6 DEF handle_fuota_post_read
  <1>7. CASE Ask
    <2> DEFINE r == [kind |-> "report", page |-> LastReceived[1],
                     sub |-> LastReceived[2], code |-> 0]
    <2>1. at \in (0..P) \X Subpage /\ (at[1] = P => at[2] = 0) /\ P > 0
      <3>1. at \in (0..P) \X Subpage
        BY <1>0 DEF TypeOK, P
      <3>2. at[1] = P => at[2] = 0
        BY <1>0 DEF Fits
      <3> QED
        BY <1>7, <3>1, <3>2, Numbers, Counts DEF Ask
    <2>2. LastReceived[1] \in 0..(P - 1) /\ LastReceived[2] \in Nat
      <3>1. PICK i \in 0..P, j \in Subpage : at = <<i, j>>
        BY <2>1
      <3> QED
        BY <2>1, <3>1, Counts DEF LastReceived, Subpage, S
    <2>3. r \in Answer /\ r.page < P
      BY <2>2, Counts DEF Answer, P
    <2> HIDE DEF r
    <2>4. Names(answers')
      BY <1>0, <1>7, <2>3, NamesAppend, RefusedNames DEF Ask, r
    <2>5. query' \in [kind: {"page", "subpage"}, attempt: 0..3]
      <3>1. query \in [kind: {"page", "subpage"}, attempt: 0..3]
        BY <1>0 DEF TypeOK
      <3> QED
        BY <1>7, <3>1 DEF Ask
    <2> QED
      BY ZenonT(40), <1>0, <1>7, <2>4, <2>5 DEF Ask, Base, TypeOK, Fits, Names
  <1>8. CASE AskedInVain \/ NoReport
    <2>1. TypeOK'
      BY ZenonT(40), <1>0, <1>8 DEF AskedInVain, NoReport, TypeOK
    <2>2. Fits'
      BY <1>0, <1>8 DEF AskedInVain, NoReport, Fits
    <2> QED
      BY <2>1, <2>2 DEF Base
  <1>9. CASE ReadReport
    <2> DEFINE a == Head(answers)
    <2>1. /\ Names(answers') /\ a \in Answer /\ pc = "asked"
          /\ a.kind # "refused" => a.page < P
      BY <1>0, <1>9, NamesTail DEF ReadReport
    <2>2. UNCHANGED <<query, status, paths, uploads, meter>>
      BY <1>9 DEF ReadReport
    <2> HIDE DEF a
    <2>3. CASE a.kind = "refused"
      <3>1. pc' = "ask" /\ UNCHANGED <<loop, counters, expected, jumped>>
        BY <1>9, <2>3 DEF ReadReport, a
      <3> QED
        BY ZenonT(100), <1>0, <2>1, <2>2, <3>1 DEF Base, TypeOK, Fits, Names
    <2>4. CASE a.kind # "refused"
      <3>1. Jump(a)
        BY <1>9, <2>4 DEF ReadReport, a
      <3>2. /\ pc' = "read" /\ page_count' \in 0..(P + 1)
            /\ subpage_count' \in 0..(S + FileSize) /\ subpage_count' <= S + pos'
            /\ pos' \in 0..FileSize /\ expected' \in {"own", "cleared"}
            /\ jumped'
        BY <2>1, <2>4, <3>1, JumpFacts
      <3>3. /\ retry' = 0 /\ alternate' = 0
            /\ UNCHANGED <<last_subpage, frame, alternate_retry, using_alternate_path>>
        BY <3>1 DEF Jump
      <3>4. /\ 0 <= 3 + uploads /\ 0 < 3 + uploads
            /\ 0 \in 0..(3 + MaxUploads) /\ 0 \in 0..3
        BY Counts, Numbers
      <3>5. jumped' = TRUE
        BY <3>1 DEF Jump
      <3>6. TypeOK'
        BY <1>0, <2>1, <2>2, <3>2, <3>3, <3>4, <3>5 DEF TypeOK, Names, P, S
      <3>7. Fits'
        BY <1>0, <2>1, <2>2, <3>2, <3>3, <3>4 DEF Fits
      <3> QED
        BY <3>6, <3>7 DEF Base
    <2> QED
      BY <2>3, <2>4
  <1>10. CASE StartUpload
    <2>1. Names(<<>>)
      BY Counts DEF Names
    <2>2. NoFrame \in [page: 0..P, bytes: Bytes, sub: 0..(S + FileSize)]
      BY Counts DEF NoFrame, Bytes
    <2>3. Erased \in [Piece -> Bytes \cup {None}] /\ <<0, 0>> \in (0..P) \X Subpage
      BY Counts DEF Erased, Subpage, S
    <2>4. NoQuery \in [kind: {"page", "subpage"}, attempt: 0..3]
      BY DEF NoQuery
    <2>5. /\ 0 \in 0..(P + 1) /\ 0 \in 0..3 /\ 0 \in 0..(S + FileSize) /\ 0 \in 0..FileSize
          /\ uploads' \in 1..MaxUploads /\ 0 <= S + 0
          /\ alternate < 3 + uploads' /\ alternate <= 3 + uploads'
      BY SMTT(30), <1>10, Numbers, Counts DEF StartUpload
    <2>6. TypeOK'
      BY <1>0, <1>10, <2>1, <2>2, <2>3, <2>4, <2>5
         DEF StartUpload, TypeOK, Names, P, S
    <2>7. Fits'
      BY <1>10, <2>1, <2>5 DEF StartUpload, Fits
    <2> QED
      BY <2>6, <2>7 DEF Base
  <1>11. CASE UNCHANGED vars
    <2>0. UNCHANGED <<pc, page_count, subpage_count, last_subpage, frame, pos, retry,
                      alternate, alternate_retry, using_alternate_path, expected,
                      query, status, paths, uploads, answers, flash, at, jumped>>
      BY <1>11 DEF vars
    <2>1. TypeOK'
      BY ZenonT(100), <1>0, <2>0 DEF TypeOK
    <2>2. Fits'
      BY <1>0, <2>0 DEF Fits
    <2> QED
      BY <2>1, <2>2 DEF Base
  <1> QED
    BY <1>1, <1>2, <1>3, <1>4, <1>5, <1>6, <1>7, <1>8, <1>9, <1>10, <1>11
       DEF Next, Handler

\* The counters of the loop and of the retries stay in their bounds, and the
\* meter is never sent a piece of a page the file does not have.
THEOREM TypeCorrect == Spec => []TypeOK
  <1>1. Base => TypeOK
    BY DEF Base
  <1> QED
    BY BaseInit, BaseStep, <1>1, PTL DEF Spec

-----------------------------------------------------------------------------
(* Until the loop jumps: the file position and the flash. *)

\* A piece stays in hand, or the transfer ends.
LEMMA InStepKept ==
  ASSUME InStep, pc \in InHand, pc' \in InHand \cup Ended,
         UNCHANGED <<loop, meter, jumped>>
  PROVE  InStep'
  <1>1. UNCHANGED <<page_count, subpage_count, last_subpage, frame, pos, flash, at>>
    BY DEF loop, meter
  <1>2. Stored' <=> Stored
    BY <1>1 DEF Stored
  <1> QED
    BY <1>1, <1>2 DEF InStep, InHand, Ended

\* The loop goes on to the next piece of the file.
LEMMA AdvanceInOrder ==
  ASSUME Base, InStep, ~jumped, pc \in InHand,
         Advance(page_count, subpage_count, last_subpage)
  PROVE  /\ pc' = "read"
         /\ <<page_count', subpage_count'>> = After(page_count, subpage_count)
         /\ page_count' \in 0..P /\ subpage_count' \in Subpage
         /\ page_count' = P => subpage_count' = 0
         /\ pos = Offset(page_count', subpage_count')
  <1> DEFINE p == page_count
             s == subpage_count
  <1>1. /\ p \in 0..(P - 1) /\ s \in Subpage
        /\ last_subpage = (s = S - 1) /\ pos = Offset(p, s) + PieceLength(s)
    BY Numbers DEF InStep
  <1>2. p \in Nat /\ s \in 0..(S - 1)
    BY <1>1 DEF Subpage, S
  <1>3. <<p', s'>> = After(p, s) /\ pc' = "read"
    <2>1. CASE s = S - 1
      <3>1. pc' = "read" /\ s' = 0 /\ p' = p + 1
        BY <1>1, <2>1 DEF Advance
      <3>2. ~(s + 1 < S)
        BY <1>2, <2>1, Counts
      <3> QED
        BY <3>1, <3>2 DEF After, S
    <2>2. CASE s # S - 1
      <3>1. pc' = "read" /\ s' = s + 1 /\ p' = p
        BY <1>1, <2>2 DEF Advance
      <3>2. s + 1 < S
        BY <1>2, <2>2, Counts
      <3> QED
        BY <3>1, <3>2 DEF After, S
    <2> QED
      BY <2>1, <2>2
  <1>4. /\ After(p, s) \in (0..P) \X Subpage
        /\ After(p, s)[1] = P => After(p, s)[2] = 0
    BY <1>1, AfterFacts
  <1>5. pos = Offset(After(p, s)[1], After(p, s)[2])
    BY <1>1, <1>2, Offsets
  <1>6. p' = After(p, s)[1] /\ s' = After(p, s)[2]
    BY <1>3
  <1> QED
    BY <1>3, <1>4, <1>5, <1>6

LEMMA AdvanceInStep ==
  ASSUME Base, InStep, pc \in InHand, UNCHANGED <<pos, meter, jumped>>,
         Advance(page_count, subpage_count, last_subpage)
  PROVE  InStep'
  <1>1. SUFFICES ASSUME ~jumped PROVE InStep'
    BY DEF InStep
  <1>2. Stored'
    <2>1. UNCHANGED <<flash, at>>
      BY DEF meter
    <2> QED
      BY <1>1, <2>1 DEF InStep, Stored
  <1> QED
    BY <1>1, <1>2, AdvanceInOrder DEF InStep, InHand

LEMMA ResendInStep ==
  ASSUME Base, InStep, pc = "wait", NEW n \in 0..3, NEW alt \in 0..3, Resend(n, alt),
         UNCHANGED <<last_subpage, frame, pos, meter, jumped>>
  PROVE  InStep'
  <1>1. pc \in InHand
    BY DEF InHand
  <1>2. CASE pc' = "read"
    BY <1>1, <1>2, ResendFacts, AdvanceInStep
  <1>3. CASE pc' # "read"
    <2>1. UNCHANGED <<page_count, subpage_count>> /\ pc' \in {"send", "aborted"}
      BY <1>3 DEF Resend, Advance
    <2> QED
      BY <1>1, <2>1, InStepKept DEF InHand, Ended, loop
  <1> QED
    BY <1>2, <1>3

\* The frame reaches the meter or does not.
LEMMA SendInStep ==
  ASSUME Base, InStep, Send
  PROVE  InStep'
  <1>1. pc = "send" /\ pc' = "wait" /\ (Deliver(frame) \/ Drop) /\ UNCHANGED <<loop, jumped>>
    BY DEF Send
  <1>2. pc \in InHand /\ pc' \in InHand
    BY <1>1 DEF InHand
  <1>3. CASE UNCHANGED meter
    BY <1>1, <1>2, <1>3, InStepKept
  <1>4. CASE /\ at = <<page_count, subpage_count>>
             /\ page_count \in 0..(P - 1) /\ subpage_count \in Subpage
             /\ at' = After(page_count, subpage_count)
             /\ flash' = [flash EXCEPT ![at] = frame.bytes]
    <2>1. SUFFICES ASSUME ~jumped PROVE InStep'
      BY <1>1 DEF InStep
    <2>2. frame.bytes = Own(at[1], at[2]) /\ Stored
      BY <1>2, <1>4, <2>1 DEF InStep
    <2>3. flash \in [Piece -> Bytes \cup {None}]
      BY DEF Base, TypeOK
    <2>4. ASSUME NEW x \in Piece
          PROVE  flash'[x] = IF Before(x, at') THEN Own(x[1], x[2]) ELSE None
      <3>1. Before(x, at') <=> Before(x, at) \/ x = at
        BY <1>4, AfterFacts
      <3>2. CASE x = at
        BY <1>4, <2>2, <2>3, <3>1, <3>2
      <3>3. CASE x # at
        BY <1>4, <2>2, <2>3, <3>1, <3>3 DEF Stored
      <3> QED
        BY <3>2, <3>3
    <2>5. Stored'
      BY <2>4 DEF Stored
    <2> QED
      BY <1>1, <1>2, <2>1, <2>5 DEF InStep, InHand, loop
  <1> QED
    BY <1>1, <1>3, <1>4, SendFacts

LEMMA InStepInit == Init => InStep
  <1> SUFFICES ASSUME Init PROVE InStep
    OBVIOUS
  <1>1. ASSUME NEW x \in Piece PROVE ~Before(x, <<0, 0>>) /\ flash[x] = None
    BY Counts DEF Before, Piece, Page, Subpage, Init, Erased, P, S
  <1>2. Stored
    BY <1>1 DEF Stored, Init
  <1>3. 0 \in 0..P /\ 0 \in Subpage /\ Offset(0, 0) = 0
    BY Counts, Sizes DEF Subpage, Offset, S
  <1> QED
    BY <1>2, <1>3 DEF InStep, Init, InHand

LEMMA InStepStep == Base /\ InStep /\ [Next]_vars => InStep'
  <1> SUFFICES ASSUME Base, InStep, [Next]_vars PROVE InStep'
    OBVIOUS
  <1>1. CASE UploadDone
    <2>1. pc = "read" /\ pc' = "complete" /\ UNCHANGED <<loop, meter, jumped>>
      BY <1>1 DEF UploadDone
    <2>2. Stored' <=> Stored
      BY <2>1 DEF meter, Stored
    <2> QED
      BY <2>1, <2>2 DEF InStep, loop, InHand
  <1>2. CASE ReadPiece
    <2> DEFINE n == Min({PieceLength(subpage_count), FileSize - pos})
               p == page_count
               s == subpage_count
    <2>1. /\ pc = "read" /\ p < P /\ last_subpage' = (s = S - 1)
          /\ UNCHANGED <<page_count, subpage_count, flash, at, jumped>>
      BY <1>2 DEF ReadPiece, meter, P, S
    <2>2. SUFFICES ASSUME ~jumped PROVE InStep'
      BY <2>1 DEF InStep
    <2>3. p \in Nat /\ s \in Subpage /\ pos = Offset(p, s) /\ Stored /\ p \in 0..P
      BY <2>1, <2>2, Counts DEF InStep
    <2>4. PieceLength(s) <= FileSize - pos /\ PieceLength(s) # 0
      BY <2>1, <2>3, Offsets, Lengths, Counts
    <2>5. n = PieceLength(s) /\ n # 0
      BY <2>4, ReadFacts
    <2> HIDE DEF n
    <2>6. /\ pos' = pos + n /\ pc' = "send"
          /\ frame' = [page |-> p, sub |-> s, bytes |-> <<pos, n>>]
      BY <1>2, <2>5 DEF ReadPiece, n
    <2>7. frame'.bytes = Own(p, s)
      BY <2>3, <2>5, <2>6 DEF Own
    <2>8. Stored'
      BY <2>1, <2>3 DEF Stored
    <2> QED
      BY <2>1, <2>3, <2>5, <2>6, <2>7, <2>8 DEF InStep, InHand
  <1>3. CASE Send
    BY <1>3, SendInStep
  <1>4. CASE SendFails
    BY <1>4, InStepKept DEF SendFails, InHand, Ended
  <1>5. CASE PollTimeout
    <2>1. /\ pc = "wait" /\ retry + 1 \in 0..3 /\ alternate_retry \in 0..3
          /\ Resend(retry + 1, alternate_retry)
          /\ UNCHANGED <<last_subpage, frame, pos, meter, jumped>>
      BY <1>5, Numbers DEF PollTimeout, InHand
    <2> QED
      BY <2>1, ResendInStep
  <1>6. CASE handle_fuota_post_read
    <2>1. pc = "wait" /\ UNCHANGED meter
      BY <1>6 DEF handle_fuota_post_read
    <2>2. CASE Matched
      BY <2>1, <2>2, AdvanceInStep DEF Matched, InHand
    <2>3. ASSUME NEW k, Mismatched(k) PROVE InStep'
      BY <2>1, <2>3, InStepKept DEF Mismatched, InHand
    <2>4. CASE PrimaryRetry
      <3>1. PICK b \in 0..3 : Resend(retry + 1, b)
        <4>1. CASE retry + 1 < 3
          BY <2>4, <4>1, Numbers DEF PrimaryRetry
        <4>2. CASE ~(retry + 1 < 3)
          <5>1. paths # "none" => alternate_retry = 0
            BY <2>1 DEF Base, Fits, Ended
          <5>2. prepare_alternate_sameroute_retry \in 0..3
            BY <5>1 DEF prepare_alternate_sameroute_retry, max_retries
          <5> QED
            BY <2>4, <4>2, <5>2 DEF PrimaryRetry
        <4> QED
          BY <4>1, <4>2
      <3>2. retry + 1 \in 0..3 /\ UNCHANGED <<last_subpage, frame, pos, jumped>>
        BY <2>1, <2>4, Numbers DEF PrimaryRetry, InHand
      <3> QED
        BY <2>1, <3>1, <3>2, ResendInStep
    <2>5. CASE AlternateRetry
      <3>1. pc' \in {"send", "aborted"} /\ UNCHANGED <<loop, jumped>>
        BY <2>5 DEF AlternateRetry
      <3> QED
        BY <2>1, <3>1, InStepKept DEF InHand, Ended
    <2> QED
      BY <1>6, <2>2, <2>3, <2>4, <2>5 DEF handle_fuota_post_read
  <1>7. CASE Ask
    BY <1>7, InStepKept DEF Ask, InHand
  <1>8. CASE AskedInVain \/ NoReport
    BY <1>8, InStepKept DEF AskedInVain, NoReport, InHand
  <1>9. CASE ReadReport
    <2>1. CASE jumped' = TRUE
      BY <2>1 DEF InStep
    <2>2. CASE pc' = "ask" /\ UNCHANGED <<loop, jumped>>
      BY <1>9, <2>2, InStepKept DEF ReadReport, InHand
    <2> QED
      BY <1>9, <2>1, <2>2 DEF ReadReport, Jump
  <1>10. CASE StartUpload
    <2>1. /\ pc' = "read" /\ page_count' = 0 /\ subpage_count' = 0 /\ pos' = 0
          /\ flash' = Erased /\ at' = <<0, 0>>
      BY <1>10 DEF StartUpload
    <2>2. ASSUME NEW x \in Piece PROVE ~Before(x, at') /\ flash'[x] = None
      BY <2>1, Counts DEF Before, Piece, Page, Subpage, Erased, P, S
    <2>3. Stored'
      BY <2>2 DEF Stored
    <2>4. 0 \in 0..P /\ 0 \in Subpage /\ Offset(0, 0) = 0
      BY Counts, Sizes DEF Subpage, Offset, S
    <2> QED
      BY <2>1, <2>3, <2>4 DEF InStep, InHand
  <1>11. CASE UNCHANGED vars
    <2>1. UNCHANGED <<pc, page_count, subpage_count, last_subpage, frame, pos,
                      flash, at, jumped>>
      BY <1>11 DEF vars, loop, meter
    <2>2. Stored' <=> Stored
      BY <2>1 DEF Stored
    <2> QED
      BY <2>1, <2>2 DEF InStep
  <1> QED
    BY <1>1, <1>2, <1>3, <1>4, <1>5, <1>6, <1>7, <1>8, <1>9, <1>10, <1>11
       DEF Next, Handler

\* As long as the loop has not jumped, whatever was lost, refused or came late,
\* the flash holds in every place nothing or the bytes of the file that belong
\* there: a piece sent again is the piece that was framed, and a piece that is
\* given up does not move the file position of the next.
THEOREM FlashSafe == Spec => []FlashIntact
  <1>1. InStep => FlashIntact
    BY DEF InStep, Stored, FlashIntact
  <1> QED
    BY BaseInit, BaseStep, InStepInit, InStepStep, <1>1, PTL DEF Spec

-----------------------------------------------------------------------------
(* Where the meter is, and what the answers under way are about. *)

LEMMA BeforeNext ==
  ASSUME NEW p \in Nat, NEW s \in Nat, NEW i \in Nat, NEW j \in Nat,
         Before(<<i, j>>, <<p, s>>)
  PROVE  Before(<<i, j>>, After(p, s))
  BY Counts DEF Before, After, S

LEMMA AckedAppend ==
  ASSUME NEW q \in Seq(Answer), NEW y, Acked(q, y), NEW a \in Answer,
         a.kind = "ack" => Before(<<a.page, a.sub>>, y)
  PROVE  Acked(Append(q, a), y)
  <1>1. \A i \in DOMAIN Append(q, a) :
          \/ i \in DOMAIN q /\ Append(q, a)[i] = q[i]
          \/ Append(q, a)[i] = a
    OBVIOUS
  <1> QED
    BY <1>1 DEF Acked

LEMMA AckedTail ==
  ASSUME NEW q, Names(q), q # <<>>, NEW y, Acked(q, y)
  PROVE  /\ Acked(Tail(q), y)
         /\ Head(q).kind = "ack" => Before(<<Head(q).page, Head(q).sub>>, y)
  BY NamesTail DEF Acked

\* An answer that takes a piece is on its way only when the meter has it.
LEMMA AckedSend ==
  ASSUME Base, InOrder, Send
  PROVE  Acked(answers', at')
  <1> DEFINE p == page_count
             s == subpage_count
  <1>1. /\ answers \in Seq(Answer) /\ Acked(answers, at)
        /\ frame.page = p /\ frame.sub = s /\ Refused \in Answer /\ pc = "send"
        /\ p \in Nat /\ s \in Nat /\ p < P
    BY Numbers, Counts, RefusedNames
       DEF Base, Fits, Names, InOrder, Send, InHand
  <1>2. CASE Drop
    BY <1>1, <1>2, AckedAppend DEF Drop, Refused, meter
  <1>3. CASE Deliver(frame)
    <2>1. CASE <<p, s>> = at
      <3>1. at' = After(p, s) /\ s \in Subpage /\ p \in 0..(P - 1)
        <4>1. at \in (0..P) \X Subpage
          BY DEF Base, TypeOK, P
        <4> QED
          BY <1>1, <1>3, <2>1, <4>1, Counts DEF Deliver
      <3>2. Acked(answers, at')
        <4>1. ASSUME NEW i \in DOMAIN answers, answers[i].kind = "ack"
              PROVE  Before(<<answers[i].page, answers[i].sub>>, at')
          <5>1. answers[i] \in Answer
            BY <1>1
          <5>2. answers[i].page \in Nat /\ answers[i].sub \in Nat
            BY <5>1, Counts DEF Answer, P
          <5>3. Before(<<answers[i].page, answers[i].sub>>, <<p, s>>)
            BY <1>1, <2>1, <4>1 DEF Acked
          <5> QED
            BY <1>1, <3>1, <5>2, <5>3, BeforeNext
        <4> QED
          BY <4>1 DEF Acked
      <3>3. /\ Verdict(frame) \in Answer
            /\ Verdict(frame).page = p /\ Verdict(frame).sub = s
        BY <1>1, Counts DEF Verdict, Answer, P
      <3>4. Before(<<p, s>>, at')
        BY <3>1, AfterFacts
      <3> QED
        BY <1>1, <1>3, <3>2, <3>3, <3>4, AckedAppend DEF Deliver, Refused
    <2>2. CASE <<p, s>> # at
      <3>1. at' = at
        BY <1>1, <1>3, <2>2 DEF Deliver
      <3>2. Verdict(frame) \in Answer /\ Verdict(frame).kind = "mismatch"
        BY <1>1, <2>2, Counts DEF Verdict, Answer, P
      <3> QED
        BY <1>1, <1>3, <3>1, <3>2, AckedAppend DEF Deliver, Refused
    <2> QED
      BY <2>1, <2>2
  <1> QED
    BY <1>2, <1>3 DEF Send

\* A piece stays in hand, or the transfer is given up.
LEMMA InOrderKept ==
  ASSUME InOrder, pc \in InHand, pc' \in InHand \cup {"aborted", "failed"},
         UNCHANGED <<page_count, subpage_count, at, jumped, paths>>,
         Acked(answers', at)
  PROVE  InOrder'
  BY DEF InOrder, InHand

\* The loop goes on behind a piece the meter has.
LEMMA AdvanceWithMeter ==
  ASSUME Base, InStep, InOrder, pc \in InHand,
         Advance(page_count, subpage_count, last_subpage),
         ~jumped /\ paths # "none" => at = After(page_count, subpage_count),
         UNCHANGED <<at, jumped, paths>>, Acked(answers', at)
  PROVE  InOrder'
  <1>1. pc' = "read"
    BY DEF Advance
  <1>2. ~jumped /\ paths # "none" => at = <<page_count', subpage_count'>>
    BY AdvanceInOrder
  <1> QED
    BY <1>1, <1>2 DEF InOrder, InHand

\* With an alternate path to try, or none needed, a piece is never given up
\* while the transfer goes on.
LEMMA ResendInOrder ==
  ASSUME Base, InStep, InOrder, pc = "wait",
         NEW n \in 0..3, NEW alt \in 0..3, Resend(n, alt),
         paths # "none" => alt < 3,
         UNCHANGED <<at, jumped, paths>>, Acked(answers', at)
  PROVE  InOrder'
  <1>1. CASE pc' = "read"
    <2>1. paths = "none"
      BY <1>1, ResendFacts
    <2> QED
      BY <2>1 DEF InOrder
  <1>2. CASE pc' # "read"
    <2>1. UNCHANGED <<page_count, subpage_count>> /\ pc' \in {"send", "aborted"}
      BY <1>2 DEF Resend, Advance
    <2> QED
      BY <2>1, InOrderKept DEF InHand
  <1> QED
    BY <1>1, <1>2

LEMMA InOrderInit == Init => InOrder
  BY DEF Init, InOrder, Acked, InHand

LEMMA InOrderStep == Base /\ InStep /\ InOrder /\ [Next]_vars => InOrder'
  <1> SUFFICES ASSUME Base, InStep, InOrder, [Next]_vars PROVE InOrder'
    OBVIOUS
  <1>0. /\ Acked(answers, at) /\ Names(answers) /\ answers \in Seq(Answer)
        /\ paths # "none" /\ pc \notin Ended => alternate_retry = 0
    BY DEF InOrder, Base, Fits, Names
  <1>1. CASE UploadDone
    <2>1. /\ pc = "read" /\ pc' = "complete" /\ page_count >= P
          /\ UNCHANGED <<at, jumped, paths, answers>>
      BY <1>1 DEF UploadDone, meter, P
    <2>2. ~jumped => page_count = P /\ subpage_count = 0
      BY <2>1, Counts DEF InStep
    <2> QED
      BY <2>1, <2>2 DEF InOrder, InHand
  <1>2. CASE ReadPiece
    <2> DEFINE n == Min({PieceLength(subpage_count), FileSize - pos})
               p == page_count
               s == subpage_count
    <2>1. /\ pc = "read" /\ p < P
          /\ UNCHANGED <<page_count, subpage_count, at, jumped, paths, answers>>
      BY <1>2 DEF ReadPiece, meter, P
    <2>2. ~jumped => n # 0
      <3>1. HAVE ~jumped
      <3>2. p \in Nat /\ s \in Subpage /\ pos = Offset(p, s)
        BY <2>1, <3>1, Counts DEF InStep
      <3>3. PieceLength(s) <= FileSize - pos /\ PieceLength(s) # 0
        BY <2>1, <3>2, Offsets, Lengths, Counts
      <3> QED
        BY <3>3, ReadFacts
    <2> HIDE DEF n
    <2>3. ~jumped => pc' = "send"
      BY <1>2, <2>2 DEF ReadPiece, n
    <2> QED
      BY <2>1, <2>3 DEF InOrder, InHand
  <1>3. CASE Send
    <2>1. /\ pc = "send" /\ pc' = "wait" /\ (Deliver(frame) \/ Drop)
          /\ UNCHANGED <<page_count, subpage_count, jumped, paths>>
      BY <1>3 DEF Send, loop
    <2>2. at' \in {at, After(page_count, subpage_count)}
      BY <2>1, SendFacts DEF meter
    <2> QED
      BY <1>3, <2>1, <2>2, AckedSend DEF InOrder, InHand
  <1>4. CASE SendFails
    BY <1>0, <1>4, InOrderKept DEF SendFails, InHand, loop, meter
  <1>5. CASE PollTimeout
    <2>1. /\ pc = "wait" /\ retry + 1 \in 0..3 /\ alternate_retry \in 0..3
          /\ Resend(retry + 1, alternate_retry)
          /\ UNCHANGED <<at, jumped, paths, answers>>
      BY <1>5, Numbers DEF PollTimeout, InHand, meter
    <2>2. paths # "none" => alternate_retry < 3
      BY <1>0, <2>1 DEF Ended
    <2> QED
      BY <1>0, <2>1, <2>2, ResendInOrder
  <1>6. CASE handle_fuota_post_read
    <2> DEFINE a == Head(answers)
    <2>1. /\ pc = "wait" /\ UNCHANGED <<at, paths>> /\ Acked(answers', at)
          /\ a.kind = "ack" => Before(<<a.page, a.sub>>, at)
      BY <1>0, <1>6, AckedTail DEF handle_fuota_post_read, meter
    <2> HIDE DEF a
    <2>2. CASE Matches(a) /\ Matched
      <3>1. /\ a.page = page_count /\ a.sub = subpage_count /\ a.kind = "ack"
            /\ Advance(page_count, subpage_count, last_subpage) /\ UNCHANGED jumped
            /\ page_count \in 0..(P - 1)
        <4>1. frame.page = page_count /\ frame.sub = subpage_count
          BY <2>1 DEF Base, Fits, InHand
        <4> QED
          BY <2>1, <2>2, <4>1, Numbers DEF Matches, Matched, InHand
      <3>2. ~jumped /\ paths # "none" => at = After(page_count, subpage_count)
        <4>1. HAVE ~jumped /\ paths # "none"
        <4>2. at \in {<<page_count, subpage_count>>, After(page_count, subpage_count)}
          BY <2>1, <4>1 DEF InOrder, InHand
        <4>3. ~Before(<<page_count, subpage_count>>, <<page_count, subpage_count>>)
          BY <3>1, <4>1, AfterFacts DEF InStep
        <4> QED
          BY <2>1, <3>1, <4>2, <4>3
      <3> QED
        BY <2>1, <3>1, <3>2, AdvanceWithMeter DEF InHand
    <2>3. ASSUME NEW k, Mismatched(k) PROVE InOrder'
      BY <2>1, <2>3, InOrderKept DEF Mismatched, InHand, loop
    <2>4. CASE PrimaryRetry
      <3>1. retry + 1 \in 0..3 /\ alternate_retry \in 0..3 /\ UNCHANGED jumped
        BY <2>1, <2>4, Numbers DEF PrimaryRetry, InHand
      <3>2. paths # "none" => alternate_retry = 0
        BY <1>0, <2>1 DEF Ended
      <3>3. /\ prepare_alternate_sameroute_retry \in 0..3
            /\ paths # "none" => prepare_alternate_sameroute_retry < 3
        BY <3>2 DEF prepare_alternate_sameroute_retry, max_retries
      <3>4. CASE Resend(retry + 1, alternate_retry)
        BY <2>1, <3>1, <3>2, <3>4, ResendInOrder
      <3>5. CASE Resend(retry + 1, prepare_alternate_sameroute_retry)
        BY <2>1, <3>1, <3>3, <3>5, ResendInOrder
      <3> QED
        BY <2>4, <3>4, <3>5 DEF PrimaryRetry
    <2>5. CASE AlternateRetry
      <3>1. /\ pc' \in {"send", "aborted"}
            /\ UNCHANGED <<page_count, subpage_count, jumped>>
        BY <2>5 DEF AlternateRetry, loop
      <3> QED
        BY <2>1, <3>1, InOrderKept DEF InHand
    <2> QED
      BY <1>6, <2>2, <2>3, <2>4, <2>5 DEF handle_fuota_post_read, a
  <1>7. CASE Ask
    <2> DEFINE r == [kind |-> "report", page |-> LastReceived[1],
                     sub |-> LastReceived[2], code |-> 0]
    <2>1. \/ answers' = answers
          \/ answers' = Append(answers, Refused)
          \/ answers' = Append(answers, r)
      BY <1>7 DEF Ask
    <2>2. ASSUME NEW b, b.kind # "ack" PROVE Acked(Append(answers, b), at)
      <3>1. \A i \in DOMAIN Append(answers, b) :
              \/ i \in DOMAIN answers /\ Append(answers, b)[i] = answers[i]
              \/ Append(answers, b)[i] = b
        BY <1>0
      <3> QED
        BY <1>0, <2>2, <3>1 DEF Acked
    <2>3. Refused.kind # "ack" /\ r.kind # "ack"
      BY DEF Refused
    <2>4. Acked(answers', at)
      BY <1>0, <2>1, <2>2, <2>3
    <2> QED
      BY <1>7, <2>4, InOrderKept DEF Ask, InHand, loop, meter
  <1>8. CASE AskedInVain \/ NoReport
    BY <1>0, <1>8, InOrderKept DEF AskedInVain, NoReport, InHand, loop, meter
  <1>9. CASE ReadReport
    <2>1. pc = "asked" /\ UNCHANGED <<at, paths>> /\ Acked(answers', at)
      BY <1>0, <1>9, AckedTail DEF ReadReport, meter
    <2>2. CASE jumped' = TRUE
      BY <2>1, <2>2 DEF InOrder
    <2>3. CASE pc' = "ask" /\ UNCHANGED <<loop, jumped>>
      BY <2>1, <2>3, InOrderKept DEF InHand, loop
    <2> QED
      BY <1>9, <2>2, <2>3 DEF ReadReport, Jump
  <1>10. CASE StartUpload
    BY <1>10 DEF StartUpload, InOrder, Acked, InHand
  <1>11. CASE UNCHANGED vars
    BY <1>11 DEF vars, loop, meter, InOrder
  <1> QED
    BY <1>1, <1>2, <1>3, <1>4, <1>5, <1>6, <1>7, <1>8, <1>9, <1>10, <1>11
       DEF Next, Handler

\* When the transfer is said to be complete, and neither a jump nor the missing
\* alternate path skipped a piece, the meter holds every piece of the full
\* sectors: the answer the loop goes on with, however late, is one the meter gave when
\* it took that very piece.
THEOREM CompleteSafe == Spec => []CompleteStored
  <1>1. InStep /\ InOrder => CompleteStored
    <2> SUFFICES ASSUME InStep, InOrder, pc = "complete", ~jumped, paths # "none",
                        NEW x \in Piece
                 PROVE  flash[x] = Own(x[1], x[2])
      BY DEF CompleteStored
    <2>1. at = <<P, 0>> /\ Stored
      BY DEF InStep, InOrder
    <2>2. Before(x, at)
      BY <2>1, Counts DEF Before, Piece, Page, P
    <2> QED
      BY <2>1, <2>2 DEF Stored
  <1> QED
    BY BaseInit, BaseStep, InStepInit, InStepStep, InOrderInit, InOrderStep, <1>1,
       PTL DEF Spec
=============================================================================

-------------------------- MODULE StoredDataProofs --------------------------
(***************************************************************************)
(* Proofs about the data that meters send and what is stored of it: the    *)
(* pushes of PushReassembly, then the on-demand answers of OdmRecords.     *)
(*                                                                         *)
(* PushReassembly, for any number of meters, pages, records and pushes,    *)
(* and any length of a block.  The argument is about what a buffer holds   *)
(* when it has counted as many packets as pages have gone by: then it      *)
(* holds these pages, and it holds them of this push.  That is so for a    *)
(* source none of whose pushes has met what Excuse names, and for a push   *)
(* that began with an empty buffer and of which every page came.           *)
(*                                                                         *)
(* OdmRecords, for any number of requests, pages and answers.  The         *)
(* argument is about what the columns in memory are made of: sequences     *)
(* over the values of the request being served (OwnData), or over values   *)
(* that no row has yet (Gone).  Parsing and filling keep a column a        *)
(* sequence over such a set, and a row takes its cells from it.            *)
(***************************************************************************)
EXTENDS PushReassembly, OdmRecords, FiniteSetTheorems, SequenceTheorems,
        WellFoundedInduction, TLAPS

\* The blocks of the first n records of push r: j whole blocks, and k records
\* of the next.
Holds(b, r, j, k) ==
  /\ b.blocks = [i \in 1..j |-> BlockOf(r, i)]
  /\ b.partial = [x \in Ids |-> IF x < k THEN [push |-> r, rec |-> j * BlockLength + x]
                                ELSE Absent]
Gathered(b, r, n) ==
  \E j \in 0..n, k \in Ids : n = j * BlockLength + k /\ Holds(b, r, j, k)

\* The buffer b holds the first n records of push r.
Exact(s, b, r, n) ==
  IF s[2] = "BLP" THEN Gathered(b, r, n)
  ELSE \A i \in Record : i < n => b.map[i] = r

Unspoilt(s) == spoilt[s] \cap Excuse(s) = {}

\* As many packets as pages: the buffer holds what has come of this push.
Counted(s) ==
  next[s] <= LastPage /\ (clean[s] \/ Unspoilt(s)) =>
    /\ push_node_info[s].total <= next[s]
    /\ push_node_info[s].total = next[s] =>
         Exact(s, push_node_info[s], round[s], next[s] * RecordsPerPage)
CleanCounted(s) ==
  clean[s] /\ next[s] <= LastPage => push_node_info[s].total = next[s]
\* A buffer of the block load that has counted nothing holds nothing.
Drained(s) ==
  s[2] = "BLP" /\ Unspoilt(s) /\ push_node_info[s].total = 0 =>
    push_node_info[s].blocks = <<>> /\ push_node_info[s].partial = NoBlock
\* Packets that can have been counted by now.
Sum(s) ==
  IF round[s] = 0 THEN push_node_info[s].total = 0 /\ next[s] = LastPage + 1 /\ ~clean[s]
  ELSE push_node_info[s].total + faults
         <= (round[s] - 1) * LastPage + MaxFault
            + (IF next[s] <= LastPage THEN next[s] ELSE LastPage)
\* StoredWhole and WholePushStored for one source.
Stored(s) ==
  /\ row[s] = -1 => ~Unspoilt(s)
  /\ clean[s] /\ next[s] = LastPage + 1 => row[s] = round[s]
One(s) == Counted(s) /\ CleanCounted(s) /\ Drained(s) /\ Sum(s) /\ Stored(s)

Buf == [total: Nat, stale: BOOLEAN, map: [Record -> 0..MaxRound],
        blocks: Seq(Block), partial: Block]
Shape ==
  /\ round \in [Source -> 0..MaxRound] /\ next \in [Source -> 0..(LastPage + 1)]
  /\ push_node_info \in [Source -> Buf] /\ row \in [Source -> -1..MaxRound]
  /\ faults \in 0..MaxFault /\ spoilt \in [Source -> SUBSET {"again", "rush", "cut"}]
  /\ clean \in [Source -> BOOLEAN]

IInv == Shape /\ \A s \in Source : One(s)

\* A set of numbers that has 0, and with a number the one after it, has all.
LEMMA NatSetInduction ==
  ASSUME NEW S, 0 \in S, \A n \in Nat : n \in S => n + 1 \in S
  PROVE  Nat \subseteq S
  <1> DEFINE T == Nat \ S
             R == OpToRel(<, Nat)
  <1> SUFFICES ASSUME T # {} PROVE FALSE
    OBVIOUS
  <1>1. IsWellFoundedOn(R, Nat)
    BY NatLessThanWellFounded
  <1>2. \A n \in Nat : <<n, n + 1>> \in R
    BY DEF OpToRel
  <1> HIDE DEF R
  <1>3. PICK x \in T : \A y \in T : <<y, x>> \notin R
    BY <1>1, WFMin
  <1>4. x # 0 /\ x - 1 \in Nat /\ x = (x - 1) + 1
    OBVIOUS
  <1>5. x - 1 \in S
    BY <1>2, <1>3, <1>4
  <1> QED
    BY <1>4, <1>5

-----------------------------------------------------------------------------
(* Arithmetic. *)

LEMMA Products ==
  ASSUME NEW a \in Nat, NEW b \in Nat
  PROVE  a * b \in Nat /\ (a + 1) * b = a * b + b /\ b * a = a * b
  OBVIOUS

LEMMA ProductsGrow ==
  ASSUME NEW a \in Nat, NEW c \in Nat, NEW b \in Nat, a <= c
  PROVE  a * b <= c * b
  <1>1. PICK d \in Nat : c = a + d
    <2>1. c - a \in Nat /\ c = a + (c - a)
      OBVIOUS
    <2> QED
      BY <2>1
  <1>2. c * b = a * b + d * b
    BY <1>1
  <1>3. a * b \in Nat /\ d * b \in Nat
    OBVIOUS
  <1> QED
    BY <1>2, <1>3

\* The block of a record and its id in it.
LEMMA Places ==
  ASSUME NEW j \in Nat, NEW k \in Ids
  PROVE  (j * BlockLength + k) \div BlockLength = j /\ Id(j * BlockLength + k) = k
  <1> DEFINE B == BlockLength
             n == j * B + k
             d == n \div B
             m == n % B
  <1>1. B \in Nat /\ B > 0 /\ k \in Nat /\ k < B
    BY PushBounds DEF Ids
  <1>2. n \in Nat
    BY <1>1
  <1> HIDE DEF B, n
  <1>3. d \in Nat /\ m \in Nat /\ m < B /\ n = d * B + m
    BY <1>1, <1>2
  <1> HIDE DEF d, m
  <1>4. ~(d < j)
    <2> SUFFICES ASSUME d < j PROVE FALSE
      OBVIOUS
    <2>1. (d + 1) * B <= j * B
      BY <1>1, <1>3, ProductsGrow
    <2>2. (d + 1) * B = d * B + B /\ d * B \in Nat /\ j * B \in Nat
      BY <1>1, <1>3, Products
    <2>3. n = j * B + k
      BY DEF n, B
    <2> QED
      BY <1>1, <1>3, <2>1, <2>2, <2>3
  <1>5. ~(j < d)
    <2> SUFFICES ASSUME j < d PROVE FALSE
      OBVIOUS
    <2>1. (j + 1) * B <= d * B
      BY <1>1, <1>3, ProductsGrow
    <2>2. (j + 1) * B = j * B + B /\ d * B \in Nat /\ j * B \in Nat
      BY <1>1, <1>3, Products
    <2>3. n = j * B + k
      BY DEF n, B
    <2> QED
      BY <1>1, <1>3, <2>1, <2>2, <2>3
  <1>6. d = j
    BY <1>3, <1>4, <1>5
  <1>7. m = k
    <2>1. n = j * B + k /\ j * B \in Nat
      BY <1>1 DEF n, B
    <2> QED
      BY <1>1, <1>3, <1>6, <2>1
  <1> QED
    BY <1>6, <1>7 DEF d, m, n, B, Id

\* A push has at least one record, and fills its blocks.
LEMMA Sizes ==
  /\ RecordCount \in Nat /\ RecordCount > 0 /\ 0 \in Record /\ 0 \in Ids
  /\ RecordCount \div BlockLength \in Nat /\ RecordCount \div BlockLength > 0
  /\ Id(RecordCount) = 0
  <1>1. /\ LastPage \in Nat /\ RecordsPerPage \in Nat /\ RecordsPerPage > 0
        /\ BlockLength \in Nat /\ BlockLength > 0
    BY PushBounds
  <1>2. RecordCount \in Nat /\ RecordCount > 0
    <2>1. (LastPage + 1) * RecordsPerPage = LastPage * RecordsPerPage + RecordsPerPage
          /\ LastPage * RecordsPerPage \in Nat
      BY <1>1, Products
    <2> QED
      BY <1>1, <2>1 DEF RecordCount
  <1>3. RecordCount % BlockLength = 0
    BY PushBounds
  <1>4. RecordCount \div BlockLength \in Nat /\ RecordCount \div BlockLength > 0
    <2> DEFINE n == RecordCount
               B == BlockLength
               d == n \div B
    <2> HIDE DEF n, B
    <2>1. n \in Nat /\ n > 0 /\ B \in Nat /\ B > 0 /\ n % B = 0
      BY <1>1, <1>2, <1>3 DEF n, B
    <2>2. d \in Nat /\ n = d * B + 0
      BY <2>1
    <2> HIDE DEF d
    <2>3. d # 0
      BY <2>1, <2>2
    <2> QED
      BY <2>2, <2>3 DEF d, n, B
  <1> QED
    BY <1>1, <1>2, <1>3, <1>4 DEF Record, Ids, Id
-----------------------------------------------------------------------------
(* What the parsers and the inserts make of a buffer. *)

LEMMA BufFacts ==
  ASSUME NEW b \in Buf
  PROVE  /\ b.total \in Nat /\ b.stale \in BOOLEAN /\ b.map \in [Record -> 0..MaxRound]
         /\ b.blocks \in Seq(Block) /\ b.partial \in Block
  BY DEF Buf

LEMMA EmptyFacts ==
  /\ EmptyBuffer \in Buf /\ EmptyBuffer.total = 0 /\ EmptyBuffer.blocks = <<>>
  /\ EmptyBuffer.partial = NoBlock /\ EmptyBuffer.stale = FALSE
  <1>1. NoBlock \in Block
    BY DEF NoBlock, Block
  <1>2. [i \in Record |-> 0] \in [Record -> 0..MaxRound]
    BY PushBounds
  <1>3. <<>> \in Seq(Block)
    OBVIOUS
  <1> HIDE DEF NoBlock, Block
  <1> QED
    BY <1>1, <1>2, <1>3 DEF EmptyBuffer, Buf

\* A record changes the blocks only.
LEMMA AddFacts ==
  ASSUME NEW b \in Buf, NEW item \in Item
  PROVE  LET c == AddRecord(b, item) IN
         /\ c \in Buf /\ c.total = b.total /\ c.stale = b.stale /\ c.map = b.map
         /\ Id(item.rec) = BlockLength - 1 =>
              /\ c.blocks = Append(b.blocks, [b.partial EXCEPT ![Id(item.rec)] = item])
              /\ c.partial = NoBlock
         /\ Id(item.rec) # BlockLength - 1 =>
              /\ c.blocks = b.blocks
              /\ c.partial = [b.partial EXCEPT ![Id(item.rec)] = item]
  <1> DEFINE grown == [b.partial EXCEPT ![Id(item.rec)] = item]
  <1>1. b.blocks \in Seq(Block) /\ b.partial \in Block
    BY BufFacts
  <1>2. grown \in Block
    BY <1>1 DEF Block
  <1>3. NoBlock \in Block
    BY DEF NoBlock, Block
  <1> HIDE DEF grown
  <1>4. Append(b.blocks, grown) \in Seq(Block)
    BY <1>1, <1>2
  <1>5. CASE Id(item.rec) = BlockLength - 1
    <2>1. AddRecord(b, item) = [b EXCEPT !.blocks = Append(b.blocks, grown), !.partial = NoBlock]
      BY <1>5 DEF AddRecord, grown
    <2> QED
      BY <1>3, <1>4, <1>5, <2>1 DEF Buf, grown
  <1>6. CASE Id(item.rec) # BlockLength - 1
    <2>1. AddRecord(b, item) = [b EXCEPT !.partial = grown]
      BY <1>6 DEF AddRecord, grown
    <2> QED
      BY <1>2, <1>6, <2>1 DEF Buf, grown
  <1> QED
    BY <1>5, <1>6

\* The records of a push, put in their order, make its blocks.
LEMMA AddInOrder ==
  ASSUME NEW b \in Buf, NEW r \in Round, NEW n \in Record, Gathered(b, r, n)
  PROVE  Gathered(AddRecord(b, [push |-> r, rec |-> n]), r, n + 1)
  <1> DEFINE item == [push |-> r, rec |-> n]
             c == AddRecord(b, item)
             grown == [b.partial EXCEPT ![Id(n)] = item]
  <1>1. PICK j \in 0..n, k \in Ids : n = j * BlockLength + k /\ Holds(b, r, j, k)
    BY DEF Gathered
  <1>2. n \in Nat /\ j \in Nat /\ k \in Nat /\ BlockLength \in Nat /\ k < BlockLength
    BY Sizes, PushBounds DEF Record, Ids
  <1>3. Id(n) = k /\ item \in Item /\ item.rec = n
    BY <1>1, <1>2, Places DEF Item
  <1>4. /\ b.blocks = [i \in 1..j |-> BlockOf(r, i)]
        /\ b.partial = [x \in Ids |-> IF x < k THEN [push |-> r, rec |-> j * BlockLength + x]
                                      ELSE Absent]
    BY <1>1 DEF Holds
  <1>5. grown = [x \in Ids |-> IF x < k + 1 THEN [push |-> r, rec |-> j * BlockLength + x]
                               ELSE Absent]
    <2>1. \A x \in Ids : x \in Nat /\ (x < k + 1 <=> x < k \/ x = k)
      BY <1>2 DEF Ids
    <2> QED
      BY <1>1, <1>3, <1>4, <2>1
  <1>6. CASE k = BlockLength - 1
    <2>1. c.blocks = Append(b.blocks, grown) /\ c.partial = NoBlock
      BY <1>3, <1>6, AddFacts
    <2>2. grown = BlockOf(r, j + 1)
      <3>1. \A x \in Ids : x < k + 1
        BY <1>2, <1>6 DEF Ids
      <3>2. (j + 1) - 1 = j
        BY <1>2
      <3> QED
        BY <1>5, <3>1, <3>2 DEF BlockOf
    <2> HIDE DEF grown, c
    <2>3. c.blocks = [i \in 1..(j + 1) |-> BlockOf(r, i)]
      <3> DEFINE S == [i \in 1..j |-> BlockOf(r, i)]
      <3>1. S \in Seq({BlockOf(r, i) : i \in Nat}) /\ Len(S) = j
        BY <1>2
      <3>2. Append(S, BlockOf(r, j + 1)) = [i \in 1..(j + 1) |-> IF i <= j THEN S[i] ELSE BlockOf(r, j + 1)]
        BY <1>2, <3>1
      <3> QED
        BY <1>2, <1>4, <2>1, <2>2, <3>2
    <2>4. 0 \in Ids /\ j + 1 \in 0..(n + 1) /\ n + 1 = (j + 1) * BlockLength + 0
      <3>1. (j + 1) * BlockLength = j * BlockLength + BlockLength
        BY <1>2, Products
      <3>2. j * BlockLength \in Nat
        BY <1>2, Products
      <3> QED
        BY <1>1, <1>2, <1>6, <3>1, <3>2 DEF Ids
    <2>5. \A x \in Ids : ~(x < 0)
      BY <1>2 DEF Ids
    <2>6. Holds(c, r, j + 1, 0)
      BY <2>1, <2>3, <2>5 DEF Holds, NoBlock
    <2> QED
      BY <2>4, <2>6 DEF Gathered, c
  <1>7. CASE k # BlockLength - 1
    <2>1. c.blocks = b.blocks /\ c.partial = grown
      BY <1>3, <1>7, AddFacts
    <2> HIDE DEF grown, c
    <2>2. k + 1 \in Ids /\ j \in 0..(n + 1) /\ n + 1 = j * BlockLength + (k + 1)
      <3>1. j * BlockLength \in Nat
        BY <1>2, Products
      <3> QED
        BY <1>1, <1>2, <1>7, <3>1 DEF Ids
    <2>3. Holds(c, r, j, k + 1)
      BY <1>4, <1>5, <2>1 DEF Holds
    <2> QED
      BY <2>2, <2>3 DEF Gathered, c
  <1> QED
    BY <1>6, <1>7

\* f is the function ParseBlocks computes over the first m records of page p.
Adds(f, b, p, r, m) ==
  f = [n \in 0..m |-> IF n = 0 THEN b
                      ELSE AddRecord(f[n - 1],
                                     [push |-> r, rec |-> p * RecordsPerPage + n - 1])]

LEMMA AddsExists ==
  ASSUME NEW b, NEW p, NEW r, NEW m \in Nat
  PROVE  \E f : Adds(f, b, p, r, m)
  <1> DEFINE A(c, n) == AddRecord(c, [push |-> r, rec |-> p * RecordsPerPage + n - 1])
             D == {n \in Nat : \E f : Adds(f, b, p, r, n)}
  <1>0. \A f, n : Adds(f, b, p, r, n) <=>
                    f = [i \in 0..n |-> IF i = 0 THEN b ELSE A(f[i - 1], i)]
    BY DEF Adds
  <1> HIDE DEF A
  <1>1. 0 \in D
    <2> DEFINE f == [i \in 0..0 |-> b]
    <2>1. f = [i \in 0..0 |-> IF i = 0 THEN b ELSE A(f[i - 1], i)]
      OBVIOUS
    <2>2. Adds(f, b, p, r, 0)
      BY <1>0, <2>1
    <2> QED
      BY <2>2
  <1>2. ASSUME NEW n \in Nat, n \in D PROVE n + 1 \in D
    <2>1. PICK f : Adds(f, b, p, r, n)
      BY <1>2
    <2> DEFINE g == [i \in 0..(n + 1) |-> IF i <= n THEN f[i] ELSE A(f[n], n + 1)]
    <2>2. \A i \in 0..n : f[i] = IF i = 0 THEN b ELSE A(f[i - 1], i)
      BY <1>0, <2>1
    <2>3. ASSUME NEW i \in 0..(n + 1)
          PROVE  g[i] = IF i = 0 THEN b ELSE A(g[i - 1], i)
      <3>1. CASE i = 0
        BY <2>2, <3>1
      <3>2. CASE i # 0 /\ i <= n
        <4>1. i - 1 \in 0..(n + 1) /\ i - 1 <= n /\ i \in 0..n
          BY <3>2
        <4>2. g[i] = f[i] /\ g[i - 1] = f[i - 1]
          BY <3>2, <4>1
        <4> QED
          BY <2>2, <3>2, <4>1, <4>2
      <3>3. CASE i = n + 1
        <4>1. i - 1 = n /\ n \in 0..(n + 1) /\ i # 0 /\ ~(i <= n)
          BY <3>3
        <4>2. g[i] = A(f[n], i) /\ g[i - 1] = f[n]
          BY <3>3, <4>1
        <4> QED
          BY <4>1, <4>2
      <3> QED
        BY <3>1, <3>2, <3>3
    <2>4. Adds(g, b, p, r, n + 1)
      BY <1>0, <2>3
    <2> QED
      BY <2>4
  <1>3. Nat \subseteq D
    <2> HIDE DEF D
    <2> QED
      BY <1>1, <1>2, NatSetInduction
  <1> QED
    BY <1>3

\* The records of a page that are read, in the block load.
LEMMA ParseBlocksFacts ==
  ASSUME NEW b \in Buf, NEW p \in 0..LastPage, NEW r \in Round, NEW good \in 0..RecordsPerPage
  PROVE  LET c == ParseBlocks(b, p, r, good) IN
         /\ c \in Buf /\ c.total = b.total /\ c.stale = b.stale
         /\ Gathered(b, r, p * RecordsPerPage) => Gathered(c, r, p * RecordsPerPage + good)
  <1> DEFINE first == p * RecordsPerPage
             f == CHOOSE g : Adds(g, b, p, r, good)
  <1>1. /\ p \in Nat /\ p <= LastPage /\ LastPage \in Nat /\ RecordsPerPage \in Nat
        /\ good \in Nat /\ good <= RecordsPerPage
    BY PushBounds
  <1>2. first \in Nat /\ first + RecordsPerPage <= RecordCount /\ RecordCount \in Nat
    <2>1. (p + 1) * RecordsPerPage <= (LastPage + 1) * RecordsPerPage
      BY <1>1, ProductsGrow
    <2>2. (p + 1) * RecordsPerPage = first + RecordsPerPage /\ first \in Nat
      BY <1>1, Products
    <2> QED
      BY <2>1, <2>2, Sizes DEF RecordCount
  <1>3. ParseBlocks(b, p, r, good) = f[good]
    BY DEF ParseBlocks, Adds
  <1>4. Adds(f, b, p, r, good)
    BY <1>1, AddsExists
  <1> HIDE DEF f
  <1>5. \A n \in 0..good : f[n] = IF n = 0 THEN b
                                  ELSE AddRecord(f[n - 1], [push |-> r, rec |-> first + n - 1])
    BY <1>4 DEF Adds
  <1> HIDE DEF first
  <1> DEFINE E == {n \in Nat : n <= good =>
                     /\ f[n] \in Buf /\ f[n].total = b.total /\ f[n].stale = b.stale
                     /\ Gathered(b, r, first) => Gathered(f[n], r, first + n)}
  <1>6. 0 \in E
    <2>1. 0 \in 0..good /\ first + 0 = first
      BY <1>1, <1>2
    <2>2. f[0] = b
      BY <1>5, <2>1
    <2> QED
      BY <2>1, <2>2
  <1>7. ASSUME NEW n \in Nat, n \in E PROVE n + 1 \in E
    <2> SUFFICES ASSUME n + 1 <= good
                 PROVE  /\ f[n + 1] \in Buf /\ f[n + 1].total = b.total
                        /\ f[n + 1].stale = b.stale
                        /\ Gathered(b, r, first) => Gathered(f[n + 1], r, first + (n + 1))
      OBVIOUS
    <2> DEFINE item == [push |-> r, rec |-> first + n]
    <2>1. /\ f[n] \in Buf /\ f[n].total = b.total /\ f[n].stale = b.stale
          /\ Gathered(b, r, first) => Gathered(f[n], r, first + n)
      BY <1>1, <1>7
    <2>2. f[n + 1] = AddRecord(f[n], item)
      <3>1. n + 1 \in 0..good /\ n + 1 # 0 /\ (n + 1) - 1 = n /\ first + (n + 1) - 1 = first + n
        BY <1>1, <1>2
      <3> QED
        BY <1>5, <3>1
    <2>3. first + n \in Record /\ first + (n + 1) = (first + n) + 1
      BY <1>1, <1>2 DEF Record
    <2>4. item \in Item
      BY <2>3 DEF Item
    <2>5. /\ f[n + 1] \in Buf /\ f[n + 1].total = b.total /\ f[n + 1].stale = b.stale
      <3> HIDE DEF item
      <3>1. \A c \in Buf, i \in Item :
              /\ AddRecord(c, i) \in Buf /\ AddRecord(c, i).total = c.total
              /\ AddRecord(c, i).stale = c.stale
        BY AddFacts
      <3>2. /\ AddRecord(f[n], item) \in Buf /\ AddRecord(f[n], item).total = f[n].total
            /\ AddRecord(f[n], item).stale = f[n].stale
        BY <2>1, <2>4, <3>1
      <3> QED
        BY <2>1, <2>2, <3>2
    <2>6. Gathered(b, r, first) => Gathered(f[n + 1], r, first + (n + 1))
      BY <2>1, <2>2, <2>3, AddInOrder
    <2> QED
      BY <2>5, <2>6
  <1>8. Nat \subseteq E
    <2> HIDE DEF E
    <2> QED
      BY <1>6, <1>7, NatSetInduction
  <1>9. good \in E
    BY <1>1, <1>8
  <1> QED
    BY <1>1, <1>3, <1>9 DEF first

\* The records of a page that are read, in the other profiles.
LEMMA ParseRecordsFacts ==
  ASSUME NEW b \in Buf, NEW p \in 0..LastPage, NEW r \in Round, NEW good \in 0..RecordsPerPage
  PROVE  LET c == ParseRecords(b, p, r, good) IN
         /\ c \in Buf /\ c.total = b.total /\ c.stale = b.stale
         /\ (\A i \in Record : i < p * RecordsPerPage => b.map[i] = r) =>
              \A i \in Record : i < p * RecordsPerPage + good => c.map[i] = r
  <1> DEFINE c == ParseRecords(b, p, r, good)
             m == [i \in Record |-> IF i \in Readable(p, good) THEN r ELSE b.map[i]]
  <1>1. b.map \in [Record -> 0..MaxRound] /\ r \in 0..MaxRound
    BY BufFacts, PushBounds DEF Round
  <1>2. m \in [Record -> 0..MaxRound]
    BY <1>1
  <1>3. c = [b EXCEPT !.map = m]
    BY DEF ParseRecords
  <1> HIDE DEF m
  <1>4. c \in Buf /\ c.total = b.total /\ c.stale = b.stale /\ c.map = m
    BY <1>2, <1>3 DEF Buf
  <1>5. ASSUME \A i \in Record : i < p * RecordsPerPage => b.map[i] = r,
               NEW i \in Record, i < p * RecordsPerPage + good
        PROVE  m[i] = r
    <2>1. i \in Nat /\ p * RecordsPerPage \in Nat
      BY Sizes, PushBounds DEF Record
    <2>2. i < p * RecordsPerPage \/ i \in Readable(p, good)
      BY <1>5, <2>1 DEF Readable
    <2> QED
      BY <1>5, <2>2 DEF m
  <1> QED
    BY <1>4, <1>5

LEMMA CountFacts ==
  ASSUME NEW b \in Buf, NEW good \in Nat
  PROVE  LET c == Count(b, good) IN
         /\ c \in Buf /\ c.map = b.map /\ c.blocks = b.blocks /\ c.partial = b.partial
         /\ c.total = b.total + (IF good = RecordsPerPage THEN 1 ELSE 0)
  <1>1. b.total \in Nat /\ b.total + 1 \in Nat /\ b.total + 0 = b.total
    BY BufFacts
  <1> QED
    BY <1>1 DEF Count, Buf

\* A buffer with all records of one push is stored as that push.
LEMMA MappedFacts ==
  ASSUME NEW b \in Buf
  PROVE  /\ Mapped(b) \in -1..MaxRound
         /\ \A r \in Round : (\A i \in Record : b.map[i] = r) => Mapped(b) = r
  <1>1. 0 \in Record /\ b.map[0] \in 0..MaxRound /\ MaxRound \in Nat
    BY Sizes, BufFacts, PushBounds
  <1> QED
    BY <1>1 DEF Mapped

LEMMA BlocksFacts ==
  ASSUME NEW b \in Buf
  PROVE  /\ insert_block_load_profile_data(b) \in -1..MaxRound
         /\ \A r \in Round : Gathered(b, r, RecordCount) => insert_block_load_profile_data(b) = r
  <1> DEFINE count == RecordCount \div BlockLength
  <1>1. count \in Nat /\ count > 0 /\ 0 \in Ids /\ 1 \in 1..count
    BY Sizes
  <1>2. ASSUME NEW r \in Round, b.blocks = BlocksOf(r)
        PROVE  b.blocks[1][0].push = r
    BY <1>1, <1>2 DEF BlocksOf, BlockOf
  <1>3. insert_block_load_profile_data(b) \in -1..MaxRound
    BY <1>2, PushBounds DEF insert_block_load_profile_data, Round
  <1>4. ASSUME NEW r \in Round, Gathered(b, r, RecordCount)
        PROVE  insert_block_load_profile_data(b) = r
    <2>1. PICK j \in 0..RecordCount, k \in Ids :
            RecordCount = j * BlockLength + k /\ Holds(b, r, j, k)
      BY <1>4 DEF Gathered
    <2>2. j \in Nat
      BY Sizes
    <2>3. j = count
      BY <2>1, <2>2, Places
    <2>4. b.blocks = BlocksOf(r)
      BY <2>1, <2>3 DEF Holds, BlocksOf
    <2> QED
      BY <1>2, <2>4 DEF insert_block_load_profile_data
  <1> QED
    BY <1>3, <1>4

\* What a packet of page p of push r with good readable records does.
LEMMA ProcessFacts ==
  ASSUME NEW s \in Source, push_node_info[s] \in Buf, NEW p \in 0..LastPage, NEW r \in Round,
         NEW good \in 0..RecordsPerPage, process_push_data(s, p, r, good)
  PROVE  \E c \in Buf, stored \in -1..MaxRound :
           /\ c.total = push_node_info[s].total + (IF good = RecordsPerPage THEN 1 ELSE 0)
           /\ Exact(s, push_node_info[s], r, p * RecordsPerPage) =>
                Exact(s, c, r, p * RecordsPerPage + good)
           /\ Exact(s, c, r, RecordCount) => stored = r
           /\ Finish(s, p, c, stored)
  <1> DEFINE b == push_node_info[s]
  <1>1. good \in Nat /\ s[2] \in Profiles
    BY PushBounds
  <1>2. CASE s[2] = "BLP"
    <2> DEFINE d == ParseBlocks(b, p, r, good)
               c == Count(d, good)
               stored == insert_block_load_profile_data(c)
    <2>1. Finish(s, p, c, stored)
      BY <1>2 DEF process_push_data, process_BLP_push_data
    <2>2. /\ d \in Buf /\ d.total = b.total
          /\ Gathered(b, r, p * RecordsPerPage) => Gathered(d, r, p * RecordsPerPage + good)
      BY ParseBlocksFacts
    <2> HIDE DEF d
    <2>3. /\ c \in Buf /\ c.total = d.total + (IF good = RecordsPerPage THEN 1 ELSE 0)
          /\ c.blocks = d.blocks /\ c.partial = d.partial
      BY <1>1, <2>2, CountFacts
    <2> HIDE DEF c
    <2>4. Gathered(d, r, p * RecordsPerPage + good) => Gathered(c, r, p * RecordsPerPage + good)
      BY <2>3 DEF Gathered, Holds
    <2>5. stored \in -1..MaxRound /\ (Gathered(c, r, RecordCount) => stored = r)
      BY <2>3, BlocksFacts
    <2> HIDE DEF stored
    <2>6. Exact(s, b, r, p * RecordsPerPage) => Exact(s, c, r, p * RecordsPerPage + good)
      BY <1>2, <2>2, <2>4 DEF Exact
    <2>7. Exact(s, c, r, RecordCount) => stored = r
      BY <1>2, <2>5 DEF Exact
    <2> QED
      BY <2>1, <2>2, <2>3, <2>5, <2>6, <2>7
  <1>3. CASE s[2] # "BLP"
    <2> DEFINE d == ParseRecords(b, p, r, good)
               c == Count(d, good)
               stored == Mapped(c)
    <2>1. Finish(s, p, c, stored)
      BY <1>1, <1>3 DEF Profiles, process_push_data, process_IP_push_data,
           process_DLP_push_data, process_BHP_push_data, process_power_on_event,
           process_power_off_event, insert_instantaneous_parameters_profile_data,
           insert_daily_load_profile_data, insert_billing_history_profile_data,
           insert_power_on_event_to_db, insert_power_off_event_to_db
    <2>2. /\ d \in Buf /\ d.total = b.total
          /\ (\A i \in Record : i < p * RecordsPerPage => b.map[i] = r) =>
               \A i \in Record : i < p * RecordsPerPage + good => d.map[i] = r
      BY ParseRecordsFacts
    <2> HIDE DEF d
    <2>3. /\ c \in Buf /\ c.total = d.total + (IF good = RecordsPerPage THEN 1 ELSE 0)
          /\ c.map = d.map
      BY <1>1, <2>2, CountFacts
    <2> HIDE DEF c
    <2>4. \A i \in Record : i < RecordCount
      BY Sizes DEF Record
    <2>5. stored \in -1..MaxRound /\ ((\A i \in Record : c.map[i] = r) => stored = r)
      BY <2>3, MappedFacts
    <2> HIDE DEF stored
    <2>6. Exact(s, b, r, p * RecordsPerPage) => Exact(s, c, r, p * RecordsPerPage + good)
      BY <1>3, <2>2, <2>3 DEF Exact
    <2>7. Exact(s, c, r, RecordCount) => stored = r
      BY <1>3, <2>4, <2>5 DEF Exact
    <2> QED
      BY <2>1, <2>2, <2>3, <2>5, <2>6, <2>7
  <1> QED
    BY <1>2, <1>3

LEMMA FinishFacts ==
  ASSUME Shape, NEW s \in Source, NEW p \in 0..LastPage, NEW c \in Buf,
         NEW stored \in -1..MaxRound, Finish(s, p, c, stored)
  PROVE  /\ push_node_info' \in [Source -> Buf] /\ row' \in [Source -> -1..MaxRound]
         /\ \A t \in Source : t # s => push_node_info'[t] = push_node_info[t] /\ row'[t] = row[t]
         /\ p < LastPage => push_node_info'[s] = c /\ row'[s] = row[s]
         /\ ~(p < LastPage) =>
              /\ push_node_info'[s] = EmptyBuffer
              /\ row'[s] = IF c.total = p + 1 THEN stored ELSE row[s]
  <1>1. push_node_info \in [Source -> Buf] /\ row \in [Source -> -1..MaxRound]
    BY DEF Shape
  <1> QED
    BY <1>1, EmptyFacts DEF Finish

-----------------------------------------------------------------------------
(* The invariant. *)

\* Spoiling is for ever.
LEMMA SpoiltGrows ==
  ASSUME NEW s \in Source, spoilt[s] \subseteq spoilt'[s]
  PROVE  Unspoilt(s)' => Unspoilt(s)
  BY DEF Unspoilt

\* A source of which nothing happens, while fewer faults are left.
LEMMA OneKeeps ==
  ASSUME Shape, NEW s \in Source, One(s), faults' \in 0..faults,
         round'[s] = round[s], next'[s] = next[s], push_node_info'[s] = push_node_info[s],
         row'[s] = row[s], spoilt'[s] = spoilt[s], clean'[s] = clean[s]
  PROVE  One(s)'
  <1>1. Unspoilt(s)' <=> Unspoilt(s)
    BY DEF Unspoilt
  <1>2. Counted(s)' /\ CleanCounted(s)' /\ Drained(s)' /\ Stored(s)'
    BY <1>1 DEF One, Counted, CleanCounted, Drained, Stored
  <1>3. Sum(s)'
    <2>1. /\ push_node_info[s].total \in Nat /\ faults \in Nat /\ faults' \in Nat
          /\ faults' <= faults /\ round[s] \in Nat /\ next[s] \in Nat
      BY BufFacts, PushBounds DEF Shape
    <2>2. (round[s] # 0 => (round[s] - 1) * LastPage \in Nat) /\ MaxFault \in Nat /\ LastPage \in Nat
      BY <2>1, PushBounds
    <2> QED
      BY <2>1, <2>2 DEF One, Sum
  <1> QED
    BY <1>2, <1>3 DEF One

LEMMA Bounds ==
  ASSUME Shape, NEW s \in Source
  PROVE  /\ push_node_info[s] \in Buf /\ push_node_info[s].total \in Nat
         /\ round[s] \in Nat /\ round[s] <= MaxRound /\ next[s] \in Nat /\ next[s] <= LastPage + 1
         /\ LastPage \in Nat /\ MaxFault \in Nat /\ MaxRound \in Nat /\ RecordsPerPage \in Nat
         /\ RecordsPerPage > 0 /\ faults \in Nat /\ faults <= MaxFault
         /\ round[s] # 0 => round[s] \in Round /\ (round[s] - 1) * LastPage \in Nat
  <1>1. /\ push_node_info[s] \in Buf /\ round[s] \in 0..MaxRound /\ next[s] \in 0..(LastPage + 1)
        /\ faults \in 0..MaxFault /\ LastPage \in Nat /\ MaxFault \in Nat /\ MaxRound \in Nat
        /\ RecordsPerPage \in Nat /\ RecordsPerPage > 0
    BY PushBounds DEF Shape
  <1>2. push_node_info[s].total \in Nat
    BY <1>1, BufFacts
  <1>3. round[s] # 0 => round[s] \in Round /\ (round[s] - 1) * LastPage \in Nat
    BY <1>1 DEF Round
  <1> QED
    BY <1>1, <1>2, <1>3

\* A page of the push under way arrives, whole or cut short.
LEMMA ArriveKeeps ==
  ASSUME IInv, NEW s \in Source, NEW good \in 0..RecordsPerPage, next[s] <= LastPage,
         process_push_data(s, next[s], round[s], good),
         next' = [next EXCEPT ![s] = @ + 1], round' = round, faults' \in 0..faults,
         good = RecordsPerPage => UNCHANGED <<spoilt, clean>>,
         good # RecordsPerPage => /\ spoilt' = [spoilt EXCEPT ![s] = @ \cup {"cut"}]
                                  /\ clean' = [clean EXCEPT ![s] = FALSE]
  PROVE  IInv'
  <1> DEFINE b == push_node_info[s]
             p == next[s]
             r == round[s]
  <1>0. Shape /\ One(s) /\ Counted(s) /\ CleanCounted(s) /\ Sum(s) /\ Stored(s) /\ Drained(s)
    BY DEF IInv, One
  <1>1. /\ b \in Buf /\ b.total \in Nat /\ p \in 0..LastPage /\ p \in Nat /\ LastPage \in Nat
        /\ MaxFault \in Nat /\ faults \in Nat /\ faults <= MaxFault /\ MaxRound \in Nat
        /\ RecordsPerPage \in Nat /\ RecordsPerPage > 0
    BY <1>0, Bounds
  <1>2. r \in Round /\ r # 0 /\ (r - 1) * LastPage \in Nat /\ r # -1
    <2>1. r # 0
      BY <1>0, <1>1 DEF Sum
    <2> QED
      BY <1>0, <2>1, Bounds DEF Round
  <1>3. PICK c \in Buf, stored \in -1..MaxRound :
          /\ c.total = b.total + (IF good = RecordsPerPage THEN 1 ELSE 0)
          /\ Exact(s, b, r, p * RecordsPerPage) => Exact(s, c, r, p * RecordsPerPage + good)
          /\ Exact(s, c, r, RecordCount) => stored = r
          /\ Finish(s, p, c, stored)
    BY <1>1, <1>2, ProcessFacts
  <1>4. /\ push_node_info' \in [Source -> Buf] /\ row' \in [Source -> -1..MaxRound]
        /\ \A t \in Source : t # s => push_node_info'[t] = push_node_info[t] /\ row'[t] = row[t]
        /\ p < LastPage => push_node_info'[s] = c /\ row'[s] = row[s]
        /\ ~(p < LastPage) =>
             /\ push_node_info'[s] = EmptyBuffer
             /\ row'[s] = IF c.total = p + 1 THEN stored ELSE row[s]
    BY <1>0, <1>1, <1>3, FinishFacts
  <1>5. /\ spoilt' \in [Source -> SUBSET {"again", "rush", "cut"}] /\ clean' \in [Source -> BOOLEAN]
        /\ \A t \in Source : t # s => spoilt'[t] = spoilt[t] /\ clean'[t] = clean[t]
        /\ spoilt[s] \subseteq spoilt'[s] /\ (clean'[s] => clean[s] /\ good = RecordsPerPage)
        /\ good = RecordsPerPage => spoilt'[s] = spoilt[s]
        /\ good # RecordsPerPage => "cut" \in spoilt'[s]
    <2>1. spoilt \in [Source -> SUBSET {"again", "rush", "cut"}] /\ clean \in [Source -> BOOLEAN]
      BY <1>0 DEF Shape
    <2>2. CASE good = RecordsPerPage
      BY <2>1, <2>2
    <2>3. CASE good # RecordsPerPage
      BY ZenonT(40), <2>1, <2>3
    <2> QED
      BY <2>2, <2>3
  <1>6. /\ next' \in [Source -> 0..(LastPage + 1)] /\ next'[s] = p + 1
        /\ \A t \in Source : t # s => next'[t] = next[t]
    <2>1. next \in [Source -> 0..(LastPage + 1)] /\ p + 1 \in 0..(LastPage + 1)
      BY <1>0, <1>1 DEF Shape
    <2> QED
      BY <2>1
  <1>7. faults' \in 0..MaxFault /\ faults' \in Nat /\ faults' <= faults
    BY <1>1
  <1>8. Shape'
    BY <1>0, <1>4, <1>5, <1>6, <1>7 DEF Shape
  <1>9. ASSUME NEW t \in Source, t # s PROVE One(t)'
    <2>1. One(t)
      BY DEF IInv
    <2> QED
      BY <1>0, <1>4, <1>5, <1>6, <1>9, <2>1, OneKeeps
  <1>10. Unspoilt(s)' => Unspoilt(s)
    BY <1>5, SpoiltGrows
  <1>11. Unspoilt(s)' /\ s[2] = "BLP" => good = RecordsPerPage
    BY <1>5 DEF Unspoilt, Excuse
  <1>12. clean[s] \/ Unspoilt(s) =>
           b.total <= p /\ (b.total = p => Exact(s, b, r, p * RecordsPerPage))
    BY <1>0 DEF Counted
  <1>13. (p + 1) * RecordsPerPage = p * RecordsPerPage + RecordsPerPage
    BY <1>1, Products
  <1>14. clean[s] => b.total = p
    BY <1>0 DEF CleanCounted
  <1> HIDE DEF b, p, r
  <1>15. clean'[s] \/ Unspoilt(s)' =>
           c.total <= p + 1 /\ (c.total = p + 1 =>
             good = RecordsPerPage /\ Exact(s, c, r, (p + 1) * RecordsPerPage))
    <2> SUFFICES ASSUME clean'[s] \/ Unspoilt(s)'
                 PROVE  c.total <= p + 1 /\ (c.total = p + 1 =>
                          good = RecordsPerPage /\ Exact(s, c, r, (p + 1) * RecordsPerPage))
      OBVIOUS
    <2>1. b.total <= p /\ (b.total = p => Exact(s, b, r, p * RecordsPerPage))
      BY <1>5, <1>10, <1>12
    <2>2. CASE good = RecordsPerPage
      <3>1. c.total = b.total + 1
        BY <1>3, <2>2
      <3>2. c.total <= p + 1 /\ (c.total = p + 1 => b.total = p)
        BY <1>1, <2>1, <3>1
      <3> QED
        BY <1>3, <1>13, <2>1, <2>2, <3>2
    <2>3. CASE good # RecordsPerPage
      <3>1. c.total = b.total + 0
        BY <1>3, <2>3
      <3> QED
        BY <1>1, <2>1, <3>1
    <2> QED
      BY <2>2, <2>3
  <1>16. CASE p < LastPage
    <2>1. push_node_info'[s] = c /\ row'[s] = row[s] /\ p + 1 <= LastPage
      BY <1>1, <1>4, <1>16
    <2>2. Counted(s)'
      BY <1>6, <1>15, <2>1 DEF Counted, r
    <2>3. CleanCounted(s)'
      <3>1. clean'[s] => c.total = p + 1
        BY <1>1, <1>3, <1>5, <1>14
      <3> QED
        BY <1>6, <2>1, <3>1 DEF CleanCounted
    <2>4. Drained(s)'
      <3>1. good = RecordsPerPage => c.total # 0
        BY <1>1, <1>3
      <3> QED
        BY <1>11, <2>1, <3>1 DEF Drained
    <2>5. Sum(s)'
      <3>1. b.total + faults <= (r - 1) * LastPage + MaxFault + p
        BY <1>0, <1>1, <1>2, <1>16 DEF Sum, b, r, p
      <3>2. c.total <= b.total + 1 /\ c.total \in Nat
        BY <1>1, <1>3, BufFacts
      <3>3. c.total + faults' <= (r - 1) * LastPage + MaxFault + (p + 1)
        BY <1>1, <1>2, <1>7, <3>1, <3>2
      <3>4. round'[s] = r /\ r # 0
        BY <1>2 DEF r
      <3> QED
        BY <1>6, <2>1, <3>3, <3>4 DEF Sum
    <2>6. Stored(s)'
      <3>1. next'[s] # LastPage + 1
        BY <1>1, <1>6, <2>1
      <3> QED
        BY <1>0, <1>10, <2>1, <3>1 DEF Stored
    <2>7. One(s)'
      BY <2>2, <2>3, <2>4, <2>5, <2>6 DEF One
    <2> QED
      BY <1>8, <1>9, <2>7 DEF IInv
  <1>17. CASE ~(p < LastPage)
    <2>1. /\ push_node_info'[s] = EmptyBuffer /\ p = LastPage /\ ~(p + 1 <= LastPage)
          /\ row'[s] = IF c.total = p + 1 THEN stored ELSE row[s]
      BY <1>1, <1>4, <1>17
    <2>2. Counted(s)' /\ CleanCounted(s)'
      BY <1>6, <2>1 DEF Counted, CleanCounted
    <2>3. Drained(s)'
      BY <2>1, EmptyFacts DEF Drained
    <2>4. Sum(s)'
      <3>1. 0 + faults' <= (r - 1) * LastPage + MaxFault + LastPage
        BY <1>1, <1>2, <1>7
      <3>2. round'[s] = r /\ r # 0
        BY <1>2 DEF r
      <3> QED
        BY <1>6, <2>1, <3>1, <3>2, EmptyFacts DEF Sum
    <2>5. (p + 1) * RecordsPerPage = RecordCount
      BY <2>1 DEF RecordCount
    <2>6. (clean'[s] \/ Unspoilt(s)') /\ c.total = p + 1 => row'[s] = r
      BY <1>3, <1>15, <2>1, <2>5
    <2>7. Stored(s)'
      <3>1. Unspoilt(s)' => row'[s] # -1
        <4>1. CASE c.total = p + 1
          BY <1>2, <2>6, <4>1
        <4>2. CASE c.total # p + 1
          BY <1>0, <1>10, <2>1, <4>2 DEF Stored
        <4> QED
          BY <4>1, <4>2
      <3>2. clean'[s] => c.total = p + 1
        BY <1>1, <1>3, <1>5, <1>14
      <3>3. clean'[s] => row'[s] = round'[s]
        BY <2>6, <3>2 DEF r
      <3> QED
        BY <3>1, <3>3 DEF Stored
    <2>8. One(s)'
      BY <2>2, <2>3, <2>4, <2>7 DEF One
    <2> QED
      BY <1>8, <1>9, <2>8 DEF IInv
  <1> QED
    BY <1>16, <1>17

\* A push begins.
LEMMA BeginKeeps ==
  ASSUME IInv, NEW s \in Source, BeginPush(s)
  PROVE  IInv'
  <1> DEFINE b == push_node_info[s]
             r == round[s] + 1
  <1>0. Shape /\ Sum(s) /\ Stored(s) /\ Drained(s)
    BY DEF IInv, One
  <1>1. /\ b \in Buf /\ b.total \in Nat /\ LastPage \in Nat /\ MaxFault \in Nat /\ MaxRound \in Nat
        /\ round[s] \in Nat /\ faults \in Nat /\ faults <= MaxFault
        /\ round[s] # 0 => (round[s] - 1) * LastPage \in Nat
    BY <1>0, Bounds
  <1>2. /\ next[s] = LastPage + 1 /\ round[s] < MaxRound
        /\ round' = [round EXCEPT ![s] = r] /\ next' = [next EXCEPT ![s] = 0]
        /\ spoilt' = IF b.total > 0 THEN [spoilt EXCEPT ![s] = @ \cup {"rush"}] ELSE spoilt
        /\ clean' = [clean EXCEPT ![s] = (b = EmptyBuffer)]
        /\ UNCHANGED <<push_node_info, row, faults>>
    BY DEF BeginPush, Leftover
  <1>3. /\ round' \in [Source -> 0..MaxRound] /\ next' \in [Source -> 0..(LastPage + 1)]
        /\ round'[s] = r /\ next'[s] = 0 /\ r \in Nat /\ r # 0
        /\ \A t \in Source : t # s => round'[t] = round[t] /\ next'[t] = next[t]
    <2>1. /\ round \in [Source -> 0..MaxRound] /\ next \in [Source -> 0..(LastPage + 1)]
          /\ r \in 0..MaxRound /\ 0 \in 0..(LastPage + 1)
      BY <1>0, <1>1, <1>2 DEF Shape
    <2> QED
      BY <1>1, <1>2, <2>1
  <1>4. /\ spoilt' \in [Source -> SUBSET {"again", "rush", "cut"}] /\ clean' \in [Source -> BOOLEAN]
        /\ \A t \in Source : t # s => spoilt'[t] = spoilt[t] /\ clean'[t] = clean[t]
        /\ spoilt[s] \subseteq spoilt'[s] /\ (clean'[s] <=> b = EmptyBuffer)
        /\ "rush" \in spoilt'[s] \/ ~(b.total > 0)
    <2>1. spoilt \in [Source -> SUBSET {"again", "rush", "cut"}] /\ clean \in [Source -> BOOLEAN]
      BY <1>0 DEF Shape
    <2>2. /\ clean' \in [Source -> BOOLEAN] /\ (clean'[s] <=> b = EmptyBuffer)
          /\ \A t \in Source : t # s => clean'[t] = clean[t]
      BY <1>2, <2>1
    <2>3. CASE b.total > 0
      BY <1>2, <2>1, <2>2, <2>3
    <2>4. CASE ~(b.total > 0)
      BY <1>2, <2>1, <2>2, <2>4
    <2> QED
      BY <2>3, <2>4
  <1>5. Shape'
    BY <1>0, <1>2, <1>3, <1>4 DEF Shape
  <1>6. ASSUME NEW t \in Source, t # s PROVE One(t)'
    <2>1. One(t) /\ faults' \in 0..faults
      BY <1>1, <1>2 DEF IInv
    <2> QED
      BY <1>0, <1>2, <1>3, <1>4, <1>6, <2>1, OneKeeps
  <1>7. Unspoilt(s)' => Unspoilt(s) /\ b.total = 0
    <2>1. Unspoilt(s)' => "rush" \notin spoilt'[s]
      BY DEF Unspoilt, Excuse
    <2>2. ~(b.total > 0) => b.total = 0
      BY <1>1
    <2> QED
      BY <1>4, <2>1, <2>2, SpoiltGrows
  <1>8. clean'[s] \/ Unspoilt(s)' =>
          b.total = 0 /\ (s[2] = "BLP" => b.blocks = <<>> /\ b.partial = NoBlock)
    BY <1>0, <1>4, <1>7, EmptyFacts DEF Drained
  <1>9. ASSUME clean'[s] \/ Unspoilt(s)'
        PROVE  Exact(s, b, r, 0)
    <2>1. CASE s[2] = "BLP"
      <3>1. 0 \in 0..0 /\ 0 \in Ids /\ 0 = 0 * BlockLength + 0
        BY Sizes, PushBounds
      <3>2. \A x \in Ids : ~(x < 0)
        BY PushBounds DEF Ids
      <3>3. b.blocks = [i \in 1..0 |-> BlockOf(r, i)]
        BY <1>8, <1>9, <2>1
      <3>4. Holds(b, r, 0, 0)
        BY <1>8, <1>9, <2>1, <3>2, <3>3 DEF Holds, NoBlock
      <3>5. Gathered(b, r, 0)
        BY <3>1, <3>4 DEF Gathered
      <3> QED
        BY <2>1, <3>5 DEF Exact
    <2>2. CASE s[2] # "BLP"
      <3>1. \A i \in Record : ~(i < 0)
        BY Sizes DEF Record
      <3> QED
        BY <2>2, <3>1 DEF Exact
    <2> QED
      BY <2>1, <2>2
  <1>10. Counted(s)' /\ CleanCounted(s)'
    <2>1. 0 * RecordsPerPage = 0 /\ 0 <= 0
      BY PushBounds
    <2>2. Counted(s)'
      <3> SUFFICES ASSUME clean'[s] \/ Unspoilt(s)' PROVE Counted(s)'
        BY DEF Counted
      <3> QED
        BY <1>2, <1>3, <1>8, <1>9, <2>1 DEF Counted
    <2>3. CleanCounted(s)'
      BY <1>2, <1>3, <1>8 DEF CleanCounted
    <2> QED
      BY <2>2, <2>3
  <1>11. Drained(s)'
    BY <1>0, <1>2, <1>7 DEF Drained
  <1>12. Sum(s)'
    <2>1. b.total + faults <= (r - 1) * LastPage + MaxFault + 0
      <3>1. r - 1 = round[s]
        BY <1>1
      <3>2. CASE round[s] = 0
        <4>1. b.total = 0 /\ 0 * LastPage = 0
          BY <1>0, <1>1, <3>2 DEF Sum
        <4> QED
          BY <1>1, <3>1, <3>2, <4>1
      <3>3. CASE round[s] # 0
        <4>1. b.total + faults <= (round[s] - 1) * LastPage + MaxFault + LastPage
          BY <1>0, <1>1, <1>2, <3>3 DEF Sum
        <4>2. round[s] * LastPage = (round[s] - 1) * LastPage + LastPage
          <5>1. round[s] - 1 \in Nat /\ (round[s] - 1) + 1 = round[s]
            BY <1>1, <3>3
          <5>2. ((round[s] - 1) + 1) * LastPage = (round[s] - 1) * LastPage + LastPage
            BY <1>1, <5>1, Products
          <5> QED
            BY <5>1, <5>2
        <4>3. (round[s] - 1) * LastPage \in Nat
          BY <1>1, <3>3
        <4> QED
          BY <1>1, <3>1, <4>1, <4>2, <4>3
      <3> QED
        BY <3>2, <3>3
    <2>2. 0 <= LastPage
      BY <1>1
    <2> QED
      BY <1>2, <1>3, <2>1, <2>2 DEF Sum
  <1>13. Stored(s)'
    <2>1. next'[s] # LastPage + 1
      BY <1>1, <1>3
    <2> QED
      BY <1>0, <1>2, <1>7, <2>1 DEF Stored
  <1>14. One(s)'
    BY <1>10, <1>11, <1>12, <1>13 DEF One
  <1> QED
    BY <1>5, <1>6, <1>14 DEF IInv

\* A page is lost.
LEMMA LoseKeeps ==
  ASSUME IInv, NEW s \in Source, Lose(s)
  PROVE  IInv'
  <1> DEFINE b == push_node_info[s]
             p == next[s]
  <1>0. Shape /\ Counted(s) /\ Sum(s) /\ Stored(s) /\ Drained(s)
    BY DEF IInv, One
  <1>1. /\ b.total \in Nat /\ LastPage \in Nat /\ MaxFault \in Nat /\ p \in Nat
        /\ faults \in Nat /\ round[s] \in Nat
        /\ round[s] # 0 => (round[s] - 1) * LastPage \in Nat
    BY <1>0, Bounds
  <1>2. /\ p <= LastPage /\ next' = [next EXCEPT ![s] = @ + 1]
        /\ clean' = [clean EXCEPT ![s] = FALSE]
        /\ UNCHANGED <<round, push_node_info, row, faults, spoilt>>
    BY DEF Lose
  <1>3. /\ next' \in [Source -> 0..(LastPage + 1)] /\ next'[s] = p + 1
        /\ clean' \in [Source -> BOOLEAN] /\ ~clean'[s]
        /\ \A t \in Source : t # s => next'[t] = next[t] /\ clean'[t] = clean[t]
    <2>1. next \in [Source -> 0..(LastPage + 1)] /\ p + 1 \in 0..(LastPage + 1)
      BY <1>0, <1>1, <1>2 DEF Shape
    <2>2. clean \in [Source -> BOOLEAN]
      BY <1>0 DEF Shape
    <2> QED
      BY <1>2, <2>1, <2>2
  <1>4. Shape'
    BY <1>0, <1>2, <1>3 DEF Shape
  <1>5. ASSUME NEW t \in Source, t # s PROVE One(t)'
    <2>1. One(t) /\ faults' \in 0..faults
      BY <1>1, <1>2 DEF IInv
    <2> QED
      BY <1>0, <1>2, <1>3, <1>5, <2>1, OneKeeps
  <1>6. Unspoilt(s)' <=> Unspoilt(s)
    BY <1>2 DEF Unspoilt
  <1>7. Counted(s)'
    <2>1. Unspoilt(s) => b.total <= p
      BY <1>0, <1>2 DEF Counted
    <2>2. Unspoilt(s) => b.total <= p + 1 /\ b.total # p + 1
      BY <1>1, <2>1
    <2> QED
      BY <1>2, <1>3, <1>6, <2>2 DEF Counted
  <1>8. CleanCounted(s)' /\ Drained(s)' /\ Stored(s)'
    BY <1>0, <1>2, <1>3, <1>6 DEF CleanCounted, Drained, Stored
  <1>9. Sum(s)'
    <2>1. round[s] # 0
      BY <1>0, <1>1, <1>2 DEF Sum
    <2>2. b.total + faults <= (round[s] - 1) * LastPage + MaxFault + p
      BY <1>0, <1>2, <2>1 DEF Sum
    <2>3. p + 1 <= LastPage \/ (~(p + 1 <= LastPage) /\ p = LastPage)
      BY <1>1, <1>2
    <2>4. b.total + faults <= (round[s] - 1) * LastPage + MaxFault
                              + (IF p + 1 <= LastPage THEN p + 1 ELSE LastPage)
      BY <1>1, <2>1, <2>2, <2>3
    <2> QED
      BY <1>2, <1>3, <2>1, <2>4 DEF Sum
  <1>10. One(s)'
    BY <1>7, <1>8, <1>9 DEF One
  <1> QED
    BY <1>4, <1>5, <1>10 DEF IInv

\* A page comes again.
LEMMA AgainKeeps ==
  ASSUME IInv, NEW s \in Source, ArriveAgain(s)
  PROVE  IInv'
  <1> DEFINE b == push_node_info[s]
             p == next[s] - 1
             r == round[s]
  <1>0. Shape /\ Sum(s)
    BY DEF IInv, One
  <1>1. /\ r > 0 /\ next[s] > 0 /\ faults > 0 /\ faults' = faults - 1
        /\ process_push_data(s, p, r, RecordsPerPage)
        /\ spoilt' = [spoilt EXCEPT ![s] = @ \cup {"again"}]
        /\ clean' = [clean EXCEPT ![s] = FALSE]
        /\ UNCHANGED <<round, next>>
    BY DEF ArriveAgain
  <1>2. /\ b \in Buf /\ b.total \in Nat /\ LastPage \in Nat /\ MaxFault \in Nat /\ next[s] \in Nat
        /\ next[s] <= LastPage + 1 /\ faults \in Nat /\ faults <= MaxFault
        /\ RecordsPerPage \in Nat /\ r \in Nat
    BY <1>0, Bounds
  <1>3. /\ r # 0 /\ r \in Round /\ (r - 1) * LastPage \in Nat /\ p \in 0..LastPage
        /\ RecordsPerPage \in 0..RecordsPerPage
    <2>1. r # 0
      BY <1>1, <1>2
    <2> QED
      BY <1>0, <1>1, <1>2, <2>1, Bounds
  <1>4. PICK c \in Buf, stored \in -1..MaxRound :
          c.total = b.total + 1 /\ Finish(s, p, c, stored)
    BY <1>1, <1>2, <1>3, ProcessFacts
  <1>5. /\ push_node_info' \in [Source -> Buf] /\ row' \in [Source -> -1..MaxRound]
        /\ \A t \in Source : t # s => push_node_info'[t] = push_node_info[t] /\ row'[t] = row[t]
        /\ p < LastPage => push_node_info'[s] = c
        /\ ~(p < LastPage) => push_node_info'[s] = EmptyBuffer
    BY <1>0, <1>3, <1>4, FinishFacts
  <1>6. /\ spoilt' \in [Source -> SUBSET {"again", "rush", "cut"}] /\ clean' \in [Source -> BOOLEAN]
        /\ \A t \in Source : t # s => spoilt'[t] = spoilt[t] /\ clean'[t] = clean[t]
        /\ "again" \in spoilt'[s] /\ ~clean'[s]
    <2>1. spoilt \in [Source -> SUBSET {"again", "rush", "cut"}] /\ clean \in [Source -> BOOLEAN]
      BY <1>0 DEF Shape
    <2> QED
      BY <1>1, <2>1
  <1>7. faults' \in 0..MaxFault /\ faults' \in 0..faults /\ faults' \in Nat
    BY <1>1, <1>2
  <1>8. Shape'
    BY <1>0, <1>1, <1>5, <1>6, <1>7 DEF Shape
  <1>9. ASSUME NEW t \in Source, t # s PROVE One(t)'
    <2>1. One(t)
      BY DEF IInv
    <2> QED
      BY <1>0, <1>1, <1>5, <1>6, <1>7, <1>9, <2>1, OneKeeps
  <1>10. ~Unspoilt(s)'
    BY <1>6 DEF Unspoilt, Excuse
  <1>11. Counted(s)' /\ CleanCounted(s)' /\ Drained(s)' /\ Stored(s)'
    BY <1>6, <1>10 DEF Counted, CleanCounted, Drained, Stored
  <1>12. Sum(s)'
    <2> DEFINE most == IF next[s] <= LastPage THEN next[s] ELSE LastPage
    <2>1. most \in Nat
      BY <1>2
    <2>2. b.total + faults <= (r - 1) * LastPage + MaxFault + most
      BY <1>0, <1>3 DEF Sum
    <2> HIDE DEF most
    <2>3. CASE p < LastPage
      <3>1. c.total + faults' <= (r - 1) * LastPage + MaxFault + most
        BY <1>1, <1>2, <1>3, <1>4, <2>1, <2>2
      <3> QED
        BY <1>1, <1>3, <1>5, <2>3, <3>1 DEF Sum, most
    <2>4. CASE ~(p < LastPage)
      <3>1. 0 + faults' <= (r - 1) * LastPage + MaxFault + most
        BY <1>1, <1>2, <1>3, <2>1
      <3> QED
        BY <1>1, <1>3, <1>5, <2>4, <3>1, EmptyFacts DEF Sum, most
    <2> QED
      BY <2>3, <2>4
  <1>13. One(s)'
    BY <1>11, <1>12 DEF One
  <1> QED
    BY <1>8, <1>9, <1>13 DEF IInv

\* Exact looks at the records only.
LEMMA ExactSame ==
  ASSUME NEW s, NEW b, NEW c, NEW r, NEW n, c.map = b.map, c.blocks = b.blocks,
         c.partial = b.partial, Exact(s, b, r, n)
  PROVE  Exact(s, c, r, n)
  <1>1. \A j, k : Holds(b, r, j, k) => Holds(c, r, j, k)
    BY DEF Holds
  <1>2. Gathered(b, r, n) => Gathered(c, r, n)
    BY <1>1 DEF Gathered
  <1> QED
    BY <1>2 DEF Exact

\* Time passes, and buffers are cleaned up.
LEMMA TickKeeps ==
  ASSUME IInv, Tick
  PROVE  IInv'
  <1>0. Shape /\ push_node_info \in [Source -> Buf]
    BY DEF IInv, Shape
  <1>1. /\ push_node_info' = [s \in Source |->
             [push_node_info[s] EXCEPT !.stale = @ \/ push_node_info[s].total > 0]]
        /\ UNCHANGED <<round, next, row, faults, spoilt, clean>>
    BY DEF Tick
  <1>2. ASSUME NEW s \in Source
        PROVE  /\ push_node_info'[s] \in Buf
               /\ push_node_info'[s].total = push_node_info[s].total
               /\ push_node_info'[s].map = push_node_info[s].map
               /\ push_node_info'[s].blocks = push_node_info[s].blocks
               /\ push_node_info'[s].partial = push_node_info[s].partial
    <2> DEFINE b == push_node_info[s]
               v == b.stale \/ b.total > 0
    <2>1. b \in Buf /\ v \in BOOLEAN
      BY <1>0
    <2>2. push_node_info'[s] = [b EXCEPT !.stale = v]
      BY <1>1
    <2> HIDE DEF b, v
    <2>3. LET c == [b EXCEPT !.stale = v] IN
          /\ c \in Buf /\ c.total = b.total /\ c.map = b.map /\ c.blocks = b.blocks
          /\ c.partial = b.partial
      BY <2>1 DEF Buf
    <2> QED
      BY <2>2, <2>3 DEF b
  <1>3. Shape'
    <2>1. push_node_info' \in [Source -> Buf]
      BY <1>1, <1>2
    <2> QED
      BY <1>0, <1>1, <2>1 DEF Shape
  <1>4. ASSUME NEW s \in Source PROVE One(s)'
    <2>1. One(s)
      BY DEF IInv
    <2>2. \A r, n : Exact(s, push_node_info[s], r, n) => Exact(s, push_node_info'[s], r, n)
      BY <1>2, ExactSame
    <2>3. Unspoilt(s)' <=> Unspoilt(s)
      BY <1>1 DEF Unspoilt
    <2>4. Counted(s)'
      BY <1>1, <1>2, <2>1, <2>2, <2>3 DEF One, Counted
    <2>5. CleanCounted(s)' /\ Drained(s)' /\ Sum(s)' /\ Stored(s)'
      BY <1>1, <1>2, <2>1, <2>3 DEF One, CleanCounted, Drained, Sum, Stored
    <2> QED
      BY <2>4, <2>5 DEF One
  <1> QED
    BY <1>3, <1>4 DEF IInv

LEMMA CleanupKeeps ==
  ASSUME IInv, Cleanup
  PROVE  IInv'
  <1>0. Shape /\ push_node_info \in [Source -> Buf] /\ clean \in [Source -> BOOLEAN]
    BY DEF IInv, Shape
  <1>1. /\ push_node_info' = [s \in Source |->
             IF Expired(push_node_info[s]) THEN EmptyBuffer ELSE push_node_info[s]]
        /\ clean' = [s \in Source |-> clean[s] /\ ~(Expired(push_node_info[s])
                                                    /\ next[s] <= LastPage)]
        /\ UNCHANGED <<round, next, row, faults, spoilt>>
    BY DEF Cleanup
  <1>2. Shape'
    <2>1. push_node_info' \in [Source -> Buf]
      BY <1>0, <1>1, EmptyFacts
    <2>2. clean' \in [Source -> BOOLEAN]
      BY <1>0, <1>1
    <2> QED
      BY <1>0, <1>1, <2>1, <2>2 DEF Shape
  <1>3. ASSUME NEW s \in Source PROVE One(s)'
    <2>1. One(s) /\ Counted(s) /\ CleanCounted(s) /\ Drained(s) /\ Sum(s) /\ Stored(s)
      BY DEF IInv, One
    <2>2. Unspoilt(s)' <=> Unspoilt(s)
      BY <1>1 DEF Unspoilt
    <2>3. /\ push_node_info[s].total \in Nat /\ next[s] \in Nat /\ faults \in Nat
          /\ faults <= MaxFault /\ MaxFault \in Nat /\ LastPage \in Nat
          /\ round[s] # 0 => (round[s] - 1) * LastPage \in Nat
      BY <1>0, Bounds
    <2>4. CASE ~Expired(push_node_info[s])
      <3>1. push_node_info'[s] = push_node_info[s] /\ clean'[s] = clean[s]
        <4>1. push_node_info'[s] = push_node_info[s]
          BY <1>1, <2>4
        <4>2. clean'[s] = clean[s]
          BY <1>0, <1>1, <2>4
        <4> QED
          BY <4>1, <4>2
      <3>2. faults' \in 0..faults
        BY <1>1, <2>3
      <3> QED
        BY <1>0, <1>1, <2>1, <3>1, <3>2, OneKeeps
    <2>5. CASE Expired(push_node_info[s])
      <3>1. push_node_info'[s] = EmptyBuffer /\ EmptyBuffer.total = 0
        BY <1>1, <2>5, EmptyFacts
      <3>2. clean'[s] <=> clean[s] /\ ~(next[s] <= LastPage)
        BY <1>1, <2>5
      <3>3. push_node_info[s].total > 0
        BY <2>5 DEF Expired
      <3>4. Counted(s)'
        <4>1. next[s] <= LastPage /\ Unspoilt(s) => next[s] # 0 /\ 0 <= next[s]
          BY <2>1, <2>3, <3>3 DEF Counted
        <4> QED
          BY <1>1, <2>2, <3>1, <3>2, <4>1 DEF Counted
      <3>5. CleanCounted(s)' /\ Stored(s)'
        BY <1>1, <2>1, <2>2, <3>2 DEF CleanCounted, Stored
      <3>6. Drained(s)'
        BY <3>1, EmptyFacts DEF Drained
      <3>7. Sum(s)'
        <4>1. CASE round[s] = 0
          BY <1>1, <2>1, <3>1, <3>2, <4>1 DEF Sum
        <4>2. CASE round[s] # 0
          <5> DEFINE most == IF next[s] <= LastPage THEN next[s] ELSE LastPage
          <5>1. most \in Nat
            BY <2>3
          <5> HIDE DEF most
          <5>2. 0 + faults <= (round[s] - 1) * LastPage + MaxFault + most
            BY <2>3, <4>2, <5>1
          <5> QED
            BY <1>1, <3>1, <4>2, <5>2 DEF Sum, most
        <4> QED
          BY <4>1, <4>2
      <3> QED
        BY <3>4, <3>5, <3>6, <3>7 DEF One
    <2> QED
      BY <2>4, <2>5
  <1> QED
    BY <1>2, <1>3 DEF IInv

LEMMA IInvInit == Init => IInv
  <1> SUFFICES ASSUME Init PROVE IInv
    OBVIOUS
  <1>1. Shape
    <2>1. 0 \in 0..MaxRound /\ LastPage + 1 \in 0..(LastPage + 1) /\ MaxFault \in 0..MaxFault
          /\ 0 \in -1..MaxRound
      BY PushBounds
    <2>2. /\ push_node_info \in [Source -> Buf]
      BY EmptyFacts DEF Init
    <2>3. /\ spoilt \in [Source -> SUBSET {"again", "rush", "cut"}] /\ clean \in [Source -> BOOLEAN]
      BY DEF Init
    <2>4. /\ round \in [Source -> 0..MaxRound] /\ next \in [Source -> 0..(LastPage + 1)]
          /\ row \in [Source -> -1..MaxRound] /\ faults \in 0..MaxFault
      BY <2>1 DEF Init
    <2> QED
      BY <2>2, <2>3, <2>4 DEF Shape
  <1>2. ASSUME NEW s \in Source PROVE One(s)
    <2>1. /\ round[s] = 0 /\ next[s] = LastPage + 1 /\ push_node_info[s] = EmptyBuffer
          /\ row[s] = 0 /\ ~clean[s]
      BY DEF Init
    <2>2. ~(LastPage + 1 <= LastPage)
      BY PushBounds
    <2>3. Counted(s) /\ CleanCounted(s) /\ Stored(s)
      BY <2>1, <2>2 DEF Counted, CleanCounted, Stored
    <2>4. Drained(s) /\ Sum(s)
      BY <2>1, EmptyFacts DEF Drained, Sum
    <2> QED
      BY <2>3, <2>4 DEF One
  <1> QED
    BY <1>1, <1>2 DEF IInv

LEMMA IInvStep == IInv /\ [Next]_vars => IInv'
  <1> SUFFICES ASSUME IInv, [Next]_vars PROVE IInv'
    OBVIOUS
  <1>0. Shape /\ RecordsPerPage \in Nat /\ RecordsPerPage \in 0..RecordsPerPage
        /\ faults \in Nat /\ faults \in 0..faults
    BY PushBounds DEF IInv, Shape
  <1>1. ASSUME NEW s \in Source, BeginPush(s) PROVE IInv'
    BY <1>1, BeginKeeps
  <1>2. ASSUME NEW s \in Source, Arrive(s) PROVE IInv'
    <2>1. /\ next[s] <= LastPage /\ next' = [next EXCEPT ![s] = @ + 1]
          /\ process_push_data(s, next[s], round[s], RecordsPerPage)
          /\ UNCHANGED <<round, faults, spoilt, clean>>
      BY <1>2 DEF Arrive
    <2>2. faults' \in 0..faults
      BY <1>0, <2>1
    <2> QED
      BY <1>0, <2>1, <2>2, ArriveKeeps
  <1>3. ASSUME NEW s \in Source, Lose(s) PROVE IInv'
    BY <1>3, LoseKeeps
  <1>4. ASSUME NEW s \in Source, ArriveCut(s) PROVE IInv'
    <2>1. /\ next[s] <= LastPage /\ next' = [next EXCEPT ![s] = @ + 1]
          /\ faults > 0 /\ faults' = faults - 1
          /\ spoilt' = [spoilt EXCEPT ![s] = @ \cup {"cut"}]
          /\ clean' = [clean EXCEPT ![s] = FALSE]
          /\ UNCHANGED round
      BY <1>4 DEF ArriveCut
    <2>2. PICK good \in 0..(RecordsPerPage - 1) :
            process_push_data(s, next[s], round[s], good)
      BY <1>4 DEF ArriveCut
    <2>3. good \in 0..RecordsPerPage /\ good # RecordsPerPage /\ faults' \in 0..faults
      BY <1>0, <2>1
    <2> QED
      BY <2>1, <2>2, <2>3, ArriveKeeps
  <1>5. ASSUME NEW s \in Source, ArriveAgain(s) PROVE IInv'
    BY <1>5, AgainKeeps
  <1>6. CASE Tick
    BY <1>6, TickKeeps
  <1>7. CASE Cleanup
    BY <1>7, CleanupKeeps
  <1>8. CASE UNCHANGED vars
    <2>1. UNCHANGED <<round, next, push_node_info, row, faults, spoilt, clean>>
      BY <1>8 DEF vars
    <2>2. Shape'
      BY <1>0, <2>1 DEF Shape
    <2>3. ASSUME NEW s \in Source PROVE One(s)'
      <3>1. One(s)
        BY DEF IInv
      <3> QED
        BY <1>0, <2>1, <3>1, OneKeeps
    <2> QED
      BY <2>2, <2>3 DEF IInv
  <1> QED
    BY <1>1, <1>2, <1>3, <1>4, <1>5, <1>6, <1>7, <1>8 DEF Next

LEMMA Invariant == Spec => []IInv
  BY IInvInit, IInvStep, PTL DEF Spec

-----------------------------------------------------------------------------
(* Theorems. *)

\* The packets counted in a buffer stay below the pages and the faults that
\* there are, however often pages come again or are cut and pushes overlap.
THEOREM TypeCorrect == Spec => []TypeOK
  <1>1. IInv => TypeOK
    <2> SUFFICES ASSUME IInv PROVE TypeOK
      OBVIOUS
    <2>1. Shape
      BY DEF IInv
    <2>2. ASSUME NEW s \in Source PROVE push_node_info[s] \in Buffer
      <3> DEFINE b == push_node_info[s]
      <3>1. /\ b \in Buf /\ b.total \in Nat /\ LastPage \in Nat /\ MaxFault \in Nat
            /\ MaxRound \in Nat /\ next[s] \in Nat /\ faults \in Nat /\ round[s] \in Nat
            /\ round[s] <= MaxRound /\ (round[s] # 0 => (round[s] - 1) * LastPage \in Nat)
        BY <2>1, Bounds
      <3>2. Sum(s)
        BY DEF IInv, One
      <3>3. LastPage * MaxRound \in Nat /\ LastPage * MaxRound = MaxRound * LastPage
        BY <3>1
      <3>4. b.total <= MaxFault + LastPage * MaxRound
        <4>1. CASE round[s] = 0
          BY <3>1, <3>2, <3>3, <4>1 DEF Sum
        <4>2. CASE round[s] # 0
          <5>1. round[s] - 1 \in Nat /\ (round[s] - 1) + 1 = round[s]
            BY <3>1, <4>2
          <5>2. ((round[s] - 1) + 1) * LastPage = (round[s] - 1) * LastPage + LastPage
            BY <3>1, <5>1, Products
          <5>3. round[s] * LastPage <= MaxRound * LastPage
            BY <3>1, ProductsGrow
          <5>4. round[s] * LastPage = (round[s] - 1) * LastPage + LastPage
            BY <5>1, <5>2
          <5> DEFINE most == IF next[s] <= LastPage THEN next[s] ELSE LastPage
          <5>5. b.total + faults <= (round[s] - 1) * LastPage + MaxFault + most
            BY <3>2, <4>2 DEF Sum
          <5>6. most \in Nat /\ most <= LastPage
            BY <3>1
          <5> HIDE DEF most
          <5> QED
            BY <3>1, <3>3, <4>2, <5>3, <5>4, <5>5, <5>6
        <4> QED
          BY <4>1, <4>2
      <3>5. b.total \in 0..(MaxFault + LastPage * MaxRound)
        BY <3>1, <3>3, <3>4
      <3> HIDE DEF b
      <3>6. b \in Buffer
        BY <3>1, <3>5 DEF Buf, Buffer
      <3> QED
        BY <3>6 DEF b
    <2> QED
      BY <2>1, <2>2 DEF TypeOK, Shape
  <1> QED
    BY Invariant, <1>1, PTL

\* The count of packets stands for the pages themselves: the row of a source is
\* one whole push of it, unless a page came again or a push began before an
\* unfinished one was cleaned up, or, for the block load, a page was cut short.
\* So for every number of meters, pages, records and blocks.
THEOREM StoredSafe == Spec => []StoredWhole
  <1>1. IInv => StoredWhole
    BY DEF IInv, One, Stored, StoredWhole, Unspoilt
  <1> QED
    BY Invariant, <1>1, PTL

\* A push whose pages all came whole and in order into an empty buffer is the
\* one stored, whatever the other sources push, lose or repeat meanwhile.
THEOREM WholePushSafe == Spec => []WholePushStored
  <1>1. IInv => WholePushStored
    BY DEF IInv, One, Stored, WholePushStored
  <1> QED
    BY Invariant, <1>1, PTL

-----------------------------------------------------------------------------
(* OdmRecords. *)

\* The values of one request.
Mine(r) == {v \in Value : v.req = r}

\* A row as it should be: what the value column holds is of its own request,
\* and the key column holds the same or nothing.
RowGood(w) ==
  /\ w.cells["val"] \in Mine(w.req)
  /\ w.cells["key"] \in {Default, w.cells["val"]}
  /\ kind[w.req] = "rtcWrite" /\ w.req \notin twice => w.cells["val"].rec = 1

\* What a row may be untrue for.
Disturbed == leftover \cup ragged \cup foreign

\* Requests are numbered in order, and a request has rows only when it is over.
Order ==
  /\ pc # "idle" => req # 0
  /\ \A w \in db : w.req \in 1..req /\ (pc # "idle" => w.req < req)

\* The columns of the request that is served, as long as nothing disturbed it.
OwnColumns(k, m) ==
  /\ m \in [Column -> Seq(Mine(req))]
  /\ k \in First \cup Each \cup Latest => m["key"] = m["val"]
  /\ k \in Single \cup {"summary"} => m["key"] = <<>>
  /\ pc = "store" => m["val"] # <<>>
  /\ k \in Single \ {"rtcRead"} => pp_write_payload_tail.req = req
  /\ k = "rtcWrite" /\ pc = "wait" => pp_write_payload_tail.rec = 0
  /\ k = "rtcWrite" /\ pc = "store" /\ req \notin twice
       => m["val"][Len(m["val"])].rec = 1

\* The columns while a request is served.
OwnData == pc # "idle" /\ req \notin Disturbed
         => OwnColumns(kind[req], mem[Profile(kind[req])])

\* RowsTrue and NoReadPastEnd follow from it.
GoodRows == \A w \in db : w.req \notin Disturbed => RowGood(w)

\* What may be in the columns of a profile: a default, or a value of a request
\* for that profile that no row has.
Fresh(p) ==
  {v \in Value : \/ v = Default
                 \/ /\ v.req \in 1..req /\ Profile(kind[v.req]) = p
                    /\ \A w \in db : v \notin Cells(w)}

\* As long as no answer to an earlier request came, memory holds only such values,
\* and a row only values of its request or of ones before it.
Gone ==
  foreign \cap (1..req) = {} =>
    /\ \A p \in Members : mem[p] \in [Column -> Seq(Fresh(p))]
    /\ \A w \in db : \A v \in Cells(w) : v.req <= w.req
    /\ pc # "idle" /\ kind[req] \in Single \ {"rtcRead"}
         => pp_write_payload_tail.req = req

\* The inductive invariant.
RecordsInv ==
  RecordsTypeOK /\ Order /\ OwnData /\ GoodRows /\ Gone /\ NothingStoredTwice

-----------------------------------------------------------------------------
(* Operators. *)

\* Sequences over a set are sequences over a larger one.
LEMMA SeqMono ==
  ASSUME NEW S, NEW T, S \subseteq T, NEW s \in Seq(S)
  PROVE  s \in Seq(T)
  OBVIOUS

LEMMA ColumnsMono ==
  ASSUME NEW S, NEW T, S \subseteq T, NEW m \in [Column -> Seq(S)]
  PROVE  m \in [Column -> Seq(T)]
  <1>1. \A c \in Column : m[c] \in Seq(T)
    BY SeqMono
  <1> QED
    BY <1>1

\* Cleared columns are columns over any set.
LEMMA EmptyColumns == \A S : Empty \in [Column -> Seq(S)]
  BY DEF Empty

\* The requests that read or write one object share its member; all others have
\* a member of their own name.
LEMMA ProfileFacts ==
  ASSUME NEW k \in AllKinds
  PROVE  /\ Profile(k) \in Members
         /\ k \notin Single => Profile(k) = k
  BY DEF Profile, Members, AllKinds, First, Each, Latest, Single

\* The kinds of the requests so far.
LEMMA KindFacts ==
  ASSUME RecordsTypeOK, NEW r \in 1..req
  PROVE  /\ kind[r] \in Kinds /\ kind[r] \in AllKinds
         /\ Profile(kind[r]) \in Members
  <1>1. kind[r] \in Kinds /\ kind[r] \in AllKinds
    BY RecordBounds DEF RecordsTypeOK
  <1> QED
    BY <1>1, ProfileFacts

\* A default is a value of no request.
LEMMA DefaultFacts == /\ Default \in Value /\ Default.req = 0
                      /\ NoTail \in Value /\ NoTail = Default
  BY RecordBounds DEF Default, NoTail, Value

\* A value is a record of its two parts.
LEMMA ValueFacts ==
  ASSUME NEW v \in Value
  PROVE  v.req \in 0..MaxRequests /\ v.rec \in Nat /\ v # Undefined
  <1>1. v.req \in 0..MaxRequests /\ v.rec \in Nat
    BY DEF Value
  <1>2. Undefined.req = MaxRequests + 1 /\ MaxRequests \in Nat
    BY RecordBounds DEF Undefined
  <1>3. v.req # MaxRequests + 1
    BY <1>1, <1>2
  <1> QED
    BY <1>1, <1>2, <1>3

\* The offset of the clock leaves the payload that of its request.
LEMMA TailFacts ==
  ASSUME NEW k, NEW t \in Value
  PROVE  /\ Tail1(k, t) \in Value /\ Tail1(k, t).req = t.req
         /\ Tail1(k, t).rec = IF k = "rtcWrite" THEN t.rec + 1 ELSE t.rec
  BY DEF Tail1, Value

-----------------------------------------------------------------------------
(* Parsing. *)

Writes == {"rtcWrite", "limitWrite"}

\* S has all values of the request an answer names, and of the payload that a
\* write stores.
Brought(S, k, a, t) ==
  \A v \in Value : v.req = a.req \/ (k \in Writes /\ v.req = t.req) => v \in S

\* Parsing an answer adds to the columns only what the answer brings.
LEMMA ParseFacts ==
  ASSUME NEW S, NEW k \in AllKinds, NEW a, a.req \in 0..MaxRequests,
         tx_page_index \in Nat,
         NEW s, s.m \in [Column -> Seq(S)], s.tail \in Value,
         Brought(S, k, a, s.tail)
  PROVE  /\ Parse(s, k, a).m \in [Column -> Seq(S)]
         /\ Parse(s, k, a).tail = Tail1(k, s.tail)
         /\ Brought(S, k, a, Parse(s, k, a).tail)
  <1> DEFINE v == [req |-> a.req, rec |-> tx_page_index]
             t == Tail1(k, s.tail)
  <1>1. v \in S
    BY DEF Brought, Value
  <1>2. t \in Value /\ t.req = s.tail.req
    BY TailFacts
  <1>3. k \in Writes => t \in S
    BY <1>2 DEF Brought
  <1>4. Parse(s, k, a).tail = t
    BY DEF Parse
  <1>5. Brought(S, k, a, t)
    BY <1>2 DEF Brought
  <1> HIDE DEF v, t
  <1>6. CASE k \in Single
    <2>1. Parse(s, k, a).m = ParseSingle(s.m, k, v, t)
      BY <1>6 DEF Parse, v, t
    <2>2. k \in {"rtcRead", "rtcWrite", "periodRead", "limitWrite"}
      BY <1>6 DEF Single
    <2>3. /\ k = "rtcRead" => ParseSingle(s.m, k, v, t) = [s.m EXCEPT !["val"] = <<v>>]
          /\ k = "rtcWrite" => ParseSingle(s.m, k, v, t) = [s.m EXCEPT !["val"] = <<t>>]
          /\ k = "periodRead" => ParseSingle(s.m, k, v, t)
                                   = [s.m EXCEPT !["val"] = Append(s.m["val"], v)]
          /\ k = "limitWrite" => ParseSingle(s.m, k, v, t)
                                   = [s.m EXCEPT !["val"] = Append(s.m["val"], t)]
      BY DEF ParseSingle, Column
    <2>4. /\ s.m["val"] \in Seq(S) /\ <<v>> \in Seq(S) /\ Append(s.m["val"], v) \in Seq(S)
          /\ k \in Writes => <<t>> \in Seq(S) /\ Append(s.m["val"], t) \in Seq(S)
      BY <1>1, <1>3 DEF Column
    <2>5. \A q \in Seq(S) : [s.m EXCEPT !["val"] = q] \in [Column -> Seq(S)]
      BY DEF Column
    <2>6. ParseSingle(s.m, k, v, t) \in [Column -> Seq(S)]
      BY <2>2, <2>3, <2>4, <2>5 DEF Writes
    <2> QED
      BY <1>4, <1>5, <2>1, <2>6 DEF t
  <1>7. CASE k = "summary"
    <2>1. Parse(s, k, a).m = [s.m EXCEPT !["val"] = <<v>>]
      BY <1>7 DEF Parse, ParseSummary, Single, v
    <2>2. <<v>> \in Seq(S)
      BY <1>1
    <2>3. [s.m EXCEPT !["val"] = <<v>>] \in [Column -> Seq(S)]
      BY <2>2
    <2> QED
      BY <1>4, <1>5, <2>1, <2>3 DEF t
  <1>8. CASE k \notin Single /\ k # "summary"
    <2>1. Parse(s, k, a).m = ParseProfile(s.m, a.page, v)
      BY <1>8 DEF Parse, v
    <2>2. \A c \in Column : Append(s.m[c], v) \in Seq(S) /\ s.m[c] \in Seq(S)
      BY <1>1
    <2>3. ParseProfile(s.m, a.page, v) \in [Column -> Seq(S)]
      BY <2>2 DEF ParseProfile
    <2> QED
      BY <1>4, <1>5, <2>1, <2>3 DEF t
  <1> QED
    BY <1>6, <1>7, <1>8

\* Whole pages keep the columns of a profile equal; the other answers leave the
\* key column alone.
LEMMA ParseShape ==
  ASSUME NEW k \in AllKinds, NEW a, a.req \in 0..MaxRequests, tx_page_index \in Nat,
         NEW s, s.m \in [Column -> Seq(Value)], s.tail \in Value,
         Fields(a.page) = <<"key", "val">>
  PROVE  LET m == Parse(s, k, a).m IN
         /\ m["val"] # <<>>
         /\ k \in First \cup Each \cup Latest => (s.m["key"] = s.m["val"] => m["key"] = m["val"])
         /\ k \in Single \cup {"summary"} => m["key"] = s.m["key"]
         /\ k = "rtcWrite" => m["val"] = <<Tail1(k, s.tail)>>
  <1> DEFINE v == [req |-> a.req, rec |-> tx_page_index]
             t == Tail1(k, s.tail)
  <1>0. "key" \in Column /\ "val" \in Column /\ s.m["val"] \in Seq(Value)
    BY DEF Column
  <1>1. \A q \in Value : Append(s.m["val"], q) # <<>> /\ <<q>> # <<>>
    BY <1>0
  <1>2. v \in Value /\ t \in Value
    BY TailFacts DEF Value
  <1>5. \A q : /\ [s.m EXCEPT !["val"] = q]["val"] = q
               /\ [s.m EXCEPT !["val"] = q]["key"] = s.m["key"]
    BY <1>0
  <1>6. CASE k \in Single
    <2>1. Parse(s, k, a).m = ParseSingle(s.m, k, v, t)
      BY <1>6 DEF Parse
    <2> HIDE DEF v, t
    <2>2. k \in {"rtcRead", "rtcWrite", "periodRead", "limitWrite"}
      BY <1>6 DEF Single
    <2>3. /\ k = "rtcRead" => ParseSingle(s.m, k, v, t) = [s.m EXCEPT !["val"] = <<v>>]
          /\ k = "rtcWrite" => ParseSingle(s.m, k, v, t) = [s.m EXCEPT !["val"] = <<t>>]
          /\ k = "periodRead" => ParseSingle(s.m, k, v, t)
                                   = [s.m EXCEPT !["val"] = Append(s.m["val"], v)]
          /\ k = "limitWrite" => ParseSingle(s.m, k, v, t)
                                   = [s.m EXCEPT !["val"] = Append(s.m["val"], t)]
      BY DEF ParseSingle, Column
    <2>4. k \notin First \cup Each \cup Latest
      BY <1>6 DEF Single, First, Each, Latest
    <2>5. /\ Parse(s, k, a).m["val"] # <<>> /\ Parse(s, k, a).m["key"] = s.m["key"]
      <3>1. \A q : q # <<>> => /\ [s.m EXCEPT !["val"] = q]["val"] # <<>>
                              /\ [s.m EXCEPT !["val"] = q]["key"] = s.m["key"]
        BY <1>5
      <3>2. \E q : q # <<>> /\ Parse(s, k, a).m = [s.m EXCEPT !["val"] = q]
        <4>1. \/ k = "rtcRead" \/ k = "rtcWrite" \/ k = "periodRead" \/ k = "limitWrite"
          BY <2>2
        <4> QED
          BY <1>1, <1>2, <2>1, <2>3, <4>1, Zenon
      <3> QED
        BY <3>1, <3>2, Zenon
    <2>6. k = "rtcWrite" => Parse(s, k, a).m["val"] = <<t>>
      BY <1>5, <2>1, <2>3, Zenon
    <2> QED
      BY <2>4, <2>5, <2>6 DEF t
  <1>7. CASE k = "summary"
    <2>1. Parse(s, k, a).m = [s.m EXCEPT !["val"] = <<v>>]
      BY <1>7 DEF Parse, ParseSummary, Single
    <2> HIDE DEF v
    <2>4. k \notin First \cup Each \cup Latest
      BY <1>7 DEF First, Each, Latest
    <2> QED
      BY <1>1, <1>2, <1>5, <1>7, <2>1, <2>4
  <1>8. CASE k \notin Single /\ k # "summary"
    <2>1. Parse(s, k, a).m = ParseProfile(s.m, a.page, v)
      BY <1>8 DEF Parse
    <2> HIDE DEF v
    <2>2. Contains(<<"key", "val">>, "key") /\ Contains(<<"key", "val">>, "val")
      BY DEF Contains
    <2>3. /\ ParseProfile(s.m, a.page, v)["val"] = Append(s.m["val"], v)
          /\ ParseProfile(s.m, a.page, v)["key"] = Append(s.m["key"], v)
      BY <1>0, <2>2 DEF ParseProfile
    <2>4. k # "rtcWrite"
      BY <1>8 DEF Single
    <2> QED
      BY <1>1, <1>2, <1>8, <2>1, <2>3, <2>4
  <1> QED
    BY <1>6, <1>7, <1>8

\* An answer is parsed as often as it came.
Parses(s, k, a, n) == IF n = 1 THEN Parse(s, k, a) ELSE Parse(Parse(s, k, a), k, a)

\* What ParseFacts says holds for an answer that came twice as well.
LEMMA ParsesFacts ==
  ASSUME NEW S, NEW k \in AllKinds, NEW a, a.req \in 0..MaxRequests,
         tx_page_index \in Nat, NEW n \in 1..2,
         NEW s, s.m \in [Column -> Seq(S)], s.tail \in Value,
         Brought(S, k, a, s.tail)
  PROVE  /\ Parses(s, k, a, n).m \in [Column -> Seq(S)]
         /\ Parses(s, k, a, n).tail \in Value
         /\ Parses(s, k, a, n).tail.req = s.tail.req
         /\ n = 1 /\ k = "rtcWrite" => Parses(s, k, a, n).tail.rec = s.tail.rec + 1
  <1> DEFINE s1 == Parse(s, k, a)
             s2 == Parse(s1, k, a)
  <1>1. s1.m \in [Column -> Seq(S)] /\ s1.tail = Tail1(k, s.tail) /\ Brought(S, k, a, s1.tail)
    BY ParseFacts
  <1>2. /\ s1.tail \in Value /\ s1.tail.req = s.tail.req
        /\ k = "rtcWrite" => s1.tail.rec = s.tail.rec + 1
    BY <1>1, TailFacts
  <1> HIDE DEF s1
  <1>3. s2.m \in [Column -> Seq(S)] /\ s2.tail = Tail1(k, s1.tail)
    BY <1>1, <1>2, ParseFacts
  <1>4. s2.tail \in Value /\ s2.tail.req = s.tail.req
    BY <1>2, <1>3, TailFacts
  <1> HIDE DEF s2
  <1>5. Parses(s, k, a, n) = IF n = 1 THEN s1 ELSE s2
    BY DEF Parses, s1, s2
  <1> QED
    BY <1>1, <1>2, <1>3, <1>4, <1>5

\* So does what ParseShape says.
LEMMA ParsesShape ==
  ASSUME NEW k \in AllKinds, NEW a, a.req \in 0..MaxRequests, tx_page_index \in Nat,
         NEW n \in 1..2, NEW s, s.m \in [Column -> Seq(Value)], s.tail \in Value,
         Fields(a.page) = <<"key", "val">>
  PROVE  /\ Parses(s, k, a, n).m["val"] # <<>>
         /\ k \in First \cup Each \cup Latest =>
              (s.m["key"] = s.m["val"] =>
                 Parses(s, k, a, n).m["key"] = Parses(s, k, a, n).m["val"])
         /\ k \in Single \cup {"summary"} => Parses(s, k, a, n).m["key"] = s.m["key"]
         /\ n = 1 /\ k = "rtcWrite" =>
              Parses(s, k, a, n).m["val"] = <<Parses(s, k, a, n).tail>>
  <1> DEFINE s1 == Parse(s, k, a)
             s2 == Parse(s1, k, a)
  <1>0. Brought(Value, k, a, s.tail)
    BY DEF Brought
  <1>1. s1.m \in [Column -> Seq(Value)] /\ s1.tail = Tail1(k, s.tail) /\ s1.tail \in Value
    BY <1>0, ParseFacts, TailFacts
  <1>2. /\ s1.m["val"] # <<>>
        /\ k \in First \cup Each \cup Latest => (s.m["key"] = s.m["val"] => s1.m["key"] = s1.m["val"])
        /\ k \in Single \cup {"summary"} => s1.m["key"] = s.m["key"]
        /\ k = "rtcWrite" => s1.m["val"] = <<s1.tail>>
    BY <1>1, ParseShape
  <1> HIDE DEF s1
  <1>3. /\ s2.m["val"] # <<>>
        /\ k \in First \cup Each \cup Latest => (s1.m["key"] = s1.m["val"] => s2.m["key"] = s2.m["val"])
        /\ k \in Single \cup {"summary"} => s2.m["key"] = s1.m["key"]
    BY <1>1, ParseShape
  <1> HIDE DEF s2
  <1>4. (n = 1 /\ Parses(s, k, a, n) = s1) \/ (n # 1 /\ Parses(s, k, a, n) = s2)
    BY DEF Parses, s1, s2
  <1>5. CASE n = 1 /\ Parses(s, k, a, n) = s1
    BY <1>2, <1>5
  <1>6. CASE n # 1 /\ Parses(s, k, a, n) = s2
    BY <1>2, <1>3, <1>6
  <1> QED
    BY <1>4, <1>5, <1>6

\* What an answer does to memory.
LEMMA ReceivedFacts ==
  ASSUME RecordsTypeOK, NEW a \in Answer, NEW n \in 1..2, Received(a, n)
  PROVE  LET k == kind[a.req]
             p == Profile(k)
             s == Parses([m |-> mem[p], tail |-> pp_write_payload_tail], k, a, n)
         IN /\ a.req \in 1..req /\ a.req \in 0..MaxRequests
            /\ k \in AllKinds /\ p \in Members
            /\ mem' = [mem EXCEPT ![p] = s.m] /\ pp_write_payload_tail' = s.tail
            /\ mem[p] \in [Column -> Seq(Value)]
  <1>1. a.req \in 1..req /\ a.req \in 0..MaxRequests
    BY RecordBounds DEF Answer, RecordsTypeOK
  <1>2. kind[a.req] \in AllKinds /\ Profile(kind[a.req]) \in Members
    BY <1>1, KindFacts
  <1>3. mem[Profile(kind[a.req])] \in [Column -> Seq(Value)]
    BY <1>2 DEF RecordsTypeOK
  <1> QED
    BY <1>1, <1>2, <1>3 DEF Received, Parses

-----------------------------------------------------------------------------
(* Storing. *)

\* validate_*_for_db: no column is empty afterwards, and no other one changes.
LEMMA FilledFacts ==
  ASSUME NEW S, NEW m \in [Column -> Seq(S)]
  PROVE  /\ Filled(m) \in [Column -> Seq(S \cup {Default})]
         /\ \A c \in Column : Filled(m)[c] # <<>>
         /\ \A c \in Column : m[c] # <<>> => Filled(m)[c] = m[c]
         /\ \A c \in Column : m[c] = <<>> => Filled(m)[c] = <<Default>>
  <1>1. \A c \in Column : m[c] \in Seq(S \cup {Default})
    <2>1. S \subseteq S \cup {Default}
      OBVIOUS
    <2> QED
      BY <2>1, SeqMono
  <1>2. <<Default>> \in Seq(S \cup {Default}) /\ <<Default>> # <<>>
    OBVIOUS
  <1> QED
    BY <1>1, <1>2 DEF Filled

\* The cells of a row are values of the columns or, past an end, undefined.
LEMMA CellFacts ==
  ASSUME NEW S, NEW m \in [Column -> Seq(S)]
  PROVE  /\ (\A c \in Column : m[c] # <<>>) => FirstOf(m) \in [Column -> S]
         /\ LastOf(m) \in [Column -> S \cup {Undefined}]
         /\ \A i \in Nat \ {0} : RowOf(m, i) \in [Column -> S \cup {Undefined}]
  <1>1. \A c \in Column : m[c] # <<>> => m[c][1] \in S /\ m[c][Len(m[c])] \in S
    OBVIOUS
  <1>2. \A c \in Column, i \in Nat \ {0} : i <= Len(m[c]) => m[c][i] \in S
    OBVIOUS
  <1> QED
    BY <1>1, <1>2 DEF FirstOf, LastOf, RowOf

\* A row made from columns over S.
RowOver(S) ==
  [req: {req}, table: Members \cup {"rf"}, no: Nat,
   cells: [Column -> S \cup {Default, Undefined}]]

\* A row of such cells.
LEMMA NewRowFacts ==
  ASSUME NEW S, NEW t \in Members \cup {"rf"}, NEW i \in Nat,
         NEW c \in [Column -> S \cup {Default, Undefined}]
  PROVE  NewRow(t, i, c) \in RowOver(S)
  BY DEF NewRow, RowOver

\* Of update_odm_db whatever the kind: it ends the request, only the columns it
\* clears or fills change, and what was inserted is cleared.
LEMMA StoreFacts ==
  ASSUME RecordsTypeOK, Order, update_odm_db
  PROVE  /\ pc = "store" /\ pc' = "idle" /\ req \in 1..MaxRequests
         /\ UNCHANGED <<req, kind, near, tx_page_index, answers>> /\ UNCHANGED history
         /\ pp_write_payload_tail' \in {pp_write_payload_tail, NoTail}
         /\ status' \in {status, [status EXCEPT ![req] = "SUCCESS"]}
         /\ kind[req] \in AllKinds /\ Profile(kind[req]) \in Members
         /\ DOMAIN mem' = Members /\ mem' = [p \in Members |-> mem'[p]]
         /\ \A p \in Members : mem'[p] \in {mem[p], Empty, Filled(mem[p])}
         /\ db \subseteq db'
         /\ db' = db \/ mem'[Profile(kind[req])] = Empty
  <1> DEFINE k == kind[req]
             P == Profile(k)
  <1>1. req \in 1..MaxRequests /\ req \in 1..req /\ pc = "store" /\ pc' = "idle"
        /\ UNCHANGED <<req, kind, near, tx_page_index, answers>> /\ UNCHANGED history
    <2>1. pc = "store" /\ Done
      BY DEF update_odm_db, StoreFirst, StoreEach, StoreSummary, StoreLatest, StoreSingle
    <2>2. req # 0 /\ req \in 0..MaxRequests
      BY <2>1 DEF Order, RecordsTypeOK
    <2> QED
      BY <2>1, <2>2, RecordBounds DEF Done
  <1>2. k \in AllKinds /\ P \in Members
    BY <1>1, KindFacts
  <1>3. /\ pp_write_payload_tail' \in {pp_write_payload_tail, NoTail}
        /\ status' \in {status, [status EXCEPT ![req] = "SUCCESS"]}
    BY DEF update_odm_db, StoreFirst, StoreEach, StoreSummary, StoreLatest, StoreSingle, Success
  <1>4. /\ DOMAIN clear_profile_for_type(k) = Members
        /\ clear_profile_for_type(k) = [p \in Members |-> clear_profile_for_type(k)[p]]
        /\ \A p \in Members : clear_profile_for_type(k)[p] \in {mem[p], Empty}
        /\ clear_profile_for_type(k)[P] = Empty
    BY <1>2 DEF clear_profile_for_type
  <1>5. DOMAIN mem = Members /\ mem = [p \in Members |-> mem[p]]
    BY DEF RecordsTypeOK
  <1>6. k = "summary" => mem["summary"] = mem[P]
    BY <1>2, ProfileFacts DEF Single
  <1> HIDE DEF P
  <1>7. \/ mem' = clear_profile_for_type(k) /\ db \subseteq db'
        \/ mem' = mem /\ db' = db
        \/ mem' = [mem EXCEPT ![P] = Filled(mem[P])] /\ db' = db
    BY DEF update_odm_db, StoreFirst, StoreEach, StoreSummary, StoreLatest, StoreSingle,
           validate_event_for_db, SomeOf, P
  <1>8. CASE mem' = clear_profile_for_type(k) /\ db \subseteq db'
    <2>1. /\ DOMAIN mem' = Members /\ mem' = [p \in Members |-> mem'[p]]
          /\ \A p \in Members : mem'[p] \in {mem[p], Empty, Filled(mem[p])}
          /\ mem'[P] = Empty
      BY <1>4, <1>8, Zenon
    <2> QED
      BY <1>1, <1>2, <1>3, <1>8, <2>1 DEF P
  <1>9. CASE mem' = mem /\ db' = db
    <2>1. /\ DOMAIN mem' = Members /\ mem' = [p \in Members |-> mem'[p]]
          /\ \A p \in Members : mem'[p] \in {mem[p], Empty, Filled(mem[p])}
      BY <1>5, <1>9, Zenon
    <2> QED
      BY <1>1, <1>2, <1>3, <1>9, <2>1 DEF P
  <1>10. CASE mem' = [mem EXCEPT ![P] = Filled(mem[P])] /\ db' = db
    <2>1. /\ DOMAIN mem' = Members /\ mem' = [p \in Members |-> mem'[p]]
          /\ \A p \in Members : mem'[p] \in {mem[p], Empty, Filled(mem[p])}
      BY <1>5, <1>10
    <2> QED
      BY <1>1, <1>2, <1>3, <1>10, <2>1 DEF P
  <1> QED
    BY <1>7, <1>8, <1>9, <1>10

\* A new row of any kind is made from the columns of the profile.
LEMMA StoreRows ==
  ASSUME RecordsTypeOK, Order, update_odm_db, NEW S,
         mem[Profile(kind[req])] \in [Column -> Seq(S)]
  PROVE  \A w \in db' : w \in db \/ w \in RowOver(S)
  <1> DEFINE k == kind[req]
             m == mem[Profile(k)]
             f == Filled(m)
             T == S \cup {Default, Undefined}
  <1>1. k \in AllKinds /\ Profile(k) \in Members
    BY StoreFacts
  <1>2. /\ k \notin Single => Profile(k) = k
        /\ k \in Members \/ k \in Single
    BY <1>1, ProfileFacts
  <1> HIDE DEF m
  <1>3. f \in [Column -> Seq(S \cup {Default})] /\ \A c \in Column : f[c] # <<>>
    BY FilledFacts DEF m
  <1> HIDE DEF f
  <1>4. /\ FirstOf(f) \in [Column -> S \cup {Default}]
        /\ LastOf(f) \in [Column -> S \cup {Default} \cup {Undefined}]
        /\ \A i \in Nat \ {0} : RowOf(f, i) \in [Column -> S \cup {Default} \cup {Undefined}]
        /\ LastOf(m) \in [Column -> S \cup {Undefined}]
    BY <1>3, CellFacts DEF m
  <1>5. /\ FirstOf(f) \in [Column -> T] /\ LastOf(f) \in [Column -> T]
        /\ \A i \in Nat \ {0} : RowOf(f, i) \in [Column -> T]
        /\ \A c \in Column : LastOf(m)[c] \in T /\ LastOf(f)[c] \in T
    BY <1>4
  <1>6. "val" \in Column /\ Default \in T
    BY DEF Column
  <1> HIDE DEF T
  <1>7. \A t \in Members \cup {"rf"}, i \in Nat, c \in [Column -> T] :
          NewRow(t, i, c) \in RowOver(S)
    BY NewRowFacts DEF T
  <1>8. 1 \in Nat /\ "rf" \in Members \cup {"rf"} /\ Members \subseteq Members \cup {"rf"}
    OBVIOUS
  <1>9. CASE StoreFirst
    <2>1. k \in Members
      BY <1>2, <1>9 DEF StoreFirst, First, Single
    <2>2. \A w \in db' : w \in db \/ w = NewRow(k, 1, FirstOf(f)) \/ w = NewRow("rf", 1, LastOf(f))
      BY <1>9 DEF StoreFirst, SomeOf, f, m
    <2>4. NewRow(k, 1, FirstOf(f)) \in RowOver(S) /\ NewRow("rf", 1, LastOf(f)) \in RowOver(S)
      BY <1>5, <1>7, <1>8, <2>1, Zenon
    <2> QED
      BY <2>2, <2>4
  <1>10. CASE StoreEach
    <2>1. k \in Members
      BY <1>2, <1>10 DEF StoreEach, Each, Single
    <2>2. \A w \in db' : w \in db \/ \E i \in 1..Len(f["key"]) : w = NewRow(k, i, RowOf(f, i))
      BY <1>10 DEF StoreEach, SomeOf, f, m
    <2>3. \A i \in 1..Len(f["key"]) : i \in Nat /\ i \in Nat \ {0}
      BY <1>3 DEF Column
    <2>4. \A i \in 1..Len(f["key"]) : NewRow(k, i, RowOf(f, i)) \in RowOver(S)
      BY <1>5, <1>7, <1>8, <2>1, <2>3, Zenon
    <2> QED
      BY <2>2, <2>4
  <1>11. CASE StoreSummary
    <2>1. "summary" \in Members /\ k = "summary" /\ Profile(k) = "summary"
      BY <1>1, <1>2, <1>11 DEF StoreSummary, Single
    <2>2. \A w \in db' : w \in db \/ w = NewRow("summary", 1, LastOf(f))
      BY <1>11, <2>1 DEF StoreSummary, SomeOf, f, m
    <2>4. NewRow("summary", 1, LastOf(f)) \in RowOver(S)
      BY <1>5, <1>7, <1>8, <2>1, Zenon
    <2> QED
      BY <2>2, <2>4
  <1>12. CASE StoreLatest
    <2>1. k \in Members
      BY <1>2, <1>12 DEF StoreLatest, Latest, Single
    <2>2. \A w \in db' : w \in db \/ w = NewRow(k, 1, LastOf(f))
      BY <1>12 DEF StoreLatest, validate_event_for_db, f, m
    <2>4. NewRow(k, 1, LastOf(f)) \in RowOver(S)
      BY <1>5, <1>7, <1>8, <2>1, Zenon
    <2> QED
      BY <2>2, <2>4
  <1>13. CASE StoreSingle
    <2> DEFINE val == LastOf(IF Profile(k) = "rtc" THEN f ELSE m)["val"]
               cells == [c \in Column |-> IF c = "val" THEN val ELSE Default]
    <2>1. val \in T
      BY <1>5, <1>6
    <2> HIDE DEF val
    <2>2. cells \in [Column -> T]
      BY <1>6, <2>1
    <2> HIDE DEF cells
    <2>3. \A w \in db' : w \in db \/ w = NewRow(Profile(k), 1, cells)
      BY <1>13 DEF StoreSingle, val, cells, f, m
    <2> QED
      BY <1>1, <1>7, <2>2, <2>3
  <1> QED
    BY <1>9, <1>10, <1>11, <1>12, <1>13 DEF update_odm_db

\* A new row of a request that nothing disturbed.
LEMMA StoreGood ==
  ASSUME RecordsTypeOK, Order, update_odm_db,
         OwnColumns(kind[req], mem[Profile(kind[req])])
  PROVE  \A w \in db' : w \in db \/
           /\ w.cells["val"] \in Mine(req)
           /\ w.cells["key"] \in {Default, w.cells["val"]}
           /\ kind[req] = "rtcWrite" /\ req \notin twice => w.cells["val"].rec = 1
  <1> DEFINE k == kind[req]
             m == mem[Profile(k)]
             f == Filled(m)
             last == m["val"][Len(m["val"])]
             Good(w) == /\ w.cells["val"] \in Mine(req)
                        /\ w.cells["key"] \in {Default, w.cells["val"]}
                        /\ k = "rtcWrite" /\ req \notin twice => w.cells["val"].rec = 1
  <1>0. pc = "store" /\ k \in AllKinds
    BY StoreFacts
  <1>1. /\ m \in [Column -> Seq(Mine(req))] /\ m["val"] # <<>>
        /\ k \in First \cup Each \cup Latest => m["key"] = m["val"]
        /\ k \in Single \cup {"summary"} => m["key"] = <<>>
        /\ k = "rtcWrite" /\ req \notin twice => last.rec = 1
    BY <1>0 DEF OwnColumns
  <1> HIDE DEF m
  <1>2. "key" \in Column /\ "val" \in Column /\ \A c \in Column : c = "key" \/ c = "val"
    BY DEF Column
  <1>3. m["val"] \in Seq(Mine(req)) /\ Len(m["val"]) \in Nat /\ Len(m["val"]) # 0
    BY <1>1, <1>2
  <1>4. /\ last \in Mine(req) /\ m["val"][1] \in Mine(req)
        /\ \A i \in 1..Len(m["val"]) : m["val"][i] \in Mine(req)
    BY <1>3
  <1>5. /\ f["val"] = m["val"] /\ (m["key"] # <<>> => f["key"] = m["key"])
        /\ m["key"] = <<>> => f["key"] = <<Default>>
    BY <1>1, <1>2, FilledFacts
  <1> HIDE DEF f, last
  <1>6. \A x : LastOf(x)["val"] = IF x["val"] = <<>> THEN Undefined ELSE x["val"][Len(x["val"])]
    BY <1>2 DEF LastOf
  <1>7. LastOf(f)["val"] = last /\ LastOf(m)["val"] = last
    BY <1>1, <1>5, <1>6, Zenon DEF last
  <1>8. /\ k \in First \cup Each \cup Latest => f["key"] = m["val"] /\ LastOf(f)["key"] = last
        /\ k \in Single \cup {"summary"} => f["key"] = <<Default>> /\ LastOf(f)["key"] = Default
    <2>1. k \in First \cup Each \cup Latest => f["key"] = m["val"]
      BY <1>1, <1>5
    <2>2. k \in Single \cup {"summary"} => f["key"] = <<Default>>
      BY <1>1, <1>5
    <2>3. LastOf(f)["key"] = IF f["key"] = <<>> THEN Undefined ELSE f["key"][Len(f["key"])]
      BY <1>2 DEF LastOf
    <2>4. <<Default>> # <<>> /\ <<Default>>[Len(<<Default>>)] = Default
      OBVIOUS
    <2>5. k \in First \cup Each \cup Latest => LastOf(f)["key"] = last
      BY <1>1, <2>1, <2>3, Zenon DEF last
    <2>6. k \in Single \cup {"summary"} => LastOf(f)["key"] = Default
      BY <2>2, <2>3, <2>4, Zenon
    <2> QED
      BY <2>1, <2>2, <2>5, <2>6
  <1>9. \A t, i, c : NewRow(t, i, c).cells = c
    BY DEF NewRow
  <1>10. CASE StoreFirst
    <2>1. k \in First
      BY <1>10 DEF StoreFirst
    <2>2. \A w \in db' : w \in db \/ w.cells = FirstOf(f) \/ w.cells = LastOf(f)
      BY <1>9, <1>10 DEF StoreFirst, SomeOf, f, m
    <2>3. k # "rtcWrite" /\ f["key"] = m["val"] /\ LastOf(f)["key"] = last
      BY <1>8, <2>1 DEF First
    <2>4. FirstOf(f)["val"] = m["val"][1] /\ FirstOf(f)["key"] = m["val"][1]
      BY <1>2, <1>5, <2>3 DEF FirstOf
    <2> QED
      BY <1>4, <1>7, <2>2, <2>3, <2>4
  <1>11. CASE StoreEach
    <2>1. k \in Each
      BY <1>11 DEF StoreEach
    <2>2. \A w \in db' : w \in db \/ \E i \in 1..Len(f["key"]) : w.cells = RowOf(f, i)
      BY <1>9, <1>11 DEF StoreEach, SomeOf, f, m
    <2>3. k # "rtcWrite" /\ f["key"] = m["val"] /\ f["val"] = m["val"]
      BY <1>5, <1>8, <2>1 DEF Each
    <2>4. \A i \in 1..Len(m["val"]) : i <= Len(m["val"])
      BY <1>3
    <2>5. \A i \in 1..Len(f["key"]) :
            RowOf(f, i)["val"] = m["val"][i] /\ RowOf(f, i)["key"] = m["val"][i]
      BY <1>2, <2>3, <2>4 DEF RowOf
    <2> QED
      BY <1>4, <2>2, <2>3, <2>5
  <1>12. CASE StoreSummary
    <2>1. k = "summary" /\ Profile(k) = "summary"
      BY <1>0, <1>12, ProfileFacts DEF StoreSummary, Single
    <2>2. \A w \in db' : w \in db \/ w.cells = LastOf(f)
      BY <1>9, <1>12, <2>1 DEF StoreSummary, SomeOf, f, m
    <2> QED
      BY <1>4, <1>7, <1>8, <2>1, <2>2
  <1>13. CASE StoreLatest
    <2>1. k \in Latest
      BY <1>13 DEF StoreLatest
    <2>2. \A w \in db' : w \in db \/ w.cells = LastOf(f)
      BY <1>9, <1>13 DEF StoreLatest, validate_event_for_db, f, m
    <2>3. k # "rtcWrite"
      BY <2>1 DEF Latest
    <2> QED
      BY <1>4, <1>7, <1>8, <2>1, <2>2, <2>3
  <1>14. CASE StoreSingle
    <2> DEFINE val == LastOf(IF Profile(k) = "rtc" THEN f ELSE m)["val"]
               cells == [c \in Column |-> IF c = "val" THEN val ELSE Default]
    <2>1. val = last
      BY <1>7
    <2>2. cells["val"] = last /\ cells["key"] = Default
      BY <1>2, <2>1
    <2>3. \A w \in db' : w \in db \/ w = NewRow(Profile(k), 1, cells)
      BY <1>14 DEF StoreSingle, f, m
    <2> HIDE DEF cells
    <2>4. \A w \in db' : w \in db \/ w.cells = cells
      BY <1>9, <2>3
    <2> QED
      BY <1>1, <1>4, <2>2, <2>4
  <1> QED
    BY <1>10, <1>11, <1>12, <1>13, <1>14 DEF update_odm_db

-----------------------------------------------------------------------------
(* Types. *)

\* The connection starts with empty columns and no row.
LEMMA TypeInit == RecordsInit => RecordsTypeOK /\ Order
  <1> SUFFICES ASSUME RecordsInit PROVE RecordsTypeOK /\ Order
    OBVIOUS
  <1>1. kind \in Seq(Kinds) /\ Len(kind) = 0
    BY DEF RecordsInit
  <1>2. mem \in [Members -> [Column -> Seq(Value)]]
    BY EmptyColumns DEF RecordsInit
  <1>3. pp_write_payload_tail \in Value
    BY DefaultFacts DEF RecordsInit
  <1>4. 0 \in 0..MaxRequests /\ 0 \in 0..MaxPage /\ 0 \in 0..MaxAnswers
    BY RecordBounds
  <1> QED
    BY <1>1, <1>2, <1>3, <1>4 DEF RecordsInit, RecordsTypeOK, Order

LEMMA TypeStep == RecordsTypeOK /\ Order /\ [RecordsNext]_recordVars => RecordsTypeOK'
  <1> SUFFICES ASSUME RecordsTypeOK, Order, [RecordsNext]_recordVars PROVE RecordsTypeOK'
    OBVIOUS
  <1>1. ASSUME NEW k \in Kinds, Take(k) PROVE RecordsTypeOK'
    <2>1. req + 1 \in 0..MaxRequests /\ req + 1 \in Request /\ 0 \in 0..MaxPage
          /\ 0 \in 0..MaxAnswers
      BY <1>1, RecordBounds DEF Take, RecordsTypeOK, Request
    <2>2. kind' \in Seq(Kinds) /\ Len(kind') = req'
      BY <1>1 DEF Take, RecordsTypeOK
    <2>3. pp_write_payload_tail' \in Value
      <3>1. [req |-> req + 1, rec |-> 0] \in Value
        BY <2>1 DEF Value
      <3> QED
        BY <1>1, <3>1 DEF Take, RecordsTypeOK
    <2>4. status' \in [Request -> {"REQUESTED", "IN_PROGRESS", "SUCCESS", "FAILED"}]
      BY <1>1 DEF Take, RecordsTypeOK
    <2>5. \A h \in {leftover', ragged', foreign', twice'} : h \subseteq Request
      BY <1>1, <2>1 DEF Take, RecordsTypeOK
    <2>6. UNCHANGED <<mem, db>> /\ pc' = "wait" /\ req' = req + 1
          /\ near' \in BOOLEAN /\ tx_page_index' = 0 /\ answers' = 0
      BY <1>1 DEF Take
    <2>7. mem' \in [Members -> [Column -> Seq(Value)]] /\ db' \subseteq Row
      BY <2>6 DEF RecordsTypeOK
    <2> QED
      BY <2>1, <2>2, <2>3, <2>4, <2>5, <2>6, <2>7, Zenon DEF RecordsTypeOK
  <1>2. ASSUME NEW a \in Answer, NEW n \in 1..2, Received(a, n) PROVE RecordsTypeOK'
    <2> DEFINE k == kind[a.req]
               p == Profile(k)
               s == Parses([m |-> mem[p], tail |-> pp_write_payload_tail], k, a, n)
    <2>1. /\ a.req \in 0..MaxRequests /\ k \in AllKinds /\ p \in Members
          /\ mem' = [mem EXCEPT ![p] = s.m] /\ pp_write_payload_tail' = s.tail
          /\ mem[p] \in [Column -> Seq(Value)]
      BY <1>2, ReceivedFacts
    <2>2. s.m \in [Column -> Seq(Value)] /\ s.tail \in Value
      <3>1. tx_page_index \in Nat /\ pp_write_payload_tail \in Value
        BY DEF RecordsTypeOK
      <3>2. Brought(Value, k, a, pp_write_payload_tail)
        BY DEF Brought
      <3> HIDE DEF k, p
      <3> QED
        BY <2>1, <3>1, <3>2, ParsesFacts
    <2> HIDE DEF s
    <2>3. mem' \in [Members -> [Column -> Seq(Value)]]
      BY <2>1, <2>2 DEF RecordsTypeOK
    <2>4. answers' \in 0..MaxAnswers
      BY <1>2, RecordBounds DEF Received, RecordsTypeOK
    <2>5. tx_page_index' \in 0..MaxPage
      BY <1>2, RecordBounds DEF Received, Formed, RecordsTypeOK
    <2>6. pc' \in {"wait", "store"} /\ UNCHANGED <<req, kind, near, status, db>>
      BY <1>2 DEF Received
    <2>7. req \in Request
      BY <1>2, RecordBounds DEF Received, Order, RecordsTypeOK, Request
    <2>8. \A h \in {leftover', ragged', foreign', twice'} : h \subseteq Request
      BY <1>2, <2>7 DEF Received, RecordsTypeOK
    <2>9. kind' \in Seq(Kinds) /\ Len(kind') = req' /\ req' \in 0..MaxRequests
          /\ pc' \in {"idle", "wait", "store"}
      BY <2>6 DEF RecordsTypeOK
    <2>10. /\ near' \in BOOLEAN /\ db' \subseteq Row
           /\ status' \in [Request -> {"REQUESTED", "IN_PROGRESS", "SUCCESS", "FAILED"}]
      BY <2>6 DEF RecordsTypeOK
    <2> QED
      BY <2>1, <2>2, <2>3, <2>4, <2>5, <2>8, <2>9, <2>10 DEF RecordsTypeOK
  <1>3. CASE GiveUp
    <2>1. status' \in [Request -> {"REQUESTED", "IN_PROGRESS", "SUCCESS", "FAILED"}]
      BY <1>3 DEF GiveUp, RecordsTypeOK
    <2>2. pc' = "idle" /\ UNCHANGED <<req, kind, near, tx_page_index, answers, mem,
                                      pp_write_payload_tail, db, leftover, ragged, foreign, twice>>
      BY <1>3 DEF GiveUp, history
    <2> QED
      BY <2>1, <2>2 DEF RecordsTypeOK
  <1>4. CASE update_odm_db
    <2>1. /\ pc' = "idle" /\ req \in 1..MaxRequests
          /\ UNCHANGED <<req, kind, near, tx_page_index, answers, leftover, ragged, foreign, twice>>
          /\ pp_write_payload_tail' \in {pp_write_payload_tail, NoTail}
          /\ status' \in {status, [status EXCEPT ![req] = "SUCCESS"]}
          /\ Profile(kind[req]) \in Members
          /\ mem' = [p \in Members |-> mem'[p]]
          /\ \A p \in Members : mem'[p] \in {mem[p], Empty, Filled(mem[p])}
      BY <1>4, StoreFacts DEF history
    <2>2. status' \in [Request -> {"REQUESTED", "IN_PROGRESS", "SUCCESS", "FAILED"}]
      BY <2>1 DEF RecordsTypeOK, Request
    <2>3. pp_write_payload_tail' \in Value
      BY <2>1, DefaultFacts DEF RecordsTypeOK
    <2>4. mem' \in [Members -> [Column -> Seq(Value)]]
      <3>1. ASSUME NEW p \in Members PROVE mem'[p] \in [Column -> Seq(Value)]
        <4>1. mem[p] \in [Column -> Seq(Value)] /\ Empty \in [Column -> Seq(Value)]
          BY EmptyColumns DEF RecordsTypeOK
        <4>2. Value \cup {Default} = Value
          BY DefaultFacts
        <4>3. Filled(mem[p]) \in [Column -> Seq(Value)]
          BY <4>1, <4>2, FilledFacts
        <4> QED
          BY <2>1, <4>1, <4>3
      <3> QED
        BY <2>1, <3>1
    <2>5. db' \subseteq Row
      <3>1. mem[Profile(kind[req])] \in [Column -> Seq(Value)]
        BY <2>1 DEF RecordsTypeOK
      <3>2. \A w \in db' : w \in db \/ w \in RowOver(Value)
        BY <1>4, <3>1, StoreRows
      <3>3. RowOver(Value) \subseteq Row
        <4>1. Value \cup {Default, Undefined} = Value \cup {Undefined}
          BY DefaultFacts
        <4> QED
          BY <2>1, <4>1 DEF RowOver, Row, Request
      <3> QED
        BY <3>2, <3>3 DEF RecordsTypeOK
    <2>6. /\ pc' \in {"idle", "wait", "store"} /\ req' \in 0..MaxRequests
          /\ kind' \in Seq(Kinds) /\ Len(kind') = req'
          /\ near' \in BOOLEAN /\ tx_page_index' \in 0..MaxPage /\ answers' \in 0..MaxAnswers
          /\ \A h \in {leftover', ragged', foreign', twice'} : h \subseteq Request
      BY <2>1 DEF RecordsTypeOK
    <2> QED
      BY <2>2, <2>3, <2>4, <2>5, <2>6 DEF RecordsTypeOK
  <1>5. CASE UNCHANGED recordVars
    BY <1>5 DEF recordVars, RecordsTypeOK
  <1> QED
    BY <1>1, <1>2, <1>3, <1>4, <1>5 DEF RecordsNext, Receive

\* A row is inserted for the request that is served, and that ends it.
LEMMA OrderStep == RecordsTypeOK /\ Order /\ [RecordsNext]_recordVars => Order'
  <1> SUFFICES ASSUME RecordsTypeOK, Order, [RecordsNext]_recordVars PROVE Order'
    OBVIOUS
  <1>0. req \in Nat
    BY DEF RecordsTypeOK
  <1>1. ASSUME NEW k \in Kinds, Take(k) PROVE Order'
    BY <1>0, <1>1 DEF Take, Order
  <1>2. ASSUME NEW a \in Answer, NEW n \in 1..2, Received(a, n) PROVE Order'
    BY <1>2 DEF Received, Order
  <1>3. CASE GiveUp
    BY <1>3 DEF GiveUp, Order
  <1>4. CASE update_odm_db
    <2>1. pc' = "idle" /\ UNCHANGED req /\ req \in 1..MaxRequests /\ Profile(kind[req]) \in Members
      BY <1>4, StoreFacts
    <2>2. mem[Profile(kind[req])] \in [Column -> Seq(Value)]
      BY <2>1 DEF RecordsTypeOK
    <2>3. \A w \in db' : w \in db \/ w \in RowOver(Value)
      BY <1>4, <2>2, StoreRows
    <2>4. \A w \in RowOver(Value) : w.req = req
      BY DEF RowOver
    <2>5. \A w \in db' : w.req \in 1..req
      BY <1>0, <2>1, <2>3, <2>4 DEF Order
    <2> QED
      BY <2>1, <2>5 DEF Order
  <1>5. CASE UNCHANGED recordVars
    BY <1>5 DEF recordVars, Order
  <1> QED
    BY <1>1, <1>2, <1>3, <1>4, <1>5 DEF RecordsNext, Receive

\* What the parsers leave in the columns and update_odm_db in the rows has its
\* type, and a request has rows only when update_odm_db is done with it.
THEOREM RecordsTypeCorrect == RecordsSpec => [](RecordsTypeOK /\ Order)
  BY TypeInit, TypeStep, OrderStep, PTL DEF RecordsSpec

-----------------------------------------------------------------------------
(* The columns of the request that is served, and the rows made from them. *)

\* What is recorded of a request stays.
LEMMA StepKeeps ==
  ASSUME RecordsTypeOK, Order, [RecordsNext]_recordVars
  PROVE  /\ Disturbed \subseteq Disturbed' /\ foreign \subseteq foreign' /\ twice \subseteq twice'
         /\ req <= req' /\ req' \in Nat /\ req \in Nat
         /\ \A r \in 1..req : kind'[r] = kind[r]
  <1>0. req \in Nat
    BY DEF RecordsTypeOK
  <1>1. ASSUME NEW k \in Kinds, Take(k)
        PROVE  /\ leftover \subseteq leftover' /\ UNCHANGED <<ragged, foreign, twice>>
               /\ req' = req + 1 /\ \A r \in 1..req : kind'[r] = kind[r]
    BY <1>0, <1>1 DEF Take, RecordsTypeOK
  <1>2. ASSUME NEW a \in Answer, NEW n \in 1..2, Received(a, n)
        PROVE  /\ ragged \subseteq ragged' /\ foreign \subseteq foreign' /\ twice \subseteq twice'
               /\ UNCHANGED <<leftover, req, kind>>
    BY <1>2 DEF Received
  <1>3. GiveUp => UNCHANGED <<leftover, ragged, foreign, twice, req, kind>>
    BY DEF GiveUp, history
  <1>4. update_odm_db => UNCHANGED <<leftover, ragged, foreign, twice, req, kind>>
    BY StoreFacts DEF history
  <1>5. UNCHANGED recordVars => UNCHANGED <<leftover, ragged, foreign, twice, req, kind>>
    BY DEF recordVars
  <1> QED
    BY <1>0, <1>1, <1>2, <1>3, <1>4, <1>5 DEF RecordsNext, Receive, Disturbed

\* Only update_odm_db makes rows.
LEMMA StepRows ==
  ASSUME RecordsTypeOK, Order, [RecordsNext]_recordVars
  PROVE  db' = db \/ update_odm_db
  BY DEF RecordsNext, Take, Receive, Received, GiveUp, recordVars

\* An undisturbed request starts with empty columns, and every answer to it adds
\* values of its own; a page with all fields adds to both columns.
LEMMA OwnStep == RecordsTypeOK /\ Order /\ OwnData /\ [RecordsNext]_recordVars => OwnData'
  <1> SUFFICES ASSUME RecordsTypeOK, Order, OwnData, [RecordsNext]_recordVars,
                      pc' # "idle", (req \notin Disturbed)'
               PROVE  OwnColumns(kind[req], mem[Profile(kind[req])])'
    BY DEF OwnData
  <1>1. ASSUME NEW k \in Kinds, Take(k)
        PROVE  OwnColumns(kind[req], mem[Profile(kind[req])])'
    <2>1. kind'[req'] = k /\ req' = req + 1 /\ pc' = "wait" /\ UNCHANGED mem
      BY <1>1 DEF Take, RecordsTypeOK
    <2>2. mem[Profile(k)] = Empty
      BY <1>1, <2>1 DEF Take, Disturbed
    <2>3. /\ Empty \in [Column -> Seq(Mine(req'))]
          /\ Empty["key"] = <<>> /\ Empty["val"] = <<>>
      BY EmptyColumns DEF Empty, Column
    <2>4. k \in Single \ {"rtcRead"} =>
            pp_write_payload_tail'.req = req + 1 /\ pp_write_payload_tail'.rec = 0
      BY <1>1 DEF Take
    <2>5. k = "rtcWrite" => k \in Single \ {"rtcRead"}
      BY DEF Single
    <2>6. mem'[Profile(kind'[req'])] = Empty
      BY <2>1, <2>2
    <2> QED
      BY <2>1, <2>3, <2>4, <2>5, <2>6 DEF OwnColumns
  <1>2. ASSUME NEW a \in Answer, NEW n \in 1..2, Received(a, n)
        PROVE  OwnColumns(kind[req], mem[Profile(kind[req])])'
    <2> DEFINE k == kind[req]
               p == Profile(k)
               t == pp_write_payload_tail
               s0 == [m |-> mem[p], tail |-> t]
               s == Parses(s0, k, a, n)
    <2>1. /\ pc = "wait" /\ UNCHANGED <<req, kind>>
          /\ a.req = req /\ Fields(a.page) = <<"key", "val">> /\ req \notin Disturbed
          /\ req \notin twice' => n = 1
      BY <1>2 DEF Received, Disturbed
    <2>2. /\ req \in 0..MaxRequests /\ k \in AllKinds /\ p \in Members
          /\ mem' = [mem EXCEPT ![p] = s.m] /\ t' = s.tail
          /\ mem[p] \in [Column -> Seq(Value)]
      BY <1>2, <2>1, ReceivedFacts
    <2>3. OwnColumns(k, mem[p])
      BY <2>1 DEF OwnData
    <2>4. /\ mem[p] \in [Column -> Seq(Mine(req))]
          /\ k \in First \cup Each \cup Latest => mem[p]["key"] = mem[p]["val"]
          /\ k \in Single \cup {"summary"} => mem[p]["key"] = <<>>
          /\ k \in Single \ {"rtcRead"} => t.req = req
          /\ k = "rtcWrite" => t.rec = 0
      BY <2>1, <2>3, Zenon DEF OwnColumns
    <2>5. t \in Value /\ tx_page_index \in Nat
      BY DEF RecordsTypeOK
    <2>6. Brought(Mine(req), k, a, t)
      BY <2>1, <2>4 DEF Brought, Mine, Writes, Single
    <2>7. s0.m = mem[p] /\ s0.tail = t
      OBVIOUS
    <2> HIDE DEF s0, k, p, t
    <2>8. /\ s.m \in [Column -> Seq(Mine(req))] /\ s.tail.req = t.req
          /\ n = 1 /\ k = "rtcWrite" => s.tail.rec = t.rec + 1
      <3>1. /\ s0.m \in [Column -> Seq(Mine(req))] /\ s0.tail \in Value
            /\ a.req \in 0..MaxRequests /\ k \in AllKinds
        BY <2>1, <2>2, <2>4, <2>5, <2>7
      <3>2. Brought(Mine(req), k, a, s0.tail)
        BY <2>6, <2>7
      <3> HIDE DEF s
      <3>3. /\ s.m \in [Column -> Seq(Mine(req))] /\ s.tail.req = s0.tail.req
            /\ n = 1 /\ k = "rtcWrite" => s.tail.rec = s0.tail.rec + 1
        BY <2>5, <3>1, <3>2, ParsesFacts DEF s
      <3> QED
        BY <2>7, <3>3
    <2>9. /\ s.m["val"] # <<>>
          /\ k \in First \cup Each \cup Latest =>
               (mem[p]["key"] = mem[p]["val"] => s.m["key"] = s.m["val"])
          /\ k \in Single \cup {"summary"} => s.m["key"] = mem[p]["key"]
          /\ n = 1 /\ k = "rtcWrite" => s.m["val"] = <<s.tail>>
      BY <2>1, <2>2, <2>5, <2>7, ParsesShape
    <2> HIDE DEF s
    <2>10. mem'[p] = s.m /\ kind'[req'] = k
      BY <2>1, <2>2 DEF RecordsTypeOK, k
    <2>11. k = "rtcWrite" => pc' = "store"
      <3>1. k = "rtcWrite" => ~a.more
        BY <1>2, <2>1 DEF Received, Formed, Single, k
      <3>2. validate_response_frame(Code(k), Code(k))
        BY DEF validate_response_frame
      <3> QED
        BY <1>2, <2>1, <3>1, <3>2 DEF Received, k
    <2>12. k = "rtcWrite" /\ req \notin twice' => s.m["val"][Len(s.m["val"])].rec = 1
      <3> SUFFICES ASSUME k = "rtcWrite", req \notin twice'
                   PROVE  s.m["val"][Len(s.m["val"])].rec = 1
        OBVIOUS
      <3>1. s.m["val"] = <<s.tail>> /\ s.tail.rec = 1
        BY <2>1, <2>4, <2>8, <2>9
      <3>2. <<s.tail>>[Len(<<s.tail>>)] = s.tail
        OBVIOUS
      <3> QED
        BY <3>1, <3>2
    <2>13. /\ s.m \in [Column -> Seq(Mine(req'))]
           /\ k \in First \cup Each \cup Latest => s.m["key"] = s.m["val"]
           /\ k \in Single \cup {"summary"} => s.m["key"] = <<>>
           /\ k \in Single \ {"rtcRead"} => t'.req = req'
      BY <2>1, <2>2, <2>4, <2>8, <2>9
    <2>14. kind'[req'] = k /\ mem'[Profile(kind'[req'])] = s.m
      BY <2>10 DEF p
    <2> QED
      BY <2>1, <2>9, <2>11, <2>12, <2>13, <2>14 DEF OwnColumns, t
  <1>3. GiveUp => pc' = "idle"
    BY DEF GiveUp
  <1>4. update_odm_db => pc' = "idle"
    BY StoreFacts
  <1>5. CASE UNCHANGED recordVars
    BY <1>5 DEF recordVars, OwnData, OwnColumns, Disturbed
  <1> QED
    BY <1>1, <1>2, <1>3, <1>4, <1>5 DEF RecordsNext, Receive

\* A row keeps what it says; one that is new comes from the columns.
LEMMA GoodStep ==
  RecordsTypeOK /\ Order /\ OwnData /\ GoodRows /\ [RecordsNext]_recordVars => GoodRows'
  <1> SUFFICES ASSUME RecordsTypeOK, Order, OwnData, GoodRows, [RecordsNext]_recordVars,
                      NEW w \in db', w.req \notin Disturbed'
               PROVE  RowGood(w)'
    BY DEF GoodRows
  <1>1. /\ Disturbed \subseteq Disturbed' /\ twice \subseteq twice'
        /\ \A r \in 1..req : kind'[r] = kind[r]
    BY StepKeeps
  <1>2. CASE w \in db
    <2>1. w.req \in 1..req /\ RowGood(w)
      BY <1>1, <1>2 DEF GoodRows, Order
    <2>2. kind'[w.req] = kind[w.req]
      BY <1>1, <2>1
    <2> QED
      BY <1>1, <2>1, <2>2 DEF RowGood
  <1>3. CASE w \notin db
    <2>1. update_odm_db
      BY <1>3, StepRows
    <2>2. /\ pc = "store" /\ UNCHANGED <<req, kind, leftover, ragged, foreign, twice>>
          /\ Profile(kind[req]) \in Members
      BY <2>1, StoreFacts DEF history
    <2>3. w.req = req
      <3>1. mem[Profile(kind[req])] \in [Column -> Seq(Value)]
        BY <2>2 DEF RecordsTypeOK
      <3>2. w \in RowOver(Value)
        BY <1>3, <2>1, <3>1, StoreRows
      <3> QED
        BY <3>2 DEF RowOver
    <2>4. OwnColumns(kind[req], mem[Profile(kind[req])])
      BY <1>1, <2>2, <2>3 DEF OwnData
    <2>5. /\ w.cells["val"] \in Mine(req)
          /\ w.cells["key"] \in {Default, w.cells["val"]}
          /\ kind[req] = "rtcWrite" /\ req \notin twice => w.cells["val"].rec = 1
      BY <1>3, <2>1, <2>4, StoreGood
    <2> QED
      BY <2>2, <2>3, <2>5 DEF RowGood
  <1> QED
    BY <1>2, <1>3

-----------------------------------------------------------------------------
(* What was stored is gone from memory. *)

\* The values of a row over S are in S.
LEMMA CellsFacts ==
  ASSUME NEW S, NEW w \in RowOver(S)
  PROVE  w.req = req /\ \A v \in Cells(w) : v \in S /\ v # Default
  BY DEF RowOver, Cells

\* Answers to the request bring values of its own, which no row can have; what is
\* inserted goes out of memory in the same step.
LEMMA GoneStep == RecordsTypeOK /\ Order /\ Gone /\ [RecordsNext]_recordVars => Gone'
  <1> SUFFICES ASSUME RecordsTypeOK, Order, Gone, [RecordsNext]_recordVars,
                      foreign' \cap (1..req') = {}
               PROVE  /\ \A p \in Members : mem'[p] \in [Column -> Seq(Fresh(p)')]
                      /\ \A w \in db' : \A v \in Cells(w) : v.req <= w.req
                      /\ pc' # "idle" /\ kind'[req'] \in Single \ {"rtcRead"}
                           => pp_write_payload_tail'.req = req'
    BY DEF Gone, Cells
  <1> DEFINE Goal == /\ \A p \in Members : mem'[p] \in [Column -> Seq(Fresh(p)')]
                     /\ \A w \in db' : \A v \in Cells(w) : v.req <= w.req
                     /\ pc' # "idle" /\ kind'[req'] \in Single \ {"rtcRead"}
                          => pp_write_payload_tail'.req = req'
  <1>1. /\ foreign \subseteq foreign' /\ req <= req' /\ req \in Nat /\ req' \in Nat
        /\ \A r \in 1..req : kind'[r] = kind[r]
    BY StepKeeps
  <1>2. foreign \cap (1..req) = {}
    BY <1>1
  <1>3. /\ \A p \in Members : mem[p] \in [Column -> Seq(Fresh(p))]
        /\ \A w \in db : \A v \in Cells(w) : v.req <= w.req
        /\ pc # "idle" /\ kind[req] \in Single \ {"rtcRead"}
             => pp_write_payload_tail.req = req
    BY <1>2 DEF Gone
  <1>4. ASSUME db' = db, NEW p \in Members PROVE Fresh(p) \subseteq Fresh(p)'
    <2>1. ASSUME NEW v \in Value, v.req \in 1..req, Profile(kind[v.req]) = p
          PROVE  v.req \in 1..req' /\ Profile(kind'[v.req]) = p
      BY <1>1, <2>1
    <2> QED
      BY <1>4, <2>1 DEF Fresh, Cells
  <1>5. ASSUME NEW k \in Kinds, Take(k) PROVE Goal
    <2>1. /\ UNCHANGED <<mem, db>> /\ req' = req + 1 /\ kind'[req'] = k
          /\ k \in Single \ {"rtcRead"} => pp_write_payload_tail'.req = req + 1
      BY <1>5 DEF Take, RecordsTypeOK
    <2>2. ASSUME NEW p \in Members PROVE mem'[p] \in [Column -> Seq(Fresh(p)')]
      BY <1>3, <1>4, <2>1, ColumnsMono
    <2> QED
      BY <1>3, <2>1, <2>2
  <1>6. ASSUME NEW a \in Answer, NEW n \in 1..2, Received(a, n) PROVE Goal
    <2> DEFINE k == kind[req]
               P == Profile(k)
               t == pp_write_payload_tail
               s0 == [m |-> mem[P], tail |-> t]
               s == Parses(s0, k, a, n)
    <2>1. pc = "wait" /\ UNCHANGED <<req, kind, db>> /\ req \in 1..req
      BY <1>1, <1>6 DEF Received, Order
    <2>2. a.req = req
      BY <1>6, <2>1 DEF Received
    <2>3. /\ req \in 0..MaxRequests /\ k \in AllKinds /\ P \in Members
          /\ mem' = [mem EXCEPT ![P] = s.m] /\ t' = s.tail
      BY <1>6, <2>2, ReceivedFacts
    <2>4. \A v \in Value : v.req = req => v \in Fresh(P)
      <3>1. ASSUME NEW v \in Value, v.req = req, NEW w \in db PROVE v \notin Cells(w)
        <4>1. w.req < req /\ w.req \in 1..req
          BY <2>1 DEF Order
        <4>2. v \in Cells(w) => v.req <= w.req
          BY <1>3
        <4> QED
          BY <1>1, <3>1, <4>1, <4>2
      <3> QED
        BY <2>1, <3>1 DEF Fresh
    <2>5. Brought(Fresh(P), k, a, t)
      BY <1>3, <2>1, <2>2, <2>4 DEF Brought, Writes, Single
    <2>6. t \in Value /\ tx_page_index \in Nat
      BY DEF RecordsTypeOK
    <2>7. /\ s0.m \in [Column -> Seq(Fresh(P))] /\ s0.tail = t /\ a.req \in 0..MaxRequests
      BY <1>3, <2>2, <2>3
    <2>8. Brought(Fresh(P), k, a, s0.tail) /\ s0.tail \in Value
      BY <2>5, <2>6, <2>7
    <2> HIDE DEF s0, k, P, t
    <2>9. s.m \in [Column -> Seq(Fresh(P))] /\ s.tail.req = s0.tail.req
      <3> DEFINE F == Fresh(P)
      <3>1. s0.m \in [Column -> Seq(F)] /\ Brought(F, k, a, s0.tail) /\ s0.tail \in Value
        BY <2>7, <2>8
      <3> HIDE DEF F, s
      <3>2. s.m \in [Column -> Seq(F)] /\ s.tail.req = s0.tail.req
        BY <2>3, <2>6, <2>7, <3>1, ParsesFacts DEF s
      <3> QED
        BY <3>2 DEF F
    <2> HIDE DEF s
    <2>10. \A p \in Members : mem'[p] \in [Column -> Seq(Fresh(p))]
      BY <1>3, <2>3, <2>9 DEF RecordsTypeOK
    <2>11. \A p \in Members : mem'[p] \in [Column -> Seq(Fresh(p)')]
      BY <1>4, <2>1, <2>10, ColumnsMono
    <2>12. kind'[req'] \in Single \ {"rtcRead"} => pp_write_payload_tail'.req = req'
      BY <1>3, <2>1, <2>3, <2>7, <2>9 DEF t
    <2> QED
      BY <1>3, <2>1, <2>11, <2>12
  <1>7. CASE GiveUp
    <2>1. UNCHANGED <<mem, db>> /\ pc' = "idle"
      BY <1>7 DEF GiveUp
    <2>2. ASSUME NEW p \in Members PROVE mem'[p] \in [Column -> Seq(Fresh(p)')]
      BY <1>3, <1>4, <2>1, ColumnsMono
    <2> QED
      BY <1>3, <2>1, <2>2
  <1>8. CASE update_odm_db
    <2> DEFINE P == Profile(kind[req])
    <2>1. /\ pc' = "idle" /\ UNCHANGED <<req, kind>> /\ P \in Members
          /\ \A p \in Members : mem'[p] \in {mem[p], Empty, Filled(mem[p])}
          /\ db' = db \/ mem'[P] = Empty
      BY <1>8, StoreFacts
    <2>2. mem[P] \in [Column -> Seq(Fresh(P))]
      BY <1>3, <2>1
    <2>3. \A w \in db' : w \in db \/ w \in RowOver(Fresh(P))
      BY <1>8, <2>2, StoreRows
    <2>4. \A w \in RowOver(Fresh(P)) :
            w.req = req /\ \A v \in Cells(w) : v \in Fresh(P) /\ v # Default
      BY CellsFacts
    <2>5. \A v \in Fresh(P) : v # Default => v.req \in 1..req /\ Profile(kind[v.req]) = P
      BY DEF Fresh
    <2> HIDE DEF P
    <2>6. \A w \in db' : \A v \in Cells(w) : v.req <= w.req
      BY <1>1, <1>3, <2>3, <2>4, <2>5
    <2>7. ASSUME NEW p \in Members, p # P PROVE Fresh(p) \subseteq Fresh(p)'
      <3>1. ASSUME NEW v \in Fresh(p), v # Default, NEW w \in db' PROVE v \notin Cells(w)
        <4>1. Profile(kind[v.req]) = p /\ \A x \in db : v \notin Cells(x)
          BY <3>1 DEF Fresh
        <4> QED
          BY <2>3, <2>4, <2>5, <2>7, <4>1
      <3>2. \A v \in Fresh(p) :
            v \in Value /\ (v # Default => v.req \in 1..req /\ Profile(kind[v.req]) = p)
        BY DEF Fresh
      <3>3. \A v \in Fresh(p) : v \in Value /\
              \/ v = Default
              \/ v.req \in 1..req' /\ Profile(kind'[v.req]) = p /\ \A w \in db' : v \notin Cells(w)
        BY <2>1, <3>1, <3>2
      <3> QED
        BY <3>3 DEF Fresh, Cells
    <2>8. ASSUME NEW p \in Members PROVE mem'[p] \in [Column -> Seq(Fresh(p)')]
      <3>1. CASE mem'[p] = Empty
        BY <3>1, EmptyColumns
      <3>2. CASE mem'[p] # Empty
        <4>1. Fresh(p) \subseteq Fresh(p)'
          BY <1>4, <2>1, <2>7, <3>2
        <4>2. mem[p] \in [Column -> Seq(Fresh(p))]
          BY <1>3
        <4>3. Fresh(p) \cup {Default} = Fresh(p)
          BY DefaultFacts DEF Fresh
        <4>4. Filled(mem[p]) \in [Column -> Seq(Fresh(p))]
          BY <4>2, <4>3, FilledFacts
        <4>5. mem'[p] \in [Column -> Seq(Fresh(p))]
          BY <2>1, <3>2, <4>2, <4>4
        <4> HIDE DEF Goal
        <4> QED
          BY <4>1, <4>5, ColumnsMono
      <3> QED
        BY <3>1, <3>2
    <2> QED
      BY <2>1, <2>6, <2>8
  <1>9. CASE UNCHANGED recordVars
    <2>1. UNCHANGED <<pc, req, kind, mem, db, pp_write_payload_tail>>
      BY <1>9 DEF recordVars
    <2>2. ASSUME NEW p \in Members PROVE mem'[p] \in [Column -> Seq(Fresh(p)')]
      BY <1>3, <1>4, <2>1, ColumnsMono
    <2> QED
      BY <1>3, <2>1, <2>2
  <1> QED
    BY <1>5, <1>6, <1>7, <1>8, <1>9 DEF RecordsNext, Receive

\* A new row takes its values from memory, where no stored value is left.
LEMMA TwiceStep ==
  RecordsTypeOK /\ Order /\ Gone /\ NothingStoredTwice /\ [RecordsNext]_recordVars
    => NothingStoredTwice'
  <1> SUFFICES ASSUME RecordsTypeOK, Order, Gone, NothingStoredTwice, [RecordsNext]_recordVars,
                      NEW w \in db', NEW x \in db', w.req < x.req,
                      foreign' \cap (1..x.req) = {}
               PROVE  Cells(w) \cap Cells(x) = {}
    BY DEF NothingStoredTwice, Cells
  <1>1. foreign \cap (1..x.req) = {} /\ req \in Nat
    BY StepKeeps
  <1>2. CASE w \in db /\ x \in db
    BY <1>1, <1>2 DEF NothingStoredTwice
  <1>3. CASE ~(w \in db /\ x \in db)
    <2> DEFINE P == Profile(kind[req])
    <2>1. update_odm_db
      BY <1>3, StepRows
    <2>2. P \in Members /\ mem[P] \in [Column -> Seq(Value)]
      BY <2>1, StoreFacts DEF RecordsTypeOK
    <2>3. \A y \in db' : y \in db \/ y \in RowOver(Value)
      BY <2>1, <2>2, StoreRows
    <2>4. /\ \A y \in RowOver(Value) : y.req = req
          /\ \A y \in db : y.req \in 1..req
      BY CellsFacts DEF Order
    <2>5. x \notin db /\ x.req = req /\ w \in db
      BY <1>1, <1>3, <2>3, <2>4
    <2>6. \A p \in Members : mem[p] \in [Column -> Seq(Fresh(p))]
      BY <1>1, <2>5 DEF Gone
    <2>7. x \in RowOver(Fresh(P))
      BY <2>1, <2>2, <2>5, <2>6, StoreRows
    <2>8. \A v \in Cells(x) : v \in Fresh(P) /\ v # Default
      BY <2>7, CellsFacts
    <2>9. \A v \in Cells(x) : v \notin Cells(w)
      BY <2>5, <2>8 DEF Fresh
    <2> QED
      BY <2>9
  <1> QED
    BY <1>2, <1>3

-----------------------------------------------------------------------------
(* Theorems. *)

\* Nothing is stored and nothing is in memory when the connection starts.
LEMMA InvInit == RecordsInit => RecordsInv
  <1> SUFFICES ASSUME RecordsInit PROVE RecordsInv
    OBVIOUS
  <1>1. RecordsTypeOK /\ Order
    BY TypeInit
  <1>2. OwnData /\ GoodRows /\ NothingStoredTwice
    BY DEF RecordsInit, OwnData, GoodRows, NothingStoredTwice
  <1>3. Gone
    <2>1. \A p \in Members : mem[p] = Empty
      BY DEF RecordsInit
    <2>2. pc = "idle" /\ db = {}
      BY DEF RecordsInit
    <2> QED
      BY <2>1, <2>2, EmptyColumns DEF Gone
  <1> QED
    BY <1>1, <1>2, <1>3 DEF RecordsInv

\* The inductive invariant holds for every number of requests, pages and answers.
THEOREM RecordsInvariance == RecordsSpec => []RecordsInv
  <1>1. RecordsInit => RecordsInv
    BY InvInit
  <1>2. RecordsInv /\ [RecordsNext]_recordVars => RecordsInv'
    BY TypeStep, OrderStep, OwnStep, GoodStep, GoneStep, TwiceStep DEF RecordsInv
  <1> QED
    BY <1>1, <1>2, PTL DEF RecordsSpec

\* What RowGood says of the cells of a row.
LEMMA GoodRow ==
  ASSUME NEW w, w.req \in 1..MaxRequests, RowGood(w)
  PROVE  /\ \A v \in Cells(w) : v.req = w.req
         /\ Cardinality(Cells(w)) <= 1
         /\ Undefined \notin {w.cells[c] : c \in Column}
  <1> DEFINE u == w.cells["val"]
  <1>1. u \in Value /\ u.req = w.req /\ w.cells["key"] \in {Default, u}
    BY DEF RowGood, Mine
  <1>2. \A c \in Column : w.cells[c] \in {Default, u}
    BY <1>1 DEF Column
  <1>3. Default # Undefined /\ u # Undefined
    BY <1>1, ValueFacts, DefaultFacts
  <1> HIDE DEF u
  <1>4. Cells(w) \subseteq {u}
    BY <1>2 DEF Cells
  <1>5. Cardinality(Cells(w)) <= 1
    <2>1. Cells(w) = {} \/ Cells(w) = {u}
      BY <1>4
    <2>2. Cardinality({}) = 0 /\ Cardinality({u}) = 1
      BY FS_EmptySet, FS_Singleton
    <2> QED
      BY <2>1, <2>2
  <1> QED
    BY <1>1, <1>2, <1>3, <1>4, <1>5

\* A row that update_odm_db inserts is of its own request and of one record,
\* unless columns were left over, a page lacked a field or an answer to an earlier
\* request was parsed.
THEOREM RowsSafe == RecordsSpec => []RowsTrue
  <1>1. RecordsInv => RowsTrue
    <2> SUFFICES ASSUME RecordsTypeOK, Order, GoodRows, NEW w \in db, w.req \notin Disturbed
                 PROVE  /\ \A v \in Cells(w) : v.req = w.req
                        /\ Cardinality(Cells(w)) <= 1
                        /\ kind[w.req] = "rtcWrite" /\ w.req \notin twice
                             => w.cells["val"].rec = 1
      BY DEF RecordsInv, RowsTrue, Disturbed
    <2>1. w.req \in 1..MaxRequests /\ RowGood(w)
      BY DEF GoodRows, Order, RecordsTypeOK, Row, Request
    <2> QED
      BY <2>1, GoodRow DEF RowGood
  <1> QED
    BY <1>1, RecordsInvariance, PTL

\* update_odm_db reads no column past its end, unless one of these happened.
THEOREM ReadSafe == RecordsSpec => []NoReadPastEnd
  <1>1. RecordsInv => NoReadPastEnd
    <2> SUFFICES ASSUME RecordsTypeOK, GoodRows, NEW w \in db, w.req \notin Disturbed
                 PROVE  Undefined \notin {w.cells[c] : c \in Column}
      BY DEF RecordsInv, NoReadPastEnd, Disturbed
    <2>1. w.req \in 1..MaxRequests /\ RowGood(w)
      BY DEF GoodRows, RecordsTypeOK, Row, Request
    <2> QED
      BY <2>1, GoodRow
  <1> QED
    BY <1>1, RecordsInvariance, PTL

\* What was inserted for a request is never inserted for a later one, as long as
\* no answer to an earlier request came: failed requests and failed statements
\* included.
THEOREM TwiceSafe == RecordsSpec => []NothingStoredTwice
  BY RecordsInvariance, PTL DEF RecordsInv
=============================================================================

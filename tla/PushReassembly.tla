--------------------------- MODULE PushReassembly ---------------------------
(***************************************************************************)
(* Profiles and events that the meters push on their own, page by page     *)
(* (class PushData).  The pages of a push are collected in a buffer of the *)
(* meter and profile; the last page ends the push, and the buffer is       *)
(* stored if as many packets were counted as that page says there are      *)
(* pages.  Pages may be lost, damaged, repeated, or cut short by a record  *)
(* the parser cannot read.                                                 *)
(*                                                                         *)
(* A record is numbered by its place in the push.  Records of a block load *)
(* are gathered into blocks, each a map from the id of a record in the     *)
(* block and closed by the last of them (id 6); every other profile is one *)
(* map from the record's id.                                               *)
(***************************************************************************)
EXTENDS Naturals, Integers, Sequences

CONSTANTS
  Source,          \* pairs <<meter, profile>> that push
  LastPage,        \* a push has the pages 0..LastPage
  RecordsPerPage,  \* records of a page
  BlockLength,     \* records of a block of the block load (7 in the code)
  MaxRound,        \* bound: pushes of every source
  MaxFault         \* bound: pages that arrive cut or again

Profiles == {"IP", "BLP", "DLP", "BHP", "POWER_ON", "POWER_OFF"}
RecordCount == (LastPage + 1) * RecordsPerPage
Record == 0..(RecordCount - 1)
Round == 1..MaxRound

ASSUME PushBounds ==
  /\ \A s \in Source : s[2] \in Profiles
  /\ LastPage \in Nat /\ RecordsPerPage \in Nat \ {0}
  /\ BlockLength \in Nat \ {0} /\ RecordCount % BlockLength = 0
  /\ MaxRound \in Nat \ {0} /\ MaxFault \in Nat

VARIABLES
  round, next,   \* the push of each source, and its next page
  push_node_info,   \* the buffer of each source
  row,           \* what was stored last: the push it is of, 0 nothing, -1 no
                 \* push as a whole
  faults,
  spoilt,        \* history: what the pushes of a source have met: again, rush
                 \* or cut
  clean          \* history: the pages of this push came whole, in order and
                 \* into an empty buffer

vars == <<round, next, push_node_info, row, faults, spoilt, clean>>

\* PacketBuffer and PacketBufferBlockLoad: the packets counted, whether the
\* last one is more than two minutes old, and the records: the push each is
\* from (0 if absent), or the blocks and the block in progress.
Ids == 0..(BlockLength - 1)
Item == [push: Round, rec: Record]
Absent == [push |-> 0, rec |-> 0]
Block == [Ids -> Item \cup {Absent}]
NoBlock == [k \in Ids |-> Absent]
Buffer == [total: 0..(MaxFault + LastPage * MaxRound), stale: BOOLEAN,
           map: [Record -> 0..MaxRound], blocks: Seq(Block), partial: Block]
EmptyBuffer == [total |-> 0, stale |-> FALSE, map |-> [i \in Record |-> 0],
                blocks |-> <<>>, partial |-> NoBlock]

TypeOK ==
  /\ round \in [Source -> 0..MaxRound]
  /\ next \in [Source -> 0..(LastPage + 1)]
  /\ DOMAIN push_node_info = Source
  /\ \A s \in Source : push_node_info[s] \in Buffer
  /\ row \in [Source -> -1..MaxRound] /\ faults \in 0..MaxFault
  /\ spoilt \in [Source -> SUBSET {"again", "rush", "cut"}]
  /\ clean \in [Source -> BOOLEAN]

Init ==
  /\ round = [s \in Source |-> 0] /\ next = [s \in Source |-> LastPage + 1]
  /\ push_node_info = [s \in Source |-> EmptyBuffer]
  /\ row = [s \in Source |-> 0] /\ faults = MaxFault
  /\ spoilt = [s \in Source |-> {}] /\ clean = [s \in Source |-> FALSE]

-----------------------------------------------------------------------------
(* The parsers: the first good records of page p of push r go into the     *)
(* buffer b, also when the packet as a whole is then taken for failed.     *)

\* parseByType fails on a record of a type it does not know, or one that runs
\* past the end of the packet.
Readable(p, good) ==
  {i \in Record : i >= p * RecordsPerPage /\ i < p * RecordsPerPage + good}

\* parseDLMSRecords
ParseRecords(b, p, r, good) ==
  [b EXCEPT !.map = [i \in Record |-> IF i \in Readable(p, good) THEN r ELSE @[i]]]

\* A record joins the block in progress, in the place of one with the same id,
\* and the last of a block closes it.
Id(i) == i % BlockLength
AddRecord(b, item) ==
  LET grown == [b.partial EXCEPT ![Id(item.rec)] = item]
  IN IF Id(item.rec) = BlockLength - 1
     THEN [b EXCEPT !.blocks = Append(@, grown), !.partial = NoBlock]
     ELSE [b EXCEPT !.partial = grown]
\* parseBlockLoadDLMSRecords
ParseBlocks(b, p, r, good) ==
  LET added[n \in 0..good] ==
        IF n = 0 THEN b
        ELSE AddRecord(added[n - 1], [push |-> r, rec |-> p * RecordsPerPage + n - 1])
  IN added[good]

\* Faulty variant: every packet is counted, however few records it had.
CountAll(b, good) == [b EXCEPT !.total = @ + 1, !.stale = FALSE]
\* A packet counts if the parser found as many records as it announces.
Count(b, good) == IF good = RecordsPerPage
                  THEN [b EXCEPT !.total = @ + 1, !.stale = FALSE] ELSE b

-----------------------------------------------------------------------------
(* The inserts store what the buffer holds, a missing record as zero.  The  *)
(* result is the push a row is of, or -1.                                   *)

Mapped(b) == IF \E r \in Round : \A i \in Record : b.map[i] = r
             THEN b.map[0] ELSE -1
insert_instantaneous_parameters_profile_data(b) == Mapped(b)
insert_daily_load_profile_data(b) == Mapped(b)
insert_billing_history_profile_data(b) == Mapped(b)
insert_power_on_event_to_db(b) == Mapped(b)
insert_power_off_event_to_db(b) == Mapped(b)

BlockOf(r, j) == [k \in Ids |-> [push |-> r, rec |-> (j - 1) * BlockLength + k]]
BlocksOf(r) == [j \in 1..(RecordCount \div BlockLength) |-> BlockOf(r, j)]
insert_block_load_profile_data(b) ==
  IF \E r \in Round : b.blocks = BlocksOf(r) THEN b.blocks[1][0].push ELSE -1

-----------------------------------------------------------------------------
(* The six handlers.  They differ in the parser and the insert.             *)

\* Faulty variant: one packet more than there are pages is waited for.
FinishOneMore(s, p, b, stored) ==
  IF p < LastPage
  THEN push_node_info' = [push_node_info EXCEPT ![s] = b] /\ UNCHANGED row
  ELSE /\ row' = IF b.total = p + 2 THEN [row EXCEPT ![s] = stored] ELSE row
       /\ push_node_info' = [push_node_info EXCEPT ![s] = EmptyBuffer]
\* The last page: stored is what an insert of the buffer b would store.
Finish(s, p, b, stored) ==
  IF p < LastPage
  THEN push_node_info' = [push_node_info EXCEPT ![s] = b] /\ UNCHANGED row
  ELSE /\ row' = IF b.total = p + 1 THEN [row EXCEPT ![s] = stored] ELSE row
       /\ push_node_info' = [push_node_info EXCEPT ![s] = EmptyBuffer]

process_IP_push_data(s, p, r, good) ==
  LET b == Count(ParseRecords(push_node_info[s], p, r, good), good) IN
  Finish(s, p, b, insert_instantaneous_parameters_profile_data(b))
process_DLP_push_data(s, p, r, good) ==
  LET b == Count(ParseRecords(push_node_info[s], p, r, good), good) IN
  Finish(s, p, b, insert_daily_load_profile_data(b))
process_BLP_push_data(s, p, r, good) ==
  LET b == Count(ParseBlocks(push_node_info[s], p, r, good), good) IN
  Finish(s, p, b, insert_block_load_profile_data(b))
process_BHP_push_data(s, p, r, good) ==
  LET b == Count(ParseRecords(push_node_info[s], p, r, good), good) IN
  Finish(s, p, b, insert_billing_history_profile_data(b))
process_power_on_event(s, p, r, good) ==
  LET b == Count(ParseRecords(push_node_info[s], p, r, good), good) IN
  Finish(s, p, b, insert_power_on_event_to_db(b))
process_power_off_event(s, p, r, good) ==
  LET b == Count(ParseRecords(push_node_info[s], p, r, good), good) IN
  Finish(s, p, b, insert_power_off_event_to_db(b))

process_push_data(s, p, r, good) ==
  CASE s[2] = "IP" -> process_IP_push_data(s, p, r, good)
    [] s[2] = "DLP" -> process_DLP_push_data(s, p, r, good)
    [] s[2] = "BLP" -> process_BLP_push_data(s, p, r, good)
    [] s[2] = "BHP" -> process_BHP_push_data(s, p, r, good)
    [] s[2] = "POWER_ON" -> process_power_on_event(s, p, r, good)
    [] s[2] = "POWER_OFF" -> process_power_off_event(s, p, r, good)

-----------------------------------------------------------------------------
(* The meters, the mesh and the clock. *)

Leftover(s) == push_node_info[s] # EmptyBuffer

\* External: a meter begins a push, perhaps before the buffer of the one
\* before it was cleaned up.
BeginPush(s) ==
  /\ next[s] = LastPage + 1 /\ round[s] < MaxRound
  /\ round' = [round EXCEPT ![s] = @ + 1] /\ next' = [next EXCEPT ![s] = 0]
  /\ spoilt' = IF push_node_info[s].total > 0
               THEN [spoilt EXCEPT ![s] = @ \cup {"rush"}] ELSE spoilt
  /\ clean' = [clean EXCEPT ![s] = ~Leftover(s)]
  /\ UNCHANGED <<push_node_info, row, faults>>

\* The next page arrives whole.
Arrive(s) ==
  /\ next[s] <= LastPage /\ next' = [next EXCEPT ![s] = @ + 1]
  /\ process_push_data(s, next[s], round[s], RecordsPerPage)
  /\ UNCHANGED <<round, faults, spoilt, clean>>

\* External: it is lost, or arrives damaged: calculate_checksum tells, and the
\* handler returns at once.
Lose(s) ==
  /\ next[s] <= LastPage /\ next' = [next EXCEPT ![s] = @ + 1]
  /\ clean' = [clean EXCEPT ![s] = FALSE]
  /\ UNCHANGED <<round, push_node_info, row, faults, spoilt>>

\* It has a record the parser cannot read.
ArriveCut(s) ==
  /\ next[s] <= LastPage /\ next' = [next EXCEPT ![s] = @ + 1]
  /\ faults > 0 /\ faults' = faults - 1
  /\ \E good \in 0..(RecordsPerPage - 1) :
       process_push_data(s, next[s], round[s], good)
  /\ spoilt' = [spoilt EXCEPT ![s] = @ \cup {"cut"}]
  /\ clean' = [clean EXCEPT ![s] = FALSE]
  /\ UNCHANGED round

\* The page before arrives again.
ArriveAgain(s) ==
  /\ round[s] > 0 /\ next[s] > 0 /\ faults > 0 /\ faults' = faults - 1
  /\ process_push_data(s, next[s] - 1, round[s], RecordsPerPage)
  /\ spoilt' = [spoilt EXCEPT ![s] = @ \cup {"again"}]
  /\ clean' = [clean EXCEPT ![s] = FALSE]
  /\ UNCHANGED <<round, next>>

\* Two minutes pass for every buffer that has counted a packet.
Tick ==
  /\ push_node_info' = [s \in Source |->
       [push_node_info[s] EXCEPT !.stale = @ \/ push_node_info[s].total > 0]]
  /\ push_node_info' # push_node_info
  /\ UNCHANGED <<round, next, row, faults, spoilt, clean>>

\* Faulty variant: a buffer with a single packet is left alone as well.
ExpiredOne(b) == b.total > 1 /\ b.stale
\* cleanup_push_profiles, run when the poll of the handler times out: buffers
\* that have counted no packet are left alone.
Expired(b) == b.total > 0 /\ b.stale
Cleanup ==
  /\ \E s \in Source : Expired(push_node_info[s])
  /\ push_node_info' = [s \in Source |->
       IF Expired(push_node_info[s]) THEN EmptyBuffer ELSE push_node_info[s]]
  /\ clean' = [s \in Source |-> clean[s] /\ ~(Expired(push_node_info[s])
                                              /\ next[s] <= LastPage)]
  /\ UNCHANGED <<round, next, row, faults, spoilt>>

Next ==
  \/ \E s \in Source : \/ BeginPush(s) \/ Arrive(s) \/ Lose(s)
                       \/ ArriveCut(s) \/ ArriveAgain(s)
  \/ Tick \/ Cleanup

\* Time passes, and once the gateway is silent every poll times out.
Spec == Init /\ [][Next]_vars /\ WF_vars(Tick) /\ WF_vars(Cleanup)

-----------------------------------------------------------------------------
(* Properties. *)

\* What is stored is one whole push of the meter, although packets are counted
\* and not told apart: it can only be otherwise when a page came again, or a
\* push began before the rest of an earlier one was cleaned up.  For the block
\* load a page that was cut short is enough, also one of a push long past: its
\* blocks stay in the buffer, which cleanup_push_profiles skips.
Excuse(s) == IF s[2] = "BLP" THEN {"again", "rush", "cut"} ELSE {"again", "rush"}
StoredWhole ==
  \A s \in Source : row[s] = -1 => spoilt[s] \cap Excuse(s) # {}

\* A push whose pages all came whole and in order, into an empty buffer, is
\* stored, whatever the other meters and profiles push in between.
WholePushStored ==
  \A s \in Source : clean[s] /\ next[s] = LastPage + 1 => row[s] = round[s]

\* A push that was not completed does not stay in the buffer: it is cleared
\* with the last page of the next one, or two minutes after its last packet.
BuffersDrain ==
  \A s \in Source : (push_node_info[s].total > 0) ~> (push_node_info[s].total = 0)
=============================================================================

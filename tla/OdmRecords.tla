---------------------------- MODULE OdmRecords -----------------------------
(***************************************************************************)
(* What happens to the data of an on-demand request: the parsers of Client *)
(* append the fields of every accepted page to columns kept in memory, and *)
(* update_odm_db makes rows of the columns, in a way of its own for each   *)
(* family of requests, and clears them.  OdmExchange says when a page is   *)
(* asked for again or given up; here that is a choice.                     *)
(*                                                                         *)
(* A profile has a key column (the clock or date) and one more, and a page *)
(* carries one record.  A value is named by the request and the record it  *)
(* answers.  Late answers to earlier requests of the connection are still  *)
(* under way; the answer to a page may come twice in one recv().           *)
(*                                                                         *)
(* The names of the specification begin with Records: StoredDataProofs     *)
(* extends this module beside PushReassembly.                              *)
(***************************************************************************)
EXTENDS Naturals, Sequences, SequencesExt, FiniteSets

CONSTANTS
  Kinds,         \* requests that are made, a subset of AllKinds
  MaxRequests,   \* bound: requests in a behaviour
  MaxPage,       \* bound: last page of an answer
  MaxAnswers     \* bound: answers received while one request is served

\* One of each family: nameplate and instantaneous profile store the first
\* value of each column, load and billing profiles a row for each value of the
\* key column, the event profiles the last values, the summary of all events
\* what came last; the others read or write one object of the meter.
First == {"NP", "IP"}
Each == {"DLP", "BHP"}
Latest == {"voltage", "current"}
Single == {"rtcRead", "rtcWrite", "periodRead", "limitWrite"}
AllKinds == First \cup Each \cup Latest \cup {"summary"} \cup Single

ASSUME RecordBounds ==
  /\ Kinds \subseteq AllKinds
  /\ MaxRequests \in Nat /\ MaxPage \in Nat /\ MaxAnswers \in Nat

\* Frame identifier, command and subcommand, in the request and its answer.
Code(k) ==
  CASE k = "NP" -> <<14, 0, 0>> [] k = "IP" -> <<14, 1, 0>>
    [] k = "BHP" -> <<14, 2, 0>> [] k = "DLP" -> <<14, 3, 0>>
    [] k = "summary" -> <<14, 8, 0>> [] k = "voltage" -> <<14, 8, 1>>
    [] k = "current" -> <<14, 8, 2>>
    [] k = "rtcRead" -> <<15, 0, 2>> [] k = "rtcWrite" -> <<15, 1, 2>>
    [] k = "periodRead" -> <<15, 0, 1>> [] k = "limitWrite" -> <<15, 1, 8>>

\* The member of Client an answer is parsed into.
Profile(k) ==
  CASE k \in {"rtcRead", "rtcWrite"} -> "rtc" [] k = "periodRead" -> "period"
    [] k = "limitWrite" -> "limit" [] OTHER -> k
Members == {Profile(k) : k \in AllKinds}
SingleObis == {"rtc", "period", "limit"}    \* the members of singleObisData

Column == {"key", "val"}
Request == 1..MaxRequests
Value == [req: 0..MaxRequests, rec: Nat]    \* 0: of nobody, a payload of zero
Default == [req |-> 0, rec |-> 0]           \* pushed by validate_*_for_db
Undefined == [req |-> MaxRequests + 1, rec |-> 0]   \* past the end of a column

VARIABLES
  pc,             \* idle, wait for an answer, store
  req, kind,      \* number of the request, and the kind of each one so far
  near,           \* at most one hop: the bytes compared are where they should be
  tx_page_index,
  answers,        \* received for this request
  mem,            \* the columns of every profile
  pp_write_payload_tail,   \* whose payload it is, and how often the
                           \* offset of the meter's clock was added
  status,         \* of the row of the request
  db,             \* rows inserted, with their request
  \* history: columns not empty when the request was taken, a page with a field
  \* missing, answers to another request, and answers that came twice
  leftover, ragged, foreign, twice

recordVars == <<pc, req, kind, near, tx_page_index, answers, mem,
                pp_write_payload_tail, status, db, leftover, ragged, foreign,
                twice>>
history == <<leftover, ragged, foreign, twice>>

Row == [req: Request, table: Members \cup {"rf"}, no: Nat,
        cells: [Column -> Value \cup {Undefined}]]

RecordsTypeOK ==
  /\ pc \in {"idle", "wait", "store"} /\ req \in 0..MaxRequests
  /\ kind \in Seq(Kinds) /\ Len(kind) = req
  /\ near \in BOOLEAN /\ tx_page_index \in 0..MaxPage
  /\ answers \in 0..MaxAnswers
  /\ mem \in [Members -> [Column -> Seq(Value)]]
  /\ pp_write_payload_tail \in Value
  /\ status \in [Request -> {"REQUESTED", "IN_PROGRESS", "SUCCESS", "FAILED"}]
  /\ db \subseteq Row
  /\ \A h \in {leftover, ragged, foreign, twice} : h \subseteq Request

Empty == [c \in Column |-> <<>>]
NoTail == [req |-> 0, rec |-> 0]

RecordsInit ==
  /\ pc = "idle" /\ req = 0 /\ kind = <<>> /\ near = TRUE
  /\ tx_page_index = 0 /\ answers = 0
  /\ mem = [p \in Members |-> Empty] /\ pp_write_payload_tail = NoTail
  /\ status = [r \in Request |-> "REQUESTED"] /\ db = {}
  /\ leftover = {} /\ ragged = {} /\ foreign = {} /\ twice = {}

-----------------------------------------------------------------------------
\* The request is sent.  From type 16 on (all single objects but the reading
\* of the clock) the last bytes of the packet are kept as what is written.
Take(k) ==
  /\ pc = "idle" /\ req < MaxRequests
  /\ pc' = "wait" /\ req' = req + 1 /\ kind' = Append(kind, k)
  /\ near' \in BOOLEAN /\ tx_page_index' = 0 /\ answers' = 0
  /\ status' = [status EXCEPT ![req + 1] = "IN_PROGRESS"]
  /\ pp_write_payload_tail' = IF k \in Single \ {"rtcRead"}
                              THEN [req |-> req + 1, rec |-> 0]
                              ELSE pp_write_payload_tail
  /\ leftover' = IF mem[Profile(k)] = Empty THEN leftover ELSE leftover \cup {req + 1}
  /\ UNCHANGED <<mem, db, ragged, foreign, twice>>

-----------------------------------------------------------------------------
(* Parsing. *)

\* log_dlms_data_type gives a null field the length 0: the offset stays at it,
\* and every further turn of the loop reads it again.
Fields(page) ==
  IF \E i \in DOMAIN page : page[i] = "null"
  THEN SubSeq(page, 1, (CHOOSE i \in DOMAIN page :
                 page[i] = "null" /\ \A j \in 1..(i - 1) : page[j] # "null") - 1)
  ELSE page

\* parse_*_profile: the fields read go to their columns.
ParseProfile(m, page, v) ==
  [c \in Column |-> IF Contains(Fields(page), c) THEN Append(m[c], v) ELSE m[c]]

\* parse_Events_profile for EVENT_ALL: the entry of each event is overwritten.
ParseSummary(m, v) == [m EXCEPT !["val"] = <<v>>]

\* handle_single_obis_read: the value read, or the payload that was sent.  The
\* clock is kept as text; the offset of its epoch is added to the payload.
ParseSingle(m, k, v, tail) ==
  CASE k = "rtcRead" -> [m EXCEPT !["val"] = <<v>>]
    [] k = "rtcWrite" -> [m EXCEPT !["val"] = <<tail>>]
    [] k = "periodRead" -> [m EXCEPT !["val"] = Append(@, v)]
    [] k = "limitWrite" -> [m EXCEPT !["val"] = Append(@, tail)]

Tail1(k, tail) == IF k = "rtcWrite" THEN [tail EXCEPT !.rec = @ + 1] ELSE tail

\* s is the profile of the answer a and the payload; v the value it brings.
Parse(s, k, a) ==
  LET v == [req |-> a.req, rec |-> tx_page_index]
      t == Tail1(k, s.tail)
  IN [tail |-> t,
      m |-> IF k \in Single THEN ParseSingle(s.m, k, v, t)
            ELSE IF k = "summary" THEN ParseSummary(s.m, v)
            ELSE ParseProfile(s.m, a.page, v)]

\* The bytes compared are at fixed places of the request, right for one hop at
\* most.  The frame identifier of the answer is not compared, and of a single
\* object the command or the subcommand is enough.
validate_response_frame(want, got) ==
  IF ~near THEN TRUE
  ELSE IF want[1] = 14 THEN want[2] = got[2] /\ (want[2] = 8 => want[3] = got[3])
  ELSE want[2] = got[2] \/ want[3] = got[3]

\* An answer, for the page that was asked for: to which request, its page, and
\* whether it says that another one follows.
Answer ==
  [req: 1..req, page: {<<"key", "val">>, <<"key">>, <<"key", "null">>,
                       <<"null", "val">>}, more: BOOLEAN]

\* The pages of single objects and of the summary have one form, and a single
\* object has no next page.
Formed(a) ==
  /\ kind[a.req] \in Single \cup {"summary"} => a.page = <<"key", "val">>
  /\ kind[a.req] \in Single => ~a.more
  /\ tx_page_index = MaxPage => ~a.more

\* The answer comes n times in one recv(), and is parsed n times.
Received(a, n) ==
  LET k == kind[a.req]
      p == Profile(k)
      once == Parse([m |-> mem[p], tail |-> pp_write_payload_tail], k, a)
      s == IF n = 1 THEN once ELSE Parse(once, k, a)
  IN
  /\ pc = "wait" /\ answers < MaxAnswers /\ Formed(a)
  /\ answers' = answers + 1
  /\ mem' = [mem EXCEPT ![p] = s.m] /\ pp_write_payload_tail' = s.tail
  /\ \/ a.more /\ pc' = "wait" /\ tx_page_index' = tx_page_index + 1
     \/ /\ ~a.more /\ UNCHANGED tx_page_index
        /\ pc' = IF validate_response_frame(Code(kind[req]), Code(k))
                 THEN "store" ELSE "wait"
  /\ ragged' = IF Fields(a.page) = <<"key", "val">> THEN ragged ELSE ragged \cup {req}
  /\ foreign' = IF a.req = req THEN foreign ELSE foreign \cup {req}
  /\ twice' = IF n = 1 THEN twice ELSE twice \cup {req}
  /\ UNCHANGED <<req, kind, near, status, db, leftover>>

Receive == \E a \in Answer, n \in 1..2 : Received(a, n)

\* The request ends without an answer that completes it.
GiveUp ==
  /\ pc = "wait" /\ pc' = "idle"
  /\ status' = [status EXCEPT ![req] = "FAILED"]
  /\ UNCHANGED <<req, kind, near, tx_page_index, answers, mem,
                 pp_write_payload_tail, db, history>>

-----------------------------------------------------------------------------
(* update_odm_db. *)

\* validate_*_for_db: an empty column gets a default.
Filled(m) == [c \in Column |-> IF m[c] = <<>> THEN <<Default>> ELSE m[c]]
\* validate_voltage_event_for_db and those of the other events do the same.
validate_event_for_db(m) == Filled(m)

NewRow(table, no, cells) ==
  [req |-> req, table |-> table, no |-> no, cells |-> cells]
FirstOf(m) == [c \in Column |-> m[c][1]]
\* back() of an empty column is undefined.
LastOf(m) == [c \in Column |-> IF m[c] = <<>> THEN Undefined ELSE m[c][Len(m[c])]]
\* Faulty variant: the other columns are one behind, up to their end.
RowOfShifted(m, i) ==
  [c \in Column |-> LET j == IF c = "val" /\ i < Len(m[c]) THEN i + 1 ELSE i
                    IN IF j <= Len(m[c]) THEN m[c][j] ELSE Undefined]
\* Faulty variant: the other columns are one behind.
RowOfNext(m, i) ==
  [c \in Column |-> LET j == IF c = "val" THEN i + 1 ELSE i
                    IN IF j <= Len(m[c]) THEN m[c][j] ELSE Undefined]
\* Row i of the key column: the other columns are not as long for certain.
RowOf(m, i) == [c \in Column |-> IF i <= Len(m[c]) THEN m[c][i] ELSE Undefined]

\* Faulty variant: the daily load profile is left out.
clear_profile_for_typeButDLP(k) ==
  [p \in Members |-> IF p = Profile(k) /\ p # "DLP" THEN Empty ELSE mem[p]]
\* The profile of the request is emptied; with an event profile all of them,
\* with a single object all of singleObisData.
clear_profile_for_type(k) ==
  [p \in Members |->
     IF p = Profile(k) \/ (k \in Latest /\ p \in Latest)
        \/ (k \in Single /\ p \in SingleObis)
     THEN Empty ELSE mem[p]]

Success == status' = [status EXCEPT ![req] = "SUCCESS"]
Done == pc' = "idle" /\ UNCHANGED <<req, kind, near, tx_page_index, answers, history>>

\* Any of the statements may fail; nobody looks at the result.
SomeOf(rows) == \E done \in SUBSET rows : db' = db \cup done

\* process_NP_case, process_IP_case: the status is written, the columns are
\* cleared, then the statement is executed.  The radio parameters that come
\* with an instantaneous profile go to a table of their own, from the last values.
StoreFirst ==
  LET k == kind[req]
      m == Filled(mem[Profile(k)])
  IN /\ pc = "store" /\ k \in First
     /\ Success /\ mem' = clear_profile_for_type(k)
     /\ SomeOf({NewRow(k, 1, FirstOf(m))} \cup
               IF k = "IP" THEN {NewRow("rf", 1, LastOf(m))} ELSE {})
     /\ UNCHANGED pp_write_payload_tail /\ Done

\* process_BHP_case, process_DLP_case, process_BLP_case: a row for each value
\* of the key column.
StoreEach ==
  LET k == kind[req]
      m == Filled(mem[Profile(k)])
  IN /\ pc = "store" /\ k \in Each
     /\ Success /\ mem' = clear_profile_for_type(k)
     /\ SomeOf({NewRow(k, i, RowOf(m, i)) : i \in 1..Len(m["key"])})
     /\ UNCHANGED pp_write_payload_tail /\ Done

\* process_AllEvents_case: what is not there is stored as zero.
StoreSummary ==
  LET m == Filled(mem["summary"])
  IN /\ pc = "store" /\ kind[req] = "summary"
     /\ Success /\ mem' = clear_profile_for_type("summary")
     /\ SomeOf({NewRow("summary", 1, LastOf(m))})
     /\ UNCHANGED pp_write_payload_tail /\ Done

\* An event profile: the last values, cleared when the statement succeeds.
StoreLatest ==
  LET k == kind[req]
      m == validate_event_for_db(mem[Profile(k)])
  IN /\ pc = "store" /\ k \in Latest /\ Success
     /\ \/ db' = db \cup {NewRow(k, 1, LastOf(m))} /\ mem' = clear_profile_for_type(k)
        \/ db' = db /\ mem' = [mem EXCEPT ![Profile(k)] = m]
     /\ UNCHANGED pp_write_payload_tail /\ Done

\* A single object: the text of the clock may be empty, back() of the others
\* undefined.  The status of the request stays IN_PROGRESS.
StoreSingle ==
  LET k == kind[req]
      p == Profile(k)
      val == LastOf(IF p = "rtc" THEN Filled(mem[p]) ELSE mem[p])["val"]
      cells == [c \in Column |-> IF c = "val" THEN val ELSE Default]
  IN /\ pc = "store" /\ k \in Single
     /\ \/ /\ db' = db \cup {NewRow(p, 1, cells)} /\ mem' = clear_profile_for_type(k)
           /\ pp_write_payload_tail' = NoTail
        \/ UNCHANGED <<db, mem, pp_write_payload_tail>>
     /\ UNCHANGED status /\ Done

update_odm_db == StoreFirst \/ StoreEach \/ StoreSummary \/ StoreLatest \/ StoreSingle

RecordsNext == (\E k \in Kinds : Take(k)) \/ Receive \/ GiveUp \/ update_odm_db

RecordsSpec == RecordsInit /\ [][RecordsNext]_recordVars

-----------------------------------------------------------------------------
(* Properties. *)

Cells(w) == {w.cells[c] : c \in Column} \ {Default, Undefined}

\* A row holds values of its own request and of one record of it, unless the
\* columns were not empty when the request was taken, a page lacked a field,
\* or an answer to an earlier request was parsed meanwhile.  The clock that was
\* written is stored with its offset, once unless the answer came twice.
RowsTrue ==
  \A w \in db : w.req \notin leftover \cup ragged \cup foreign =>
    /\ \A v \in Cells(w) : v.req = w.req
    /\ Cardinality(Cells(w)) <= 1
    /\ kind[w.req] = "rtcWrite" /\ w.req \notin twice => w.cells["val"].rec = 1

\* A column is read past its end only after a page lacked a field, or when an
\* answer to an earlier request was taken for the one to this request.
NoReadPastEnd ==
  \A w \in db : Undefined \in {w.cells[c] : c \in Column}
    => w.req \in leftover \cup ragged \cup foreign

\* No value is stored for two requests, as long as no answer to an earlier one
\* came again: what was inserted is gone from memory before the next request.
NothingStoredTwice ==
  \A w, x \in db : w.req < x.req /\ foreign \cap (1..x.req) = {}
    => Cells(w) \cap Cells(x) = {}
=============================================================================

---------------------------- MODULE FuotaUpload ----------------------------
(***************************************************************************)
(* The image transfer of a firmware update (fuota_uploading_process of     *)
(* class Fuota): the file is cut into pages of a flash sector and subpages *)
(* of a radio packet, each is sent until its answer matches the expected   *)
(* one, and a mismatch reported by the meter makes the loop jump to where  *)
(* the meter says it is.  Frames and answers may be lost, and an answer    *)
(* may come after the poll for it has timed out.                           *)
(*                                                                         *)
(* The caller is cansend_fuota_next_command in state FW_IMAGE_TRANSFER; at *)
(* this commit nothing drives class Fuota that far (see README), so the    *)
(* module says what the transfer does when it is called.                   *)
(***************************************************************************)
EXTENDS Naturals, Integers, Sequences, FiniteSets, FiniteSetsExt

CONSTANTS
  FileSize, Sector, Payload,   \* bytes of the firmware, of a page, of a packet
  MaxLate,      \* bound: answers under way at a time
  MaxUploads    \* bound: uploads one after the other

MAX_FUOTA_RETRIES == 3
max_retries == 3               \* of the retry context cntx

ASSUME UploadBounds ==
  /\ FileSize \in Nat /\ Sector \in Nat \ {0} /\ Payload \in Nat \ {0}
  /\ Payload <= Sector
     \* sectors are powers of two, and the payload 107 - 4 * hops is odd
  /\ Sector % Payload # 0
  /\ MaxLate \in Nat \ {0} /\ MaxUploads \in Nat \ {0}

get_max_page_count == FileSize \div Sector
get_max_sub_page_count == Sector \div Payload + 1
get_min_payload_size == Sector - (get_max_sub_page_count - 1) * Payload
PieceLength(s) == IF s = get_max_sub_page_count - 1
                  THEN get_min_payload_size ELSE Payload
Offset(p, s) == p * Sector + s * Payload

\* The page count is rounded down, and the loop ends with it: the pieces cover
\* the full sectors of the file, and the bytes behind the last full sector are
\* never read and never sent.
Page == 0..(get_max_page_count - 1)
Subpage == 0..(get_max_sub_page_count - 1)
Piece == Page \X Subpage
\* Bytes of the file: where they begin and how many there are.
Bytes == (0..FileSize) \X (0..Sector)
Own(p, s) == <<Offset(p, s), PieceLength(s)>>
None == <<-1, 0>>

VARIABLES
  pc,             \* where fuota_uploading_process is, or how it ended
  page_count, subpage_count,
  last_subpage,   \* whether the piece in hand is the last of its page
  frame,          \* image_tf_command: page, subpage and bytes of the file
  pos,            \* position of fouta_read_fd
  retry,          \* fuota_imagetf_retry_count
  alternate,      \* fuotaimagetf_alternate_count
  alternate_retry,       \* of cntx
  using_alternate_path,
  expected,       \* rf_fuota_expected_resp_header: as it should be, zeros, or
                  \* a piece's answer behind a header of zeros
  query,          \* last-sector query: the mismatch it is for, its attempts
  status,         \* the row of dlms_fuota_upload
  paths,          \* to the target: direct, no alternate, or an alternate
  uploads,
  answers,        \* under way to the HES
  flash, at,      \* the meter: what it stored, and the piece it expects
  jumped          \* history: the loop went where the meter said it was

loop == <<page_count, subpage_count, last_subpage, frame, pos>>
counters == <<retry, alternate, alternate_retry, using_alternate_path>>
meter == <<flash, at>>
vars == <<pc, loop, counters, expected, query, status, paths, uploads, answers,
          meter, jumped>>

Ended == {"complete", "aborted", "failed"}
\* The status byte of an answer: 0 and 1 for a piece taken, the last of its
\* page or not, 2 and 3 for a subpage and a page that do not fit.
Answer == [kind: {"ack", "mismatch", "report", "refused"},
           page: 0..get_max_page_count, sub: Nat, code: 0..3]
Refused == [kind |-> "refused", page |-> 0, sub |-> 0, code |-> 0]

TypeOK ==
  /\ pc \in {"read", "send", "wait", "ask", "asked"} \cup Ended
  /\ page_count \in 0..(get_max_page_count + 1)
     \* past the last subpage after a jump, until the file ends
  /\ subpage_count \in 0..(get_max_sub_page_count + FileSize)
  /\ last_subpage \in BOOLEAN /\ pos \in 0..FileSize
  /\ frame \in [page: 0..get_max_page_count, bytes: Bytes,
               sub: 0..(get_max_sub_page_count + FileSize)]
  /\ retry \in 0..MAX_FUOTA_RETRIES
     \* an aborted transfer leaves its count to the next one
  /\ alternate \in 0..(max_retries + MaxUploads)
  /\ alternate_retry \in 0..max_retries
  /\ using_alternate_path \in BOOLEAN /\ expected \in {"own", "cleared", "headless"}
  /\ query \in [kind: {"page", "subpage"}, attempt: 0..3]
  /\ status \in {"none", "transfer", "last sector", "alternate", "failed"}
  /\ paths \in {"direct", "none", "some"} /\ uploads \in 1..MaxUploads
  /\ answers \in Seq(Answer) /\ Len(answers) <= MaxLate
  /\ flash \in [Piece -> Bytes \cup {None}]
  /\ at \in (0..get_max_page_count) \X Subpage
  /\ jumped \in BOOLEAN

Erased == [x \in Piece |-> None]
NoFrame == [page |-> 0, sub |-> 0, bytes |-> <<0, 0>>]
NoQuery == [kind |-> "page", attempt |-> 0]

Init ==
  /\ pc = "read" /\ page_count = 0 /\ subpage_count = 0 /\ last_subpage = FALSE
  /\ frame = NoFrame /\ pos = 0
  /\ retry = 0 /\ alternate = 0 /\ alternate_retry = 0
  /\ using_alternate_path = FALSE /\ expected = "own"
  /\ query = NoQuery /\ status = "none"
  /\ paths \in {"direct", "none", "some"} /\ uploads = 1
  /\ answers = <<>> /\ flash = Erased /\ at = <<0, 0>>
  /\ jumped = FALSE

-----------------------------------------------------------------------------
(* The status row: ondemand_fuota_update_status keeps a failure. *)

ondemand_fuota_update_status(old, new) == IF old = "failed" THEN old ELSE new

(* The meter, external: it stores the piece it expects and answers with it, *)
(* or says which number does not fit.                                       *)

After(p, s) == IF s + 1 < get_max_sub_page_count THEN <<p, s + 1>> ELSE <<p + 1, 0>>
Verdict(f) ==
  LET fits == <<f.page, f.sub>> = at
  IN [kind |-> IF fits THEN "ack" ELSE "mismatch", page |-> f.page, sub |-> f.sub,
      code |-> IF f.page # at[1] THEN 3 ELSE IF f.sub # at[2] THEN 2
               ELSE IF f.sub = get_max_sub_page_count - 1 THEN 0 ELSE 1]

\* The frame f reaches the meter: its answer is on its way or is lost; a
\* gateway that gave up waiting says so instead.
Deliver(f) ==
  LET fits == <<f.page, f.sub>> = at
  IN /\ flash' = IF fits THEN [flash EXCEPT ![at] = f.bytes] ELSE flash
     /\ at' = IF fits THEN After(f.page, f.sub) ELSE at
     /\ \/ UNCHANGED answers
        \/ /\ Len(answers) < MaxLate
           /\ \E a \in {Verdict(f), Refused} : answers' = Append(answers, a)
\* It does not.
Drop ==
  /\ UNCHANGED meter
  /\ \/ UNCHANGED answers
     \/ Len(answers) < MaxLate /\ answers' = Append(answers, Refused)

\* The piece before the one expected, told as page and subpage.
LastReceived ==
  IF at = <<0, 0>> THEN at
  ELSE IF at[2] > 0 THEN <<at[1], at[2] - 1>>
  ELSE <<at[1] - 1, get_max_sub_page_count - 1>>

-----------------------------------------------------------------------------
(* The main loop. *)

\* The image was transferred: FW_IMAGE_ENDOF_PAGE_TRANSFER.
UploadDone ==
  /\ pc = "read" /\ page_count >= get_max_page_count
  /\ pc' = "complete"
  /\ UNCHANGED <<loop, counters, expected, query, status, paths, uploads, answers,
                 meter, jumped>>

\* The next piece is read from the file and framed.
ReadPiece ==
  LET last == subpage_count = get_max_sub_page_count - 1
      n == Min({PieceLength(subpage_count), FileSize - pos})
  IN
  /\ pc = "read" /\ page_count < get_max_page_count
  /\ last_subpage' = last
  /\ IF n = 0
     THEN pc' = "complete" /\ UNCHANGED <<frame, pos, expected, retry, status>>
     ELSE /\ pos' = pos + n
          /\ frame' = [page |-> page_count, sub |-> subpage_count,
                       bytes |-> <<pos, n>>]
          /\ expected' = IF expected = "own" THEN "own" ELSE "headless"
          /\ retry' = 0 /\ pc' = "send"
          /\ status' = ondemand_fuota_update_status(status, "transfer")
  /\ UNCHANGED <<page_count, subpage_count, alternate, alternate_retry,
                 using_alternate_path, query, paths, uploads, answers, meter, jumped>>

Send ==
  /\ pc = "send" /\ pc' = "wait"
  /\ Deliver(frame) \/ Drop
  /\ UNCHANGED <<loop, counters, expected, query, status, paths, uploads, jumped>>

\* The write fails.
SendFails ==
  /\ pc = "send" /\ pc' = "failed"
  /\ status' = ondemand_fuota_update_status(status, "failed")
  /\ UNCHANGED <<loop, counters, expected, query, paths, uploads, answers, meter, jumped>>

\* On to the next piece after (p, s), of which last says if it ended a page.
Advance(p, s, last) ==
  /\ pc' = "read"
  /\ IF ~last THEN subpage_count' = s + 1 /\ page_count' = p
     ELSE subpage_count' = 0 /\ page_count' = p + 1

\* Faulty variant: the piece is given up, the transfer goes on.
ResendSkips(n, alt) ==
  IF n < MAX_FUOTA_RETRIES
  THEN /\ pc' = "send" /\ UNCHANGED <<page_count, subpage_count>>
       /\ using_alternate_path' = using_alternate_path /\ alternate' = alternate
  ELSE /\ using_alternate_path' = TRUE /\ alternate' = alt
       /\ Advance(page_count, subpage_count, last_subpage)
\* The piece is sent again while its retries last.  Then handle_fuota_completion
\* ends the request, unless the retry context counts three alternate attempts:
\* the loop goes on with the next piece.
Resend(n, alt) ==
  IF n < MAX_FUOTA_RETRIES
  THEN /\ pc' = "send" /\ UNCHANGED <<page_count, subpage_count>>
       /\ using_alternate_path' = using_alternate_path /\ alternate' = alternate
  ELSE /\ using_alternate_path' = TRUE /\ alternate' = alt
       /\ IF alt < 3 THEN pc' = "aborted" /\ UNCHANGED <<page_count, subpage_count>>
          ELSE Advance(page_count, subpage_count, last_subpage)

\* Faulty variant: a poll without an answer is not counted.
PollTimeoutUncounted ==
  /\ pc = "wait" /\ pc' = "send"
  /\ UNCHANGED <<loop, counters, expected, query, status, paths, uploads, answers,
                 meter, jumped>>
\* Faulty variant: the retry reads the file again.
PollTimeoutRereads ==
  /\ pc = "wait" /\ pc' = "read"
  /\ UNCHANGED <<loop, counters, expected, query, status, paths, uploads, answers,
                 meter, jumped>>
\* poll() sees nothing for twelve seconds, or the read fails.
PollTimeout ==
  /\ pc = "wait" /\ retry' = retry + 1
  /\ Resend(retry + 1, alternate_retry)
  /\ UNCHANGED <<last_subpage, frame, pos, alternate_retry, expected, query, status,
                 paths, uploads, answers, meter, jumped>>

-----------------------------------------------------------------------------
(* handle_fuota_post_read.                                                  *)

\* The whole answer is compared with the expected one.
Matches(a) ==
  /\ expected = "own" /\ a.kind = "ack"
  /\ a.page = frame.page /\ a.sub = frame.sub
  /\ a.code = IF last_subpage THEN 0 ELSE 1

Matched ==
  /\ alternate_retry' = 0 /\ retry' = 0 /\ alternate' = 0
  /\ using_alternate_path' = FALSE
  /\ Advance(page_count, subpage_count, last_subpage)
  /\ UNCHANGED <<last_subpage, frame, pos, expected, query, status, jumped>>

\* A page or a subpage does not fit: the meter is asked for its last piece.
Mismatched(kind) ==
  /\ pc' = "ask" /\ query' = [kind |-> kind, attempt |-> 0]
  /\ status' = ondemand_fuota_update_status(status, "last sector")
  /\ UNCHANGED <<loop, counters, expected, jumped>>

\* prepare_alternate_sameroute_retry: what the retry context counts afterwards.
\* The frame that is sent again is not rebuilt along the new route.
prepare_alternate_sameroute_retry ==
  IF paths = "none" THEN max_retries ELSE alternate_retry + 1

\* Refusals and whatever else is not expected.  The expected answer is
\* overwritten with temp_expect_buf, which nothing ever fills.
PrimaryRetry ==
  /\ ~using_alternate_path /\ retry' = retry + 1
  /\ IF retry + 1 < 3
     THEN /\ expected' = "cleared"
          /\ Resend(retry + 1, alternate_retry)
          /\ UNCHANGED <<alternate_retry, status>>
     ELSE /\ alternate_retry' = prepare_alternate_sameroute_retry
          /\ status' = ondemand_fuota_update_status(status, "alternate")
          /\ Resend(retry + 1, prepare_alternate_sameroute_retry)
          /\ UNCHANGED expected
  /\ UNCHANGED <<last_subpage, frame, pos, query, jumped>>

AlternateRetry ==
  /\ using_alternate_path /\ alternate' = alternate + 1
  /\ IF alternate + 1 < 3
     THEN pc' = "send" /\ expected' = "cleared" /\ UNCHANGED status
     ELSE /\ pc' = "aborted" /\ UNCHANGED expected
          /\ status' = ondemand_fuota_update_status(status, "failed")
  /\ UNCHANGED <<loop, retry, alternate_retry, using_alternate_path, query, jumped>>

handle_fuota_post_read ==
  /\ pc = "wait" /\ answers # <<>> /\ answers' = Tail(answers)
  /\ LET a == Head(answers) IN
     \/ Matches(a) /\ Matched
     \/ a.kind = "mismatch"
        /\ Mismatched(IF a.code = 3 THEN "page" ELSE "subpage")
     \/ ~Matches(a) /\ a.kind # "mismatch" /\ (PrimaryRetry \/ AlternateRetry)
  /\ UNCHANGED <<paths, uploads, meter>>

-----------------------------------------------------------------------------
(* rffuota_read_lastsector_page_and_subpage_status, and the jump.           *)

\* The query is sent, up to three times.
Ask ==
  /\ pc = "ask" /\ query.attempt < 3
  /\ pc' = "asked" /\ query' = [query EXCEPT !.attempt = @ + 1]
  /\ \/ UNCHANGED answers
     \/ /\ Len(answers) < MaxLate
        /\ \E a \in {Refused, [kind |-> "report", page |-> LastReceived[1],
                               sub |-> LastReceived[2], code |-> 0]} :
             answers' = Append(answers, a)
  /\ UNCHANGED <<loop, counters, expected, status, paths, uploads, meter, jumped>>

\* Without an answer the piece is sent once more.
AskedInVain ==
  /\ pc = "ask" /\ query.attempt = 3 /\ pc' = "send"
  /\ UNCHANGED <<loop, counters, expected, query, status, paths, uploads, answers,
                 meter, jumped>>

NoReport ==
  /\ pc = "asked" /\ pc' = "ask"
  /\ UNCHANGED <<loop, counters, expected, query, status, paths, uploads, answers,
                 meter, jumped>>

\* The bytes read as page and subpage: in a late answer to a piece its status
\* is in the place of the subpage.
Report(a) == <<a.page, IF a.kind = "report" THEN a.sub ELSE a.code>>

\* fix_page_subpage_and_seek: where the loop and the file go.
Fixed(p, s) == IF s >= get_max_sub_page_count THEN <<p + 1, 0>> ELSE <<p, s>>

\* After the jump the loop advances as after any other piece.  The header of
\* the expected answer was built again to find the report, and is cleared to
\* the length it had: one byte if it was zeros already.
Jump(a) ==
  LET told == Report(a)
      to == Fixed(told[1], IF query.kind = "page" THEN told[2] + 1 ELSE told[2])
  IN /\ pos' = Min({Offset(to[1], to[2]), FileSize})
     /\ retry' = 0 /\ alternate' = 0 /\ jumped' = TRUE
     /\ expected' = IF expected = "cleared" THEN "own" ELSE "cleared"
     /\ Advance(to[1], to[2], last_subpage)
     /\ UNCHANGED <<last_subpage, frame, alternate_retry, using_alternate_path>>

ReadReport ==
  /\ pc = "asked" /\ answers # <<>> /\ answers' = Tail(answers)
  /\ LET a == Head(answers) IN
     IF a.kind = "refused"
     THEN pc' = "ask" /\ UNCHANGED <<loop, counters, expected, jumped>>
     ELSE Jump(a)
  /\ UNCHANGED <<query, status, paths, uploads, meter>>

-----------------------------------------------------------------------------
\* The next request: its target is erased, the counters of the retry context
\* are reset by the answers before, those of the transfer are members that
\* keep their value.
StartUpload ==
  /\ pc \in Ended /\ uploads < MaxUploads
  /\ uploads' = uploads + 1 /\ pc' = "read"
  /\ page_count' = 0 /\ subpage_count' = 0 /\ pos' = 0 /\ retry' = 0
  /\ alternate_retry' = 0 /\ expected' = "own" /\ status' = "none"
  /\ answers' = <<>> /\ flash' = Erased /\ at' = <<0, 0>>
  /\ jumped' = FALSE
  /\ last_subpage' = FALSE /\ frame' = NoFrame /\ query' = NoQuery
  /\ UNCHANGED <<alternate, using_alternate_path, paths>>

Handler ==
  \/ UploadDone \/ ReadPiece \/ Send \/ SendFails \/ PollTimeout
  \/ handle_fuota_post_read \/ Ask \/ AskedInVain \/ NoReport \/ ReadReport
Next == Handler \/ StartUpload

\* The handler thread runs, and poll() and read() return in bounded time.
Spec == Init /\ [][Next]_vars /\ WF_vars(Handler)

-----------------------------------------------------------------------------
(* Properties. *)

\* Whatever was lost, refused or came late: as long as the loop has not jumped,
\* the meter holds in every place the bytes of the file that belong there.
FlashIntact ==
  ~jumped => \A x \in Piece : flash[x] \in {None, Own(x[1], x[2])}

\* When the transfer is said to be complete the meter holds every piece of the
\* full sectors, whichever answers came late.  It is otherwise only after a jump,
\* or when the target has no alternate path of its length: the count that ends
\* the request is then jumped over, and a piece that was refused is skipped.
\* Nothing is said of the bytes behind the last full sector, which the loop
\* leaves out, though the CRC announced to the meter is over the whole file.
CompleteStored ==
  pc = "complete" /\ ~jumped /\ paths # "none"
    => \A x \in Piece : flash[x] = Own(x[1], x[2])

\* The transfer ends, however many answers are lost or refused, unless the
\* meter reports a mismatch.
UploadEnds == (pc = "read") ~> (pc \in Ended \cup {"ask"})
=============================================================================

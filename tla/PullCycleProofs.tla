-------------------------- MODULE PullCycleProofs --------------------------
(***************************************************************************)
(* Proofs about PullCycle, for every number of nodes, pages, retries and   *)
(* answers under way.  The invariant has two parts:                        *)
(*   Base    types; the lock; the paths of each node are the ones it had;  *)
(*           and while a command is in flight: it is one of the phase, its *)
(*           path exists, and its retries and the page are in bounds;      *)
(*   OnTime  until a command is sent while an answer is due, the only      *)
(*           answer that can come is the one to the command in flight, it  *)
(*           is read in the state of that command, and so the pages before *)
(*           the one asked for are held, and the meter has obeyed the      *)
(*           commands before this one.                                     *)
(***************************************************************************)
EXTENDS PullCycle, TLAPS

\* A command is in flight, or the code of its exchange is looked at.
Sending == {"send", "recv", "done"}

\* The commands of a phase.
CommandsOf(k) ==
  IF k = "SILENCED" THEN {"FUOTA_STATUS", "FUOTA_DISABLE", "FLASH_SAVE", "SOFT_RESET"}
  ELSE IF k = "INTERNAL_FV" THEN {"INTERNAL_FV"}
  ELSE IF k \in Profiles THEN {k, "DLMS_CONNECT"}
  ELSE {}

Paths(n) == 1 + Alternates[n]
\* s lists the paths 1..m, in some order.
Lists(s, m) == s \in Seq(1..2) /\ Len(s) = m /\ {s[i] : i \in DOMAIN s} = 1..m

\* The parts of TypeOK.
TSchedule == /\ window \in 0..8 /\ new_hour \in BOOLEAN
             /\ done_mask \subseteq 0..3 /\ current_cycle_id \in -1..3
TPlace == phase \in 1..8 /\ node \in Node /\ cycles \in Cycle
TExchange == /\ cmd \in Commands /\ at \in 1..2 /\ rat \in 0..2
             /\ retry \in 0..MaxRetries /\ got \in BOOLEAN
TPages == page \in 0..(PageLimit + 1) /\ loops \in 0..LoopLimit
TState == currentState \in Commands \cup {"IDLE"}
TResult == /\ ret \in Ends \cup {"FAILURE"}
           /\ gatewayStatus \in {"CONNECTED", "DISCONNECTED"}
TDret == dret \in Ends
THeld == held \in [Page -> {"none", "right", "wrong", "double"}]
TAsked == asked \in Seq(Query) /\ armed \in BOOLEAN
TMeter == meter \in [Node -> {"silent", "awake", "saved"}]
TRow == row \in [Node -> [Kinds -> {"lacking", "whole", "wrong"}]]
TOutside == /\ duplicate_gateway \in BOOLEAN /\ ODM_Flag \in BOOLEAN
            /\ noise \in 0..MaxNoise /\ late \in BOOLEAN
TPaths == paths \in [Node -> Seq(1..2)] /\ PathsKept
Lock == /\ pc \in {"idle", "visit", "left", "undefined"} \cup Sending
        /\ hes \in BOOLEAN /\ LockReleased

Flight ==
  pc \in Sending =>
    /\ cmd \in CommandsOf(Phase[phase])
    /\ at <= Paths(node) /\ rat <= Paths(node) /\ rat # 1
    /\ page < PageLimit + at - 1
    /\ cycles > 0 => Phase[phase] = "INSTANTANEOUS_PROFILE"
    /\ Phase[phase] \notin Profiles => page = 0
    /\ pc # "done" => retry < MaxRetries

Base == /\ TSchedule /\ TPlace /\ TExchange /\ TPages /\ TState /\ TResult /\ TDret
        /\ THeld /\ TAsked /\ TMeter /\ TRow /\ TOutside /\ TPaths /\ Lock /\ Flight

-----------------------------------------------------------------------------
(* Operators. *)

LEMMA Phases ==
  /\ Len(Phase) = 8
  /\ \A p \in 1..8 : Phase[p] \in Kinds \cup {"SCALAR"}
  /\ Phase[1] = "SILENCED" /\ Phase[2] = "INTERNAL_FV"
  BY DEF Phase, Kinds, Profiles

LEMMA Bounds ==
  /\ NodeCount \in Nat /\ NodeCount >= 1 /\ LastPage \in Nat /\ MaxRetries \in Nat
  /\ MaxRetries >= 1 /\ LoopLimit \in Nat /\ LoopLimit >= 1
  /\ PageLimit \in Nat /\ PageLimit >= 1 /\ MaxIpCycles \in Nat /\ MaxIpCycles >= 1
  /\ MaxNoise \in Nat /\ MaxDue \in Nat /\ MaxDue >= 1 /\ MaxWindow \in 1..8
  /\ \A n \in Node : Alternates[n] \in {0, 1} /\ Paths(n) \in 1..2
  BY PullBounds DEF Paths

LEMMA CommandFacts ==
  ASSUME NEW k, NEW c \in CommandsOf(k)
  PROVE  /\ c \in Commands
         /\ k \in Kinds
         /\ c \in Profiles => c = k
         /\ c = "DLMS_CONNECT" => k \in Profiles
         /\ c = "INTERNAL_FV" => k = "INTERNAL_FV"
         /\ c \in {"FUOTA_STATUS", "FUOTA_DISABLE", "FLASH_SAVE", "SOFT_RESET"} =>
              k = "SILENCED"
  BY DEF CommandsOf, Commands, Commissions, Profiles, Kinds

LEMMA CycleIds ==
  ASSUME NEW w \in 0..8
  PROVE  CycleId(w) \in -1..3
  BY DEF CycleId

\* Promoting an alternate, or reconnecting on it, keeps the paths.
LEMMA Reordered ==
  ASSUME NEW m \in 1..2, NEW s, Lists(s, m), NEW i \in 1..m, i # 1
  PROVE  Lists(Promoted(s, i), m) /\ Lists(Reconnected(s, i), m)
  <1> DEFINE t == <<s[2], s[1]>>
  <1>1. m = 2 /\ i = 2 /\ Len(s) = 2 /\ s \in Seq(1..2) /\ DOMAIN s = 1..2
    BY DEF Lists
  <1>2. {s[k] : k \in 1..2} = 1..2
    BY <1>1 DEF Lists
  <1>3. s[1] \in 1..2 /\ s[2] \in 1..2
    <2>1. 1 \in DOMAIN s /\ 2 \in DOMAIN s
      BY <1>1
    <2> QED
      BY SMTT(30), <1>1, <2>1
  <1>4. t \in Seq(1..2) /\ Len(t) = 2 /\ t[1] = s[2] /\ t[2] = s[1] /\ DOMAIN t = 1..2
    BY <1>3
  <1>5. {t[k] : k \in 1..2} = 1..2
    BY <1>2, <1>4
  <1>6. Lists(t, m)
    BY <1>1, <1>4, <1>5 DEF Lists
  <1>7. Promoted(s, i) = t
    <2>1. Promoted(s, i) = [j \in 1..2 |-> IF j = 1 THEN s[2] ELSE s[1]]
      BY <1>1 DEF Promoted
    <2> QED
      BY <2>1
  <1>8. Reconnected(s, i) = t
    <2>1. Reconnected(s, i) = [j \in 1..2 |-> IF j = 1 THEN s[2] ELSE s[1]]
      BY <1>1 DEF Reconnected
    <2> QED
      BY <2>1
  <1> QED
    BY <1>6, <1>7, <1>8

LEMMA PathsOf ==
  ASSUME TPaths, NEW n \in Node
  PROVE  Lists(paths[n], Paths(n)) /\ Len(paths[n]) = Paths(n)
  BY DEF TPaths, PathsKept, PathSet, Lists, Paths

LEMMA SetPath ==
  ASSUME TPaths, node \in Node, NEW t, Lists(t, Paths(node)),
         paths' = [paths EXCEPT ![node] = t]
  PROVE  TPaths'
  <1>1. paths' \in [Node -> Seq(1..2)]
    BY DEF TPaths, Lists
  <1>2. ASSUME NEW n \in Node
        PROVE  /\ Len(paths'[n]) = 1 + Alternates[n]
               /\ {paths'[n][i] : i \in DOMAIN paths'[n]} = 1..(1 + Alternates[n])
    <2>1. CASE n = node
      <3>1. paths'[n] = t
        BY <2>1 DEF TPaths
      <3> QED
        BY <2>1, <3>1 DEF Lists, Paths
    <2>2. CASE n # node
      <3>1. paths'[n] = paths[n]
        BY <2>2 DEF TPaths
      <3> QED
        BY <3>1 DEF TPaths, PathsKept, PathSet
    <2> QED
      BY <2>1, <2>2
  <1> QED
    BY <1>1, <1>2 DEF TPaths, PathsKept, PathSet

LEMMA PromoteFacts ==
  ASSUME Base, pc \in Sending, Promote
  PROVE  TPaths'
  <1>1. TPaths /\ node \in Node /\ at \in 1..2 /\ at <= Paths(node) /\ Paths(node) \in 1..2
    BY Bounds DEF Base, TPlace, TExchange, Flight
  <1>2. CASE at = 1
    BY <1>1, <1>2 DEF Promote, TPaths, PathsKept, PathSet
  <1>3. CASE at # 1
    <2>1. Lists(Promoted(paths[node], at), Paths(node))
      BY <1>1, <1>3, PathsOf, Reordered
    <2>2. paths' = [paths EXCEPT ![node] = Promoted(paths[node], at)]
      BY <1>3 DEF Promote
    <2> QED
      BY <1>1, <2>1, <2>2, SetPath
  <1> QED
    BY <1>2, <1>3

\* A command goes out on a path that exists.
LEMMA TransmitFacts ==
  ASSUME Base, NEW c \in CommandsOf(Phase[phase]), NEW i \in 1..2, NEW r \in 0..2,
         Transmit(c, i, r), r # 1, i <= Paths(node), r <= Paths(node),
         UNCHANGED <<phase, node>>, page' \in Nat, page' < PageLimit + i - 1,
         cycles' > 0 => Phase[phase] = "INSTANTANEOUS_PROFILE",
         Phase[phase] \notin Profiles => page' = 0
  PROVE  pc' = "send" /\ TExchange' /\ Flight' /\ page' \in 0..(PageLimit + 1)
  <1>1. pc' = "send" /\ cmd' = c /\ at' = i /\ rat' = r /\ retry' = 0 /\ got' = FALSE
    BY DEF Transmit
  <1>2. c \in Commands
    BY CommandFacts
  <1>3. TExchange'
    <2>1. 0 \in 0..MaxRetries
      BY Bounds
    <2> QED
      BY <1>1, <1>2, <2>1 DEF TExchange
  <1>4. Flight'
    <2>1. 0 < MaxRetries
      BY Bounds
    <2>2. /\ cmd' \in CommandsOf(Phase[phase']) /\ at' <= Paths(node') /\ rat' <= Paths(node')
          /\ rat' # 1 /\ page' < PageLimit + at' - 1 /\ retry' < MaxRetries
          /\ cycles' > 0 => Phase[phase'] = "INSTANTANEOUS_PROFILE"
          /\ Phase[phase'] \notin Profiles => page' = 0
      BY <1>1, <2>1
    <2> QED
      BY <2>2 DEF Flight
  <1> QED
    BY <1>1, <1>3, <1>4, Bounds

\* The numbers of Base.
LEMMA Numbers ==
  ASSUME Base
  PROVE  /\ at \in 1..2 /\ rat \in 0..2 /\ retry \in 0..MaxRetries
         /\ page \in 0..(PageLimit + 1) /\ loops \in 0..LoopLimit /\ cycles \in Cycle
         /\ node \in Node /\ phase \in 1..8 /\ Phase[phase] \in Kinds \cup {"SCALAR"}
         /\ Paths(node) \in 1..2 /\ Len(paths[node]) = Paths(node)
         /\ Lists(paths[node], Paths(node)) /\ noise \in 0..MaxNoise
         /\ pc \in Sending => /\ cmd \in CommandsOf(Phase[phase])
                              /\ at <= Paths(node) /\ rat <= Paths(node) /\ rat # 1
                              /\ page < PageLimit + at - 1 /\ Phase[phase] \in Kinds
                              /\ cycles > 0 => Phase[phase] = "INSTANTANEOUS_PROFILE"
                              /\ Phase[phase] \notin Profiles => page = 0
         /\ pc \in {"send", "recv"} => retry < MaxRetries
  <1>1. /\ at \in 1..2 /\ rat \in 0..2 /\ retry \in 0..MaxRetries
        /\ page \in 0..(PageLimit + 1) /\ loops \in 0..LoopLimit /\ cycles \in Cycle
        /\ node \in Node /\ phase \in 1..8 /\ noise \in 0..MaxNoise
    BY DEF Base, TExchange, TPages, TPlace, TOutside
  <1>2. Flight /\ TPaths
    BY DEF Base
  <1>3. pc \in Sending => Phase[phase] \in Kinds
    BY <1>2, CommandFacts DEF Flight
  <1> QED
    BY <1>1, <1>2, <1>3, Phases, Bounds, PathsOf DEF Flight, Sending

\* The exchange goes on, is repeated or ends.
LEMMA TryAgainFacts ==
  ASSUME Base, pc = "recv", NEW any \in BOOLEAN, TryAgain(any)
  PROVE  /\ pc' \in {"send", "done"} /\ retry' \in 0..MaxRetries
         /\ pc' # "done" => retry' < MaxRetries
         /\ TResult'
         /\ pc' = "done" => ret' = "FAILURE"
  <1>1. retry \in Nat /\ retry < MaxRetries
    BY Numbers, Bounds
  <1>2. TResult
    BY DEF Base
  <1> QED
    BY <1>1, <1>2, Bounds DEF TryAgain, GiveUp, Exhausted, TResult

Codes == Ends \cup Waits \cup {"FAILURE"}

LEMMA ReceivedFacts ==
  ASSUME Base, pc = "recv", NEW c \in Codes, NEW left \in BOOLEAN, Received(c, left)
  PROVE  /\ pc' \in Sending /\ retry' \in 0..MaxRetries
         /\ pc' # "done" => retry' < MaxRetries
         /\ TResult' /\ got' = TRUE /\ armed' \in BOOLEAN
         /\ pc' = "done" => ret' \in {c, "FAILURE"}
         /\ pc' = "done" /\ ret' # "FAILURE" => c \in Ends /\ ret' = c
  <1>1. retry \in 0..MaxRetries /\ retry < MaxRetries /\ TResult
    BY Numbers DEF Base
  <1>2. CASE c \in Ends /\ pc' = "done" /\ ret' = c /\ UNCHANGED <<retry, gatewayStatus>>
    BY <1>1, <1>2 DEF Received, TResult, Sending
  <1>3. CASE c \in Waits /\ UNCHANGED <<pc, ret, retry, gatewayStatus>>
    BY <1>1, <1>3 DEF Received, TResult, Sending
  <1>4. CASE c = "FAILURE" /\ TryAgain(TRUE)
    BY <1>4, TryAgainFacts DEF Received, Sending
  <1> QED
    BY <1>2, <1>3, <1>4 DEF Received

\* The same command stays in flight.
LEMMA FlightKept ==
  ASSUME Base, pc = "recv", pc' \in Sending,
         UNCHANGED <<cmd, at, rat, phase, node, cycles, page>>,
         retry' \in 0..MaxRetries, pc' # "done" => retry' < MaxRetries, got' \in BOOLEAN
  PROVE  TExchange' /\ Flight'
  BY Bounds DEF Base, TExchange, Flight, Sending

LEMMA AnswerCodes ==
  ASSUME NEW q \in Query, NEW s
  PROVE  ReadAnswer(q, s) \subseteq Codes /\ ReadRefusal(q, s) \subseteq Codes
  <1>1. q.cmd \in Profiles \cup Commissions \cup {"DLMS_CONNECT", "PING"}
    BY DEF Query, Commands
  <1>2. ReadCommission(q, s) \subseteq Codes
    BY DEF ReadCommission, Codes, Ends, Waits
  <1>3. ReadProfile(q, s) \subseteq Codes
    BY DEF ReadProfile, Codes, Ends, Waits
  <1>4. ReadAnswer(q, s) \subseteq Codes
    BY <1>1, <1>2, <1>3 DEF ReadAnswer, Codes, Ends, Waits, Profiles, Commissions
  <1>5. ReadRefusal(q, s) \subseteq Codes
    BY DEF ReadRefusal, Codes, Ends, Waits
  <1> QED
    BY <1>4, <1>5

LEMMA StoreFacts ==
  ASSUME Base, NEW q \in Query, NEW w \in BOOLEAN, Store(q, w)
  PROVE  THeld'
  <1>1. THeld /\ 0 \in Page
    BY Bounds DEF Base, Page
  <1>2. Overwrite(q) \in {"right", "wrong"} /\ AppendBlocks(q) \in {"right", "wrong", "double"}
    BY DEF Overwrite, AppendBlocks
  <1> QED
    BY <1>1, <1>2 DEF Store, THeld

LEMMA ObeyFacts ==
  ASSUME Base, NEW q \in Query
  PROVE  /\ Obey(q) \in [Node -> {"silent", "awake", "saved"}]
         /\ \A n \in Node : n # q.node => Obey(q)[n] = meter[n]
         /\ q.cmd \notin {"FUOTA_DISABLE", "FLASH_SAVE", "SOFT_RESET"} => Obey(q) = meter
         /\ q.cmd = "FUOTA_DISABLE" => Obey(q)[q.node] # "silent"
         /\ q.cmd = "FLASH_SAVE" /\ meter[q.node] # "silent" => Obey(q)[q.node] = "saved"
         /\ q.cmd = "SOFT_RESET" /\ meter[q.node] = "saved" => Obey(q)[q.node] = "saved"
  <1>1. meter \in [Node -> {"silent", "awake", "saved"}] /\ q.node \in Node
    BY DEF Base, TMeter, Query
  <1>2. meter[q.node] \in {"silent", "awake", "saved"}
    BY <1>1
  <1> DEFINE v == CASE q.cmd = "FUOTA_DISABLE" /\ meter[q.node] = "silent" -> "awake"
                    [] q.cmd = "FLASH_SAVE" /\ meter[q.node] = "awake" -> "saved"
                    [] q.cmd = "SOFT_RESET" /\ meter[q.node] = "awake" -> "silent"
                    [] OTHER -> meter[q.node]
  <1>3. Obey(q) = [meter EXCEPT ![q.node] = v]
    BY DEF Obey
  <1>4. /\ v \in {"silent", "awake", "saved"}
        /\ q.cmd \notin {"FUOTA_DISABLE", "FLASH_SAVE", "SOFT_RESET"} => v = meter[q.node]
        /\ q.cmd = "FUOTA_DISABLE" => v # "silent"
        /\ q.cmd = "FLASH_SAVE" /\ meter[q.node] # "silent" => v = "saved"
        /\ q.cmd = "SOFT_RESET" /\ meter[q.node] = "saved" => v = "saved"
    BY <1>2
  <1> HIDE DEF v
  <1>5. Obey(q)[q.node] = v
    BY <1>1, <1>3
  <1> QED
    BY <1>1, <1>3, <1>4, <1>5

LEMMA AskedTail ==
  ASSUME asked \in Seq(Query), asked # <<>>
  PROVE  Tail(asked) \in Seq(Query) /\ Head(asked) \in Query
  OBVIOUS

LEMMA DueFacts ==
  ASSUME Base, pc = "send"
  PROVE  Frame \in Query /\ Due(Frame) \in Seq(Query)
  <1>1. cmd \in Commands /\ asked \in Seq(Query) /\ cycles \in Cycle /\ node \in Node
    BY DEF Base, TExchange, TAsked, TPlace
  <1>2. page \in 0..PageLimit /\ 0 \in 0..PageLimit
    BY Numbers, Bounds DEF Sending
  <1>3. Frame \in Query
    BY <1>1, <1>2 DEF Frame, Query
  <1>4. Len(asked) >= MaxDue => asked # <<>>
    BY <1>1, Bounds
  <1> QED
    BY <1>1, <1>3, <1>4, Bounds, AskedTail DEF Due

LEMMA FillFacts ==
  ASSUME Base, NEW k \in Kinds, NEW v \in {"lacking", "whole", "wrong"}, Fill(k, v)
  PROVE  /\ TRow'
         /\ \A n \in Node : \A j \in Kinds :
              row'[n][j] = IF n = node /\ j = k THEN v ELSE row[n][j]
  <1>1. row \in [Node -> [Kinds -> {"lacking", "whole", "wrong"}]] /\ node \in Node
    BY DEF Base, TRow, TPlace
  <1> QED
    BY <1>1 DEF Fill, TRow

\* What an insert writes.
LEMMA InsertFacts ==
  ASSUME Base, NEW k \in Kinds, Insert(k)
  PROVE  TRow'
  <1> DEFINE v == IF row[node][k] # "wrong" /\ \A p \in PagesOf(k) : held[p] = "right"
                  THEN "whole" ELSE "wrong"
  <1>1. Fill(k, v) /\ v \in {"lacking", "whole", "wrong"}
    BY DEF Insert
  <1> QED
    BY <1>1, FillFacts

\* The variables that the end of a page loop can change are in their types.
LEMMA PathDoneFacts ==
  ASSUME Base, pc = "done", Phase[phase] \in Profiles, UNCHANGED <<phase, node>>,
         NEW c, NEW s, Lists(s, Paths(node)), NEW p \in Nat, p <= page + 1,
         PathDone(c, s, p)
  PROVE  /\ pc' \in {"send", "left"}
         /\ TExchange' /\ TPages' /\ TPaths' /\ TRow' /\ THeld' /\ TPlace' /\ Flight'
         /\ pc' = "send" => cmd' = Phase[phase]
  <1>1. /\ TExchange /\ TPages /\ TPaths /\ TRow /\ THeld /\ TPlace
        /\ node \in Node /\ cycles \in Cycle /\ at \in 1..2 /\ at <= Paths(node)
        /\ Paths(node) \in 1..2 /\ page \in Nat /\ page < PageLimit + at - 1
        /\ cycles > 0 => Phase[phase] = "INSTANTANEOUS_PROFILE"
    BY Numbers, Bounds DEF Base, Sending
  <1>2. Phase[phase] \in CommandsOf(Phase[phase]) /\ Phase[phase] \in Kinds
    BY DEF CommandsOf, Kinds, Profiles
  <1>3. p \in 0..(PageLimit + 1) /\ p < PageLimit + (at + 1) - 1
    BY <1>1, Bounds
  <1>4. Lists(Promoted(s, at), Paths(node)) \/ at = 1
    BY <1>1, Reordered
  <1>5. TPaths'
    BY <1>1, <1>4, SetPath DEF PathDone
  <1>6. CASE c = "SUCCESS"
    <2>1. Insert(Phase[phase])
      BY <1>6 DEF PathDone
    <2>2. TRow'
      BY <1>2, <2>1, InsertFacts
    <2>3. CASE cycles > 1 /\ NextIpCycle
      <3>1. /\ Transmit("INSTANTANEOUS_PROFILE", 1, 0) /\ page' = 0 /\ loops' = 1
            /\ cycles' = cycles - 1
            /\ held' = [x \in Page |-> IF held[x] = "none" THEN "none" ELSE "wrong"]
        BY <2>3 DEF NextIpCycle
      <3>2. /\ cycles' \in Cycle /\ 0 < PageLimit + 1 - 1
            /\ 0 \in 0..(PageLimit + 1) /\ 1 \in 0..LoopLimit /\ 1 <= Paths(node)
            /\ cycles > 0
        BY <1>1, <2>3, <3>1, Bounds DEF Cycle
      <3>3. pc' = "send" /\ TExchange' /\ Flight'
        BY <1>1, <1>2, <3>1, <3>2, TransmitFacts
      <3>4. TPages' /\ TPlace' /\ THeld'
        BY <1>1, <3>1, <3>2 DEF TPages, TPlace, THeld
      <3> QED
        BY <1>1, <1>5, <2>2, <3>1, <3>2, <3>3, <3>4 DEF Transmit
    <2>4. CASE /\ pc' = "left" /\ page' = p
               /\ UNCHANGED <<exchange, loops, cycles, held>>
      BY <1>1, <1>3, <1>5, <2>2, <2>4
         DEF exchange, TExchange, TPages, TPlace, THeld, Flight, Sending
    <2> QED
      BY <1>6, <2>3, <2>4 DEF PathDone
  <1>7. CASE c # "SUCCESS"
    <2>1. page' = p /\ UNCHANGED <<row, cycles, held>>
      BY <1>7 DEF PathDone
    <2>2. TRow' /\ TPlace' /\ THeld'
      BY <1>1, <2>1 DEF TRow, TPlace, THeld
    <2>3. CASE at < Len(s) /\ Transmit(Phase[phase], at + 1, 0) /\ loops' = 1
      <3>1. at + 1 \in 1..2 /\ at + 1 <= Paths(node)
        BY <1>1, <2>3 DEF Lists
      <3>2. pc' = "send" /\ TExchange' /\ Flight'
        BY <1>1, <1>2, <1>3, <2>1, <2>3, <3>1, TransmitFacts
      <3>3. TPages'
        BY <1>3, <2>1, <2>3, Bounds DEF TPages
      <3> QED
        BY <1>5, <2>2, <2>3, <3>2, <3>3 DEF Transmit
    <2>4. CASE pc' = "left" /\ UNCHANGED <<exchange, loops>>
      BY <1>1, <1>3, <1>5, <2>1, <2>2, <2>4
         DEF exchange, TExchange, TPages, Flight, Sending
    <2> QED
      BY <1>7, <2>3, <2>4 DEF PathDone
  <1> QED
    BY <1>6, <1>7

LEMMA AskPageFacts ==
  ASSUME Base, pc = "done", Phase[phase] \in Profiles, UNCHANGED <<phase, node>>,
         NEW s, Lists(s, Paths(node)), NEW p \in {page, page + 1}, AskPage(s, p)
  PROVE  /\ pc' \in {"send", "left"}
         /\ TExchange' /\ TPages' /\ TPaths' /\ TRow' /\ THeld' /\ TPlace' /\ Flight'
         /\ pc' = "send" => cmd' = Phase[phase]
  <1>1. /\ TPages /\ TPaths /\ TRow /\ THeld /\ TPlace
        /\ node \in Node /\ cycles \in Cycle /\ at \in 1..2 /\ at <= Paths(node)
        /\ Paths(node) \in 1..2 /\ page \in Nat /\ page < PageLimit + at - 1
        /\ loops \in 0..LoopLimit
        /\ cycles > 0 => Phase[phase] = "INSTANTANEOUS_PROFILE"
    BY Numbers, Bounds DEF Base, Sending
  <1>2. p \in Nat /\ p <= page + 1
    BY <1>1
  <1>3. CASE (p > page /\ p >= PageLimit) \/ loops >= LoopLimit
    BY <1>2, <1>3, PathDoneFacts DEF AskPage
  <1>4. CASE ~((p > page /\ p >= PageLimit) \/ loops >= LoopLimit)
    <2>1. /\ Transmit(Phase[phase], at, 0) /\ page' = p /\ loops' = loops + 1
          /\ paths' = [paths EXCEPT ![node] = s] /\ UNCHANGED <<row, cycles, held>>
      BY <1>4 DEF AskPage
    <2>2. p < PageLimit + at - 1 /\ loops + 1 \in 0..LoopLimit /\ p \in 0..(PageLimit + 1)
      BY <1>1, <1>2, <1>4, Bounds
    <2>3. Phase[phase] \in CommandsOf(Phase[phase])
      BY DEF CommandsOf, Profiles
    <2>4. pc' = "send" /\ TExchange' /\ Flight'
      BY <1>1, <1>2, <2>1, <2>2, <2>3, TransmitFacts
    <2>5. TPages' /\ TRow' /\ TPlace' /\ THeld'
      BY <1>1, <2>1, <2>2 DEF TPages, TRow, TPlace, THeld
    <2> QED
      BY <1>1, <2>1, <2>4, <2>5, SetPath DEF Transmit
  <1> QED
    BY <1>3, <1>4

-----------------------------------------------------------------------------
(* Types, the lock, the paths, and the command in flight. *)

LEMMA BaseInit == Init => Base
  <1> SUFFICES ASSUME Init PROVE Base
    OBVIOUS
  <1> USE DEF Init
  <1>1. TSchedule /\ TPages /\ TState /\ TResult /\ TDret
    BY Bounds DEF TSchedule, TPages, TState, TResult, TDret, Ends
  <1>2. TPlace
    BY Bounds DEF TPlace, Node, Cycle
  <1>3. TExchange
    <2>1. 0 \in 0..MaxRetries /\ 1 \in 1..2 /\ 0 \in 0..2
      BY Bounds
    <2> QED
      BY <2>1, Zenon DEF TExchange, Commands, Commissions
  <1>4. THeld /\ TOutside /\ Flight
    <2>1. MaxNoise \in 0..MaxNoise
      BY Bounds
    <2>2. TOutside
      BY <2>1, Zenon DEF TOutside
    <2> QED
      BY <2>2 DEF THeld, Flight, Sending
  <1>5. TAsked
    <2>1. \A n \in Node, c \in {"PING", "DLMS_CONNECT"} : Pending(n, c) \in Query
      BY Bounds DEF Pending, Query, Commands, Cycle
    <2>2. <<>> \in Seq(Query) /\ \A q \in Query : <<q>> \in Seq(Query)
      OBVIOUS
    <2>3. asked = <<>> \/ \E n \in Node, c \in {"PING", "DLMS_CONNECT"} :
                            asked = <<Pending(n, c)>>
      OBVIOUS
    <2>4. asked \in Seq(Query)
      BY <2>1, <2>2, <2>3
    <2> QED
      BY <2>4 DEF TAsked
  <1>6. TMeter /\ TRow
    BY DEF TMeter, TRow, Rows
  <1>7. TPaths
    <2>1. ASSUME NEW n \in Node
          PROVE  Lists([i \in 1..(1 + Alternates[n]) |-> i], Paths(n))
      <3> DEFINE s == [i \in 1..(1 + Alternates[n]) |-> i]
      <3>1. CASE Alternates[n] = 0
        <4>1. s = <<1>>
          BY <3>1
        <4> QED
          BY <3>1, <4>1 DEF Lists, Paths
      <3>2. CASE Alternates[n] = 1
        <4>1. s = <<1, 2>>
          BY <3>2
        <4> QED
          BY <3>2, <4>1 DEF Lists, Paths
      <3> QED
        BY <3>1, <3>2, Bounds
    <2> QED
      BY <2>1 DEF TPaths, PathsKept, PathSet, Lists, Paths
  <1>8. Lock
    BY DEF Lock, LockReleased
  <1> QED
    BY <1>1, <1>2, <1>3, <1>4, <1>5, <1>6, <1>7, <1>8 DEF Base

\* The exits of a cycle.
LEMMA ExitFacts ==
  ASSUME Base, Abort \/ Finish
  PROVE  /\ pc' = "idle" /\ hes' = FALSE /\ currentState' = "IDLE"
         /\ UNCHANGED <<phase, node>>
         /\ done_mask' \subseteq 0..3 /\ current_cycle_id' \in -1..3
         /\ Lock' /\ Flight' /\ TState'
  <1>1. done_mask \subseteq 0..3 /\ current_cycle_id \in -1..3
    BY DEF Base, TSchedule
  <1>2. /\ pc' = "idle" /\ hes' = FALSE /\ currentState' = "IDLE"
        /\ UNCHANGED <<phase, node>>
        /\ done_mask' \in {done_mask, done_mask \cup ({current_cycle_id} \ {-1})}
        /\ current_cycle_id' \in {current_cycle_id, -1}
    BY DEF Abort, Finish
  <1>3. current_cycle_id' \in -1..3
    BY <1>1, <1>2
  <1>4. {current_cycle_id} \ {-1} \subseteq 0..3
    BY <1>1
  <1>5. done_mask' \subseteq 0..3
    BY <1>1, <1>2, <1>4
  <1> QED
    BY <1>2, <1>3, <1>5 DEF Lock, LockReleased, Flight, TState, Sending

LEMMA NextNodeFacts ==
  ASSUME Base, pc = "left", NextNode
  PROVE  /\ phase' \in 1..8 /\ node' \in Node
         /\ done_mask' \subseteq 0..3 /\ current_cycle_id' \in -1..3
         /\ Lock' /\ Flight' /\ TState'
  <1>1. /\ phase \in 1..8 /\ node \in 1..NodeCount /\ 1 \in Node
        /\ done_mask \subseteq 0..3 /\ current_cycle_id \in -1..3 /\ TState
        /\ hes = TRUE
    BY Bounds DEF Base, TPlace, TSchedule, Node, Lock, LockReleased
  <1>2. CASE /\ node < NodeCount /\ node' = node + 1 /\ pc' = "visit"
             /\ UNCHANGED <<phase, hes, currentState, done_mask, current_cycle_id>>
    <2>1. node' \in Node
      BY <1>1, <1>2, Bounds DEF Node
    <2> QED
      BY <1>1, <1>2, <2>1 DEF Lock, LockReleased, Flight, TState, Sending
  <1>3. CASE /\ phase < Len(Phase) /\ phase' = phase + 1 /\ node' = 1 /\ pc' = "visit"
             /\ UNCHANGED <<hes, currentState, done_mask, current_cycle_id>>
    <2>1. phase' \in 1..8
      BY <1>1, <1>3, Phases
    <2> QED
      BY <1>1, <1>3, <2>1 DEF Lock, LockReleased, Flight, TState, Sending
  <1>4. CASE Finish
    BY <1>1, <1>4, ExitFacts DEF Node
  <1> QED
    BY <1>2, <1>3, <1>4 DEF NextNode

LEMMA LockKept ==
  ASSUME Base, pc # "idle", pc' \in {"visit", "left", "undefined"} \cup Sending,
         UNCHANGED hes
  PROVE  Lock'
  BY DEF Base, Lock, LockReleased, Sending

\* What the end of an exchange leaves alone, apart from the paths, the row, the
\* pages and the next command.
LEMMA DoneKept ==
  ASSUME Base, UNCHANGED <<schedule, phase, node, ret, armed, asked, meter, hes,
                           gatewayStatus, flags, noise, late>>
  PROVE  TSchedule' /\ TResult' /\ TAsked' /\ TMeter' /\ TOutside'
  BY DEF Base, schedule, flags, TSchedule, TResult, TAsked, TMeter, TOutside

\* A command of unsilence_all_nodes goes out on a path that exists.
Unsilence == {"FUOTA_STATUS", "FUOTA_DISABLE", "FLASH_SAVE", "SOFT_RESET"}
LEMMA CommissionSent ==
  ASSUME Base, pc = "done", cmd \in Unsilence, UNCHANGED <<phase, node, cycles, page>>,
         NEW c \in Unsilence, NEW i \in Nat, i >= 1, i <= Paths(node), Transmit(c, i, 0)
  PROVE  pc' = "send" /\ TExchange' /\ Flight'
  <1>1. /\ Phase[phase] = "SILENCED" /\ "SILENCED" \notin Profiles /\ page = 0
        /\ cycles \in Nat /\ ~(cycles > 0) /\ Paths(node) \in 1..2
    BY Numbers, Bounds, CommandFacts DEF Sending, Profiles, Unsilence, Cycle
  <1>2. i \in 1..2 /\ 0 \in 0..2 /\ 0 <= Paths(node) /\ 0 < PageLimit + i - 1
    BY <1>1, Bounds
  <1>3. c \in CommandsOf(Phase[phase])
    BY <1>1 DEF CommandsOf, Unsilence
  <1> QED
    BY <1>1, <1>2, <1>3, TransmitFacts

LEMMA ElsewhereFacts ==
  ASSUME Base, pc = "done", cmd \in Unsilence, UNCHANGED <<phase, node, cycles, page>>,
         DisableElsewhere
  PROVE  /\ pc' \in {"send", "left"} /\ TExchange' /\ Flight'
         /\ TState' /\ TPaths' /\ TRow' /\ TDret'
         /\ pc' = "send" => cmd' = "FUOTA_DISABLE"
  <1>1. TState' /\ TPaths' /\ TRow' /\ TDret'
    BY DEF Base, DisableElsewhere, TState, TPaths, PathsKept, PathSet, TRow, TDret
  <1>2. CASE MorePaths /\ Transmit("FUOTA_DISABLE", at + 1, 0)
    <2>1. pc' = "send" /\ TExchange' /\ Flight'
      BY <1>2, CommissionSent, Numbers DEF MorePaths, Unsilence
    <2> QED
      BY <1>1, <1>2, <2>1 DEF Transmit
  <1>3. CASE pc' = "left" /\ UNCHANGED exchange
    BY <1>1, <1>3 DEF Base, exchange, TExchange, Flight, Sending
  <1> QED
    BY <1>2, <1>3 DEF DisableElsewhere

LEMMA BaseStep == Base /\ [Next]_vars => Base'
  <1> SUFFICES ASSUME Base, [Next]_vars PROVE Base'
    OBVIOUS
  <1> USE DEF schedule, place, exchange, pages, flags, Unsilence
  <1>0. /\ TSchedule /\ TPlace /\ TExchange /\ TPages /\ TState /\ TResult /\ TDret
        /\ THeld /\ TAsked /\ TMeter /\ TRow /\ TOutside /\ TPaths /\ Lock /\ Flight
    BY DEF Base
  <1>1. CASE Visit
    <2> DEFINE k == Phase[phase]
    <2>1. /\ TSchedule' /\ TResult' /\ TDret' /\ TAsked' /\ TMeter' /\ TRow'
          /\ TOutside' /\ TPaths'
      BY <1>0, <1>1 DEF Visit, TSchedule, TResult, TDret, TAsked, TMeter, TRow,
                        TOutside, TPaths, PathsKept, PathSet
    <2>2. pc = "visit" /\ k \in Kinds /\ UNCHANGED <<phase, node, hes>>
      BY <1>1, Numbers DEF Visit
    <2>3. CASE row[node][k] = "lacking"
      <3>1. /\ Transmit(FirstCommand(k), 1, 0) /\ currentState' = FirstCommand(k)
            /\ page' = 0 /\ loops' = 1 /\ held' = [p \in Page |-> "none"]
            /\ cycles' \in Cycle
            /\ cycles' > 0 => k = "INSTANTANEOUS_PROFILE"
        BY <1>1, <2>3, Bounds DEF Visit, Cycle
      <3>2. FirstCommand(k) \in CommandsOf(k) /\ FirstCommand(k) \in Commands
        BY <2>2 DEF FirstCommand, CommandsOf, Kinds, Profiles, Commands, Commissions
      <3>3. /\ 1 <= Paths(node) /\ 0 <= Paths(node) /\ 0 < PageLimit + 1 - 1
            /\ 0 \in 0..(PageLimit + 1) /\ 1 \in 0..LoopLimit
        BY Numbers, Bounds
      <3>4. pc' = "send" /\ TExchange' /\ Flight'
        BY <2>2, <3>1, <3>2, <3>3, TransmitFacts
      <3>5. TPages' /\ TState' /\ THeld' /\ TPlace'
        BY <1>0, <2>2, <3>1, <3>2, <3>3 DEF TPages, TState, THeld, TPlace
      <3>6. Lock'
        BY <2>2, <3>4, LockKept DEF Sending
      <3> QED
        BY <2>1, <3>4, <3>5, <3>6 DEF Base
    <2>4. CASE row[node][k] # "lacking"
      <3>1. pc' = "left" /\ UNCHANGED <<exchange, currentState, pages, held, cycles>>
        BY <1>1, <2>4 DEF Visit
      <3>2. TExchange' /\ TPages' /\ TState' /\ THeld' /\ TPlace' /\ Flight'
        BY <1>0, <2>2, <3>1 DEF TExchange, TPages, TState, THeld, TPlace, Flight, Sending
      <3>3. Lock'
        BY <2>2, <3>1, LockKept
      <3> QED
        BY <2>1, <3>2, <3>3 DEF Base
    <2> QED
      BY <2>3, <2>4
  <1>2. CASE ScalarPhase
    <2>1. /\ TExchange' /\ TPages' /\ TDret' /\ THeld' /\ TAsked' /\ TMeter' /\ TRow'
          /\ TOutside' /\ TPaths'
      BY <1>0, <1>2 DEF ScalarPhase, TExchange, TPages, TDret, THeld, TAsked, TMeter,
                        TRow, TOutside, TPaths, PathsKept, PathSet
    <2>2. pc = "visit" /\ phase \in 1..7 /\ phase \in 1..8
      <3>1. phase \in 1..8 /\ Phase[phase] = "SCALAR"
        BY <1>2, Numbers DEF ScalarPhase
      <3>2. Phase[8] # "SCALAR"
        BY DEF Phase
      <3> QED
        BY <1>2, <3>1, <3>2 DEF ScalarPhase
    <2>3. UNCHANGED <<window, new_hour, cycles, ret>>
      BY <1>2 DEF ScalarPhase
    <2>4. CASE /\ phase' = phase + 1 /\ node' = 1
               /\ UNCHANGED <<pc, hes, currentState, done_mask, current_cycle_id,
                              gatewayStatus>>
      <3>1. phase' \in 1..8 /\ node' \in Node
        BY <2>2, <2>4, Bounds DEF Node
      <3>2. TSchedule' /\ TPlace' /\ TState' /\ TResult' /\ Lock' /\ Flight'
        BY <1>0, <2>2, <2>3, <2>4, <3>1
           DEF TSchedule, TPlace, TState, TResult, Lock, LockReleased, Flight, Sending
      <3> QED
        BY <2>1, <3>2 DEF Base
    <2>5. CASE gatewayStatus' = "DISCONNECTED" /\ Abort
      <3>1. /\ UNCHANGED <<phase, node>> /\ Lock' /\ Flight' /\ TState'
            /\ done_mask' \subseteq 0..3 /\ current_cycle_id' \in -1..3
        BY <2>5, ExitFacts
      <3>2. TSchedule' /\ TPlace' /\ TResult'
        BY <1>0, <2>3, <2>5, <3>1 DEF TSchedule, TPlace, TResult
      <3> QED
        BY <2>1, <3>1, <3>2 DEF Base
    <2> QED
      BY <1>2, <2>4, <2>5 DEF ScalarPhase
  <1>3. CASE Leave
    <2>1. TAsked' /\ TMeter' /\ TRow' /\ TOutside' /\ TPaths'
      BY <1>0, <1>3 DEF Leave, TAsked, TMeter, TRow, TOutside, TPaths, PathsKept, PathSet
    <2>2. /\ cmd' = "FUOTA_STATUS" /\ at' = 1 /\ rat' = 0 /\ retry' = 0 /\ got' = FALSE
          /\ page' = 0 /\ loops' = 0 /\ ret' = "SUCCESS" /\ dret' = "SUCCESS"
          /\ cycles' = 0 /\ held' = [p \in Page |-> "none"]
          /\ pc = "left" /\ UNCHANGED <<window, new_hour, gatewayStatus>>
      BY <1>3 DEF Leave, LocalsGone
    <2>3. /\ 0 \in 0..MaxRetries /\ 1 \in 1..2 /\ 0 \in 0..2 /\ 0 \in 0..(PageLimit + 1)
          /\ 0 \in 0..LoopLimit /\ 0 \in Cycle
          /\ "FUOTA_STATUS" \in Commands /\ "SUCCESS" \in Ends
      BY Bounds DEF Cycle, Commands, Commissions, Ends
    <2>4. TExchange' /\ TPages' /\ TResult' /\ TDret' /\ THeld'
      BY <1>0, <2>2, <2>3 DEF TExchange, TPages, TResult, TDret, THeld
    <2>5. /\ phase' \in 1..8 /\ node' \in Node
          /\ done_mask' \subseteq 0..3 /\ current_cycle_id' \in -1..3
          /\ Lock' /\ Flight' /\ TState'
      <3>1. CASE Abort
        BY <3>1, ExitFacts, Numbers
      <3>2. CASE NextNode
        BY <2>2, <3>2, NextNodeFacts
      <3> QED
        BY <1>3, <3>1, <3>2 DEF Leave
    <2>6. TSchedule' /\ TPlace'
      BY <1>0, <2>2, <2>3, <2>5 DEF TSchedule, TPlace
    <2> QED
      BY <2>1, <2>4, <2>5, <2>6 DEF Base
  <1>4. CASE Send
    <2>1. /\ TSchedule' /\ TPlace' /\ TExchange' /\ TPages' /\ TState' /\ TDret'
          /\ THeld' /\ TMeter' /\ TRow' /\ TPaths'
      BY <1>0, <1>4 DEF Send, TSchedule, TPlace, TExchange, TPages, TState, TDret,
                        THeld, TMeter, TRow, TPaths, PathsKept, PathSet
    <2>2. pc = "send" /\ UNCHANGED <<phase, node, cycles, exchange, page, hes, flags, noise>>
      BY <1>4 DEF Send
    <2>3. CASE /\ pc' = "recv" /\ armed' = TRUE
               /\ asked' = Due(Frame) /\ late' = (late \/ asked # <<>>)
               /\ UNCHANGED <<ret, gatewayStatus>>
      <3>1. TAsked' /\ TResult'
        BY <1>0, <2>2, <2>3, DueFacts DEF TAsked, TResult
      <3>2. late' \in BOOLEAN
        BY <2>3
      <3>3. TOutside'
        BY <1>0, <2>2, <3>2 DEF TOutside
      <3>4. Lock' /\ Flight'
        BY <1>0, <2>2, <2>3, LockKept DEF Flight, Sending
      <3> QED
        BY <2>1, <3>1, <3>3, <3>4 DEF Base
    <2>4. CASE /\ Exhausted /\ gatewayStatus' = "DISCONNECTED"
               /\ UNCHANGED <<armed, asked, late>>
      <3>1. TAsked' /\ TResult' /\ TOutside'
        BY <1>0, <2>2, <2>4 DEF TAsked, TResult, TOutside, Exhausted
      <3>2. Lock' /\ Flight'
        BY <1>0, <2>2, <2>4, LockKept DEF Flight, Sending, Exhausted
      <3> QED
        BY <2>1, <3>1, <3>2 DEF Base
    <2> QED
      BY <1>4, <2>3, <2>4 DEF Send
  <1>5. CASE RecvNothing
    <2>1. /\ TSchedule' /\ TPlace' /\ TPages' /\ TState' /\ TDret'
          /\ THeld' /\ TAsked' /\ TMeter' /\ TRow' /\ TOutside' /\ TPaths'
      BY <1>0, <1>5 DEF RecvNothing, TSchedule, TPlace, TPages, TState, TDret, THeld,
                        TAsked, TMeter, TRow, TOutside, TPaths, PathsKept, PathSet
    <2>2. pc = "recv" /\ UNCHANGED <<cmd, at, rat, phase, node, cycles, page, got, hes>>
      BY <1>5 DEF RecvNothing
    <2>3. /\ pc' \in Sending /\ retry' \in 0..MaxRetries /\ TResult'
          /\ pc' # "done" => retry' < MaxRetries
      <3>1. CASE /\ Exhausted /\ UNCHANGED retry
                 /\ gatewayStatus' \in {"DISCONNECTED", gatewayStatus}
        BY <1>0, <3>1, Numbers DEF Exhausted, TResult, Sending
      <3>2. CASE TryAgain(got)
        <4>1. got \in BOOLEAN
          BY <1>0 DEF TExchange
        <4> QED
          BY <2>2, <3>2, <4>1, TryAgainFacts DEF Sending
      <3> QED
        BY <1>5, <3>1, <3>2 DEF RecvNothing
    <2>4. got' \in BOOLEAN
      BY <1>0, <2>2 DEF TExchange
    <2>5. TExchange' /\ Flight'
      BY <2>2, <2>3, <2>4, FlightKept
    <2>6. Lock'
      BY <2>2, <2>3, LockKept
    <2> QED
      BY <2>1, <2>3, <2>5, <2>6 DEF Base
  <1>6. ASSUME RecvAnswer \/ RecvReport \/ RecvPush
        PROVE  Base'
    <2>1. /\ pc = "recv"
          /\ UNCHANGED <<schedule, place, paths, cmd, at, rat, currentState, pages,
                         dret, row, hes, flags, late>>
      BY <1>6 DEF RecvAnswer, RecvReport, RecvPush
    <2>2. /\ TSchedule' /\ TPlace' /\ TPages' /\ TState' /\ TDret' /\ TRow' /\ TPaths'
      BY <1>0, <2>1 DEF TSchedule, TPlace, TPages, TState, TDret, TRow, TPaths,
                        PathsKept, PathSet
    <2>3. asked \in Seq(Query) /\ armed \in BOOLEAN /\ noise \in 0..MaxNoise
      BY <1>0 DEF TAsked, TOutside
    <2>4. /\ \E c \in Codes, left \in BOOLEAN : Received(c, left)
          /\ asked' \in Seq(Query) /\ THeld' /\ TMeter' /\ noise' \in 0..MaxNoise
      <3>1. CASE RecvAnswer
        <4> DEFINE q == Head(asked)
                   ours == armed /\ q.node = node
        <4>1. q \in Query /\ asked' \in Seq(Query)
          BY <2>3, <3>1, AskedTail DEF RecvAnswer
        <4>2. PICK whole \in BOOLEAN, packed \in BOOLEAN :
                /\ packed => noise > 0
                /\ noise' = noise - IF packed THEN 1 ELSE 0
                /\ meter' = IF whole THEN Obey(q) ELSE meter
                /\ IF ours THEN Store(q, whole) ELSE held' = held
                /\ \E c \in IF ~ours THEN {"INVALID"}
                            ELSE IF whole THEN ReadAnswer(q, currentState)
                            ELSE ReadRefusal(q, currentState) :
                     Received(IF packed THEN "PUSH" ELSE c, FALSE)
          BY <3>1, Zenon DEF RecvAnswer
        <4> HIDE DEF ours, q
        <4>3. \E c \in Codes, left \in BOOLEAN : Received(c, left)
          <5>1. PICK c \in IF ~ours THEN {"INVALID"}
                           ELSE IF whole THEN ReadAnswer(q, currentState)
                           ELSE ReadRefusal(q, currentState) :
                  Received(IF packed THEN "PUSH" ELSE c, FALSE)
            BY <4>2
          <5>2. c \in Codes /\ "PUSH" \in Codes
            BY <4>1, <5>1, AnswerCodes DEF Codes, Waits
          <5> QED
            BY <5>1, <5>2
        <4>4. THeld'
          <5>1. CASE ours
            BY <4>1, <4>2, <5>1, StoreFacts
          <5>2. CASE ~ours
            BY <1>0, <4>2, <5>2 DEF THeld
          <5> QED
            BY <5>1, <5>2
        <4>5. TMeter'
          BY <1>0, <4>1, <4>2, ObeyFacts DEF TMeter
        <4>6. noise' \in 0..MaxNoise
          BY <2>3, <4>2, Bounds
        <4> QED
          BY <4>1, <4>3, <4>4, <4>5, <4>6
      <3>2. CASE RecvReport
        <4>1. THeld' /\ TMeter'
          BY <1>0, <3>2 DEF RecvReport, THeld, TMeter
        <4>2. /\ asked # <<>> /\ asked' \in {asked, Tail(asked)}
              /\ noise' = noise \/ (noise > 0 /\ noise' = noise - 1)
          BY <3>2 DEF RecvReport
        <4>3. asked' \in Seq(Query) /\ noise' \in 0..MaxNoise
          BY <2>3, <4>2, AskedTail, Bounds
        <4>4. \E c \in Codes, left \in BOOLEAN : Received(c, left)
          <5>1. {"FAILURE", "INVALID", "IN_PROGRESS"} \subseteq Codes
            BY DEF Codes, Waits
          <5> QED
            BY <3>2, <5>1 DEF RecvReport
        <4> QED
          BY <4>1, <4>3, <4>4
      <3>3. CASE RecvPush
        <4>1. THeld' /\ TMeter' /\ asked' = asked
          BY <1>0, <3>3 DEF RecvPush, THeld, TMeter
        <4>2. noise' \in 0..MaxNoise
          BY <2>3, <3>3, Bounds DEF RecvPush
        <4>3. \E c \in Codes, left \in BOOLEAN : Received(c, left)
          BY <2>3, <3>3 DEF RecvPush, Codes, Waits
        <4> QED
          BY <2>3, <4>1, <4>2, <4>3
      <3> QED
        BY <1>6, <3>1, <3>2, <3>3
    <2>5. /\ pc' \in Sending /\ retry' \in 0..MaxRetries
          /\ pc' # "done" => retry' < MaxRetries
          /\ TResult' /\ got' = TRUE /\ armed' \in BOOLEAN
      BY <2>1, <2>4, ReceivedFacts
    <2>6. TExchange' /\ Flight'
      BY <2>1, <2>5, FlightKept
    <2>7. TAsked' /\ TOutside'
      BY <1>0, <2>1, <2>4, <2>5 DEF TAsked, TOutside
    <2>8. Lock'
      BY <2>1, <2>5, LockKept
    <2> QED
      BY <2>2, <2>4, <2>5, <2>6, <2>7, <2>8 DEF Base
  <1>7. CASE Lose
    <2>1. /\ TSchedule' /\ TPlace' /\ TExchange' /\ TPages' /\ TState' /\ TResult' /\ TDret'
          /\ THeld' /\ TRow' /\ TOutside' /\ TPaths'
      BY <1>0, <1>7 DEF Lose, TSchedule, TPlace, TExchange, TPages, TState, TResult,
                        TDret, THeld, TRow, TOutside, TPaths, PathsKept, PathSet
    <2>2. /\ UNCHANGED <<pc, hes, place, exchange, page, armed>>
          /\ asked # <<>> /\ asked' = Tail(asked)
          /\ meter' \in {meter, Obey(Head(asked))}
      BY <1>7 DEF Lose
    <2>3. asked' \in Seq(Query) /\ Head(asked) \in Query
      BY <1>0, <2>2, AskedTail DEF TAsked
    <2>4. TAsked' /\ TMeter'
      BY <1>0, <2>2, <2>3, ObeyFacts DEF TAsked, TMeter
    <2>5. Lock' /\ Flight'
      BY <1>0, <2>2 DEF Lock, LockReleased, Flight
    <2> QED
      BY <2>1, <2>4, <2>5 DEF Base
  <1>8. CASE StatusDone
    <2>1. /\ TSchedule' /\ TResult' /\ TAsked' /\ TMeter' /\ TOutside'
      BY <1>8, DoneKept DEF StatusDone
    <2>2. TPlace' /\ TPages' /\ TDret' /\ THeld'
      BY <1>0, <1>8 DEF StatusDone, TPlace, TPages, TDret, THeld
    <2>3. /\ pc = "done" /\ cmd = "FUOTA_STATUS"
          /\ UNCHANGED <<phase, node, cycles, page, hes>>
      BY <1>8 DEF StatusDone
    <2>6. TPaths'
      BY <1>0, <1>8, <2>3, PromoteFacts DEF StatusDone, Sending, TPaths, PathsKept, PathSet
    <2>7. TRow'
      <3>1. CASE DeleteSilenced
        BY <3>1, FillFacts DEF DeleteSilenced, Kinds
      <3>2. CASE UNCHANGED row
        BY <1>0, <3>2 DEF TRow
      <3> QED
        BY <1>8, <3>1, <3>2 DEF StatusDone
    <2>8. TState'
      BY <1>0, <1>8 DEF StatusDone, TState, Commands, Commissions
    <2>9. pc' \in {"send", "left"} /\ TExchange' /\ Flight'
      <3>1. CASE pc' = "left" /\ UNCHANGED exchange
        BY <1>0, <3>1 DEF TExchange, Flight, Sending
      <3>2. CASE Transmit("FUOTA_DISABLE", 1, 0)
        BY <2>3, <3>2, CommissionSent, Numbers
      <3>3. CASE MorePaths /\ Transmit("FUOTA_STATUS", at + 1, 0)
        BY <2>3, <3>3, CommissionSent, Numbers DEF MorePaths
      <3> QED
        BY <1>8, <3>1, <3>2, <3>3 DEF StatusDone
    <2>10. Lock'
      BY <2>3, <2>9, LockKept DEF Sending
    <2> QED
      BY <2>1, <2>2, <2>6, <2>7, <2>8, <2>9, <2>10 DEF Base
  <1>9. ASSUME DisableDone \/ FlashDone \/ ResetDone
        PROVE  Base'
    <2>1. /\ TSchedule' /\ TResult' /\ TAsked' /\ TMeter' /\ TOutside'
      BY <1>9, DoneKept DEF DisableDone, FlashDone, ResetDone
    <2>2. /\ pc = "done" /\ cmd \in Unsilence
          /\ UNCHANGED <<phase, node, cycles, page, loops, held, hes>>
      BY <1>9 DEF DisableDone, FlashDone, ResetDone
    <2>3. TPlace' /\ TPages' /\ THeld'
      BY <1>0, <2>2 DEF TPlace, TPages, THeld
    <2>4. /\ pc' \in {"send", "left"} /\ TExchange' /\ Flight'
          /\ TState' /\ TPaths' /\ TRow' /\ TDret'
      <3>1. CASE DisableElsewhere
        BY <2>2, <3>1, ElsewhereFacts
      <3>2. CASE /\ DisableDone /\ (ret = "SUCCESS" \/ (at > 1 /\ ret # "FAILURE"))
                 /\ Transmit("FLASH_SAVE", at, 0) /\ currentState' = "FLASH_SAVE"
                 /\ dret' = ret /\ UNCHANGED <<paths, row>>
        <4>1. pc' = "send" /\ TExchange' /\ Flight'
          BY <2>2, <3>2, CommissionSent, Numbers DEF Sending
        <4>2. TState' /\ TPaths' /\ TRow'
          BY <1>0, <3>2 DEF TState, TPaths, PathsKept, PathSet, TRow, Commands, Commissions
        <4>3. TDret'
          BY <1>0, <3>2 DEF TDret, TResult, Ends
        <4> QED
          BY <4>1, <4>2, <4>3
      <3>3. CASE /\ Transmit("SOFT_RESET", at, 0) /\ currentState' = "SOFT_RESET"
                 /\ UNCHANGED <<dret, paths, row>>
        <4>1. pc' = "send" /\ TExchange' /\ Flight'
          BY <2>2, <3>3, CommissionSent, Numbers DEF Sending
        <4>2. TState' /\ TPaths' /\ TRow' /\ TDret'
          BY <1>0, <3>3 DEF TState, TPaths, PathsKept, PathSet, TRow, TDret,
                            Commands, Commissions
        <4> QED
          BY <4>1, <4>2
      <3>4. CASE /\ Promote /\ pc' = "left" /\ (DeleteSilenced \/ row' = row)
                 /\ UNCHANGED <<exchange, currentState, dret>>
        <4>1. TPaths'
          BY <2>2, <3>4, PromoteFacts DEF Sending
        <4>2. TRow'
          BY <1>0, <3>4, FillFacts DEF DeleteSilenced, TRow, Kinds
        <4>3. TState' /\ TDret' /\ TExchange' /\ Flight'
          BY <1>0, <3>4 DEF TState, TDret, TExchange, Flight, Sending
        <4> QED
          BY <3>4, <4>1, <4>2, <4>3
      <3> QED
        BY <1>9, <3>1, <3>2, <3>3, <3>4 DEF DisableDone, FlashDone, ResetDone
    <2>5. Lock'
      BY <2>2, <2>4, LockKept DEF Sending
    <2> QED
      BY <2>1, <2>3, <2>4, <2>5 DEF Base
  <1>10. CASE FirmwareDone
    <2>1. /\ TSchedule' /\ TResult' /\ TAsked' /\ TMeter' /\ TOutside'
      BY <1>10, DoneKept DEF FirmwareDone
    <2>2. /\ pc = "done" /\ cmd = "INTERNAL_FV"
          /\ UNCHANGED <<phase, node, cycles, page, loops, held, dret, hes>>
      BY <1>10 DEF FirmwareDone
    <2>3. TPlace' /\ TPages' /\ THeld' /\ TDret'
      BY <1>0, <2>2 DEF TPlace, TPages, THeld, TDret
    <2>4. /\ Phase[phase] = "INTERNAL_FV" /\ "INTERNAL_FV" \notin Profiles /\ page = 0
          /\ cycles \in Nat /\ ~(cycles > 0) /\ Paths(node) \in 1..2 /\ at \in 1..2
          /\ Len(paths[node]) = Paths(node)
      BY SMTT(30), <2>2, Numbers, Bounds, CommandFacts DEF Sending, Profiles, Cycle
    <2>5. TState'
      BY <1>0, <1>10 DEF FirmwareDone, TState
    <2>6. /\ pc' \in {"send", "left"} /\ TExchange' /\ Flight' /\ TPaths' /\ TRow'
      <3>1. CASE /\ Promote /\ Insert("INTERNAL_FV") /\ pc' = "left"
                 /\ UNCHANGED exchange
        <4>1. TPaths' /\ TRow'
          BY <2>2, <3>1, PromoteFacts, InsertFacts DEF Sending, Kinds
        <4> QED
          BY <1>0, <3>1, <4>1 DEF TExchange, Flight, Sending
      <3>2. CASE /\ MorePaths /\ Transmit("INTERNAL_FV", at + 1, 0)
                 /\ UNCHANGED <<paths, row>>
        <4>1. /\ at + 1 \in 1..2 /\ at + 1 <= Paths(node) /\ 0 <= Paths(node)
              /\ 0 \in 0..2 /\ 0 < PageLimit + (at + 1) - 1
          BY <2>4, <3>2, Bounds DEF MorePaths
        <4>2. "INTERNAL_FV" \in CommandsOf(Phase[phase])
          BY <2>4 DEF CommandsOf
        <4>3. pc' = "send" /\ TExchange' /\ Flight'
          BY <2>2, <2>4, <3>2, <4>1, <4>2, TransmitFacts
        <4> QED
          BY <1>0, <3>2, <4>3 DEF TPaths, PathsKept, PathSet, TRow
      <3>3. CASE pc' = "left" /\ UNCHANGED <<exchange, paths, row>>
        BY <1>0, <3>3 DEF TExchange, Flight, Sending, TPaths, PathsKept, PathSet, TRow
      <3> QED
        BY <1>10, <3>1, <3>2, <3>3 DEF FirmwareDone
    <2>7. Lock'
      BY <2>2, <2>6, LockKept DEF Sending
    <2> QED
      BY <2>1, <2>3, <2>5, <2>6, <2>7 DEF Base
  <1>11. CASE PageDone
    <2>1. /\ TSchedule' /\ TResult' /\ TAsked' /\ TMeter' /\ TOutside'
      BY <1>11, DoneKept DEF PageDone
    <2>2. /\ pc = "done" /\ cmd \in Profiles /\ UNCHANGED <<phase, node, dret, hes>>
      BY <1>11 DEF PageDone
    <2>3. Phase[phase] \in Profiles /\ Lists(paths[node], Paths(node)) /\ page \in Nat
      BY <2>2, Numbers, Bounds, CommandFacts DEF Sending
    <2>4. TDret' /\ TState'
      BY <1>0, <1>11, <2>2 DEF PageDone, TDret, TState, Commands
    <2>5. /\ pc' \in {"send", "left"}
          /\ TExchange' /\ TPages' /\ TPaths' /\ TRow' /\ THeld' /\ TPlace' /\ Flight'
      <3>1. CASE AskPage(paths[node], page + 1)
        BY <2>2, <2>3, <3>1, AskPageFacts
      <3>2. ASSUME NEW c, PathDone(c, paths[node], page)
            PROVE  /\ pc' \in {"send", "left"}
                   /\ TExchange' /\ TPages' /\ TPaths' /\ TRow' /\ THeld' /\ TPlace'
                   /\ Flight'
        <4>1. page <= page + 1
          BY <2>3
        <4> QED
          BY <2>2, <2>3, <3>2, <4>1, PathDoneFacts
      <3>3. CASE /\ Transmit("DLMS_CONNECT", at, 0)
                 /\ UNCHANGED <<paths, row, pages, cycles, held>>
        <4>1. "DLMS_CONNECT" \in CommandsOf(Phase[phase])
          BY <2>3 DEF CommandsOf, Profiles
        <4>2. /\ at \in 1..2 /\ at <= Paths(node) /\ 0 \in 0..2 /\ 0 <= Paths(node)
              /\ page' < PageLimit + at - 1 /\ page' \in Nat
              /\ cycles' > 0 => Phase[phase] = "INSTANTANEOUS_PROFILE"
          BY <2>2, <2>3, <3>3, Numbers DEF Sending
        <4>3. pc' = "send" /\ TExchange' /\ Flight'
          BY <2>2, <2>3, <3>3, <4>1, <4>2, TransmitFacts
        <4> QED
          BY <1>0, <2>2, <3>3, <4>3
             DEF TPages, TPaths, PathsKept, PathSet, TRow, THeld, TPlace
      <3> QED
        BY <1>11, <3>1, <3>2, <3>3 DEF PageDone
    <2>6. Lock'
      BY <2>2, <2>5, LockKept DEF Sending
    <2> QED
      BY <2>1, <2>4, <2>5, <2>6 DEF Base
  <1>12. CASE ReconnectDone
    <2>1. /\ TSchedule' /\ TResult' /\ TAsked' /\ TMeter' /\ TOutside'
      BY <1>12, DoneKept DEF ReconnectDone
    <2>2. /\ pc = "done" /\ cmd = "DLMS_CONNECT" /\ UNCHANGED <<phase, node, dret, hes>>
          /\ currentState' = IF pc' = "send" THEN cmd' ELSE Phase[phase]
      BY <1>12 DEF ReconnectDone
    <2>3. /\ Phase[phase] \in Profiles /\ Lists(paths[node], Paths(node)) /\ page \in Nat
          /\ rat \in 0..2 /\ rat # 1 /\ rat <= Paths(node) /\ Paths(node) \in 1..2
          /\ Len(paths[node]) = Paths(node) /\ "DLMS_CONNECT" \in CommandsOf(Phase[phase])
      BY <2>2, Numbers, Bounds, CommandFacts DEF Sending
    <2>4. TDret'
      BY <1>0, <2>2 DEF TDret
    <2>5. /\ pc' \in {"send", "left", "undefined"}
          /\ TExchange' /\ TPages' /\ TPaths' /\ TRow' /\ THeld' /\ TPlace' /\ Flight'
      <3>1. ASSUME NEW s, Lists(s, Paths(node)), AskPage(s, page)
            PROVE  /\ pc' \in {"send", "left"}
                   /\ TExchange' /\ TPages' /\ TPaths' /\ TRow' /\ THeld' /\ TPlace'
                   /\ Flight'
        BY <2>2, <2>3, <3>1, AskPageFacts
      <3>2. CASE rat = 0 /\ AskPage(paths[node], page)
        BY <2>3, <3>1, <3>2
      <3>3. CASE rat > 0 /\ AskPage(Reconnected(paths[node], rat), page)
        <4>1. Lists(Reconnected(paths[node], rat), Paths(node))
          BY <2>3, <3>3, Reordered
        <4> QED
          BY <3>1, <3>3, <4>1
      <3>4. CASE pc' = "undefined" /\ UNCHANGED <<paths, row, exchange, pages, cycles, held>>
        BY <1>0, <2>2, <3>4 DEF TExchange, TPages, TPaths, PathsKept, PathSet, TRow,
                                THeld, TPlace, Flight, Sending
      <3>5. CASE PathDone("DLMS_CONNECTION_FAILED", paths[node], page)
        <4>1. page <= page + 1
          BY <2>3
        <4> QED
          BY <2>2, <2>3, <3>5, <4>1, PathDoneFacts
      <3>6. ASSUME NEW r, r = IF rat = 0 THEN 2 ELSE rat + 1, r <= Len(paths[node]),
                   Transmit("DLMS_CONNECT", at, r),
                   UNCHANGED <<paths, row, pages, cycles, held>>
            PROVE  /\ pc' = "send"
                   /\ TExchange' /\ TPages' /\ TPaths' /\ TRow' /\ THeld' /\ TPlace'
                   /\ Flight'
        <4>1. r \in 0..2 /\ r # 1 /\ r <= Paths(node)
          BY <2>3, <3>6
        <4>2. /\ at \in 1..2 /\ at <= Paths(node)
              /\ page' < PageLimit + at - 1 /\ page' \in Nat
              /\ cycles' > 0 => Phase[phase] = "INSTANTANEOUS_PROFILE"
          BY <2>2, <2>3, <3>6, Numbers DEF Sending
        <4>3. pc' = "send" /\ TExchange' /\ Flight'
          BY <2>2, <2>3, <3>6, <4>1, <4>2, TransmitFacts
        <4> QED
          BY <1>0, <2>2, <3>6, <4>3
             DEF TPages, TPaths, PathsKept, PathSet, TRow, THeld, TPlace
      <3>7. CASE ReconnectOk
        BY <3>2, <3>3, <3>4, <3>7 DEF ReconnectOk
      <3>8. CASE ReconnectFailed
        BY <3>5, <3>6, <3>8 DEF ReconnectFailed
      <3> QED
        BY <1>12, <3>7, <3>8 DEF ReconnectDone
    <2>6. TState'
      <3>1. pc' = "send" => cmd' \in Commands
        BY <2>5 DEF TExchange
      <3> QED
        BY <2>2, <2>3, <3>1 DEF TState, Commands
    <2>7. Lock'
      BY <2>2, <2>5, LockKept DEF Sending
    <2> QED
      BY <2>1, <2>4, <2>5, <2>6, <2>7 DEF Base
  <1>13. CASE Tick
    <2>1. /\ TPlace' /\ TExchange' /\ TPages' /\ TState' /\ TResult' /\ TDret'
          /\ THeld' /\ TAsked' /\ TMeter' /\ TOutside' /\ TPaths' /\ Lock' /\ Flight'
      BY <1>0, <1>13 DEF Tick, TPlace, TExchange, TPages, TState, TResult, TDret, THeld,
           TAsked, TMeter, TOutside, TPaths, PathsKept, PathSet, Lock, LockReleased,
           Flight, Sending
    <2>2. TSchedule'
      <3>1. window' \in 0..8 /\ UNCHANGED <<done_mask, current_cycle_id>>
        BY <1>0, <1>13, Bounds DEF Tick, TSchedule
      <3>2. new_hour' \in BOOLEAN
        BY <1>0, <1>13, Zenon DEF Tick, TSchedule
      <3> QED
        BY <1>0, <3>1, <3>2 DEF TSchedule
    <2>3. TRow'
      BY <1>0, <1>13 DEF Tick, TRow
    <2> QED
      BY <2>1, <2>2, <2>3 DEF Base
  <1>14. CASE StartCycle
    <2>1. /\ TExchange' /\ TPages' /\ TState' /\ TResult' /\ TDret'
          /\ THeld' /\ TAsked' /\ TMeter' /\ TRow' /\ TOutside' /\ TPaths'
      BY <1>0, <1>14 DEF StartCycle, TExchange, TPages, TState, TResult, TDret, THeld,
           TAsked, TMeter, TRow, TOutside, TPaths, PathsKept, PathSet
    <2>2. TSchedule'
      <3>1. PICK due \in BOOLEAN : Schedule(due)
        BY <1>14 DEF StartCycle
      <3>2. CycleId(window) \in -1..3 /\ -1 \in -1..3
        BY <1>0, CycleIds DEF TSchedule
      <3>3. current_cycle_id' \in -1..3
        BY <1>0, <3>1, <3>2 DEF Schedule, TSchedule
      <3>4. done_mask' \subseteq 0..3 /\ new_hour' = FALSE
        BY <1>0, <3>1 DEF Schedule, DoneInHour, TSchedule
      <3>5. window' = window
        BY <1>14 DEF StartCycle
      <3> QED
        BY <1>0, <3>3, <3>4, <3>5 DEF TSchedule
    <2>3. 1 \in 1..8 /\ 1 \in Node
      BY Bounds DEF Node
    <2>4. TPlace' /\ Lock' /\ Flight'
      <3>1. /\ pc = "idle" /\ hes = FALSE
            /\ UNCHANGED <<cycles, exchange, pages, currentState, ret>>
        BY <1>0, <1>14 DEF StartCycle, Lock, LockReleased, TOutside
      <3>2. CASE UNCHANGED <<pc, hes, phase, node>>
        BY <1>0, <3>1, <3>2 DEF TPlace, Lock, LockReleased, Flight, exchange, pages
      <3>3. CASE hes' = TRUE /\ pc' = "visit" /\ phase' = 1 /\ node' = 1
        <4>1. TPlace'
          BY <1>0, <2>3, <3>1, <3>3 DEF TPlace
        <4>2. Lock'
          BY <3>3 DEF Lock, LockReleased
        <4>3. Flight'
          BY <1>0, <3>1, <3>3, Phases DEF Flight, Sending, exchange, pages
        <4> QED
          BY <4>1, <4>2, <4>3
      <3> QED
        BY <1>14, <3>2, <3>3 DEF StartCycle
    <2> QED
      BY <2>1, <2>2, <2>4 DEF Base
  <1>15. ASSUME RequestQueued \/ RequestServed \/ Duplicate
         PROVE  Base'
    <2>1. /\ UNCHANGED <<pc, schedule, place, paths, exchange, currentState, pages, ret,
                dret, armed, held, asked, meter, row, hes, gatewayStatus, noise, late>>
          /\ duplicate_gateway' \in {duplicate_gateway, TRUE}
          /\ ODM_Flag' \in {ODM_Flag, TRUE, FALSE}
      BY <1>15 DEF RequestQueued, RequestServed, Duplicate
    <2>2. TOutside'
      <3>1. duplicate_gateway' \in BOOLEAN /\ ODM_Flag' \in BOOLEAN
        BY <1>0, <2>1 DEF TOutside
      <3> QED
        BY <1>0, <2>1, <3>1 DEF TOutside
    <2>3. /\ TSchedule' /\ TPlace' /\ TExchange' /\ TPages' /\ TState' /\ TResult' /\ TDret'
          /\ THeld' /\ TAsked' /\ TMeter' /\ TRow' /\ TPaths' /\ Lock' /\ Flight'
      BY <1>0, <2>1 DEF TSchedule, TPlace, TExchange, TPages, TState, TResult, TDret,
           THeld, TAsked, TMeter, TRow, TPaths, PathsKept, PathSet, Lock, LockReleased,
           Flight
    <2> QED
      BY <2>2, <2>3 DEF Base
  <1>16. CASE UNCHANGED vars
    BY <1>0, <1>16 DEF vars, Base, TSchedule, TPlace, TExchange, TPages, TState, TResult,
         TDret, THeld, TAsked, TMeter, TRow, TOutside, TPaths, PathsKept, PathSet, Lock,
         LockReleased, Flight
  <1> QED
    BY <1>1, <1>2, <1>3, <1>4, <1>5, <1>6, <1>7, <1>8, <1>9, <1>10, <1>11, <1>12,
       <1>13, <1>14, <1>15, <1>16 DEF Next, Handler

\* Every counter of the cycle stays in its bounds, whatever the meters answer.
\* The page is one past the limit at most: a primary path that stopped at the
\* limit leaves it to the alternate, which may be told of one more page.
THEOREM TypeCorrect == Spec => []TypeOK
  <1>1. Base => TypeOK
    BY Phases DEF Base, TypeOK, TSchedule, TPlace, TExchange, TPages, TState, TResult,
         TDret, THeld, TAsked, TMeter, TRow, TOutside, TPaths, Lock, Sending
  <1> QED
    BY BaseInit, BaseStep, <1>1, PTL DEF Spec

\* The network is taken from the NMS only while a cycle runs, and given back
\* on every way out of it.
THEOREM LockSafe == Spec => []LockReleased
  <1>1. Base => LockReleased
    BY DEF Base, Lock
  <1> QED
    BY BaseInit, BaseStep, <1>1, PTL DEF Spec

\* No path of a node is lost or doubled by promoting an alternate or by
\* reconnecting on one, whatever fails in between.
THEOREM PathsSafe == Spec => []PathsKept
  <1>1. Base => PathsKept
    BY DEF Base, TPaths
  <1> QED
    BY BaseInit, BaseStep, <1>1, PTL DEF Spec


-----------------------------------------------------------------------------
(* The end of a cycle. *)

\* Only a handler that visited the last node of the last phase with the gateway
\* still connected marks a cycle done, and no window is started twice in its
\* hour: a cycle that was cut short is tried again in its window.
THEOREM DoneSafe == Spec => DoneOnlyAtTheEnd
  <1> DEFINE MarkedLast == (done_mask' \ done_mask # {}) =>
                 phase = Len(Phase) /\ node = NodeCount /\ gatewayStatus = "CONNECTED"
             StartedFresh == (pc = "idle" /\ pc' = "visit") => current_cycle_id' \notin done_mask'
  <1>1. Base /\ [Next]_vars => [MarkedLast /\ StartedFresh]_vars
    <2> SUFFICES ASSUME Base, Next PROVE MarkedLast /\ StartedFresh
      BY DEF Base
    <2>0. TResult /\ TSchedule
      BY DEF Base
    <2>1. CASE Leave
      <3>1. CASE gatewayStatus = "DISCONNECTED" \/ ODM_Flag
        BY <2>1, <3>1 DEF Leave, Abort
      <3>2. CASE ~(gatewayStatus = "DISCONNECTED" \/ ODM_Flag)
        BY <2>0, <2>1, <3>2 DEF Leave, NextNode, Finish, TResult
      <3> QED
        BY <3>1, <3>2
    <2>2. CASE StartCycle
      <3>1. PICK due \in BOOLEAN : Schedule(due) /\ (pc' = "visit" => due)
        BY <2>2 DEF StartCycle
      <3> QED
        BY <2>2, <3>1 DEF Schedule, DoneInHour, StartCycle
    <2>3. CASE ScalarPhase
      BY <2>3 DEF ScalarPhase, Abort
    <2>4. CASE Tick
      BY <2>4 DEF Tick
    <2>5. CASE Lose \/ RequestQueued \/ RequestServed \/ Duplicate
      BY <2>5 DEF Lose, RequestQueued, RequestServed, Duplicate, schedule
    <2>6. CASE Visit \/ Send \/ RecvNothing \/ RecvAnswer \/ RecvReport \/ RecvPush
      BY <2>6 DEF Visit, Send, RecvNothing, RecvAnswer, RecvReport, RecvPush, schedule
    <2>7. CASE \/ StatusDone \/ DisableDone \/ FlashDone \/ ResetDone \/ FirmwareDone
               \/ PageDone \/ ReconnectDone
      BY <2>7 DEF StatusDone, DisableDone, FlashDone, ResetDone, FirmwareDone, PageDone,
           ReconnectDone, schedule
    <2> QED
      BY <2>1, <2>2, <2>3, <2>4, <2>5, <2>6, <2>7 DEF Next, Handler
  <1> QED
    BY BaseInit, BaseStep, <1>1, PTL DEF Spec, DoneOnlyAtTheEnd

-----------------------------------------------------------------------------
(* Answers that are on time. *)

\* Profiles whose records are indexed by the page, not appended.
Indexed == Profiles \ {"BLOCK_LOAD"}

\* The client reads in the state of the command it sent; but a disable is sent
\* again in whatever state the failure of the commands behind it left.
OState == pc \in Sending /\ cmd # "FUOTA_DISABLE" => currentState = cmd
\* No answer but the one to the command in flight can come.
OAsked == ~late /\ pc = "recv" => asked \in {<<>>, <<Frame>>}
\* The meter obeyed the commands before the one in flight, and this one when
\* it was answered.
OMeter ==
  ~late /\ pc \in Sending =>
    /\ cmd = "FLASH_SAVE" => meter[node] # "silent"
    /\ cmd = "SOFT_RESET" => meter[node] = "saved"
    /\ pc = "done" =>
         /\ cmd = "FUOTA_STATUS" /\ ret = "SUCCESS" => meter[node] # "silent"
         /\ cmd = "FUOTA_DISABLE" /\ ret # "FAILURE" => meter[node] # "silent"
         /\ cmd = "FLASH_SAVE" /\ ret = "SUCCESS" => meter[node] = "saved"
\* The pages before the one asked for are held.
OPages ==
  ~late /\ pc \in Sending /\ Phase[phase] \in Indexed =>
    page <= LastPage /\ \A p \in Page : p < page => held[p] = "right"
\* And so is this one when it was answered.
ODone ==
  ~late /\ pc = "done" =>
    /\ cmd = "INTERNAL_FV" /\ ret = "SUCCESS" => held[0] = "right"
    /\ cmd \in Indexed /\ ret = "NEXT_PAGE_PRESENT" => page < LastPage /\ held[page] = "right"
    /\ cmd \in Indexed /\ ret = "SUCCESS" => page = LastPage /\ held[page] = "right"
OnTime == OState /\ OAsked /\ OMeter /\ OPages /\ ODone
IInv == Base /\ OnTime /\ RowsTrue /\ StruckOffMeansAwake


LEMMA InFlight ==
  ASSUME Base, pc \in Sending
  PROVE  /\ cmd \in CommandsOf(Phase[phase]) /\ cmd \in Commands /\ Phase[phase] \in Kinds
         /\ cmd \in Profiles => cmd = Phase[phase]
         /\ cmd = "DLMS_CONNECT" => Phase[phase] \in Profiles
         /\ cmd = "INTERNAL_FV" => Phase[phase] = "INTERNAL_FV" /\ page = 0
         /\ cmd \in {"FUOTA_STATUS", "FUOTA_DISABLE", "FLASH_SAVE", "SOFT_RESET"} =>
              Phase[phase] = "SILENCED"
  <1>1. /\ cmd \in CommandsOf(Phase[phase])
        /\ Phase[phase] \notin Profiles => page = 0
    BY DEF Base, Flight
  <1>2. "INTERNAL_FV" \notin Profiles
    BY DEF Profiles
  <1> QED
    BY <1>1, <1>2, CommandFacts

LEMMA OnlyFrame ==
  ASSUME Base, OAsked, ~late, pc = "recv", asked # <<>>
  PROVE  /\ Head(asked) = Frame /\ Tail(asked) = <<>> /\ Frame \in Query
         /\ Frame.node = node /\ Frame.cmd = cmd /\ Frame.cycle = cycles
         /\ cmd \in Profiles => Frame.page = page
  <1>1. asked = <<Frame>>
    BY DEF OAsked
  <1>2. Head(asked) = Frame /\ Tail(asked) = <<>>
    BY <1>1
  <1>3. Frame \in Query
    BY <1>2, AskedTail DEF Base, TAsked
  <1> QED
    BY <1>2, <1>3 DEF Frame

\* What a code that ends the exchange tells of the answer to the command in flight.
LEMMA ReadOnTime ==
  ASSUME Base, OState, pc = "recv", NEW q \in Query, q.node = node, q.cmd = cmd,
         cmd \in Profiles => q.page = page, NEW whole \in BOOLEAN,
         NEW c \in IF whole THEN ReadAnswer(q, currentState)
                   ELSE ReadRefusal(q, currentState), c \in Ends
  PROVE  /\ cmd \in Profiles /\ c = "SUCCESS" => whole /\ page >= LastPage
         /\ cmd \in Profiles /\ c = "NEXT_PAGE_PRESENT" => whole /\ ~(page >= LastPage)
         /\ cmd = "FUOTA_STATUS" /\ c = "SUCCESS" => whole /\ meter[node] # "silent"
         /\ cmd = "FUOTA_DISABLE" => whole
         /\ cmd = "FLASH_SAVE" /\ c = "SUCCESS" => whole
         /\ cmd = "INTERNAL_FV" /\ c = "SUCCESS" => whole
  <1>1. cmd \in Commands /\ (cmd # "FUOTA_DISABLE" => currentState = cmd)
    BY InFlight DEF OState, Sending
  <1>2. CASE ~whole
    <2>1. c \in ReadRefusal(q, currentState)
      BY <1>2
    <2>2. CASE cmd \in Profiles
      BY <1>1, <1>2, <2>1, <2>2 DEF ReadRefusal, Ends, Profiles
    <2>3. CASE cmd = "DLMS_CONNECT"
      BY <1>1, <1>2, <2>1, <2>3 DEF ReadRefusal, Ends, Profiles
    <2>4. CASE cmd \notin Profiles \cup {"DLMS_CONNECT"}
      BY <1>1, <1>2, <2>1, <2>4 DEF ReadRefusal, Ends
    <2> QED
      BY <2>2, <2>3, <2>4
  <1>3. CASE whole
    <2>1. c \in ReadAnswer(q, currentState)
      BY <1>3
    <2>2. CASE cmd \in Profiles
      <3>1. currentState = cmd
        BY <1>1, <2>2 DEF Profiles
      <3>2. c \in ReadProfile(q, cmd)
        BY <2>1, <2>2, <3>1 DEF ReadAnswer, Profiles, Commissions
      <3>3. c = IF page >= LastPage THEN "SUCCESS" ELSE "NEXT_PAGE_PRESENT"
        BY <2>2, <3>2 DEF ReadProfile
      <3> QED
        BY <1>3, <2>2, <3>3 DEF Profiles
    <2>3. CASE cmd = "FUOTA_STATUS"
      <3>1. currentState = cmd
        BY <1>1, <2>3
      <3>2. c \in ReadCommission(q, "FUOTA_STATUS")
        BY <2>1, <2>3, <3>1 DEF ReadAnswer, Commissions, Profiles
      <3>3. c = IF meter[node] = "silent" THEN "ENABLED" ELSE "SUCCESS"
        BY <2>3, <3>2 DEF ReadCommission
      <3> QED
        BY <1>3, <2>3, <3>3 DEF Profiles
    <2>4. CASE cmd \notin Profiles \cup {"FUOTA_STATUS"}
      BY <1>3, <2>4
    <2> QED
      BY <2>2, <2>3, <2>4
  <1> QED
    BY <1>2, <1>3

\* What the answer to the command in flight leaves in the records.
LEMMA StoreOnTime ==
  ASSUME Base, OState, pc = "recv", NEW q \in Query, q.cmd = cmd, q.cycle = cycles,
         cmd \in Profiles => q.page = page, NEW whole \in BOOLEAN, Store(q, whole)
  PROVE  /\ Phase[phase] \in Profiles => \A p \in Page : p # page => held'[p] = held[p]
         /\ cmd \in Indexed /\ page \in Page /\ whole => held'[page] = "right"
         /\ cmd = "INTERNAL_FV" /\ whole => held'[0] = "right"
  <1>1. /\ cmd \in Commands /\ (cmd # "FUOTA_DISABLE" => currentState = cmd)
        /\ cmd \in Profiles => cmd = Phase[phase]
        /\ cmd = "INTERNAL_FV" => Phase[phase] = "INTERNAL_FV"
        /\ Phase[phase] \in Profiles => cmd \in Profiles \cup {"DLMS_CONNECT"}
    BY InFlight DEF OState, Sending, Commands, Commissions, Profiles
  <1>2. THeld /\ 0 \in Page
    BY Bounds DEF Base, Page
  <1>3. CASE cmd \in Profiles
    <2>1. currentState = cmd /\ cmd \notin Commissions /\ cmd = Phase[phase]
          /\ currentState # "INTERNAL_FV" /\ cmd # "INTERNAL_FV"
      BY <1>1, <1>3 DEF Profiles, Commissions
    <2>2. Overwrite(q) = "right"
      BY <2>1 DEF Overwrite
    <2>3. CASE page \in Page
      <3>1. PICK v : /\ held' = [held EXCEPT ![page] = v]
                     /\ cmd # "BLOCK_LOAD" /\ whole => v = "right"
        BY <1>3, <2>1, <2>2, <2>3 DEF Store
      <3> QED
        BY <1>2, <2>1, <2>3, <3>1 DEF THeld, Indexed
    <2>4. CASE page \notin Page
      BY <1>3, <2>1, <2>4 DEF Store
    <2> QED
      BY <2>3, <2>4
  <1>4. CASE cmd = "INTERNAL_FV"
    <2>1. /\ currentState = "INTERNAL_FV" /\ cmd \notin Profiles /\ cmd \in Commissions
          /\ Phase[phase] = "INTERNAL_FV" /\ Phase[phase] \notin Profiles
      BY <1>1, <1>4 DEF Profiles, Commissions
    <2>2. Overwrite(q) = "right"
      BY <1>4, <2>1 DEF Overwrite
    <2> QED
      BY <1>2, <1>4, <2>1, <2>2 DEF Store, THeld, Indexed
  <1>5. CASE cmd \notin Profiles \cup {"INTERNAL_FV"}
    <2>1. Phase[phase] \in Profiles => currentState # "INTERNAL_FV"
      BY <1>1, <1>5 DEF Profiles
    <2> QED
      BY <1>5, <2>1 DEF Store, Indexed
  <1> QED
    BY <1>3, <1>4, <1>5

\* Outside an exchange nothing is claimed; the rows and the meters are kept.
LEMMA NotSending ==
  ASSUME pc' \notin Sending
  PROVE  OnTime'
  BY DEF OnTime, OState, OAsked, OMeter, OPages, ODone, Sending

LEMMA StoredKept ==
  ASSUME RowsTrue, StruckOffMeansAwake, UNCHANGED <<row, meter>>, late' = late
  PROVE  RowsTrue' /\ StruckOffMeansAwake'
  BY DEF RowsTrue, StruckOffMeansAwake

\* A command that is sent: what its predecessors have to have brought about.
LEMMA SentOnTime ==
  ASSUME pc' = "send", OState',
         ~late' => /\ cmd' = "FLASH_SAVE" => meter'[node'] # "silent"
                   /\ cmd' = "SOFT_RESET" => meter'[node'] = "saved",
         OPages'
  PROVE  OnTime'
  BY DEF OnTime, OAsked, OMeter, ODone, Sending


LEMMA IInvInit == Init => IInv
  <1> SUFFICES ASSUME Init PROVE IInv
    OBVIOUS
  <1>1. Base
    BY BaseInit
  <1>2. OnTime
    BY DEF Init, OnTime, OState, OAsked, OMeter, OPages, ODone, Sending
  <1>3. PICK l \in Lacking :
          /\ row = Rows(l)
          /\ meter = [n \in Node |-> IF "SILENCED" \in l[n] THEN "silent" ELSE "saved"]
    BY DEF Init
  <1>4. RowsTrue
    BY <1>3 DEF RowsTrue, Rows, Kinds, Profiles
  <1>5. StruckOffMeansAwake
    BY <1>3 DEF StruckOffMeansAwake, Rows, Kinds
  <1> QED
    BY <1>1, <1>2, <1>4, <1>5 DEF IInv

\* Between two exchanges, and when one begins.
LEMMA OutsideExchange ==
  ASSUME IInv,
         Tick \/ StartCycle \/ ScalarPhase \/ Leave \/ Visit
  PROVE  OnTime' /\ RowsTrue' /\ StruckOffMeansAwake'
  <1>0. Base /\ OnTime /\ RowsTrue /\ StruckOffMeansAwake /\ TRow /\ TMeter
    BY DEF IInv, Base
  <1>1. CASE Tick
    <2>1. pc' \notin Sending /\ meter' = meter /\ late' = late
      BY <1>1 DEF Tick, Sending
    <2>2. \A n \in Node : \A k \in Kinds :
            /\ row'[n][k] = "wrong" => row[n][k] = "wrong"
            /\ k = "SILENCED" => row'[n][k] = row[n][k]
      <3>1. CASE row' = row
        BY <3>1
      <3>2. CASE \E l \in Renewed :
                   row' = [n \in Node |-> [k \in Kinds |->
                             IF k \in l[n] THEN "lacking" ELSE row[n][k]]]
        <4>1. PICK l \in Renewed :
                   row' = [n \in Node |-> [k \in Kinds |->
                             IF k \in l[n] THEN "lacking" ELSE row[n][k]]]
          BY <3>2
        <4>2. \A n \in Node : "SILENCED" \notin l[n]
          BY PullBounds
        <4> QED
          BY <4>1, <4>2
      <3> QED
        BY <1>1, <3>1, <3>2 DEF Tick
    <2>3. RowsTrue' /\ StruckOffMeansAwake'
      BY <1>0, <2>1, <2>2 DEF RowsTrue, StruckOffMeansAwake, Kinds
    <2> QED
      BY <2>1, <2>3, NotSending
  <1>2. CASE StartCycle
    <2>1. pc' \notin Sending /\ UNCHANGED <<row, meter>> /\ late' = late
      BY <1>2 DEF StartCycle, Sending
    <2> QED
      BY <1>0, <2>1, NotSending, StoredKept
  <1>3. CASE ScalarPhase
    <2>1. pc' \notin Sending /\ UNCHANGED <<row, meter>> /\ late' = late
      BY <1>3 DEF ScalarPhase, Abort, Sending
    <2> QED
      BY <1>0, <2>1, NotSending, StoredKept
  <1>4. CASE Leave
    <2>1. pc' \notin Sending /\ UNCHANGED <<row, meter>> /\ late' = late
      BY <1>4 DEF Leave, Abort, NextNode, Finish, Sending
    <2> QED
      BY <1>0, <2>1, NotSending, StoredKept
  <1>5. CASE Visit
    <2>1. UNCHANGED <<row, meter>> /\ late' = late /\ pc' \in {"send", "left"}
      BY <1>5 DEF Visit, Transmit
    <2>2. CASE pc' = "left"
      BY <1>0, <2>1, <2>2, NotSending, StoredKept DEF Sending
    <2>3. CASE pc' = "send"
      <3>1. /\ cmd' = FirstCommand(Phase[phase]) /\ currentState' = cmd'
            /\ page' = 0 /\ phase' = phase
        BY <1>5, <2>3 DEF Visit, Transmit
      <3>2. Phase[phase] \in Kinds \cup {"SCALAR"}
        BY <1>0, Phases DEF Base, TPlace
      <3>3. cmd' \notin {"FLASH_SAVE", "SOFT_RESET"}
        BY <3>1, <3>2 DEF FirstCommand, Kinds, Profiles
      <3>4. OState'
        BY <3>1 DEF OState
      <3>5. 0 <= LastPage /\ \A p \in Page : ~(p < 0)
        BY Bounds DEF Page
      <3>6. OPages'
        BY <3>1, <3>5 DEF OPages
      <3> QED
        BY <1>0, <2>1, <2>3, <3>3, <3>4, <3>6, SentOnTime, StoredKept
    <2> QED
      BY <2>1, <2>2, <2>3
  <1> QED
    BY <1>1, <1>2, <1>3, <1>4, <1>5

\* A command is sent, or recv() returned nothing that matters.
LEMMA WithoutAnswer ==
  ASSUME IInv, Send \/ RecvNothing \/ RecvReport \/ RecvPush
  PROVE  OnTime' /\ RowsTrue' /\ StruckOffMeansAwake'
  <1>0. Base /\ OnTime /\ RowsTrue /\ StruckOffMeansAwake
    BY DEF IInv
  <1>1. /\ UNCHANGED <<row, meter, phase, node, cycles, cmd, page, held, currentState>>
        /\ pc \in Sending /\ pc' \in Sending
        /\ late' \in BOOLEAN /\ late \in BOOLEAN /\ (late => late')
        /\ pc' = "done" => ret' = "FAILURE"
    <2>1. late \in BOOLEAN
      BY <1>0 DEF Base, TOutside
    <2>2. CASE Send
      BY <2>1, <2>2 DEF Send, Exhausted, Sending, place, exchange, pages
    <2>3. CASE RecvNothing
      BY <2>1, <2>3 DEF RecvNothing, Exhausted, TryAgain, GiveUp, Sending, place, pages
    <2>4. CASE RecvReport
      BY <2>1, <2>4 DEF RecvReport, Received, Exhausted, TryAgain, GiveUp, Sending, place,
           pages, Ends
    <2>5. CASE RecvPush
      BY <2>1, <2>5 DEF RecvPush, Received, Exhausted, TryAgain, GiveUp, Sending, place,
           pages, Ends
    <2> QED
      BY <2>2, <2>3, <2>4, <2>5
  <1>2. RowsTrue' /\ StruckOffMeansAwake'
    BY <1>0, <1>1 DEF RowsTrue, StruckOffMeansAwake
  <1>3. OState' /\ OPages' /\ ODone'
    BY <1>0, <1>1 DEF OnTime, OState, OPages, ODone
  <1>4. OMeter'
    BY <1>0, <1>1 DEF OnTime, OMeter
  <1>5. OAsked'
    <2> SUFFICES ASSUME ~late', pc' = "recv" PROVE (asked \in {<<>>, <<Frame>>})'
      BY DEF OAsked
    <2>1. Frame' = Frame
      BY <1>1 DEF Frame
    <2>2. CASE Send
      <3>1. asked = <<>> /\ asked' = Due(Frame)
        BY <1>1, <2>2 DEF Send, Exhausted
      <3>2. Due(Frame) = <<Frame>>
        BY <3>1, PullBounds DEF Due
      <3> QED
        BY <2>1, <3>1, <3>2
    <2>3. CASE RecvNothing
      BY <2>3 DEF RecvNothing, Exhausted, TryAgain, GiveUp
    <2>4. CASE RecvReport \/ RecvPush
      <3>1. asked' \in {asked, <<>>} /\ pc = "recv" /\ ~late
        <4>1. pc = "recv" /\ ~late /\ asked \in {<<>>, <<Frame>>}
          BY <1>0, <1>1, <2>4 DEF RecvReport, RecvPush, OnTime, OAsked
        <4>2. asked' \in {asked, Tail(asked)} /\ (asked' = asked \/ asked # <<>>)
          BY <2>4 DEF RecvReport, RecvPush
        <4>3. asked # <<>> => Tail(asked) = <<>>
          BY <1>0, <4>1, OnlyFrame DEF OnTime
        <4> QED
          BY <4>1, <4>2, <4>3
      <3> QED
        BY <1>0, <2>1, <3>1 DEF OnTime, OAsked
    <2> QED
      BY <2>2, <2>3, <2>4
  <1> QED
    BY <1>2, <1>3, <1>4, <1>5 DEF OnTime


\* The answer to the command in flight.
LEMMA WithAnswer ==
  ASSUME IInv, RecvAnswer \/ Lose
  PROVE  OnTime' /\ RowsTrue' /\ StruckOffMeansAwake'
  <1>0. /\ Base /\ OnTime /\ RowsTrue /\ StruckOffMeansAwake /\ TMeter /\ THeld
        /\ OState /\ OAsked /\ OMeter /\ OPages /\ late \in BOOLEAN /\ node \in Node
    BY DEF IInv, OnTime, Base, TOutside, TPlace
  <1>1. /\ pc = "recv" /\ asked # <<>> /\ asked' = Tail(asked) /\ late' = late
        /\ UNCHANGED <<row, phase, node, cycles, cmd, page, currentState>>
        /\ meter' \in {meter, Obey(Head(asked))}
    BY DEF RecvAnswer, Lose, place, exchange, pages
  <1>2. pc' \in Sending
    BY <1>1 DEF RecvAnswer, Lose, Received, TryAgain, GiveUp, Exhausted, Sending
  <1>3. RowsTrue'
    BY <1>0, <1>1 DEF RowsTrue
  <1>4. OState'
    BY <1>0, <1>1, <1>2 DEF OState, Sending
  <1>5. ASSUME late' PROVE OnTime' /\ StruckOffMeansAwake'
    BY <1>4, <1>5 DEF OnTime, OAsked, OMeter, OPages, ODone, StruckOffMeansAwake
  <1>6. ASSUME ~late' PROVE OnTime' /\ StruckOffMeansAwake'
    <2>1. ~late
      BY <1>1, <1>6
    <2> DEFINE q == Frame
    <2>2. /\ Head(asked) = q /\ asked' = <<>> /\ q \in Query
          /\ q.node = node /\ q.cmd = cmd /\ q.cycle = cycles
          /\ cmd \in Profiles => q.page = page
      BY <1>0, <1>1, <2>1, OnlyFrame
    <2> HIDE DEF q
    <2>3. /\ cmd = "FLASH_SAVE" => meter[node] # "silent"
          /\ cmd = "SOFT_RESET" => meter[node] = "saved"
      BY <1>0, <1>1, <2>1 DEF OMeter, Sending
    <2>4. /\ \A n \in Node : n # node => Obey(q)[n] = meter[n]
          /\ cmd \notin {"FUOTA_DISABLE", "FLASH_SAVE", "SOFT_RESET"} => Obey(q) = meter
          /\ cmd = "FUOTA_DISABLE" => Obey(q)[node] # "silent"
          /\ cmd = "FLASH_SAVE" => Obey(q)[node] = "saved"
          /\ cmd = "SOFT_RESET" => Obey(q)[node] = "saved"
      BY <1>0, <2>2, <2>3, ObeyFacts
    <2>5. \A n \in Node : meter[n] # "silent" => Obey(q)[n] # "silent"
      BY <2>4
    <2>6. StruckOffMeansAwake'
      BY <1>0, <1>1, <2>1, <2>2, <2>5 DEF StruckOffMeansAwake
    <2>7. OAsked'
      BY <2>2 DEF OAsked
    <2>8. /\ cmd = "FLASH_SAVE" => meter'[node] # "silent"
          /\ cmd = "SOFT_RESET" => meter'[node] = "saved"
      BY <1>1, <2>2, <2>3, <2>4
    <2>9. CASE Lose
      <3>1. UNCHANGED <<pc, held>> /\ pc' # "done"
        BY <1>1, <2>9 DEF Lose
      <3>2. OMeter'
        BY <1>1, <2>8, <3>1 DEF OMeter
      <3>3. OPages' /\ ODone'
        BY <1>0, <1>1, <2>1, <3>1 DEF OPages, ODone, Sending
      <3> QED
        BY <1>4, <2>6, <2>7, <3>2, <3>3 DEF OnTime
    <2>10. CASE RecvAnswer
      <3>1. PICK whole \in BOOLEAN, packed \in BOOLEAN, ours \in BOOLEAN :
              /\ meter' = IF whole THEN Obey(q) ELSE meter
              /\ IF ours THEN Store(q, whole) ELSE held' = held
              /\ \E c \in IF ~ours THEN {"INVALID"}
                          ELSE IF whole THEN ReadAnswer(q, currentState)
                          ELSE ReadRefusal(q, currentState) :
                    Received(IF packed THEN "PUSH" ELSE c, FALSE)
        <4>1. PICK whole \in BOOLEAN, packed \in BOOLEAN :
                LET ours == armed /\ q.node = node IN
                /\ meter' = IF whole THEN Obey(q) ELSE meter
                /\ IF ours THEN Store(q, whole) ELSE held' = held
                /\ \E c \in IF ~ours THEN {"INVALID"}
                            ELSE IF whole THEN ReadAnswer(q, currentState)
                            ELSE ReadRefusal(q, currentState) :
                      Received(IF packed THEN "PUSH" ELSE c, FALSE)
          BY <2>2, <2>10 DEF RecvAnswer
        <4> QED
          BY <4>1
      <3>2. PICK c \in IF ~ours THEN {"INVALID"}
                       ELSE IF whole THEN ReadAnswer(q, currentState)
                       ELSE ReadRefusal(q, currentState) :
              Received(IF packed THEN "PUSH" ELSE c, FALSE)
        BY <3>1
      <3>3. /\ pc' = "done" => ret' = "FAILURE" \/ (ours /\ c \in Ends /\ ret' = c)
        BY <1>1, <3>2 DEF Received, TryAgain, GiveUp, Exhausted, Ends, Waits
      <3>4. /\ Phase[phase] \in Profiles => \A p \in Page : p # page => held'[p] = held[p]
            /\ ours /\ cmd \in Indexed /\ page \in Page /\ whole => held'[page] = "right"
            /\ ours /\ cmd = "INTERNAL_FV" /\ whole => held'[0] = "right"
        <4>1. CASE ours
          BY <1>0, <1>1, <2>2, <3>1, <4>1, StoreOnTime
        <4>2. CASE ~ours
          BY <3>1, <4>2
        <4> QED
          BY <4>1, <4>2
      <3>5. ASSUME pc' = "done", ret' # "FAILURE"
            PROVE  /\ ours
                   /\ cmd \in Profiles /\ ret' = "SUCCESS" => whole /\ page >= LastPage
                   /\ cmd \in Profiles /\ ret' = "NEXT_PAGE_PRESENT" =>
                        whole /\ ~(page >= LastPage)
                   /\ cmd = "FUOTA_STATUS" /\ ret' = "SUCCESS" =>
                        whole /\ meter[node] # "silent"
                   /\ cmd = "FUOTA_DISABLE" => whole
                   /\ cmd = "FLASH_SAVE" /\ ret' = "SUCCESS" => whole
                   /\ cmd = "INTERNAL_FV" /\ ret' = "SUCCESS" => whole
        <4>1. ours /\ c \in Ends /\ ret' = c
          BY <3>3, <3>5
        <4>2. c \in IF whole THEN ReadAnswer(q, currentState) ELSE ReadRefusal(q, currentState)
          BY <3>2, <4>1
        <4> QED
          BY <1>0, <1>1, <2>2, <4>1, <4>2, ReadOnTime
      <3>6. OMeter'
        BY <1>1, <2>4, <2>8, <3>1, <3>5 DEF OMeter
      <3>7. OPages'
        <4> SUFFICES ASSUME Phase[phase] \in Indexed
                     PROVE  page <= LastPage /\ \A p \in Page : p < page => held'[p] = "right"
          BY <1>1 DEF OPages
        <4>1. page <= LastPage /\ \A p \in Page : p < page => held[p] = "right"
          BY <1>0, <1>1, <2>1 DEF OPages, Sending
        <4>2. \A p \in Page : p < page => p # page
          BY <1>0, Bounds DEF Page, Base, TPages
        <4> QED
          BY <3>4, <4>1, <4>2 DEF Indexed
      <3>8. ODone'
        <4>1. cmd \in Indexed => cmd \in Profiles /\ Phase[phase] \in Indexed
          BY <1>0, <1>1, InFlight DEF Indexed, Sending
        <4>2. cmd \in Indexed => page <= LastPage
          BY <1>0, <1>1, <2>1, <4>1 DEF OPages, Sending
        <4>3. page \in Nat /\ LastPage \in Nat
          BY <1>0, Bounds DEF Base, TPages
        <4>4. cmd \in Indexed => page \in Page
          BY <4>2, <4>3 DEF Page
        <4>5. ASSUME pc' = "done", cmd \in Indexed, ret' \in {"SUCCESS", "NEXT_PAGE_PRESENT"}
              PROVE  /\ held'[page] = "right"
                     /\ ret' = "SUCCESS" => page = LastPage
                     /\ ret' = "NEXT_PAGE_PRESENT" => page < LastPage
          <5>1. /\ ours /\ whole
                /\ ret' = "SUCCESS" => page >= LastPage
                /\ ret' = "NEXT_PAGE_PRESENT" => ~(page >= LastPage)
            BY <3>5, <4>1, <4>5
          <5> QED
            BY <3>4, <4>2, <4>3, <4>4, <4>5, <5>1
        <4>6. ASSUME pc' = "done", cmd = "INTERNAL_FV", ret' = "SUCCESS"
              PROVE  held'[0] = "right"
          BY <3>4, <3>5, <4>6
        <4> QED
          BY <1>1, <4>5, <4>6 DEF ODone
      <3> QED
        BY <1>4, <2>6, <2>7, <3>6, <3>7, <3>8 DEF OnTime
    <2> QED
      BY <2>9, <2>10
  <1> QED
    BY <1>3, <1>5, <1>6


\* What may be put into a row of the node visited.
LEMMA FilledOnTime ==
  ASSUME IInv, NEW k \in Kinds, NEW v \in {"lacking", "whole", "wrong"}, Fill(k, v),
         UNCHANGED <<meter, late>>,
         ~late /\ k = "SILENCED" => meter[node] # "silent",
         ~late /\ k \notin {"SILENCED", "BLOCK_LOAD"} => v # "wrong"
  PROVE  RowsTrue' /\ StruckOffMeansAwake'
  <1>1. \A n \in Node : \A j \in Kinds :
          row'[n][j] = IF n = node /\ j = k THEN v ELSE row[n][j]
    BY FillFacts DEF IInv
  <1>2. RowsTrue'
    BY <1>1 DEF IInv, RowsTrue, Kinds, Profiles
  <1>3. StruckOffMeansAwake'
    BY <1>1 DEF IInv, StruckOffMeansAwake, Kinds
  <1> QED
    BY <1>2, <1>3

LEMMA InsertedOnTime ==
  ASSUME IInv, NEW k \in Profiles \cup {"INTERNAL_FV"}, Insert(k), UNCHANGED <<meter, late>>,
         ~late /\ k # "BLOCK_LOAD" => \A p \in PagesOf(k) : held[p] = "right"
  PROVE  RowsTrue' /\ StruckOffMeansAwake'
  <1>1. k \in Kinds /\ k # "SILENCED"
    BY DEF Kinds, Profiles
  <1>2. PICK v \in {"whole", "wrong"} :
          /\ Fill(k, v)
          /\ row[node][k] # "wrong" /\ (\A p \in PagesOf(k) : held[p] = "right") => v = "whole"
    BY DEF Insert
  <1>3. ~late /\ k # "BLOCK_LOAD" => row[node][k] # "wrong"
    BY DEF IInv, RowsTrue, Base, TPlace
  <1> QED
    BY <1>1, <1>2, <1>3, FilledOnTime

\* The exchanges that bring a node out of the silent mode.
LEMMA UnsilenceOnTime ==
  ASSUME IInv, StatusDone \/ DisableDone \/ FlashDone \/ ResetDone
  PROVE  OnTime' /\ RowsTrue' /\ StruckOffMeansAwake'
  <1>0. /\ Base /\ OnTime /\ RowsTrue /\ StruckOffMeansAwake /\ late \in BOOLEAN
        /\ OState /\ OMeter
    BY DEF IInv, OnTime, Base, TOutside
  <1>1. /\ pc = "done" /\ UNCHANGED <<phase, node, meter, late>>
        /\ cmd \in {"FUOTA_STATUS", "FUOTA_DISABLE", "FLASH_SAVE", "SOFT_RESET"}
    BY DEF StatusDone, DisableDone, FlashDone, ResetDone, place
  <1>2. OPages'
    <2>1. Phase[phase] = "SILENCED"
      BY <1>0, <1>1, InFlight DEF Sending
    <2> QED
      BY <1>1, <2>1 DEF OPages, Indexed, Profiles
  <1>3. ~late =>
          /\ cmd = "SOFT_RESET" => meter[node] # "silent"
          /\ cmd = "FUOTA_STATUS" /\ ret = "SUCCESS" => meter[node] # "silent"
          /\ cmd = "FUOTA_DISABLE" /\ ret # "FAILURE" => meter[node] # "silent"
          /\ cmd = "FLASH_SAVE" /\ ret = "SUCCESS" => meter[node] = "saved"
    BY <1>0, <1>1 DEF OMeter, Sending
  <1>4. cmd # "FUOTA_DISABLE" => currentState = cmd
    BY <1>0, <1>1 DEF OState, Sending
  <1>5. ASSUME pc' \in {"send", "left"},
               pc' = "send" =>
                 /\ cmd' # "FUOTA_DISABLE" => currentState' = cmd'
                 /\ cmd' = "FLASH_SAVE" => (~late => meter[node] # "silent")
                 /\ cmd' = "SOFT_RESET" => (~late => meter[node] = "saved")
        PROVE  OnTime'
    <2>1. CASE pc' = "send"
      BY <1>1, <1>2, <1>5, <2>1, SentOnTime DEF OState
    <2>2. CASE pc' = "left"
      BY <2>2, NotSending DEF Sending
    <2> QED
      BY <1>5, <2>1, <2>2
  <1>6. ASSUME DeleteSilenced, ~late => meter[node] # "silent"
        PROVE  RowsTrue' /\ StruckOffMeansAwake'
    BY <1>1, <1>6, FilledOnTime DEF DeleteSilenced, Kinds
  <1>7. ASSUME row' = row
        PROVE  RowsTrue' /\ StruckOffMeansAwake'
    BY <1>0, <1>1, <1>7, StoredKept
  <1>8. CASE StatusDone
    <2>1. OnTime'
      BY <1>4, <1>5, <1>8 DEF StatusDone, Transmit
    <2>2. RowsTrue' /\ StruckOffMeansAwake'
      BY <1>3, <1>6, <1>7, <1>8 DEF StatusDone
    <2> QED
      BY <2>1, <2>2
  <1>9. CASE DisableDone
    <2>1. OnTime'
      BY <1>3, <1>5, <1>9 DEF DisableDone, DisableElsewhere, Transmit
    <2>2. row' = row
      BY <1>9 DEF DisableDone, DisableElsewhere
    <2> QED
      BY <1>7, <2>1, <2>2
  <1>10. CASE FlashDone
    <2>1. OnTime'
      BY <1>3, <1>5, <1>10 DEF FlashDone, DisableElsewhere, Transmit
    <2>2. row' = row
      BY <1>10 DEF FlashDone, DisableElsewhere
    <2> QED
      BY <1>7, <2>1, <2>2
  <1>11. CASE ResetDone
    <2>1. OnTime'
      BY <1>5, <1>11 DEF ResetDone, DisableElsewhere, Transmit
    <2>2. RowsTrue' /\ StruckOffMeansAwake'
      BY <1>3, <1>6, <1>7, <1>11 DEF ResetDone, DisableElsewhere
    <2> QED
      BY <2>1, <2>2
  <1> QED
    BY <1>8, <1>9, <1>10, <1>11

LEMMA FirmwareOnTime ==
  ASSUME IInv, FirmwareDone
  PROVE  OnTime' /\ RowsTrue' /\ StruckOffMeansAwake'
  <1>0. Base /\ OnTime /\ RowsTrue /\ StruckOffMeansAwake /\ OState /\ ODone
    BY DEF IInv, OnTime
  <1>1. /\ pc = "done" /\ UNCHANGED <<phase, node, meter, late>> /\ cmd = "INTERNAL_FV"
    BY DEF FirmwareDone, place
  <1>2. Phase[phase] = "INTERNAL_FV" /\ currentState = cmd
    BY <1>0, <1>1, InFlight DEF Sending, OState
  <1>3. OPages'
    BY <1>1, <1>2 DEF OPages, Indexed, Profiles
  <1>4. OnTime'
    <2>1. CASE pc' = "send"
      <3>1. cmd' = "INTERNAL_FV" /\ currentState' = currentState
        BY <2>1 DEF FirmwareDone, Transmit
      <3> QED
        BY <1>1, <1>2, <1>3, <2>1, <3>1, SentOnTime DEF OState
    <2>2. CASE pc' = "left"
      BY <2>2, NotSending DEF Sending
    <2> QED
      BY <2>1, <2>2 DEF FirmwareDone, Transmit
  <1>5. RowsTrue' /\ StruckOffMeansAwake'
    <2>1. CASE row' = row
      BY <1>0, <1>1, <2>1, StoredKept
    <2>2. CASE ret = "SUCCESS" /\ Insert("INTERNAL_FV")
      <3>1. ~late => held[0] = "right"
        BY <1>0, <1>1, <2>2 DEF ODone
      <3> QED
        BY <1>1, <2>2, <3>1, InsertedOnTime DEF PagesOf
    <2> QED
      BY <2>1, <2>2 DEF FirmwareDone
  <1> QED
    BY <1>4, <1>5

\* The page loop of a path ends.
LEMMA PathDoneOnTime ==
  ASSUME IInv, pc = "done", Phase[phase] \in Profiles, UNCHANGED <<phase, node, meter, late>>,
         NEW c, NEW s, Lists(s, Paths(node)), NEW p \in Nat, p <= page + 1,
         PathDone(c, s, p),
         pc' = "send" => currentState' = Phase[phase],
         c = "SUCCESS" => cmd = Phase[phase] /\ ret = "SUCCESS",
         ~late /\ Phase[phase] \in Indexed =>
           p <= LastPage /\ \A x \in Page : x < p => held[x] = "right"
  PROVE  OnTime' /\ RowsTrue' /\ StruckOffMeansAwake'
  <1>0. Base /\ OnTime /\ RowsTrue /\ StruckOffMeansAwake /\ OPages /\ ODone
    BY DEF IInv, OnTime
  <1>1. pc' \in {"send", "left"} /\ (pc' = "send" => cmd' = Phase[phase])
    BY <1>0, PathDoneFacts
  <1>2. OPages'
    <2> SUFFICES ASSUME ~late, Phase[phase] \in Indexed, pc' = "send"
                 PROVE  (page <= LastPage /\ \A x \in Page : x < page => held[x] = "right")'
      BY <1>1 DEF OPages, Sending
    <2>1. CASE page' = p /\ held' = held
      BY <2>1
    <2>2. CASE page' = 0
      <3>1. 0 <= LastPage /\ \A x \in Page : ~(x < 0)
        BY Bounds DEF Page
      <3> QED
        BY <2>2, <3>1
    <2> QED
      BY <1>1, <2>1, <2>2 DEF PathDone, NextIpCycle
  <1>3. OnTime'
    <2>1. CASE pc' = "send"
      <3>1. cmd' \notin {"FLASH_SAVE", "SOFT_RESET"}
        BY <1>1, <2>1 DEF Profiles
      <3> QED
        BY <1>1, <1>2, <2>1, <3>1, SentOnTime DEF OState
    <2>2. CASE pc' = "left"
      BY <2>2, NotSending DEF Sending
    <2> QED
      BY <1>1, <2>1, <2>2
  <1>4. RowsTrue' /\ StruckOffMeansAwake'
    <2>1. CASE c # "SUCCESS"
      BY <1>0, <2>1, StoredKept DEF PathDone
    <2>2. CASE c = "SUCCESS"
      <3>1. Insert(Phase[phase]) /\ cmd = Phase[phase] /\ ret = "SUCCESS"
        BY <2>2 DEF PathDone
      <3>2. ASSUME ~late, Phase[phase] # "BLOCK_LOAD"
            PROVE  \A x \in PagesOf(Phase[phase]) : held[x] = "right"
        <4>1. Phase[phase] \in Indexed /\ PagesOf(Phase[phase]) = Page
          BY <3>2 DEF Indexed, PagesOf, Profiles
        <4>2. \A x \in Page : x < page => held[x] = "right"
          BY <1>0, <3>2, <4>1 DEF OPages, Sending
        <4>3. page = LastPage /\ held[page] = "right"
          BY <1>0, <3>1, <3>2, <4>1 DEF ODone
        <4>4. \A x \in Page : x < LastPage \/ x = LastPage
          BY Bounds DEF Page
        <4> QED
          BY <4>1, <4>2, <4>3, <4>4
      <3> QED
        BY <3>1, <3>2, InsertedOnTime
    <2> QED
      BY <2>1, <2>2
  <1> QED
    BY <1>3, <1>4

\* The head of the page loop.
LEMMA AskPageOnTime ==
  ASSUME IInv, pc = "done", Phase[phase] \in Profiles, UNCHANGED <<phase, node, meter, late>>,
         NEW s, Lists(s, Paths(node)), NEW p \in {page, page + 1}, AskPage(s, p),
         pc' = "send" => currentState' = Phase[phase],
         p = page + 1 => cmd = Phase[phase] /\ ret = "NEXT_PAGE_PRESENT"
  PROVE  OnTime' /\ RowsTrue' /\ StruckOffMeansAwake'
  <1>0. Base /\ OnTime /\ RowsTrue /\ StruckOffMeansAwake /\ OPages /\ ODone
    BY DEF IInv, OnTime
  <1>1. page \in Nat /\ p \in Nat /\ p <= page + 1
    BY <1>0, Bounds DEF Base, TPages
  <1>2. ASSUME ~late, Phase[phase] \in Indexed
        PROVE  p <= LastPage /\ \A x \in Page : x < p => held[x] = "right"
    <2>1. page <= LastPage /\ \A x \in Page : x < page => held[x] = "right"
      BY <1>0, <1>2 DEF OPages, Sending
    <2>2. CASE p = page
      BY <2>1, <2>2
    <2>3. CASE p = page + 1
      <3>1. page < LastPage /\ held[page] = "right"
        BY <1>0, <1>2, <2>3 DEF ODone
      <3>2. LastPage \in Nat /\ \A x \in Page : x < page + 1 => x < page \/ x = page
        BY <1>1, Bounds DEF Page
      <3>3. page + 1 <= LastPage
        BY <1>1, <3>1, <3>2
      <3> QED
        BY <2>1, <2>3, <3>1, <3>2, <3>3
    <2> QED
      BY <2>2, <2>3
  <1>3. CASE (p > page /\ p >= PageLimit) \/ loops >= LoopLimit
    <2>1. PathDone("FAILURE", s, p)
      BY <1>3 DEF AskPage
    <2> QED
      BY <1>1, <1>2, <2>1, PathDoneOnTime
  <1>4. CASE ~((p > page /\ p >= PageLimit) \/ loops >= LoopLimit)
    <2>1. /\ pc' = "send" /\ cmd' = Phase[phase] /\ page' = p /\ UNCHANGED <<row, held>>
      BY <1>4 DEF AskPage, Transmit
    <2>2. OPages'
      BY <1>2, <2>1 DEF OPages
    <2>3. cmd' \notin {"FLASH_SAVE", "SOFT_RESET"}
      BY <2>1 DEF Profiles
    <2> QED
      BY <1>0, <2>1, <2>2, <2>3, SentOnTime, StoredKept DEF OState
  <1> QED
    BY <1>3, <1>4


LEMMA ProfileOnTime ==
  ASSUME IInv, PageDone \/ ReconnectDone
  PROVE  OnTime' /\ RowsTrue' /\ StruckOffMeansAwake'
  <1>0. /\ Base /\ OnTime /\ RowsTrue /\ StruckOffMeansAwake /\ OPages /\ OState
    BY DEF IInv, OnTime
  <1>1. /\ pc = "done" /\ cmd \in Profiles \cup {"DLMS_CONNECT"}
        /\ UNCHANGED <<phase, node, meter, late>>
    BY DEF PageDone, ReconnectDone
  <1>2. /\ Phase[phase] \in Profiles /\ currentState = cmd
        /\ cmd \in Profiles => cmd = Phase[phase]
    BY <1>0, <1>1, InFlight DEF OState, Sending, Profiles
  <1>3. /\ Lists(paths[node], Paths(node)) /\ page \in Nat /\ page <= page + 1
        /\ page # page + 1
        /\ rat \in 0..2 /\ rat # 1 /\ rat <= Paths(node) /\ Paths(node) \in 1..2
    <2>1. /\ Lists(paths[node], Paths(node)) /\ page \in Nat
          /\ rat \in 0..2 /\ rat # 1 /\ rat <= Paths(node) /\ Paths(node) \in 1..2
      BY <1>0, <1>1, Numbers, Bounds DEF Sending
    <2> QED
      BY <2>1
  <1>4. ~late /\ Phase[phase] \in Indexed =>
          page <= LastPage /\ \A x \in Page : x < page => held[x] = "right"
    BY <1>0, <1>1 DEF OPages, Sending
  <1>5. ASSUME Transmit("DLMS_CONNECT", at, rat'), currentState' = "DLMS_CONNECT",
               UNCHANGED <<row, page, held>>
        PROVE  OnTime' /\ RowsTrue' /\ StruckOffMeansAwake'
    <2>1. pc' = "send" /\ cmd' = "DLMS_CONNECT"
      BY <1>5 DEF Transmit
    <2>2. OPages'
      BY <1>1, <1>4, <1>5 DEF OPages
    <2>3. OState'
      BY <1>5, <2>1 DEF OState
    <2> QED
      BY <1>0, <1>1, <1>5, <2>1, <2>2, <2>3, SentOnTime, StoredKept
  <1>6. CASE PageDone
    <2>1. cmd = Phase[phase]
      BY <1>2, <1>6 DEF PageDone
    <2>2. CASE ret = "NEXT_PAGE_PRESENT"
      <3>1. AskPage(paths[node], page + 1) /\ currentState' = currentState
        BY <1>6, <2>2 DEF PageDone
      <3> QED
        BY <1>1, <1>2, <1>3, <2>1, <2>2, <3>1, AskPageOnTime
    <2>3. CASE ret = "DLMS_CONNECTION_FAILED"
      <3>1. /\ Transmit("DLMS_CONNECT", at, 0) /\ currentState' = "DLMS_CONNECT"
            /\ UNCHANGED <<row, page, held>>
        BY <1>6, <2>3 DEF PageDone, pages
      <3>2. rat' = 0
        BY <3>1 DEF Transmit
      <3> QED
        BY <1>5, <3>1, <3>2
    <2>4. CASE ret \in {"SUCCESS", "DLMS_ERROR"}
      <3>1. PathDone(ret, paths[node], page) /\ currentState' = currentState
        BY <1>6, <2>4 DEF PageDone
      <3> QED
        BY <1>1, <1>2, <1>3, <1>4, <2>1, <3>1, PathDoneOnTime
    <2>5. CASE ret \in {"FAILURE", "DLMS_SUCCESS", "ENABLED"}
      <3>1. PathDone("FAILURE", paths[node], page) /\ currentState' = currentState
        BY <1>6, <2>5 DEF PageDone
      <3> QED
        BY <1>1, <1>2, <1>3, <1>4, <2>1, <3>1, PathDoneOnTime
    <2> QED
      BY <1>6, <2>2, <2>3, <2>4, <2>5 DEF PageDone
  <1>7. CASE ReconnectDone
    <2>1. currentState' = IF pc' = "send" THEN cmd' ELSE Phase[phase]
      BY <1>7 DEF ReconnectDone
    <2>2. ASSUME NEW s, Lists(s, Paths(node)), AskPage(s, page)
          PROVE  OnTime' /\ RowsTrue' /\ StruckOffMeansAwake'
      <3>1. pc' = "send" => cmd' = Phase[phase]
        BY <1>0, <1>1, <1>2, <2>2, AskPageFacts
      <3> QED
        BY <1>1, <1>2, <1>3, <2>1, <2>2, <3>1, AskPageOnTime
    <2>3. CASE rat = 0 /\ AskPage(paths[node], page)
      BY <1>3, <2>2, <2>3
    <2>4. CASE rat > 0 /\ AskPage(Reconnected(paths[node], rat), page)
      <3>1. Lists(Reconnected(paths[node], rat), Paths(node))
        BY <1>3, <2>4, Reordered
      <3> QED
        BY <2>2, <2>4, <3>1
    <2>5. CASE pc' = "undefined" /\ UNCHANGED row
      BY <1>0, <1>1, <2>5, NotSending, StoredKept DEF Sending
    <2>6. CASE PathDone("DLMS_CONNECTION_FAILED", paths[node], page)
      <3>1. pc' = "send" => cmd' = Phase[phase]
        BY <1>0, <1>1, <1>2, <1>3, <2>6, PathDoneFacts
      <3> QED
        BY <1>1, <1>2, <1>3, <1>4, <2>1, <2>6, <3>1, PathDoneOnTime
    <2>7. ASSUME NEW r, Transmit("DLMS_CONNECT", at, r), UNCHANGED <<row, pages, held>>
          PROVE  OnTime' /\ RowsTrue' /\ StruckOffMeansAwake'
      <3>1. rat' = r /\ pc' = "send" /\ cmd' = "DLMS_CONNECT"
        BY <2>7 DEF Transmit
      <3>2. UNCHANGED <<row, page, held>>
        BY <2>7 DEF pages
      <3> QED
        BY <1>5, <2>1, <2>7, <3>1, <3>2
    <2>8. CASE ReconnectOk
      BY <2>3, <2>4, <2>5, <2>8 DEF ReconnectOk
    <2>9. CASE ReconnectFailed
      BY <2>6, <2>7, <2>9 DEF ReconnectFailed
    <2> QED
      BY <1>7, <2>8, <2>9 DEF ReconnectDone
  <1> QED
    BY <1>6, <1>7

LEMMA IInvStep == IInv /\ [Next]_vars => IInv'
  <1> SUFFICES ASSUME IInv, [Next]_vars PROVE IInv'
    OBVIOUS
  <1>1. Base'
    BY BaseStep DEF IInv
  <1>2. CASE RequestQueued \/ RequestServed \/ Duplicate \/ UNCHANGED vars
    <2>1. UNCHANGED <<pc, phase, node, cycles, cmd, page, currentState, ret, held, asked,
                      meter, row, late>>
      BY <1>2 DEF RequestQueued, RequestServed, Duplicate, vars, place, exchange, pages
    <2>2. OnTime'
      BY <2>1 DEF IInv, OnTime, OState, OAsked, Frame, OMeter, OPages, ODone
    <2>3. RowsTrue' /\ StruckOffMeansAwake'
      BY <2>1, StoredKept DEF IInv
    <2> QED
      BY <1>1, <2>2, <2>3 DEF IInv
  <1>3. CASE ~(RequestQueued \/ RequestServed \/ Duplicate \/ UNCHANGED vars)
    <2>1. OnTime' /\ RowsTrue' /\ StruckOffMeansAwake'
      BY <1>3, OutsideExchange, WithoutAnswer, WithAnswer, UnsilenceOnTime, FirmwareOnTime,
         ProfileOnTime DEF Next, Handler
    <2> QED
      BY <1>1, <2>1 DEF IInv
  <1> QED
    BY <1>2, <1>3

\* Until an answer comes after its command was given up, a profile other than
\* the block load is stored only whole: every page once, each from the node
\* and the cycle asked, however often the pages were asked for again on this
\* path, on another or after a reconnect.
THEOREM RowsSafe == Spec => []RowsTrue
  <1>1. IInv => RowsTrue
    BY DEF IInv
  <1> QED
    BY IInvInit, IInvStep, <1>1, PTL DEF Spec

\* Until an answer comes after its command was given up, no node is struck off
\* the list of silenced nodes while its meter is silent: not by a soft reset
\* that undoes a disable whose flash save was lost, either.
THEOREM AwakeSafe == Spec => []StruckOffMeansAwake
  <1>1. IInv => StruckOffMeansAwake
    BY DEF IInv
  <1> QED
    BY IInvInit, IInvStep, <1>1, PTL DEF Spec
=============================================================================

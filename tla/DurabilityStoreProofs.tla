----------------------- MODULE DurabilityStoreProofs ------------------------
(***************************************************************************)
(* What a replay repairs and what it can lose.                             *)
(*                                                                         *)
(* When a run of the program has a smaller checkpoint granularity than the *)
(* run before, lines may be torn and the invariant of DurabilityProofs     *)
(* does not hold; HoldsDurable does.  As long as it does not shrink,       *)
(* Durability implements the abstract store and a replay leaves no call    *)
(* behind a younger one, for every set of opcodes and every bound.  Both   *)
(* rest on the order in which calls reach log, map and tree.               *)
(***************************************************************************)
EXTENDS DurabilityProofs

-----------------------------------------------------------------------------
(* What a recovery can lose.                                               *)

LEMMA HoldsInit == Init => HoldsDurable
BY EmptyFacts DEF Init, LoggerInit, HoldsDurable

\* One iteration of flush() moves a line from the buffer to the file.
LEMMA FlushKeepsIds ==
  ASSUME TypeOk, FlushRecord
  PROVE  /\ LoggedIds(log_file') \cup LoggedIds(log_buffer')
              = LoggedIds(log_file) \cup LoggedIds(log_buffer)
         /\ LoggedIds(log_file) \subseteq LoggedIds(log_file')
<1> DEFINE r == Head(log_buffer)
<1>1. /\ log_buffer \in Seq(Record) /\ log_file \in Seq(Record) /\ log_buffer # << >>
      /\ log_buffer' = Tail(log_buffer) /\ log_file' = Append(log_file, r)
  BY DEF TypeOk, FlushRecord
<1>2. r \in Record
  BY <1>1, TailIndices
<1>3. LoggedIds(log_file')
        = LoggedIds(log_file) \cup (IF r.op = CHECKPOINT THEN {} ELSE {r.id})
  BY <1>1, <1>2, AppendIds
<1>4. LoggedIds(log_buffer)
        = LoggedIds(log_buffer') \cup (IF r.op = CHECKPOINT THEN {} ELSE {r.id})
  BY <1>1, TailIds
<1> QED
  BY <1>3, <1>4

\* Reading a line removes no logged call from what is held but the line's own.
LEMMA ReadingALine ==
  ASSUME TypeOk, unread # << >>, unread' = Tail(unread)
  PROVE  LoggedIds(unread)
           = LoggedIds(unread') \cup (IF Head(unread).op = CHECKPOINT THEN {}
                                      ELSE {Head(unread).id})
BY TailIds DEF TypeOk

\* The end of a process keeps what is on disk.
LEMMA HoldsGone ==
  ASSUME HoldsDurable, MemoryGone
  PROVE  HoldsDurable'
BY EmptyFacts DEF HoldsDurable, MemoryGone, LoggerDies

LEMMA HoldsBoot ==
  ASSUME HoldsDurable, Boot
  PROVE  HoldsDurable'
<1>1. /\ pc \in {"down", "aborted"} /\ log_buffer' = << >> /\ log_file' = log_file
      /\ version_map' = version_map
  BY DEF Boot, LoggerConstruct
<1>2. CASE pc' = "aborted" /\ UNCHANGED memVars
  BY <1>1, <1>2, EmptyFacts DEF HoldsDurable, memVars
<1>3. CASE /\ pc' = "replay" /\ replaying' = TRUE /\ unread' = log_file
           /\ applied' = version_map.tree
  BY <1>1, <1>3, EmptyFacts DEF HoldsDurable
<1> QED
  BY <1>2, <1>3 DEF Boot

LEMMA HoldsUpsert ==
  ASSUME TypeOk, HoldsDurable, NEW op \in Opcodes, Upsert(op)
  PROVE  HoldsDurable'
<1> DEFINE r == [op |-> op, id |-> Len(issued) + 1, ts |-> next_timestamp]
<1>1. /\ pc = "idle" /\ pc' \in {"log_flush", "apply"} /\ cur'.id = r.id
      /\ log_buffer' = Append(log_buffer, r) /\ log_file' = log_file
      /\ UNCHANGED <<applied, unread, replaying, version_map>>
  BY DEF Upsert, Log
<1>2. Len(issued) \in Nat
  BY LenProperties DEF TypeOk
<1>3. op \in {INSERT, DELETE, UPDATE}
  BY OpcodesAssumption
<1>4. r \in Record /\ r.op # CHECKPOINT /\ r.id # 0
  BY <1>2, <1>3 DEF Record, TypeOk, INSERT, DELETE, UPDATE, CHECKPOINT
<1>5. LoggedIds(log_buffer') = LoggedIds(log_buffer) \cup {r.id}
  BY <1>1, <1>4, AppendIds DEF TypeOk
<1> HIDE DEF r
<1> QED
  BY <1>1, <1>4, <1>5 DEF HoldsDurable

LEMMA HoldsReplay ==
  ASSUME TypeOk, HoldsDurable,
         ReplayOperation \/ ReplayCheckpointRecord \/ ReplayTornLine \/ ReplayDone
  PROVE  HoldsDurable'
<1>1. CASE ReplayOperation
  <2>1. /\ pc = "replay" /\ pc' = "apply" /\ cur'.id = Head(unread).id
        /\ unread # << >> /\ unread' = Tail(unread)
        /\ UNCHANGED <<log_file, log_buffer, applied, replaying, version_map>>
    BY <1>1 DEF ReplayOperation, loggerVars
  <2>2. unread' = << >> \/ replaying'
    BY <2>1 DEF HoldsDurable
  <2> QED
    BY <2>1, <2>2, ReadingALine DEF HoldsDurable
<1>2. CASE ReplayCheckpointRecord
  <2>1. /\ pc = "replay" /\ pc' = pc /\ Head(unread).op = CHECKPOINT
        /\ unread # << >> /\ unread' = Tail(unread)
        /\ UNCHANGED <<log_file, log_buffer, applied, replaying, version_map>>
    BY <1>2 DEF ReplayCheckpointRecord, loggerVars
  <2> QED
    BY <2>1, ReadingALine DEF HoldsDurable
<1>3. CASE ReplayTornLine
  <2>1. CASE MemoryGone
    BY <2>1, HoldsGone
  <2>2. CASE ~MemoryGone
    <3>1. /\ pc = "replay" /\ pc' \in {"replay", "apply"}
          /\ unread # << >> /\ unread' = Tail(unread) /\ Head(unread) = Torn
          /\ UNCHANGED <<log_file, log_buffer, applied, replaying, version_map>>
      BY <1>3, <2>2 DEF ReplayTornLine, loggerVars
    <3>2. Head(unread).id = 0
      BY <3>1 DEF Torn
    <3>3. LoggedIds(unread) \subseteq LoggedIds(unread') \cup {0}
      BY <3>1, <3>2, ReadingALine
    <3> QED
      BY <3>1, <3>3 DEF HoldsDurable
  <2> QED
    BY <2>1, <2>2
<1>4. CASE ReplayDone
  BY <1>4 DEF HoldsDurable, ReplayDone, loggerVars
<1> QED
  BY <1>1, <1>2, <1>3, <1>4

LEMMA HoldsApply ==
  ASSUME TypeOk, HoldsDurable, Apply
  PROVE  HoldsDurable'
<1>1. /\ pc = "apply" /\ pc' \in {"cp_flush", "replay", "idle"}
      /\ applied' = Append(applied, cur) /\ cur \in Message
      /\ UNCHANGED <<log_file, log_buffer, unread, replaying, version_map>>
  BY DEF Apply, Caller, loggerVars, TypeOk
<1>2. MessageIds(applied') = MessageIds(applied) \cup {cur.id}
  BY <1>1, AppendIds DEF TypeOk
<1> QED
  BY <1>1, <1>2 DEF HoldsDurable

LEMMA HoldsFlush ==
  ASSUME TypeOk, HoldsDurable, Flush \/ EndFlush
  PROVE  HoldsDurable'
<1>1. CASE Flush
  <2>1. /\ pc \in FlushPcs /\ pc' = pc /\ FlushRecord
        /\ UNCHANGED <<applied, cur, unread, replaying, version_map>>
    BY <1>1 DEF Flush, memVars
  <2> QED
    BY <2>1, FlushKeepsIds DEF HoldsDurable, FlushPcs
<1>2. CASE EndFlush
  <2>1. /\ log_buffer = << >> /\ UNCHANGED <<log_buffer, log_file>>
        /\ UNCHANGED <<applied, cur, unread, replaying, version_map>>
        /\ pc' \in {"apply", "cp_map", "cp_end"} /\ pc \notin {"down", "aborted"}
        /\ pc = "log_flush" => pc' = "apply"
        /\ pc # "apply"
    BY <1>2 DEF EndFlush, FlushDone, memVars
  <2> QED
    BY <2>1 DEF HoldsDurable
<1> QED
  BY <1>1, <1>2

LEMMA HoldsCheckpoint ==
  ASSUME TypeOk, HoldsDurable,
         WriteVersionMap \/ ClearLog \/ MarkCheckpoint \/ EndCheckpoint
  PROVE  HoldsDurable'
<1>1. CASE WriteVersionMap
  BY <1>1 DEF HoldsDurable, WriteVersionMap, loggerVars, memVars
<1>2. CASE ClearLog
  <2>1. /\ pc = "cp_clear" /\ pc' = "cp_mark" /\ log_file' = << >> /\ log_buffer = << >>
        /\ UNCHANGED <<log_buffer, applied, replaying, version_map>>
        /\ unread' \in StillBuffered(unread)
    BY <1>2 DEF ClearLog, ClearLogOnDisk, HoldsDurable
  <2>2. ~replaying => unread' = << >>
    BY <2>1, StillBufferedEmpty DEF HoldsDurable
  <2> QED
    BY <2>1, <2>2, EmptyFacts DEF HoldsDurable
<1>3. CASE MarkCheckpoint
  <2> DEFINE r == [op |-> CHECKPOINT, id |-> 0, ts |-> next_timestamp]
  <2>1. /\ pc = "cp_mark" /\ pc' \in {"mark_flush", "cp_end"}
        /\ log_buffer' = Append(log_buffer, r) /\ log_file' = log_file
        /\ UNCHANGED <<applied, unread, replaying, version_map>>
    BY <1>3 DEF MarkCheckpoint, Log, memVars
  <2>2. r \in Record /\ r.op = CHECKPOINT
    BY DEF Record, TypeOk
  <2> HIDE DEF r
  <2>3. LoggedIds(log_buffer') = LoggedIds(log_buffer)
    BY <2>1, <2>2, AppendIds DEF TypeOk
  <2> QED
    BY <2>1, <2>3 DEF HoldsDurable
<1>4. CASE EndCheckpoint
  BY <1>4 DEF HoldsDurable, EndCheckpoint, Caller, loggerVars
<1> QED
  BY <1>1, <1>2, <1>3, <1>4

LEMMA HoldsStep == TypeOk /\ HoldsDurable /\ [Next]_vars => HoldsDurable'
<1> SUFFICES ASSUME TypeOk, HoldsDurable, [Next]_vars PROVE HoldsDurable'
  OBVIOUS
<1>1. CASE Boot
  BY <1>1, HoldsBoot
<1>2. CASE \E op \in Opcodes : Upsert(op)
  BY <1>2, HoldsUpsert
<1>3. CASE ReplayOperation \/ ReplayCheckpointRecord \/ ReplayTornLine \/ ReplayDone
  BY <1>3, HoldsReplay
<1>4. CASE Apply
  BY <1>4, HoldsApply
<1>5. CASE Flush \/ EndFlush
  BY <1>5, HoldsFlush
<1>6. CASE WriteVersionMap \/ ClearLog \/ MarkCheckpoint \/ EndCheckpoint
  BY <1>6, HoldsCheckpoint
<1>7. CASE Exit
  BY <1>7 DEF HoldsDurable, Exit, loggerVars, memVars
<1>8. CASE EndExit \/ Crash
  BY <1>8, HoldsGone DEF EndExit, Crash
<1>9. CASE UNCHANGED vars
  BY <1>9 DEF HoldsDurable, vars, loggerVars, memVars
<1> QED
  BY <1>1, <1>2, <1>3, <1>4, <1>5, <1>6, <1>7, <1>8, <1>9 DEF Next, ProcessStep

\* Whatever the granularities, a running process holds in its tree, or has still to
\* bring into it, every call that is durable or buffered.
THEOREM ProcessHoldsDurable == Spec => []HoldsDurable
<1>1. Spec => []TypeOk
  BY TypeCorrect
<1> QED
  BY <1>1, HoldsInit, HoldsStep, PTL DEF Spec

\* A step takes back no durable call, or is the truncation in a recovery and takes
\* back only calls whose lines the recovery has still to read.
LEMMA LossStep ==
  ASSUME TypeOk, HoldsDurable, [Next]_vars
  PROVE  DurableIds \ DurableIds'
           \subseteq IF replaying /\ pc = "cp_clear" THEN LoggedIds(unread) ELSE {}
<1>1. CASE Flush
  <2>1. FlushRecord /\ version_map' = version_map
    BY <1>1 DEF Flush
  <2> QED
    BY <2>1, FlushKeepsIds DEF DurableIds
<1>2. CASE WriteVersionMap
  <2>1. /\ pc = "cp_map" /\ version_map'.tree = applied /\ log_file' = log_file
    BY <1>2 DEF WriteVersionMap, loggerVars
  <2> QED
    BY <2>1 DEF DurableIds, HoldsDurable
<1>3. CASE ClearLog
  <2>1. /\ pc = "cp_clear" /\ version_map' = version_map /\ version_map.tree = applied
        /\ (~replaying => unread = << >>)
        /\ LoggedIds(log_file) \subseteq MessageIds(applied) \cup LoggedIds(unread)
    BY <1>3 DEF ClearLog, HoldsDurable
  <2>2. DurableIds \ DurableIds' \subseteq LoggedIds(unread)
    BY <2>1 DEF DurableIds
  <2> QED
    BY <2>1, <2>2, EmptyFacts
<1>4. CASE ~(Flush \/ WriteVersionMap \/ ClearLog)
  <2>1. UNCHANGED <<log_file, version_map>>
    BY <1>4 DEF Next, ProcessStep, Boot, LoggerConstruct, Upsert, Log, ReplayOperation,
         ReplayCheckpointRecord, ReplayTornLine, ReplayDone, Apply, EndFlush, FlushDone,
         MarkCheckpoint, EndCheckpoint, Exit, EndExit, Crash, MemoryGone, LoggerDies,
         vars, loggerVars, memVars
  <2> QED
    BY <2>1 DEF DurableIds
<1> QED
  BY <1>1, <1>2, <1>3, <1>4

\* At every granularity, also one that shrinks, durable calls are lost only to the
\* truncation in a recovery, and only those it has not read.
THEOREM LossIsUnread == Spec => OnlyUnreadIsLost
<1>1. TypeOk /\ HoldsDurable /\ [Next]_vars
        => [DurableIds \ DurableIds'
              \subseteq IF replaying /\ pc = "cp_clear" THEN LoggedIds(unread) ELSE {}]_vars
  BY LossStep
<1> QED
  BY <1>1, TypeCorrect, ProcessHoldsDurable, PTL DEF Spec, OnlyUnreadIsLost

-----------------------------------------------------------------------------
(* The order of calls: what a crash takes are the youngest, and a replay   *)
(* never leaves a call behind a younger one.                               *)

LogIds   == LoggedIds(log_file) \cup LoggedIds(log_buffer)
KnownIds == DurableIds \cup LoggedIds(log_buffer)

Ascending(s) ==
  \A i, j \in DOMAIN s :
    i < j /\ s[i].op # CHECKPOINT /\ s[j].op # CHECKPOINT => s[i].id < s[j].id

\* Only youngest calls are in the buffer, and the log has every known call that
\* is younger than one it has.
LogOrder ==
  /\ Len(issued) <= MaxOps
  /\ KnownIds \subseteq 1..Len(issued)
  /\ Ascending(log_file) /\ Ascending(log_buffer)
  /\ \A d \in DurableIds, x \in LoggedIds(log_buffer) : d < x
  /\ \A x \in KnownIds, y \in LogIds : y < x => x \in LogIds

\* A call that stands behind a younger one in s comes again later, or is in C.
ConvergesUpTo(s, C) ==
  \A i, j \in DOMAIN s :
    i < j /\ s[i].id > s[j].id =>
      s[i].id \in C \/ \E k \in DOMAIN s : k > j /\ s[k].id = s[i].id

\* The calls a running recovery still has to apply.
Coming == LoggedIds(unread) \cup IF replaying /\ pc = "apply" THEN {cur.id} ELSE {}

\* Whatever is out of order in the tree will be repaired by what is coming, which
\* is applied oldest first and repeats every call younger than its oldest.
ReplayOrder ==
  /\ Ascending(unread)
  /\ replaying /\ pc = "apply" => \A y \in LoggedIds(unread) : cur.id < y
  /\ \A x \in MessageIds(applied), y \in Coming : y < x => x \in Coming
  /\ ConvergesUpTo(applied, Coming)
  /\ ConvergesUpTo(version_map.tree, {})
  /\ ~replaying /\ pc \in {"log_flush", "apply"} =>
       /\ cur.id = Len(issued)
       /\ \A m \in MessageIds(applied) : m < cur.id

OrderInv == LogOrder /\ ReplayOrder

-----------------------------------------------------------------------------
(* Lists of log lines in the order of their calls.                         *)

LEMMA EmptyOrder ==
  /\ Ascending(<< >>)
  /\ \A C : ConvergesUpTo(<< >>, C)
<1>1. DOMAIN << >> = {}
  BY EmptySeq, LenProperties
<1> QED
  BY <1>1 DEF Ascending, ConvergesUpTo

LEMMA AppendAscending ==
  ASSUME NEW s \in Seq(Record), NEW r \in Record, Ascending(s),
         r.op = CHECKPOINT \/ \A x \in LoggedIds(s) : x < r.id
  PROVE  Ascending(Append(s, r))
<1> DEFINE t == Append(s, r)
<1>1. /\ Len(s) \in Nat /\ DOMAIN s = 1..Len(s)
      /\ DOMAIN t = 1..(Len(s) + 1)
      /\ \A i \in DOMAIN s : t[i] = s[i]
      /\ t[Len(s) + 1] = r
  BY AppendProperties, LenProperties
<1> HIDE DEF t
<1> SUFFICES ASSUME NEW i \in DOMAIN t, NEW j \in DOMAIN t, i < j,
                    t[i].op # CHECKPOINT, t[j].op # CHECKPOINT
             PROVE  t[i].id < t[j].id
  BY DEF Ascending, t
<1>2. i \in DOMAIN s /\ t[i] = s[i]
  BY <1>1
<1>3. CASE j \in DOMAIN s
  BY <1>1, <1>2, <1>3 DEF Ascending
<1>4. CASE j = Len(s) + 1
  <2>1. s[i].id \in LoggedIds(s)
    BY <1>2 DEF LoggedIds
  <2> QED
    BY <1>1, <1>2, <1>4, <2>1
<1> QED
  BY <1>1, <1>3, <1>4

LEMMA TailAscending ==
  ASSUME NEW s \in Seq(Record), s # << >>, Ascending(s)
  PROVE  /\ Ascending(Tail(s))
         /\ Head(s).op # CHECKPOINT => \A x \in LoggedIds(Tail(s)) : Head(s).id < x
<1> DEFINE t == Tail(s)
<1>1. /\ Head(s) = s[1] /\ 1 \in DOMAIN s /\ DOMAIN t \subseteq Nat
      /\ \A i \in DOMAIN t : i >= 1 /\ i + 1 \in DOMAIN s /\ t[i] = s[i + 1]
  BY TailIndices
<1> HIDE DEF t
<1>2. Ascending(t)
  <2> SUFFICES ASSUME NEW i \in DOMAIN t, NEW j \in DOMAIN t, i < j,
                      t[i].op # CHECKPOINT, t[j].op # CHECKPOINT
               PROVE  t[i].id < t[j].id
    BY DEF Ascending
  <2>1. i + 1 < j + 1
    BY <1>1
  <2> QED
    BY <1>1, <2>1 DEF Ascending
<1>3. ASSUME Head(s).op # CHECKPOINT, NEW x \in LoggedIds(t) PROVE Head(s).id < x
  <2>1. PICK j \in DOMAIN t : t[j].op # CHECKPOINT /\ x = t[j].id
    BY DEF LoggedIds
  <2>2. 1 < j + 1
    BY <1>1
  <2> QED
    BY <1>1, <1>3, <2>1, <2>2 DEF Ascending
<1> QED
  BY <1>2, <1>3 DEF t

\* The ids of well-typed lists are numbers.
LEMMA IdsAreNumbers ==
  /\ \A s \in Seq(Record) : LoggedIds(s) \subseteq Nat
  /\ \A s \in Seq(Message) : MessageIds(s) \subseteq Nat
<1>1. ASSUME NEW s \in Seq(Record) PROVE LoggedIds(s) \subseteq Nat
  <2>1. \A i \in DOMAIN s : s[i] \in Record
    BY ElementOfSeq, LenProperties
  <2>2. \A i \in DOMAIN s : s[i].id \in Nat
    BY <2>1 DEF Record
  <2> QED
    BY <2>2 DEF LoggedIds
<1>2. ASSUME NEW s \in Seq(Message) PROVE MessageIds(s) \subseteq Nat
  <2>1. \A i \in DOMAIN s : s[i] \in Message
    BY ElementOfSeq, LenProperties
  <2>2. \A i \in DOMAIN s : s[i].id \in Nat
    BY <2>1 DEF Message
  <2> QED
    BY <2>2 DEF MessageIds
<1> QED
  BY <1>1, <1>2

\* A call is appended to a tree that converges: it need not come any more.
LEMMA AppendConverges ==
  ASSUME NEW s \in Seq(Message), NEW m \in Message, NEW C, NEW D,
         ConvergesUpTo(s, C), C \subseteq D \cup {m.id},
         \A x \in MessageIds(s) : m.id < x => x \in D
  PROVE  ConvergesUpTo(Append(s, m), D)
<1> DEFINE t == Append(s, m)
<1>1. /\ Len(s) \in Nat /\ DOMAIN s = 1..Len(s)
      /\ DOMAIN t = 1..(Len(s) + 1)
      /\ \A i \in DOMAIN s : t[i] = s[i]
      /\ t[Len(s) + 1] = m
  BY AppendProperties, LenProperties
<1>2. m.id \in Nat /\ \A i \in DOMAIN s : s[i].id \in Nat
  <2>1. \A i \in DOMAIN s : s[i] \in Message
    BY ElementOfSeq, LenProperties
  <2> QED
    BY <2>1 DEF Message
<1> HIDE DEF t
<1> SUFFICES ASSUME NEW i \in DOMAIN t, NEW j \in DOMAIN t, i < j, t[i].id > t[j].id
             PROVE  t[i].id \in D \/ \E k \in DOMAIN t : k > j /\ t[k].id = t[i].id
  BY DEF ConvergesUpTo, t
<1>3. i \in DOMAIN s /\ t[i] = s[i]
  BY <1>1
<1>4. CASE j \in DOMAIN s
  <2>1. s[i].id \in C \/ \E k \in DOMAIN s : k > j /\ s[k].id = s[i].id
    BY <1>1, <1>3, <1>4 DEF ConvergesUpTo
  <2>2. CASE s[i].id = m.id
    <3>1. Len(s) + 1 \in DOMAIN t /\ Len(s) + 1 > j
      BY <1>1, <1>4
    <3> QED
      BY <1>1, <1>3, <2>2, <3>1
  <2>3. CASE s[i].id # m.id
    BY <1>1, <1>3, <2>1, <2>3
  <2> QED
    BY <2>2, <2>3
<1>5. CASE j = Len(s) + 1
  <2>1. s[i].id \in MessageIds(s) /\ m.id < s[i].id
    BY <1>1, <1>3, <1>5 DEF MessageIds
  <2> QED
    BY <1>3, <2>1
<1> QED
  BY <1>1, <1>4, <1>5

-----------------------------------------------------------------------------
(* The order of calls in log and map.                                      *)

LEMMA LogOrderInit == Init => LogOrder
<1> SUFFICES ASSUME Init PROVE LogOrder
  OBVIOUS
<1>1. /\ log_buffer = << >> /\ log_file = << >> /\ version_map.tree = << >>
      /\ issued = << >>
  BY DEF Init, LoggerInit
<1>2. KnownIds = {} /\ LogIds = {} /\ DurableIds = {} /\ LoggedIds(log_buffer) = {}
  BY <1>1, EmptyFacts DEF KnownIds, LogIds, DurableIds
<1>3. Len(issued) = 0 /\ Ascending(log_file) /\ Ascending(log_buffer)
  BY <1>1, EmptyFacts, EmptyOrder
<1> QED
  BY <1>2, <1>3, BoundsAssumption DEF LogOrder

\* A process begins or ends: the buffer is empty, the disk as it was.
LEMMA LogOrderGone ==
  ASSUME LogOrder, log_buffer' = << >>, UNCHANGED <<log_file, version_map, issued>>
  PROVE  LogOrder'
<1>1. LoggedIds(log_buffer') = {} /\ Ascending(log_buffer')
  BY EmptyFacts, EmptyOrder
<1>2. /\ DurableIds' = DurableIds /\ KnownIds' = DurableIds
      /\ LogIds' = LoggedIds(log_file)
  BY <1>1 DEF KnownIds, LogIds, DurableIds
<1>3. /\ Len(issued') <= MaxOps /\ DurableIds \subseteq 1..Len(issued')
      /\ Ascending(log_file')
  BY DEF LogOrder, KnownIds
<1>4. ASSUME NEW x \in DurableIds, NEW y \in LoggedIds(log_file), y < x
      PROVE  x \in LoggedIds(log_file)
  <2>1. x \in LogIds /\ x \in 1..Len(issued)
    BY <1>4 DEF LogOrder, KnownIds, LogIds
  <2>2. CASE x \in LoggedIds(log_buffer)
    <3>1. x < x
      BY <2>2 DEF LogOrder
    <3> QED
      BY <2>1, <3>1
  <2> QED
    BY <2>1, <2>2 DEF LogIds
<1> QED
  BY <1>1, <1>2, <1>3, <1>4 DEF LogOrder

LEMMA LogOrderUpsert ==
  ASSUME DurabilityInvariant, LogOrder, NEW op \in Opcodes, Upsert(op)
  PROVE  LogOrder'
<1> DEFINE r == [op |-> op, id |-> Len(issued) + 1, ts |-> next_timestamp]
<1>1. /\ r \in Record /\ r.op # CHECKPOINT /\ r.id = Len(issued) + 1
      /\ Len(issued) \in Nat
  <2>1. op \in {INSERT, DELETE, UPDATE} /\ Len(issued) \in Nat
    BY OpcodesAssumption, LenProperties DEF DurabilityInvariant, TypeOk
  <2> QED
    BY <2>1 DEF DurabilityInvariant, TypeOk, Record, INSERT, DELETE, UPDATE, CHECKPOINT
<1>2. /\ log_buffer' = Append(log_buffer, r) /\ issued' = Append(issued, op)
      /\ UNCHANGED <<log_file, version_map>> /\ Len(issued) < MaxOps
  BY DEF Upsert, Log
<1>3. /\ log_buffer \in Seq(Record) /\ issued \in Seq(Opcodes)
  BY DEF DurabilityInvariant, TypeOk
<1> HIDE DEF r
<1>4. Len(issued') = Len(issued) + 1
  BY <1>2, <1>3, AppendProperties
<1>5. LoggedIds(log_buffer') = LoggedIds(log_buffer) \cup {r.id}
  BY <1>1, <1>2, <1>3, AppendIds
<1>6. /\ DurableIds' = DurableIds /\ KnownIds' = KnownIds \cup {r.id}
      /\ LogIds' = LogIds \cup {r.id}
  BY <1>2, <1>5 DEF KnownIds, LogIds, DurableIds
<1>7. \A x \in KnownIds : x \in Nat /\ x < r.id
  BY <1>1 DEF LogOrder
<1>8. /\ LogIds \subseteq KnownIds /\ DurableIds \subseteq KnownIds
      /\ LoggedIds(log_buffer) \subseteq KnownIds
  BY DEF LogIds, KnownIds, DurableIds
<1>9. Ascending(log_buffer')
  BY <1>1, <1>2, <1>3, <1>7, <1>8, AppendAscending DEF LogOrder
<1>10. Len(issued') <= MaxOps /\ KnownIds' \subseteq 1..Len(issued')
  <2>1. Len(issued') <= MaxOps
    BY <1>1, <1>2, <1>4, BoundsAssumption
  <2>2. \A x \in KnownIds : x \in 1..(Len(issued) + 1)
    BY <1>1 DEF LogOrder
  <2>3. r.id \in 1..(Len(issued) + 1)
    BY <1>1
  <2> QED
    BY <1>4, <1>6, <2>1, <2>2, <2>3
<1>11. \A d \in DurableIds', x \in LoggedIds(log_buffer') : d < x
  BY <1>5, <1>6, <1>7, <1>8 DEF LogOrder
<1>12. ASSUME NEW x \in KnownIds', NEW y \in LogIds', y < x PROVE x \in LogIds'
  <2>1. CASE x = r.id
    BY <1>6, <2>1
  <2>2. CASE x # r.id
    <3>1. x \in KnownIds /\ y # r.id
      BY <1>1, <1>6, <1>7, <1>12, <2>2
    <3> QED
      BY <1>6, <1>12, <3>1 DEF LogOrder
  <2> QED
    BY <2>1, <2>2
<1> QED
  BY <1>2, <1>9, <1>10, <1>11, <1>12 DEF LogOrder

LEMMA LogOrderFlush ==
  ASSUME DurabilityInvariant, LogOrder, Flush
  PROVE  LogOrder'
<1> DEFINE r == Head(log_buffer)
           I == IF r.op = CHECKPOINT THEN {} ELSE {r.id}
<1>1. /\ log_buffer # << >> /\ log_buffer' = Tail(log_buffer)
      /\ log_file' = Append(log_file, r)
      /\ UNCHANGED <<version_map, issued>>
  BY DEF Flush, FlushRecord, memVars
<1>2. log_buffer \in Seq(Record) /\ log_file \in Seq(Record) /\ r \in Record
  BY <1>1, TailIndices DEF DurabilityInvariant, TypeOk
<1>3. LoggedIds(log_buffer) = LoggedIds(log_buffer') \cup I
  BY <1>1, <1>2, TailIds
<1>4. LoggedIds(log_file') = LoggedIds(log_file) \cup I
  BY <1>1, <1>2, AppendIds
<1>5. /\ DurableIds' = DurableIds \cup I /\ KnownIds' = KnownIds /\ LogIds' = LogIds
  BY <1>1, <1>3, <1>4 DEF KnownIds, LogIds, DurableIds
<1>6. /\ Ascending(log_buffer')
      /\ r.op # CHECKPOINT => \A x \in LoggedIds(log_buffer') : r.id < x
  BY <1>1, <1>2, TailAscending DEF LogOrder
<1>7. r.op # CHECKPOINT => \A x \in LoggedIds(log_file) : x < r.id
  <2>1. LoggedIds(log_file) \subseteq DurableIds
    BY DEF DurableIds
  <2> QED
    BY <1>3, <2>1 DEF LogOrder
<1>8. Ascending(log_file')
  BY <1>1, <1>2, <1>7, AppendAscending DEF LogOrder
<1>9. \A d \in DurableIds', x \in LoggedIds(log_buffer') : d < x
  BY <1>3, <1>5, <1>6 DEF LogOrder
<1> HIDE DEF r, I
<1> QED
  BY <1>1, <1>5, <1>6, <1>8, <1>9 DEF LogOrder

\* The map takes in what is in the tree, which is all that is known.
LEMMA LogOrderWriteVersionMap ==
  ASSUME DurabilityInvariant, LogOrder, WriteVersionMap
  PROVE  LogOrder'
<1>1. /\ pc = "cp_map" /\ version_map'.tree = applied
      /\ UNCHANGED <<log_file, log_buffer, issued>>
  BY DEF WriteVersionMap, loggerVars
<1>2. unread = << >> /\ log_buffer = << >>
  BY <1>1, CheckpointReadsAll DEF CheckpointPcs, DurabilityInvariant, ControlInv
<1>3. LoggedIds(log_buffer) = {}
  BY <1>2, EmptyFacts
<1>4. MessageIds(applied) = DurableIds
  BY <1>1, <1>2, <1>3, EmptyFacts DEF DurabilityInvariant, ContentInv
<1>5. DurableIds' = DurableIds /\ KnownIds' = KnownIds /\ LogIds' = LogIds
  BY <1>1, <1>4 DEF KnownIds, LogIds, DurableIds
<1> QED
  BY <1>1, <1>5 DEF LogOrder

LEMMA LogOrderClearLog ==
  ASSUME DurabilityInvariant, LogOrder, ClearLog
  PROVE  LogOrder'
<1>1. /\ pc = "cp_clear" /\ log_file' = << >>
      /\ UNCHANGED <<log_buffer, version_map, issued>>
  BY DEF ClearLog, ClearLogOnDisk
<1>2. log_buffer = << >>
  BY <1>1 DEF DurabilityInvariant, ControlInv
<1>3. /\ LoggedIds(log_buffer') = {} /\ LoggedIds(log_file') = {}
      /\ Ascending(log_buffer') /\ Ascending(log_file')
  BY <1>1, <1>2, EmptyFacts, EmptyOrder
<1>4. LogIds' = {} /\ KnownIds' \subseteq KnownIds
  BY <1>1, <1>3 DEF LogIds, KnownIds, DurableIds
<1> QED
  BY <1>1, <1>3, <1>4 DEF LogOrder

LEMMA LogOrderMarkCheckpoint ==
  ASSUME DurabilityInvariant, LogOrder, MarkCheckpoint
  PROVE  LogOrder'
<1> DEFINE r == [op |-> CHECKPOINT, id |-> 0, ts |-> next_timestamp]
<1>1. /\ log_buffer' = Append(log_buffer, r)
      /\ UNCHANGED <<log_file, version_map, issued>>
  BY DEF MarkCheckpoint, Log
<1>2. r \in Record /\ r.op = CHECKPOINT /\ log_buffer \in Seq(Record)
  BY DEF DurabilityInvariant, TypeOk, Record
<1> HIDE DEF r
<1>3. LoggedIds(log_buffer') = LoggedIds(log_buffer)
  <2>1. LoggedIds(Append(log_buffer, r))
          = LoggedIds(log_buffer) \cup (IF r.op = CHECKPOINT THEN {} ELSE {r.id})
    BY <1>2, AppendIds
  <2> QED
    BY <1>1, <1>2, <2>1
<1>4. Ascending(log_buffer')
  BY <1>1, <1>2, AppendAscending DEF LogOrder
<1>5. DurableIds' = DurableIds /\ KnownIds' = KnownIds /\ LogIds' = LogIds
  BY <1>1, <1>3 DEF LogIds, KnownIds, DurableIds
<1> QED
  BY <1>1, <1>3, <1>4, <1>5 DEF LogOrder

LEMMA LogOrderStep ==
  ASSUME DurabilityInvariant, LogOrder, [Next]_vars
  PROVE  LogOrder'
<1>1. CASE Boot
  BY <1>1, LogOrderGone DEF Boot, LoggerConstruct
<1>2. CASE EndExit \/ Crash
  BY <1>2, LogOrderGone DEF EndExit, Crash, MemoryGone, LoggerDies
<1>3. ASSUME NEW op \in Opcodes, Upsert(op) PROVE LogOrder'
  BY <1>3, LogOrderUpsert
<1>4. CASE Flush
  BY <1>4, LogOrderFlush
<1>5. CASE WriteVersionMap
  BY <1>5, LogOrderWriteVersionMap
<1>6. CASE ClearLog
  BY <1>6, LogOrderClearLog
<1>7. CASE MarkCheckpoint
  BY <1>7, LogOrderMarkCheckpoint
<1>8. CASE UNCHANGED <<log_buffer, log_file, version_map, issued>>
  BY <1>8 DEF LogOrder, LogIds, KnownIds, DurableIds
<1>9. \/ Boot \/ EndExit \/ Crash \/ (\E op \in Opcodes : Upsert(op)) \/ Flush
      \/ WriteVersionMap \/ ClearLog \/ MarkCheckpoint
      \/ UNCHANGED <<log_buffer, log_file, version_map, issued>>
  BY NoTornLine
     DEF Next, ProcessStep, vars, loggerVars, ReplayOperation, ReplayCheckpointRecord,
         ReplayDone, Apply, EndFlush, FlushDone, EndCheckpoint, Exit
<1> QED
  BY <1>1, <1>2, <1>3, <1>4, <1>5, <1>6, <1>7, <1>8, <1>9

-----------------------------------------------------------------------------
(* The order of calls in the tree.                                         *)

\* Nothing is applied twice: what is out of order in s may be repaired by more.
LEMMA ConvergesMore ==
  ASSUME NEW s, NEW C, NEW D, C \subseteq D, ConvergesUpTo(s, C)
  PROVE  ConvergesUpTo(s, D)
BY DEF ConvergesUpTo

LEMMA ReplayOrderInit == Init => ReplayOrder
<1> SUFFICES ASSUME Init PROVE ReplayOrder
  OBVIOUS
<1>1. /\ pc = "down" /\ ~replaying /\ unread = << >> /\ applied = << >>
      /\ version_map.tree = << >>
  BY DEF Init
<1>2. MessageIds(applied) = {} /\ LoggedIds(unread) = {}
  BY <1>1, EmptyFacts
<1>3. /\ Ascending(unread)
      /\ ConvergesUpTo(applied, Coming) /\ ConvergesUpTo(version_map.tree, {})
  BY <1>1, EmptyOrder
<1> QED
  BY <1>1, <1>2, <1>3 DEF ReplayOrder

\* A step that neither reads a line nor applies a call.
LEMMA ReplayOrderSame ==
  ASSUME ReplayOrder, UNCHANGED <<unread, applied, version_map>>,
         pc # "apply" \/ ~replaying, pc' \notin {"log_flush", "apply"}
  PROVE  ReplayOrder'
<1>1. Coming = LoggedIds(unread) /\ Coming' = LoggedIds(unread)
  BY DEF Coming
<1> QED
  BY <1>1 DEF ReplayOrder

LEMMA ReplayOrderGone == ReplayOrder /\ MemoryGone => ReplayOrder'
<1> SUFFICES ASSUME ReplayOrder, MemoryGone PROVE ReplayOrder'
  OBVIOUS
<1>1. /\ pc' = "down" /\ ~replaying' /\ unread' = << >> /\ applied' = << >>
      /\ version_map' = version_map
  BY DEF MemoryGone
<1>2. MessageIds(applied') = {}
  BY <1>1, EmptyFacts
<1>3. Ascending(unread') /\ ConvergesUpTo(applied', Coming')
  BY <1>1, EmptyOrder
<1> QED
  BY <1>1, <1>2, <1>3 DEF ReplayOrder

\* A recovery starts from the map, with the whole log to come.
LEMMA ReplayOrderBoot ==
  ASSUME DurabilityInvariant, LogOrder, ReplayOrder, Boot
  PROVE  ReplayOrder'
<1>1. pc \in {"down", "aborted"} /\ log_buffer = << >> /\ version_map' = version_map
  BY DEF Boot, DurabilityInvariant, ControlInv
<1>2. CASE version_map.root = "garbage"
  BY <1>1, <1>2, ReplayOrderSame DEF Boot, memVars
<1>3. CASE version_map.root # "garbage"
  <2>1. /\ pc' = "replay" /\ replaying' /\ unread' = log_file
        /\ applied' = version_map.tree
    BY <1>3 DEF Boot
  <2>2. Coming' = LoggedIds(log_file)
    BY <2>1 DEF Coming
  <2>3. LogIds = LoggedIds(log_file) /\ MessageIds(applied') \subseteq KnownIds
    BY <1>1, <2>1, EmptyFacts DEF LogIds, KnownIds, DurableIds
  <2>4. \A x \in MessageIds(applied'), y \in Coming' : y < x => x \in Coming'
    BY <2>2, <2>3 DEF LogOrder
  <2>5. ConvergesUpTo(applied', {}) /\ ConvergesUpTo(applied', Coming')
    BY <2>1, ConvergesMore DEF ReplayOrder
  <2> QED
    BY <1>1, <2>1, <2>4, <2>5 DEF ReplayOrder, LogOrder
<1> QED
  BY <1>2, <1>3

LEMMA ReplayOrderUpsert ==
  ASSUME DurabilityInvariant, LogOrder, ReplayOrder, NEW op \in Opcodes, Upsert(op)
  PROVE  ReplayOrder'
<1>1. /\ pc = "idle" /\ issued' = Append(issued, op) /\ cur'.id = Len(issued) + 1
      /\ UNCHANGED <<applied, unread, replaying, version_map>>
  BY DEF Upsert
<1>2. ~replaying /\ issued \in Seq(Opcodes) /\ Len(issued) \in Nat
  BY <1>1, LenProperties DEF DurabilityInvariant, TypeOk, ControlInv
<1>3. Len(issued') = Len(issued) + 1
  BY <1>1, <1>2, AppendProperties
<1>4. \A m \in MessageIds(applied) : m < cur'.id
  <2>1. MessageIds(applied) \subseteq KnownIds
    BY <1>1 DEF DurabilityInvariant, ContentInv, KnownIds
  <2>2. \A m \in MessageIds(applied) : m \in 1..Len(issued)
    BY <2>1 DEF LogOrder
  <2> QED
    BY <1>1, <1>2, <2>2
<1>5. Coming' = Coming
  BY <1>1, <1>2 DEF Coming
<1> QED
  BY <1>1, <1>2, <1>3, <1>4, <1>5 DEF ReplayOrder

\* The oldest call that is to come is taken up.
LEMMA ReplayOrderReplayOperation ==
  ASSUME DurabilityInvariant, ReplayOrder, ReplayOperation
  PROVE  ReplayOrder'
<1>1. /\ pc = "replay" /\ unread # << >> /\ pc' = "apply"
      /\ unread' = Tail(unread) /\ cur'.id = Head(unread).id
      /\ UNCHANGED <<applied, replaying, version_map>>
  BY DEF ReplayOperation
<1>2. replaying /\ unread \in Seq(Record) /\ Head(unread).op # CHECKPOINT
  BY <1>1 DEF DurabilityInvariant, ControlInv, LogInv, ReplayOperation, CHECKPOINT
<1>3. LoggedIds(unread) = LoggedIds(unread') \cup {cur'.id}
  BY <1>1, <1>2, TailIds
<1>4. Coming' = Coming
  BY <1>1, <1>2, <1>3 DEF Coming
<1>5. Ascending(unread') /\ \A y \in LoggedIds(unread') : cur'.id < y
  BY <1>1, <1>2, TailAscending DEF ReplayOrder
<1> QED
  BY <1>1, <1>2, <1>4, <1>5 DEF ReplayOrder

LEMMA ReplayOrderReplayCheckpointRecord ==
  ASSUME DurabilityInvariant, ReplayOrder, ReplayCheckpointRecord
  PROVE  ReplayOrder'
<1>1. /\ pc = "replay" /\ unread # << >> /\ pc' = pc
      /\ unread' = Tail(unread) /\ Head(unread).op = CHECKPOINT
      /\ UNCHANGED <<applied, replaying, version_map>>
  BY DEF ReplayCheckpointRecord
<1>2. unread \in Seq(Record)
  BY DEF DurabilityInvariant, LogInv
<1>3. LoggedIds(unread) = LoggedIds(unread') \cup {}
  BY <1>1, <1>2, TailIds
<1>4. Coming' = Coming
  BY <1>1, <1>3 DEF Coming
<1>5. Ascending(unread')
  BY <1>1, <1>2, TailAscending DEF ReplayOrder
<1> QED
  BY <1>1, <1>4, <1>5 DEF ReplayOrder

\* A call is applied behind younger ones only if they are all to come again.
LEMMA ReplayOrderApply ==
  ASSUME DurabilityInvariant, ReplayOrder, Apply
  PROVE  ReplayOrder'
<1>1. /\ pc = "apply" /\ applied' = Append(applied, cur)
      /\ UNCHANGED <<unread, replaying, version_map>>
      /\ pc' \notin {"log_flush", "apply"}
  BY DEF Apply, Caller
<1>2. /\ cur \in Message /\ applied \in Seq(Message) /\ unread \in Seq(Record)
      /\ cur.id \in Nat
  BY <1>1 DEF DurabilityInvariant, TypeOk, LogInv, Message
<1>3. /\ Coming' = LoggedIds(unread)
      /\ Coming \subseteq LoggedIds(unread) \cup {cur.id}
      /\ LoggedIds(unread) \subseteq Nat /\ MessageIds(applied) \subseteq Nat
      /\ ~replaying => LoggedIds(unread) = {}
  BY <1>1, <1>2, IdsAreNumbers, EmptyFacts DEF Coming, DurabilityInvariant, ControlInv
<1>4. MessageIds(applied') = MessageIds(applied) \cup {cur.id}
  BY <1>1, <1>2, AppendIds
<1>5. \A y \in LoggedIds(unread) : cur.id < y
  BY <1>1, <1>3 DEF ReplayOrder
<1>6. \A x \in MessageIds(applied) : cur.id < x => x \in LoggedIds(unread)
  <2> SUFFICES ASSUME NEW x \in MessageIds(applied), cur.id < x
               PROVE  x \in LoggedIds(unread)
    OBVIOUS
  <2>1. CASE replaying
    <3>1. cur.id \in Coming
      BY <1>1, <2>1 DEF Coming
    <3>2. x \in Coming /\ x # cur.id
      BY <1>2, <3>1 DEF ReplayOrder
    <3> QED
      BY <1>3, <3>2
  <2>2. CASE ~replaying
    <3>1. x < cur.id
      BY <1>1, <2>2 DEF ReplayOrder
    <3> QED
      BY <1>2, <1>3, <3>1
  <2> QED
    BY <2>1, <2>2
<1>7. ConvergesUpTo(applied', Coming')
  BY <1>1, <1>2, <1>3, <1>6, AppendConverges DEF ReplayOrder
<1>8. ASSUME NEW x \in MessageIds(applied'), NEW y \in LoggedIds(unread), y < x
      PROVE  x \in LoggedIds(unread)
  <2>1. cur.id < y /\ y \in Nat
    BY <1>3, <1>5
  <2>2. x \in MessageIds(applied) /\ cur.id < x
    BY <1>2, <1>3, <1>4, <1>8, <2>1
  <2> QED
    BY <1>6, <2>2
<1> QED
  BY <1>1, <1>3, <1>7, <1>8 DEF ReplayOrder

\* The map takes the tree when nothing is to come.
LEMMA ReplayOrderWriteVersionMap ==
  ASSUME DurabilityInvariant, ReplayOrder, WriteVersionMap
  PROVE  ReplayOrder'
<1>1. /\ pc = "cp_map" /\ pc' = "cp_clear" /\ version_map'.tree = applied
      /\ UNCHANGED <<unread, applied, replaying>>
  BY DEF WriteVersionMap, memVars
<1>2. unread = << >>
  BY <1>1, CheckpointReadsAll DEF CheckpointPcs
<1>3. Coming = {} /\ Coming' = {}
  BY <1>1, <1>2, EmptyFacts DEF Coming
<1> QED
  BY <1>1, <1>3 DEF ReplayOrder

LEMMA ReplayOrderStep ==
  ASSUME DurabilityInvariant, LogOrder, ReplayOrder, [Next]_vars
  PROVE  ReplayOrder'
<1>1. CASE Boot
  BY <1>1, ReplayOrderBoot
<1>2. CASE EndExit \/ Crash
  BY <1>2, ReplayOrderGone DEF EndExit, Crash
<1>3. ASSUME NEW op \in Opcodes, Upsert(op) PROVE ReplayOrder'
  BY <1>3, ReplayOrderUpsert
<1>4. CASE ReplayOperation
  BY <1>4, ReplayOrderReplayOperation
<1>5. CASE ReplayCheckpointRecord
  BY <1>5, ReplayOrderReplayCheckpointRecord
<1>6. CASE Apply
  BY <1>6, ReplayOrderApply
<1>7. CASE WriteVersionMap
  BY <1>7, ReplayOrderWriteVersionMap
<1>8. CASE ClearLog
  <2>1. unread = << >> /\ unread' = << >>
    <3>1. pc = "cp_clear" /\ unread' \in StillBuffered(unread)
      BY <1>8 DEF ClearLog
    <3>2. unread = << >>
      BY <3>1, CheckpointReadsAll DEF CheckpointPcs
    <3> QED
      BY <3>1, <3>2, StillBufferedEmpty
  <2> QED
    BY <1>8, <2>1, ReplayOrderSame DEF ClearLog
<1>9. CASE ReplayDone \/ MarkCheckpoint \/ EndCheckpoint \/ Exit
  BY <1>9, ReplayOrderSame
     DEF ReplayDone, MarkCheckpoint, EndCheckpoint, Exit, memVars, Caller
<1>10. CASE EndFlush
  <2>1. pc = "log_flush" => ~replaying
    BY DEF DurabilityInvariant, ControlInv
  <2>2. UNCHANGED <<unread, applied, version_map, cur, replaying, issued>>
    BY <1>10 DEF EndFlush, memVars
  <2>3. CASE pc = "log_flush" /\ pc' = "apply"
    <3>1. Coming' = Coming
      BY <2>1, <2>2, <2>3 DEF Coming
    <3> QED
      BY <2>1, <2>2, <2>3, <3>1 DEF ReplayOrder
  <2>4. CASE pc # "apply" /\ pc' \notin {"log_flush", "apply"}
    BY <2>2, <2>4, ReplayOrderSame
  <2> QED
    BY <1>10, <2>3, <2>4 DEF EndFlush
<1>11. CASE UNCHANGED <<pc, memVars, version_map, issued>>
  <2>1. Coming' = Coming
    BY <1>11 DEF Coming, memVars
  <2> QED
    BY <1>11, <2>1 DEF ReplayOrder, memVars
<1> QED
  BY <1>1, <1>2, <1>3, <1>4, <1>5, <1>6, <1>7, <1>8, <1>9, <1>10, <1>11, NoTornLine
     DEF Next, ProcessStep, vars, Flush

\* Log, map and tree keep the calls in an order from which every replay converges.
LEMMA OrderHolds ==
  ASSUME GranularityNeverShrinks
  PROVE  Spec => []OrderInv
<1>1. Init => OrderInv
  BY LogOrderInit, ReplayOrderInit DEF OrderInv
<1>2. DurabilityInvariant /\ OrderInv /\ [Next]_vars => OrderInv'
  BY LogOrderStep, ReplayOrderStep DEF OrderInv
<1> QED
  BY <1>1, <1>2, InvariantHolds, PTL DEF Spec

\* A call never ends up behind a younger one, however often a crash fell between
\* the rename of the map and the truncation of the log, so that part of the log
\* was applied twice (checkpoint 677-699, replayLogs 979-1023).
THEOREM WritersStayInOrder ==
  ASSUME GranularityNeverShrinks
  PROVE  Spec => []LastWriterWins
<1>1. DurabilityInvariant /\ OrderInv => LastWriterWins
  <2> SUFFICES ASSUME DurabilityInvariant, OrderInv, Serving,
                      NEW i \in DOMAIN applied, NEW j \in DOMAIN applied,
                      i < j, applied[i].id > applied[j].id
               PROVE  \E k \in DOMAIN applied : k > j /\ applied[k].id = applied[i].id
    BY DEF LastWriterWins
  <2>1. ~replaying /\ unread = << >>
    BY DEF Serving, DurabilityInvariant, ControlInv
  <2>2. Coming = {}
    BY <2>1, EmptyFacts DEF Coming
  <2> QED
    BY <2>2 DEF OrderInv, ReplayOrder, ConvergesUpTo
<1> QED
  BY <1>1, InvariantHolds, OrderHolds, PTL

-----------------------------------------------------------------------------
(* The refinement.                                                         *)

\* What Store's `contents' is mapped to.
Contents == IF Serving THEN MessageIds(applied) \cup PendingIds ELSE DurableIds

\* It is what is durable or buffered, at any time; a recovery buffers no call.
LEMMA ContentsAreKnown ==
  ASSUME DurabilityInvariant
  PROVE  /\ Contents = KnownIds
         /\ ~Serving => KnownIds = DurableIds
<1>1. CASE Serving
  <2>1. pc \notin {"down", "aborted"} /\ unread = << >>
    BY <1>1 DEF Serving, DurabilityInvariant, ControlInv
  <2>2. LoggedIds(unread) = {}
    BY <2>1, EmptyFacts
  <2> QED
    BY <1>1, <2>1, <2>2
       DEF Contents, PendingIds, KnownIds, DurabilityInvariant, ContentInv
<1>2. CASE ~Serving
  <2>1. log_buffer \in Seq(Record) /\ MarkFirst(log_buffer)
    BY DEF DurabilityInvariant, TypeOk, LogInv
  <2>2. log_buffer = << >> \/ OpCount(log_buffer) = 0
    BY <1>2 DEF Serving, DurabilityInvariant, ControlInv, LogInv
  <2>3. LoggedIds(log_buffer) = {}
    BY <2>1, <2>2, EmptyFacts, CountFacts
  <2> QED
    BY <1>2, <2>3 DEF Contents, KnownIds
<1> QED
  BY <1>1, <1>2

LEMMA ContentsAreKnownNext ==
  DurabilityInvariant' => /\ Contents' = KnownIds'
                          /\ ~Serving' => KnownIds' = DurableIds'
<1> DEFINE K == Contents = KnownIds /\ (~Serving => KnownIds = DurableIds)
<1>1. DurabilityInvariant => K
  BY ContentsAreKnown
<1>2. DurabilityInvariant' => K'
  BY <1>1, PTL
<1> QED
  BY <1>2

\* The abstract store counts as this module does.
LEMMA StoreCounts == \A S : Store!Cardinality(S) = Cardinality(S)
BY DEF Store!Cardinality, Cardinality

\* Only a call adds to what is known, only the end of a process takes from it.
LEMMA KnownStays ==
  ASSUME DurabilityInvariant, [Next]_vars, ~EndExit, ~Crash,
         \A op \in Opcodes : ~Upsert(op)
  PROVE  KnownIds' = KnownIds
<1>1. CASE Boot
  <2>1. log_buffer = << >> /\ log_buffer' = << >> /\ UNCHANGED <<log_file, version_map>>
    BY <1>1 DEF Boot, LoggerConstruct, DurabilityInvariant, ControlInv
  <2> QED
    BY <2>1 DEF KnownIds, DurableIds
<1>2. CASE Flush
  <2>1. LoggedIds(log_file') \cup LoggedIds(log_buffer')
          = LoggedIds(log_file) \cup LoggedIds(log_buffer)
    BY <1>2, FlushMovesALine DEF Flush, DurabilityInvariant, TypeOk, LogInv
  <2>2. version_map' = version_map
    BY <1>2 DEF Flush
  <2> QED
    BY <2>1, <2>2 DEF KnownIds, DurableIds
<1>3. CASE WriteVersionMap
  <2>1. /\ pc = "cp_map" /\ version_map'.tree = applied
        /\ UNCHANGED <<log_file, log_buffer>>
    BY <1>3 DEF WriteVersionMap, loggerVars
  <2>2. LoggedIds(unread) = {}
    BY <2>1, CheckpointReadsAll, EmptyFacts DEF CheckpointPcs
  <2>3. MessageIds(applied) = KnownIds
    BY <2>1, <2>2 DEF KnownIds, DurabilityInvariant, ContentInv
  <2> QED
    BY <2>1, <2>3 DEF KnownIds, DurableIds
<1>4. CASE ClearLog
  <2>1. /\ pc = "cp_clear" /\ log_file' = << >>
        /\ UNCHANGED <<version_map, log_buffer>>
    BY <1>4 DEF ClearLog, ClearLogOnDisk
  <2>2. LoggedIds(unread) = {} /\ version_map.tree = applied
    BY <2>1, CheckpointReadsAll, EmptyFacts
       DEF CheckpointPcs, DurabilityInvariant, ContentInv
  <2>3. MessageIds(version_map.tree) = KnownIds
    BY <2>1, <2>2 DEF KnownIds, DurabilityInvariant, ContentInv
  <2>4. LoggedIds(log_file') = {}
    BY <2>1, EmptyFacts
  <2> QED
    BY <2>1, <2>3, <2>4 DEF KnownIds, DurableIds
<1>5. CASE MarkCheckpoint
  <2> DEFINE r == [op |-> CHECKPOINT, id |-> 0, ts |-> next_timestamp]
  <2>1. log_buffer' = Append(log_buffer, r) /\ UNCHANGED <<log_file, version_map>>
    BY <1>5 DEF MarkCheckpoint, Log
  <2>2. r \in Record /\ r.op = CHECKPOINT /\ log_buffer \in Seq(Record)
    BY DEF DurabilityInvariant, TypeOk, Record
  <2> HIDE DEF r
  <2>3. LoggedIds(Append(log_buffer, r))
          = LoggedIds(log_buffer) \cup (IF r.op = CHECKPOINT THEN {} ELSE {r.id})
    BY <2>2, AppendIds
  <2> QED
    BY <2>1, <2>2, <2>3 DEF KnownIds, DurableIds
<1>6. CASE UNCHANGED <<log_buffer, log_file, version_map>>
  BY <1>6 DEF KnownIds, DurableIds
<1> QED
  BY <1>1, <1>2, <1>3, <1>4, <1>5, <1>6, NoTornLine
     DEF Next, ProcessStep, vars, loggerVars, ReplayOperation, ReplayCheckpointRecord,
         ReplayDone, Apply, EndFlush, FlushDone, EndCheckpoint, Exit

\* Clients are served until the process ends.
LEMMA ServingStays ==
  ASSUME DurabilityInvariant, [Next]_vars, Serving, ~EndExit, ~Crash
  PROVE  Serving'
<1>1. pc \notin {"down", "aborted"} /\ ~replaying
  BY DEF Serving
<1>2. ~replaying'
  BY <1>1, NoTornLine
     DEF Next, ProcessStep, vars, memVars, Boot, Upsert, ReplayOperation,
         ReplayCheckpointRecord, ReplayDone, Apply, Flush, EndFlush, WriteVersionMap,
         ClearLog, MarkCheckpoint, EndCheckpoint, Exit
<1>3. pc' \notin {"down", "aborted"}
  BY <1>1, NoTornLine
     DEF Next, ProcessStep, vars, Boot, Upsert, ReplayOperation,
         ReplayCheckpointRecord, ReplayDone, Apply, Flush, EndFlush, WriteVersionMap,
         ClearLog, MarkCheckpoint, EndCheckpoint, Exit, Caller
<1> QED
  BY <1>2, <1>3 DEF Serving

\* What is durable is closed towards older calls.
LEMMA DurableKeepsOlder ==
  LogOrder => \A x \in DurableIds, y \in KnownIds : y < x => y \in DurableIds
<1> SUFFICES ASSUME LogOrder, NEW x \in DurableIds, NEW y \in KnownIds, y < x
             PROVE  y \in DurableIds
  OBVIOUS
<1>1. x \in Nat /\ y \in Nat
  BY DEF LogOrder, KnownIds
<1>2. y \notin LoggedIds(log_buffer)
  <2>1. y \in LoggedIds(log_buffer) => x < y
    BY DEF LogOrder
  <2> QED
    BY <1>1, <2>1
<1> QED
  BY <1>2 DEF KnownIds

LEMMA DurableKeepsOlderNext ==
  LogOrder' => \A x \in DurableIds', y \in KnownIds' : y < x => y \in DurableIds'
<1> DEFINE Closed == \A x \in DurableIds, y \in KnownIds : y < x => y \in DurableIds
<1>1. LogOrder => Closed
  BY DurableKeepsOlder
<1>2. LogOrder' => Closed'
  BY <1>1, PTL
<1> QED
  BY <1>2

\* A call of upsert is an Issue.
LEMMA UpsertIssues ==
  ASSUME DurabilityInvariant, OrderInv, DurabilityInvariant',
         NEW op \in Opcodes, Upsert(op)
  PROVE  Store!Next
<1> DEFINE c == Len(issued) + 1
           r == [op |-> op, id |-> c, ts |-> next_timestamp]
<1>1. /\ pc = "idle" /\ Len(issued) < MaxOps /\ log_buffer' = Append(log_buffer, r)
      /\ UNCHANGED <<log_file, version_map, applied, replaying>>
      /\ pc' \in {"log_flush", "apply"}
  BY DEF Upsert, Log
<1>2. Serving /\ Serving'
  BY <1>1 DEF Serving, DurabilityInvariant, ControlInv
<1>3. Len(issued) \in Nat /\ c \in 1..MaxOps
  <2>1. Len(issued) \in Nat
    BY LenProperties DEF DurabilityInvariant, TypeOk
  <2> QED
    BY <1>1, <2>1, BoundsAssumption
<1>4. DurableIds' = DurableIds /\ KnownIds' = KnownIds \cup {c}
  <2>1. r \in Record /\ r.op # CHECKPOINT /\ r.id = c /\ log_buffer \in Seq(Record)
    <3>1. op \in {INSERT, DELETE, UPDATE} /\ c \in Nat
      BY <1>3, OpcodesAssumption
    <3>2. next_timestamp \in Nat /\ log_buffer \in Seq(Record)
      BY DEF DurabilityInvariant, TypeOk
    <3> HIDE DEF c
    <3> QED
      BY <3>1, <3>2 DEF Record, INSERT, DELETE, UPDATE, CHECKPOINT
  <2> HIDE DEF r
  <2>2. LoggedIds(log_buffer') = LoggedIds(log_buffer) \cup {c}
    BY <1>1, <2>1, AppendIds
  <2> QED
    BY <1>1, <2>2 DEF KnownIds, DurableIds
<1> HIDE DEF r
<1>5. Contents = KnownIds /\ Contents' = KnownIds'
  BY ContentsAreKnown, ContentsAreKnownNext
<1>6. \A d \in Contents : d < c
  <2>1. \A d \in KnownIds : d \in 1..Len(issued)
    BY DEF OrderInv, LogOrder
  <2> QED
    BY <1>3, <1>5, <2>1
<1>7. Cardinality(Contents \ DurableIds) < MaxBuffered
  <2>1. PendingIds = {} /\ Contents = MessageIds(applied) \cup PendingIds
    BY <1>1, <1>2 DEF PendingIds, Contents
  <2> DEFINE lost == (MessageIds(applied) \cup PendingIds) \ DurableIds'
  <2>2. lost = Contents \ DurableIds /\ lost \ PendingIds = lost
    BY <1>4, <2>1
  <2>3. Cardinality(lost \ PendingIds) < MaxBuffered
    BY <1>1, <1>4, LostCalls
  <2> QED
    BY <2>2, <2>3
<1>8. Store!Issue(c)
  <2>1. Store!Cardinality(Contents \ DurableIds) < MaxBuffered
    BY <1>7, StoreCounts
  <2> QED
    BY <1>2, <1>4, <1>5, <1>6, <2>1 DEF Store!Issue, Contents
<1> QED
  BY <1>3, <1>8 DEF Store!Next

\* The end of a process is a Stop, wherever it falls.
LEMMA EndStops ==
  ASSUME DurabilityInvariant, OrderInv, DurabilityInvariant', EndExit \/ Crash
  PROVE  Store!Next
<1>1. pc' = "down" /\ UNCHANGED <<log_file, version_map>>
  BY DEF EndExit, Crash, MemoryGone, LoggerDies
<1>2. ~Serving' /\ DurableIds' = DurableIds
  BY <1>1 DEF Serving, DurableIds
<1>3. Contents = KnownIds /\ Contents' = DurableIds
  BY <1>2, ContentsAreKnown DEF Contents
<1>4. DurableIds \subseteq KnownIds
  BY DEF KnownIds
<1>5. \A x \in DurableIds, y \in KnownIds : y < x => y \in DurableIds
  BY DurableKeepsOlder DEF OrderInv
<1>6. Store!Stop
  BY <1>2, <1>3, <1>4, <1>5 DEF Store!Stop, Store!KeepsOlder, Contents, Serving
<1> QED
  BY <1>6 DEF Store!Next

\* Every other step makes calls stable, starts serving or changes nothing there.
LEMMA OtherStabilizes ==
  ASSUME DurabilityInvariant, OrderInv, DurabilityInvariant', OrderInv',
         [Next]_vars, ~EndExit, ~Crash, \A op \in Opcodes : ~Upsert(op)
  PROVE  [Store!Next]_(Store!storeVars)
<1>1. KnownIds' = KnownIds /\ DurableIds \subseteq DurableIds'
  BY KnownStays, DurableStaysStep
<1>2. /\ Contents = KnownIds /\ Contents' = KnownIds'
      /\ ~Serving => KnownIds = DurableIds
  BY ContentsAreKnown, ContentsAreKnownNext
<1>3. DurableIds' \subseteq KnownIds
  BY <1>1 DEF KnownIds
<1>4. CASE Serving
  <2>1. Serving'
    BY <1>4, ServingStays
  <2>2. \A x \in DurableIds', y \in KnownIds' : y < x => y \in DurableIds'
    BY DurableKeepsOlderNext DEF OrderInv
  <2>3. Store!Stabilize
    BY <1>1, <1>2, <1>3, <1>4, <2>1, <2>2
       DEF Store!Stabilize, Store!KeepsOlder, Contents
  <2> QED
    BY <2>3 DEF Store!Next
<1>5. CASE ~Serving
  <2>1. DurableIds' = DurableIds
    BY <1>1, <1>2, <1>3, <1>5
  <2>2. CASE Serving'
    <3>1. Store!Start
      BY <1>1, <1>2, <1>5, <2>1, <2>2 DEF Store!Start, Contents
    <3> QED
      BY <3>1 DEF Store!Next
  <2>3. CASE ~Serving'
    BY <1>1, <1>2, <1>5, <2>1, <2>3 DEF Store!storeVars, Contents, Serving
  <2> QED
    BY <2>2, <2>3
<1> QED
  BY <1>4, <1>5

\* Logger, checkpoint, truncation, crash and replay implement a store that holds a
\* set of calls, takes them in order, and loses in a crash fewer than -p returned
\* ones, the youngest: no older call goes while a younger one stays.
THEOREM ImplementsStore ==
  ASSUME GranularityNeverShrinks
  PROVE  Spec => StoreSpec
<1>1. Init => Store!Init
  <2> SUFFICES ASSUME Init PROVE Store!Init
    OBVIOUS
  <2>1. pc = "down" /\ log_file = << >> /\ version_map.tree = << >>
    BY DEF Init, LoggerInit
  <2>2. ~Serving /\ DurableIds = {}
    BY <2>1, EmptyFacts DEF Serving, DurableIds
  <2> QED
    BY <2>2 DEF Store!Init, Serving
<1>2. DurabilityInvariant /\ OrderInv /\ DurabilityInvariant' /\ OrderInv' /\ [Next]_vars
        => [Store!Next]_(Store!storeVars)
  BY UpsertIssues, EndStops, OtherStabilizes
<1> QED
  BY <1>1, <1>2, InvariantHolds, OrderHolds, PTL DEF Spec, StoreSpec, Store!Spec
=============================================================================

-------------------------- MODULE DurabilityProofs --------------------------
(***************************************************************************)
(* Theorems about Durability, for every granularity, set of opcodes and    *)
(* bound.                                                                  *)
(***************************************************************************)
EXTENDS DurabilityInv, SequenceTheorems, FiniteSetTheorems, TLAPS

-----------------------------------------------------------------------------
(* Type correctness.                                                       *)

LEMMA TornIsNoRecord == Torn \notin Record
BY DEF Torn, Record, INSERT, DELETE, UPDATE, CHECKPOINT

\* Reading a line leaves lines.
LEMMA UnreadTyped ==
  ASSUME NEW s \in Seq(Record \cup {Torn}), s # << >>
  PROVE  /\ Head(s) \in Record \cup {Torn}
         /\ Tail(s) \in Seq(Record \cup {Torn})
BY HeadTailProperties

\* What a truncated file still yields is made of lines, the last one maybe torn.
LEMMA StillBufferedTyped ==
  ASSUME NEW s \in Seq(Record \cup {Torn}), NEW t \in StillBuffered(s)
  PROVE  t \in Seq(Record \cup {Torn})
<1>1. CASE \E n \in 0..Len(s) : t = SubSeq(s, 1, n)
  <2>1. PICK n \in 0..Len(s) : t = SubSeq(s, 1, n)
    BY <1>1
  <2> QED
    BY <2>1, SubSeqProperties
<1>2. CASE \E n \in 1..Len(s) : t = Append(SubSeq(s, 1, n - 1), Torn)
  <2>1. PICK n \in 1..Len(s) : t = Append(SubSeq(s, 1, n - 1), Torn)
    BY <1>2
  <2>2. SubSeq(s, 1, n - 1) \in Seq(Record \cup {Torn})
    BY SubSeqProperties
  <2> QED
    BY <2>1, <2>2
<1> QED
  BY <1>1, <1>2 DEF StillBuffered

LEMMA EmptyLists ==
  /\ << >> \in Seq(Record) /\ << >> \in Seq(Record \cup {Torn})
  /\ << >> \in Seq(Message) /\ << >> \in Seq(Opcodes)
BY EmptySeq

LEMMA TypeInit == Init => TypeOk
<1> SUFFICES ASSUME Init PROVE TypeOk
  OBVIOUS
<1> USE DEF Init, LoggerInit, FirstTimestamp
<1>1. version_map \in [tree : Seq(Message), root : Roots]
  BY EmptyLists DEF Roots
<1>2. run \in 0..Len(Granularities) /\ crashes \in 0..MaxCrashes
  BY GranularitiesAssumption, BoundsAssumption, LenProperties
<1>3. /\ log_buffer \in Seq(Record) /\ log_file \in Seq(Record)
      /\ unread \in Seq(Record \cup {Torn})
      /\ applied \in Seq(Message) /\ issued \in Seq(Opcodes)
  BY EmptyLists
<1>4. replaying \in BOOLEAN
  OBVIOUS
<1>5. operation_count \in Nat /\ next_timestamp \in Nat \ {0}
  OBVIOUS
<1>6. /\ pc \in Pcs
      /\ cur \in IF pc \in {"log_flush", "apply"} THEN Message ELSE {NoMessage}
      /\ root_id \in Roots \ {"none"}
  BY DEF Pcs, Roots
<1> QED
  BY <1>1, <1>2, <1>3, <1>4, <1>5, <1>6 DEF TypeOk

\* What is left when a process has ended.
LEMMA TypeGone == TypeOk /\ MemoryGone /\ crashes' \in 0..MaxCrashes => TypeOk'
<1> SUFFICES ASSUME TypeOk, MemoryGone, crashes' \in 0..MaxCrashes PROVE TypeOk'
  OBVIOUS
<1> USE DEF MemoryGone, LoggerDies, FirstTimestamp
<1>1. /\ log_buffer' \in Seq(Record) /\ log_file' \in Seq(Record)
      /\ unread' \in Seq(Record \cup {Torn}) /\ applied' \in Seq(Message)
      /\ issued' \in Seq(Opcodes)
  BY EmptyLists DEF TypeOk
<1>2. /\ pc' \in Pcs
      /\ cur' \in IF pc' \in {"log_flush", "apply"} THEN Message ELSE {NoMessage}
      /\ root_id' \in Roots \ {"none"}
  BY DEF Pcs, Roots
<1>3. /\ version_map' \in [tree : Seq(Message), root : Roots]
      /\ run' \in 0..Len(Granularities)
  BY DEF TypeOk
<1>4. replaying' \in BOOLEAN
  OBVIOUS
<1>5. operation_count' \in Nat /\ next_timestamp' \in Nat \ {0}
  OBVIOUS
<1> QED
  BY <1>1, <1>2, <1>3, <1>4, <1>5 DEF TypeOk

LEMMA TypeStep == TypeOk /\ [Next]_vars => TypeOk'
<1> SUFFICES ASSUME TypeOk, [Next]_vars PROVE TypeOk'
  OBVIOUS
<1>1. CASE Boot
  <2>1. run' \in 0..Len(Granularities)
    BY <1>1, GranularitiesAssumption, LenProperties DEF TypeOk, Boot
  <2>2. log_buffer' \in Seq(Record) /\ log_file' \in Seq(Record)
    BY <1>1, EmptyLists DEF TypeOk, Boot, LoggerConstruct
  <2>3. CASE version_map.root = "garbage"
    BY <1>1, <2>1, <2>2, <2>3 DEF TypeOk, Boot, memVars, Pcs
  <2>4. CASE version_map.root # "garbage"
    <3>1. /\ unread' \in Seq(Record \cup {Torn}) /\ applied' \in Seq(Message)
          /\ operation_count' \in Nat /\ next_timestamp' \in Nat \ {0}
      BY <1>1, <2>4 DEF TypeOk, Boot, FirstTimestamp
    <3>2. /\ pc' \in Pcs /\ replaying' \in BOOLEAN
          /\ cur' \in IF pc' \in {"log_flush", "apply"} THEN Message ELSE {NoMessage}
          /\ root_id' \in Roots \ {"none"}
      BY <1>1, <2>4 DEF Boot, Pcs, Roots
    <3> QED
      BY <1>1, <2>1, <2>2, <3>1, <3>2 DEF TypeOk, Boot
  <2> QED
    BY <2>3, <2>4
<1>2. ASSUME NEW op \in Opcodes, Upsert(op) PROVE TypeOk'
  <2>1. op \in {INSERT, DELETE, UPDATE}
    BY OpcodesAssumption
  <2>2. Len(issued) + 1 \in Nat
    BY LenProperties DEF TypeOk
  <2>3. /\ [op |-> op, id |-> Len(issued) + 1, ts |-> next_timestamp] \in Record
        /\ cur' \in Message
    BY <1>2, <2>1, <2>2 DEF TypeOk, Upsert, Record, Message
  <2>4. log_buffer' \in Seq(Record) /\ issued' \in Seq(Opcodes)
    BY <1>2, <2>3, AppendProperties DEF TypeOk, Upsert, Log
  <2> QED
    BY <1>2, <2>3, <2>4 DEF TypeOk, Upsert, Log, Pcs, FlushPcs
<1>3. CASE ReplayOperation
  <2>1. Head(unread) \in Record /\ unread' \in Seq(Record \cup {Torn})
    BY <1>3, UnreadTyped DEF ReplayOperation, TypeOk, Torn
  <2>2. ReplayOpcode(Head(unread).op) \in {INSERT, DELETE, UPDATE}
    BY <1>3 DEF ReplayOperation, ReplayOpcode, INSERT, DELETE, UPDATE
  <2>3. cur' \in Message
    BY <1>3, <2>1, <2>2 DEF ReplayOperation, Message, Record, TypeOk
  <2> QED
    BY <1>3, <2>1, <2>3 DEF TypeOk, ReplayOperation, loggerVars, Pcs
<1>4. CASE ReplayCheckpointRecord
  BY <1>4, UnreadTyped DEF TypeOk, ReplayCheckpointRecord, loggerVars
<1>5. CASE ReplayTornLine
  <2> DEFINE Ignored == /\ unread' = Tail(unread)
                        /\ UNCHANGED <<pc, loggerVars, applied, cur, operation_count,
                                       next_timestamp, root_id, replaying, version_map,
                                       run, issued>>
             Misread == /\ \E op \in {INSERT, DELETE, UPDATE} :
                             cur' = [op |-> op, id |-> 0, ts |-> next_timestamp]
                        /\ unread' = Tail(unread)
                        /\ operation_count' = operation_count + 1
                        /\ pc' = "apply"
                        /\ UNCHANGED <<loggerVars, applied, next_timestamp, root_id,
                                       replaying, version_map, run, issued>>
  <2>1. /\ unread # << >> /\ crashes' = crashes
        /\ Misread \/ Ignored \/ MemoryGone
    BY <1>5 DEF ReplayTornLine
  <2>2. CASE Misread
    <3>1. cur' \in Message
      BY <2>2 DEF TypeOk, Message
    <3> QED
      BY <2>1, <2>2, <3>1, UnreadTyped DEF TypeOk, loggerVars, Pcs
  <2>3. CASE Ignored
    BY <2>1, <2>3, UnreadTyped DEF TypeOk, loggerVars
  <2>4. CASE MemoryGone
    BY <2>1, <2>4, TypeGone DEF TypeOk
  <2> QED
    BY <2>1, <2>2, <2>3, <2>4
<1>6. CASE ReplayDone
  BY <1>6 DEF TypeOk, ReplayDone, loggerVars, Pcs
<1>7. CASE Apply
  <2>1. applied' \in Seq(Message)
    BY <1>7, AppendProperties DEF TypeOk, Apply
  <2> QED
    BY <1>7, <2>1 DEF TypeOk, Apply, loggerVars, Pcs, FlushPcs, Caller, Roots
<1>8. CASE Flush
  <2>1. log_buffer' \in Seq(Record) /\ log_file' \in Seq(Record)
    BY <1>8, HeadTailProperties, AppendProperties DEF TypeOk, Flush, FlushRecord
  <2> QED
    BY <1>8, <2>1 DEF TypeOk, Flush, memVars
<1>9. CASE EndFlush
  BY <1>9 DEF TypeOk, EndFlush, FlushDone, memVars, Pcs, FlushPcs
<1>10. CASE WriteVersionMap
  BY <1>10 DEF TypeOk, WriteVersionMap, loggerVars, memVars, Pcs, Roots
<1>11. CASE ClearLog
  <2>1. unread' \in Seq(Record \cup {Torn})
    BY <1>11, StillBufferedTyped DEF TypeOk, ClearLog
  <2> QED
    BY EmptyLists, <1>11, <2>1 DEF TypeOk, ClearLog, ClearLogOnDisk, Pcs
<1>12. CASE MarkCheckpoint
  <2>1. [op |-> CHECKPOINT, id |-> 0, ts |-> next_timestamp] \in Record
    BY DEF TypeOk, Record
  <2> QED
    BY <1>12, <2>1, AppendProperties DEF TypeOk, MarkCheckpoint, Log, memVars, Pcs, FlushPcs
<1>13. CASE EndCheckpoint
  BY <1>13 DEF TypeOk, EndCheckpoint, loggerVars, Pcs, Caller
<1>14. CASE Exit
  BY <1>14 DEF TypeOk, Exit, loggerVars, memVars, Pcs, FlushPcs
<1>15. CASE EndExit
  BY <1>15, TypeGone DEF TypeOk, EndExit
<1>16. CASE Crash
  BY <1>16, TypeGone, BoundsAssumption DEF TypeOk, Crash
<1>17. CASE UNCHANGED vars
  BY <1>17 DEF TypeOk, vars, loggerVars, memVars
<1> QED
  BY <1>1, <1>2, <1>3, <1>4, <1>5, <1>6, <1>7, <1>8, <1>9, <1>10, <1>11, <1>12,
     <1>13, <1>14, <1>15, <1>16, <1>17 DEF Next, ProcessStep

\* Every variable keeps its type: in particular nothing but whole or cut lines is
\* ever read back from the log.
THEOREM TypeCorrect == Spec => []TypeOk
BY TypeInit, TypeStep, PTL DEF Spec

-----------------------------------------------------------------------------
(* Lists of log lines.                                                     *)

LEMMA AppendIds ==
  ASSUME NEW S, NEW s \in Seq(S), NEW r \in S
  PROVE  /\ MessageIds(Append(s, r)) = MessageIds(s) \cup {r.id}
         /\ LoggedIds(Append(s, r))
              = LoggedIds(s) \cup (IF r.op = CHECKPOINT THEN {} ELSE {r.id})
<1> DEFINE t == Append(s, r)
<1>1. /\ DOMAIN t = DOMAIN s \cup {Len(s) + 1}
      /\ \A i \in DOMAIN s : t[i] = s[i]
      /\ t[Len(s) + 1] = r
  BY AppendProperties, LenProperties
<1> HIDE DEF t
<1>2. MessageIds(t) = MessageIds(s) \cup {r.id}
  BY <1>1 DEF MessageIds
<1>3. LoggedIds(t) = LoggedIds(s) \cup (IF r.op = CHECKPOINT THEN {} ELSE {r.id})
  BY <1>1 DEF LoggedIds
<1> QED
  BY <1>2, <1>3 DEF t

LEMMA TailIndices ==
  ASSUME NEW S, NEW s \in Seq(S), s # << >>
  PROVE  /\ Tail(s) \in Seq(S) /\ Head(s) \in S /\ Head(s) = s[1]
         /\ Len(Tail(s)) = Len(s) - 1
         /\ DOMAIN s = 1..Len(s) /\ DOMAIN Tail(s) = 1..(Len(s) - 1)
         /\ Len(s) \in Nat \ {0}
         /\ \A i \in DOMAIN Tail(s) : i + 1 \in DOMAIN s /\ Tail(s)[i] = s[i + 1]
         /\ \A i \in DOMAIN s : i > 1 => i - 1 \in DOMAIN Tail(s) /\ s[i] = Tail(s)[i - 1]
<1>1. Len(s) \in Nat \ {0} /\ DOMAIN s = 1..Len(s)
  BY EmptySeq, LenProperties
<1>2. /\ Head(s) \in S /\ Tail(s) \in Seq(S) /\ Len(Tail(s)) = Len(s) - 1
      /\ \A i \in 1..Len(Tail(s)) : Tail(s)[i] = s[i + 1]
  BY HeadTailProperties
<1>3. DOMAIN Tail(s) = 1..(Len(s) - 1)
  BY <1>1, <1>2, LenProperties
<1>4. Head(s) = s[1]
  OBVIOUS
<1>5. \A i \in DOMAIN s : i > 1 => i - 1 \in DOMAIN Tail(s) /\ s[i] = Tail(s)[i - 1]
  BY <1>1, <1>2, <1>3
<1> QED
  BY <1>1, <1>2, <1>3, <1>4, <1>5

LEMMA TailIds ==
  ASSUME NEW S, NEW s \in Seq(S), s # << >>
  PROVE  LoggedIds(s) = LoggedIds(Tail(s))
                          \cup (IF Head(s).op = CHECKPOINT THEN {} ELSE {Head(s).id})
<1> DEFINE t == Tail(s)
           H == IF Head(s).op = CHECKPOINT THEN {} ELSE {Head(s).id}
<1>1. ASSUME NEW x \in LoggedIds(s) PROVE x \in LoggedIds(t) \cup H
  <2>1. PICK i \in DOMAIN s : s[i].op # CHECKPOINT /\ x = s[i].id
    BY DEF LoggedIds
  <2>2. CASE i = 1
    BY <2>1, <2>2, TailIndices
  <2>3. CASE i > 1
    <3>1. i - 1 \in DOMAIN t /\ s[i] = t[i - 1]
      BY <2>3, TailIndices
    <3> QED
      BY <2>1, <3>1 DEF LoggedIds
  <2> QED
    BY <2>2, <2>3, TailIndices
<1>2. ASSUME NEW x \in LoggedIds(t) PROVE x \in LoggedIds(s)
  <2>1. PICK i \in DOMAIN t : t[i].op # CHECKPOINT /\ x = t[i].id
    BY DEF LoggedIds
  <2>2. i + 1 \in DOMAIN s /\ t[i] = s[i + 1]
    BY TailIndices
  <2> QED
    BY <2>1, <2>2 DEF LoggedIds
<1>3. H \subseteq LoggedIds(s)
  <2>1. 1 \in DOMAIN s /\ Head(s) = s[1]
    BY TailIndices
  <2> QED
    BY <2>1 DEF LoggedIds
<1> QED
  BY <1>1, <1>2, <1>3

LEMMA AppendCount ==
  ASSUME NEW s \in Seq(Record), NEW r \in Record, r.op # CHECKPOINT \/ s = << >>
  PROVE  /\ OpCount(Append(s, r)) = OpCount(s) + (IF r.op = CHECKPOINT THEN 0 ELSE 1)
         /\ MarkFirst(s) => MarkFirst(Append(s, r))
         /\ NoMark(s) /\ r.op # CHECKPOINT => NoMark(Append(s, r))
<1> DEFINE t == Append(s, r)
<1>1. /\ Len(s) \in Nat /\ DOMAIN s = 1..Len(s)
      /\ Len(t) = Len(s) + 1 /\ DOMAIN t = 1..(Len(s) + 1) /\ t # << >>
      /\ \A i \in 1..Len(s) : t[i] = s[i]
      /\ t[Len(s) + 1] = r
      /\ s = << >> <=> Len(s) = 0
  BY AppendProperties, LenProperties, EmptySeq
<1> HIDE DEF t
<1>2. OpCount(t) = OpCount(s) + (IF r.op = CHECKPOINT THEN 0 ELSE 1)
  <2>1. CASE s = << >>
    <3>1. t[1] = r /\ Len(t) = 1
      BY <1>1, <2>1
    <3> QED
      BY <1>1, <2>1, <3>1 DEF OpCount
  <2>2. CASE s # << >>
    <3>1. t[1] = s[1] /\ r.op # CHECKPOINT
      BY <1>1, <2>2
    <3> QED
      BY <1>1, <2>2, <3>1 DEF OpCount
  <2> QED
    BY <2>1, <2>2
<1>3. MarkFirst(s) => MarkFirst(t)
  BY <1>1 DEF MarkFirst
<1>4. NoMark(s) /\ r.op # CHECKPOINT => NoMark(t)
  BY <1>1 DEF NoMark
<1> QED
  BY <1>2, <1>3, <1>4 DEF t

LEMMA TailCount ==
  ASSUME NEW s \in Seq(Record), s # << >>, MarkFirst(s)
  PROVE  /\ OpCount(s) = OpCount(Tail(s)) + (IF Head(s).op = CHECKPOINT THEN 0 ELSE 1)
         /\ NoMark(Tail(s)) /\ MarkFirst(Tail(s))
<1> DEFINE t == Tail(s)
<1>1. NoMark(t)
  BY TailIndices DEF NoMark, MarkFirst
<1>2. MarkFirst(t)
  BY <1>1 DEF NoMark, MarkFirst
<1>3. t = << >> <=> Len(t) = 0
  BY TailIndices, EmptySeq
<1>4. t # << >> => t[1].op # CHECKPOINT
  <2>1. t # << >> => 1 \in DOMAIN t
    BY <1>3, TailIndices
  <2> QED
    BY <1>1, <2>1 DEF NoMark
<1>5. OpCount(t) = Len(t)
  BY <1>3, <1>4, TailIndices DEF OpCount
<1>6. OpCount(s) = Len(s) - (IF s[1].op = CHECKPOINT THEN 1 ELSE 0)
  BY TailIndices DEF OpCount
<1> QED
  BY <1>1, <1>2, <1>5, <1>6, TailIndices

LEMMA CountFacts ==
  ASSUME NEW s \in Seq(Record)
  PROVE  /\ OpCount(s) \in Nat
         /\ OpCount(s) = 0 /\ NoMark(s) => s = << >>
         /\ OpCount(s) = 0 /\ MarkFirst(s) => LoggedIds(s) = {}
<1>1. /\ Len(s) \in Nat /\ DOMAIN s = 1..Len(s)
      /\ s = << >> <=> Len(s) = 0
  BY LenProperties, EmptySeq
<1>2. OpCount(s) \in Nat
  BY <1>1 DEF OpCount
<1>3. OpCount(s) = 0 /\ NoMark(s) => s = << >>
  BY <1>1 DEF OpCount, NoMark
<1>4. ASSUME OpCount(s) = 0, MarkFirst(s) PROVE LoggedIds(s) = {}
  <2>1. Len(s) = 0 \/ (Len(s) = 1 /\ s[1].op = CHECKPOINT)
    BY <1>1, <1>4 DEF OpCount
  <2> QED
    BY <1>1, <2>1 DEF LoggedIds
<1> QED
  BY <1>2, <1>3, <1>4

LEMMA EmptyFacts ==
  /\ MessageIds(<< >>) = {} /\ LoggedIds(<< >>) = {}
  /\ OpCount(<< >>) = 0 /\ NoMark(<< >>) /\ MarkFirst(<< >>)
  /\ Len(<< >>) = 0
<1>1. DOMAIN << >> = {} /\ Len(<< >>) = 0
  BY EmptySeq, LenProperties
<1> QED
  BY <1>1 DEF MessageIds, LoggedIds, OpCount, NoMark, MarkFirst
-----------------------------------------------------------------------------
(* The inductive invariant.                                                *)

\* One iteration of flush() moves a line; nothing is lost or counted twice.
LEMMA FlushMovesALine ==
  ASSUME log_buffer \in Seq(Record), log_file \in Seq(Record),
         MarkFirst(log_file), MarkFirst(log_buffer),
         log_file # << >> => NoMark(log_buffer),
         FlushRecord
  PROVE  /\ Debt' = Debt
         /\ OpCount(log_buffer') <= OpCount(log_buffer)
         /\ MarkFirst(log_file') /\ MarkFirst(log_buffer') /\ NoMark(log_buffer')
         /\ LoggedIds(log_file') \cup LoggedIds(log_buffer')
              = LoggedIds(log_file) \cup LoggedIds(log_buffer)
         /\ LoggedIds(log_file) \subseteq LoggedIds(log_file')
<1> DEFINE r == Head(log_buffer)
<1>1. /\ log_buffer # << >> /\ r \in Record
      /\ log_buffer' = Tail(log_buffer) /\ log_file' = Append(log_file, r)
      /\ log_buffer' \in Seq(Record)
  BY TailIndices DEF FlushRecord
<1>2. r.op # CHECKPOINT \/ log_file = << >>
  <2>1. 1 \in DOMAIN log_buffer /\ r = log_buffer[1]
    BY <1>1, TailIndices
  <2> QED
    BY <2>1 DEF NoMark
<1>3. /\ OpCount(log_buffer) = OpCount(log_buffer') + (IF r.op = CHECKPOINT THEN 0 ELSE 1)
      /\ NoMark(log_buffer') /\ MarkFirst(log_buffer')
  BY <1>1, TailCount
<1>4. /\ OpCount(log_file') = OpCount(log_file) + (IF r.op = CHECKPOINT THEN 0 ELSE 1)
      /\ MarkFirst(log_file')
  BY <1>1, <1>2, AppendCount
<1>5. /\ OpCount(log_buffer) \in Nat /\ OpCount(log_buffer') \in Nat
      /\ OpCount(log_file) \in Nat
  BY <1>1, CountFacts
<1>6. LoggedIds(log_file') = LoggedIds(log_file)
                               \cup (IF r.op = CHECKPOINT THEN {} ELSE {r.id})
  BY <1>1, AppendIds
<1>7. LoggedIds(log_buffer) = LoggedIds(log_buffer')
                               \cup (IF r.op = CHECKPOINT THEN {} ELSE {r.id})
  BY <1>1, TailIds
<1>8. Debt' = Debt /\ OpCount(log_buffer') <= OpCount(log_buffer)
  <2>1. CASE r.op = CHECKPOINT
    BY <1>3, <1>4, <1>5, <2>1 DEF Debt
  <2>2. CASE r.op # CHECKPOINT
    <3>1. /\ OpCount(log_buffer) = OpCount(log_buffer') + 1
          /\ OpCount(log_file') = OpCount(log_file) + 1
      BY <1>3, <1>4, <2>2
    <3>2. Debt' = OpCount(log_file') + OpCount(log_buffer')
      BY DEF Debt
    <3> QED
      BY <1>5, <3>1, <3>2 DEF Debt
  <2> QED
    BY <2>1, <2>2
<1> QED
  BY <1>3, <1>4, <1>6, <1>7, <1>8

LEMMA LimitFacts ==
  ASSUME TypeOk, run # 0
  PROVE  /\ checkpoint_granularity \in Nat
         /\ Limit(run) \in Nat \ {0}
         /\ checkpoint_granularity <= Limit(run)
         /\ \A n \in Nat : n >= 1 /\ n >= checkpoint_granularity => n >= Limit(run)
<1>1. run \in 1..Len(Granularities) /\ Granularities[run] \in Nat
  BY GranularitiesAssumption, LenProperties DEF TypeOk
<1> QED
  BY <1>1 DEF Limit, checkpoint_granularity

\* When a checkpoint runs, recovery has read the whole log.
LEMMA CheckpointReadsAll ==
  ASSUME DurabilityInvariant, pc \in CheckpointPcs
  PROVE  unread = << >>
<1>1. run # 0
  BY DEF DurabilityInvariant, ControlInv, CheckpointPcs
<1>2. /\ operation_count \in Nat /\ operation_count >= 1
      /\ operation_count >= checkpoint_granularity
      /\ operation_count + OpCount(unread) = Debt /\ Debt <= Limit(run)
      /\ unread \in Seq(Record) /\ NoMark(unread)
  BY DEF DurabilityInvariant, TypeOk, CountInv, LogInv, CheckpointPcs
<1>3. Limit(run) \in Nat /\ operation_count >= Limit(run)
  BY <1>1, <1>2, LimitFacts DEF DurabilityInvariant
<1>4. OpCount(unread) \in Nat
  BY <1>2, CountFacts
<1>5. OpCount(unread) = 0
  BY <1>2, <1>3, <1>4
<1> QED
  BY <1>2, <1>5, CountFacts

LEMMA InvariantInit == Init => DurabilityInvariant
<1> SUFFICES ASSUME Init PROVE DurabilityInvariant
  OBVIOUS
<1>1. TypeOk
  BY TypeInit
<1>2. ControlInv
  BY DEF Init, LoggerInit, ControlInv
<1>3. LogInv
  BY EmptyLists, EmptyFacts DEF Init, LoggerInit, LogInv
<1>4. CountInv
  BY EmptyFacts DEF Init, LoggerInit, CountInv, Debt, Limit, CheckpointPcs, ClearedPcs
<1>5. ContentInv
  BY EmptyFacts DEF Init, LoggerInit, ContentInv, ClearedPcs
<1>6. BufferInv
  BY EmptyFacts, LogGranularityAssumption DEF Init, LoggerInit, BufferInv, MaxBuffered
<1> QED
  BY <1>1, <1>2, <1>3, <1>4, <1>5, <1>6 DEF DurabilityInvariant

LEMMA BootStep ==
  ASSUME DurabilityInvariant, TypeOk', GranularityNeverShrinks, Boot
  PROVE  DurabilityInvariant'
<1>1. /\ log_buffer = << >> /\ log_buffer' = << >> /\ log_file' = log_file
      /\ unread = << >> /\ version_map' = version_map /\ ~replaying
  BY DEF DurabilityInvariant, ControlInv, Boot, LoggerConstruct
<1>2. Limit(run) <= Limit(run') /\ Limit(run) \in Nat /\ Limit(run') \in Nat \ {0}
  <2>1. run \in 0..Len(Granularities) /\ run' \in 1..Len(Granularities) /\ run <= run'
    BY GranularitiesAssumption, EmptySeq, LenProperties
       DEF DurabilityInvariant, TypeOk, Boot
  <2>2. DOMAIN Granularities = 1..Len(Granularities)
        /\ \A i \in 1..Len(Granularities) : Granularities[i] \in Nat
    BY GranularitiesAssumption, LenProperties
  <2>3. Limit(run') \in Nat \ {0}
    BY <2>1, <2>2 DEF Limit
  <2>4. CASE run = 0
    BY <2>3, <2>4 DEF Limit
  <2>5. CASE run # 0
    <3>1. Granularities[run] <= Granularities[run']
      BY <2>1, <2>2, <2>5 DEF GranularityNeverShrinks
    <3> QED
      BY <2>1, <2>2, <2>5, <3>1 DEF Limit
  <2> QED
    BY <2>4, <2>5, <2>3
<1>3. /\ MarkFirst(log_file) /\ log_file \in Seq(Record)
      /\ OpCount(log_file) \in Nat /\ Debt = OpCount(log_file) /\ Debt' = Debt
      /\ Debt <= Limit(run)
  <2>1. MarkFirst(log_file) /\ log_file \in Seq(Record) /\ Debt <= Limit(run)
    BY DEF DurabilityInvariant, LogInv, CountInv, TypeOk
  <2> QED
    BY <1>1, <2>1, EmptyFacts, CountFacts DEF Debt
<1>4. run' # 0
  BY <1>2 DEF Limit
<1>5. CASE version_map.root = "garbage"
  <2>1. pc' = "aborted" /\ UNCHANGED memVars
    BY <1>5 DEF Boot
  <2>2. ControlInv'
    BY <1>1, <1>4, <2>1 DEF ControlInv, memVars
  <2>3. LogInv'
    BY <1>1, <2>1 DEF DurabilityInvariant, LogInv, memVars
  <2>4. CountInv'
    BY <1>2, <1>3, <2>1 DEF CountInv, CheckpointPcs, ClearedPcs
  <2>5. ContentInv'
    BY <1>1, <2>1 DEF DurabilityInvariant, ContentInv, ClearedPcs, memVars, Boot
  <2>6. BufferInv'
    BY <1>1, <2>1, EmptyFacts, LogGranularityAssumption DEF BufferInv, MaxBuffered
  <2> QED
    BY <2>2, <2>3, <2>4, <2>5, <2>6 DEF DurabilityInvariant
<1>6. CASE version_map.root # "garbage"
  <2>1. /\ pc' = "replay" /\ replaying' /\ unread' = log_file
        /\ applied' = version_map.tree /\ operation_count' = 0
    BY <1>6 DEF Boot
  <2>2. ControlInv'
    BY <1>4, <2>1 DEF ControlInv
  <2>3. LogInv'
    BY <1>1, <1>3, <2>1, EmptyFacts DEF LogInv
  <2>4. CountInv'
    BY <1>2, <1>3, <2>1 DEF CountInv, CheckpointPcs, ClearedPcs
  <2>5. ContentInv'
    BY <1>1, <2>1, EmptyFacts DEF ContentInv, ClearedPcs, DurableIds
  <2>6. BufferInv'
    BY <1>1, <2>1, EmptyFacts, LogGranularityAssumption DEF BufferInv, MaxBuffered
  <2> QED
    BY <2>2, <2>3, <2>4, <2>5, <2>6 DEF DurabilityInvariant
<1> QED
  BY <1>5, <1>6

LEMMA UpsertStep ==
  ASSUME DurabilityInvariant, TypeOk', NEW op \in Opcodes, Upsert(op)
  PROVE  DurabilityInvariant'
<1> DEFINE r == [op |-> op, id |-> Len(issued) + 1, ts |-> next_timestamp]
<1>1. /\ r \in Record /\ r.op # CHECKPOINT
      /\ r.id = cur'.id /\ r.id = Len(issued) + 1
  <2>1. op \in {INSERT, DELETE, UPDATE}
    BY OpcodesAssumption
  <2>2. next_timestamp \in Nat /\ issued \in Seq(Opcodes)
    BY DEF DurabilityInvariant, TypeOk
  <2>3. Len(issued) + 1 \in Nat
    BY <2>2, LenProperties
  <2> QED
    BY <2>1, <2>2, <2>3 DEF Upsert, Record, INSERT, DELETE, UPDATE, CHECKPOINT
<1>2. /\ pc = "idle" /\ ~replaying /\ unread = << >>
      /\ log_buffer' = Append(log_buffer, r) /\ log_file' = log_file
      /\ operation_count' = operation_count + 1
      /\ pc' \in {"log_flush", "apply"}
      /\ FlushDue => pc' = "log_flush"
      /\ UNCHANGED <<applied, unread, replaying, version_map, run>>
  BY DEF Upsert, Log, DurabilityInvariant, ControlInv
<1>3. log_buffer \in Seq(Record) /\ log_file \in Seq(Record) /\ operation_count \in Nat
  BY DEF DurabilityInvariant, TypeOk
<1> HIDE DEF r
<1>4. /\ OpCount(log_buffer') = OpCount(log_buffer) + 1
      /\ MarkFirst(log_buffer')
      /\ NoMark(log_buffer) => NoMark(log_buffer')
  BY <1>1, <1>2, <1>3, AppendCount DEF DurabilityInvariant, LogInv
<1>5. ControlInv'
  BY <1>2 DEF DurabilityInvariant, ControlInv
<1>6. LogInv'
  BY <1>2, <1>4, EmptyFacts DEF DurabilityInvariant, LogInv
<1>7. CountInv'
  <2>1. OpCount(log_file) \in Nat /\ OpCount(log_buffer) \in Nat
    BY <1>3, CountFacts
  <2>2. Debt' = Debt + 1 /\ Debt \in Nat
    BY <1>2, <1>4, <2>1 DEF Debt
  <2>3. Debt < Limit(run) /\ operation_count = Debt
    BY <1>2, <1>3, EmptyFacts DEF DurabilityInvariant, CountInv
  <2>4. Limit(run) \in Nat
    BY <1>2, LimitFacts DEF DurabilityInvariant, ControlInv
  <2>5. Limit(run') = Limit(run) /\ OpCount(unread') = 0
    BY <1>2, EmptyFacts
  <2> QED
    BY <1>2, <2>2, <2>3, <2>4, <2>5 DEF CountInv, CheckpointPcs, ClearedPcs
<1>8. ContentInv'
  <2>1. LoggedIds(log_buffer') = LoggedIds(log_buffer) \cup {cur'.id}
    BY <1>1, <1>2, <1>3, AppendIds
  <2>2. DurableIds' = DurableIds
    BY <1>2 DEF DurableIds
  <2>3. MessageIds(applied) \cup LoggedIds(unread) = DurableIds \cup LoggedIds(log_buffer)
    BY <1>2 DEF DurabilityInvariant, ContentInv
  <2> QED
    BY <1>2, <2>1, <2>2, <2>3 DEF ContentInv, ClearedPcs
<1>9. BufferInv'
  <2>1. /\ Len(log_buffer) \in Nat /\ Len(log_buffer') = Len(log_buffer) + 1
        /\ log_buffer'[Len(log_buffer')] = r
    BY <1>1, <1>2, <1>3, AppendProperties, LenProperties
  <2>2. Len(log_buffer) < MaxBuffered
    BY <1>2 DEF DurabilityInvariant, BufferInv
  <2>3. ~FlushDue => Len(log_buffer') < MaxBuffered
    BY <2>1, LogGranularityAssumption DEF FlushDue, MaxBuffered
  <2>4. MaxBuffered \in Nat
    BY LogGranularityAssumption DEF MaxBuffered
  <2> QED
    BY <1>1, <1>2, <2>1, <2>2, <2>3, <2>4 DEF BufferInv
<1> QED
  BY <1>5, <1>6, <1>7, <1>8, <1>9 DEF DurabilityInvariant

LEMMA ReplayOperationStep ==
  ASSUME DurabilityInvariant, TypeOk', ReplayOperation
  PROVE  DurabilityInvariant'
<1> DEFINE r == Head(unread)
<1>1. /\ pc = "replay" /\ unread # << >> /\ r.op \in {0, 1, 2}
      /\ unread' = Tail(unread) /\ cur'.id = r.id /\ pc' = "apply"
      /\ operation_count' = operation_count + 1
      /\ UNCHANGED <<log_buffer, log_file, applied, replaying, version_map, run>>
  BY DEF ReplayOperation, loggerVars
<1>2. /\ unread \in Seq(Record) /\ MarkFirst(unread) /\ operation_count \in Nat
      /\ r.op # CHECKPOINT
  BY <1>1 DEF DurabilityInvariant, LogInv, TypeOk, CHECKPOINT
<1>3. /\ unread' \in Seq(Record) /\ NoMark(unread') /\ MarkFirst(unread')
      /\ OpCount(unread) = OpCount(unread') + 1
  BY <1>1, <1>2, TailCount, TailIndices
<1>4. LoggedIds(unread) = LoggedIds(unread') \cup {cur'.id}
  BY <1>1, <1>2, TailIds
<1> HIDE DEF r
<1>5. ControlInv'
  BY <1>1 DEF DurabilityInvariant, ControlInv
<1>6. LogInv'
  BY <1>1, <1>3 DEF DurabilityInvariant, LogInv
<1>7. CountInv'
  <2>1. Debt' = Debt /\ Limit(run') = Limit(run)
    BY <1>1 DEF Debt
  <2>2. operation_count + OpCount(unread) = Debt /\ Debt <= Limit(run)
    BY <1>1 DEF DurabilityInvariant, CountInv
  <2>3. OpCount(unread') \in Nat
    BY <1>3, CountFacts
  <2> QED
    BY <1>1, <1>2, <1>3, <2>1, <2>2, <2>3 DEF CountInv, CheckpointPcs, ClearedPcs
<1>8. ContentInv'
  <2>1. DurableIds' = DurableIds
    BY <1>1 DEF DurableIds
  <2> QED
    BY <1>1, <1>4, <2>1 DEF DurabilityInvariant, ContentInv, ClearedPcs
<1>9. BufferInv'
  BY <1>1 DEF DurabilityInvariant, BufferInv
<1> QED
  BY <1>5, <1>6, <1>7, <1>8, <1>9 DEF DurabilityInvariant

LEMMA ReplayCheckpointRecordStep ==
  ASSUME DurabilityInvariant, TypeOk', ReplayCheckpointRecord
  PROVE  DurabilityInvariant'
<1>1. /\ pc = "replay" /\ unread # << >> /\ Head(unread).op = CHECKPOINT
      /\ unread' = Tail(unread) /\ pc' = pc
      /\ UNCHANGED <<log_buffer, log_file, applied, cur, operation_count, replaying,
                     version_map, run>>
  BY DEF ReplayCheckpointRecord, loggerVars
<1>2. unread \in Seq(Record) /\ MarkFirst(unread)
  BY DEF DurabilityInvariant, LogInv
<1>3. /\ unread' \in Seq(Record) /\ NoMark(unread') /\ MarkFirst(unread')
      /\ OpCount(unread) = OpCount(unread')
  <2>1. OpCount(Tail(unread)) \in Nat
    BY <1>1, <1>2, TailIndices, CountFacts
  <2>2. OpCount(unread) = OpCount(Tail(unread)) + 0
    BY <1>1, <1>2, TailCount
  <2> QED
    BY <1>1, <1>2, <2>1, <2>2, TailCount, TailIndices
<1>4. LoggedIds(unread) = LoggedIds(unread')
  BY <1>1, <1>2, TailIds
<1>5. ControlInv'
  BY <1>1 DEF DurabilityInvariant, ControlInv
<1>6. LogInv'
  BY <1>1, <1>3 DEF DurabilityInvariant, LogInv
<1>7. CountInv'
  BY <1>1, <1>3 DEF DurabilityInvariant, CountInv, Debt, CheckpointPcs, ClearedPcs
<1>8. ContentInv'
  BY <1>1, <1>4 DEF DurabilityInvariant, ContentInv, ClearedPcs, DurableIds
<1>9. BufferInv'
  BY <1>1 DEF DurabilityInvariant, BufferInv
<1> QED
  BY <1>5, <1>6, <1>7, <1>8, <1>9 DEF DurabilityInvariant

\* Nothing torn is ever read.
LEMMA NoTornLine == DurabilityInvariant => ~ReplayTornLine
<1> SUFFICES ASSUME DurabilityInvariant, ReplayTornLine PROVE FALSE
  OBVIOUS
<1>1. unread \in Seq(Record) /\ unread # << >> /\ Head(unread) = Torn
  BY DEF DurabilityInvariant, LogInv, ReplayTornLine
<1> QED
  BY <1>1, TailIndices, TornIsNoRecord

LEMMA ReplayDoneStep ==
  ASSUME DurabilityInvariant, TypeOk', ReplayDone
  PROVE  DurabilityInvariant'
<1>1. /\ pc = "replay" /\ unread = << >> /\ pc' = "idle" /\ ~replaying'
      /\ UNCHANGED <<log_buffer, log_file, applied, operation_count, unread,
                     version_map, run>>
  BY DEF ReplayDone, loggerVars
<1>2. ControlInv'
  BY <1>1 DEF DurabilityInvariant, ControlInv
<1>3. LogInv'
  BY <1>1 DEF DurabilityInvariant, LogInv
<1>4. CountInv'
  <2>1. operation_count \in Nat
    BY DEF DurabilityInvariant, TypeOk
  <2>2. operation_count + 0 = Debt /\ operation_count < Limit(run)
    BY <1>1, EmptyFacts DEF DurabilityInvariant, CountInv
  <2>3. Debt < Limit(run)
    BY <2>1, <2>2
  <2>4. Debt' = Debt /\ Limit(run') = Limit(run)
    BY <1>1 DEF Debt
  <2> QED
    BY <1>1, <2>3, <2>4 DEF DurabilityInvariant, CountInv, CheckpointPcs, ClearedPcs
<1>5. ContentInv'
  BY <1>1 DEF DurabilityInvariant, ContentInv, ClearedPcs, DurableIds
<1>6. BufferInv'
  BY <1>1 DEF DurabilityInvariant, BufferInv
<1> QED
  BY <1>2, <1>3, <1>4, <1>5, <1>6 DEF DurabilityInvariant

LEMMA ApplyStep ==
  ASSUME DurabilityInvariant, TypeOk', Apply
  PROVE  DurabilityInvariant'
<1>1. /\ pc = "apply" /\ applied' = Append(applied, cur)
      /\ pc' = IF operation_count >= checkpoint_granularity THEN "cp_flush" ELSE Caller
      /\ UNCHANGED <<log_buffer, log_file, operation_count, unread, replaying,
                     version_map, run>>
  BY DEF Apply, loggerVars
<1>2. cur \in Message /\ applied \in Seq(Message) /\ operation_count \in Nat
  BY <1>1 DEF DurabilityInvariant, TypeOk
<1>3. run # 0
  BY <1>1 DEF DurabilityInvariant, ControlInv
<1>4. ControlInv'
  BY <1>1, <1>3 DEF DurabilityInvariant, ControlInv, Caller
<1>5. LogInv'
  BY <1>1 DEF DurabilityInvariant, LogInv, Caller
<1>6. CountInv'
  <2>1. /\ operation_count + OpCount(unread) = Debt /\ Debt <= Limit(run)
        /\ operation_count >= 1
    BY <1>1 DEF DurabilityInvariant, CountInv
  <2>2. Debt' = Debt /\ Limit(run') = Limit(run) /\ unread' = unread
        /\ operation_count' = operation_count
        /\ checkpoint_granularity' = checkpoint_granularity
    BY <1>1 DEF Debt, checkpoint_granularity
  <2>3. /\ checkpoint_granularity \in Nat /\ Limit(run) \in Nat
        /\ checkpoint_granularity <= Limit(run)
    BY <1>3, LimitFacts DEF DurabilityInvariant
  <2>4. CASE operation_count >= checkpoint_granularity
    BY <1>1, <2>1, <2>2, <2>4 DEF CountInv, CheckpointPcs, ClearedPcs
  <2>5. CASE ~(operation_count >= checkpoint_granularity)
    <3>1. operation_count < Limit(run)
      BY <1>2, <2>3, <2>5
    <3>2. pc' \in {"replay", "idle"} /\ (pc' = "idle" => ~replaying)
      BY <1>1, <2>5 DEF Caller
    <3>3. pc' = "idle" => Debt < Limit(run)
      <4>1. ~replaying => OpCount(unread) = 0
        BY EmptyFacts DEF DurabilityInvariant, ControlInv
      <4> QED
        BY <1>2, <2>1, <3>1, <3>2, <4>1
    <3> QED
      BY <2>1, <2>2, <3>1, <3>2, <3>3 DEF CountInv, CheckpointPcs, ClearedPcs
  <2> QED
    BY <2>4, <2>5
<1>7. ContentInv'
  <2>1. MessageIds(applied') = MessageIds(applied) \cup {cur.id}
    BY <1>1, <1>2, AppendIds
  <2>2. DurableIds' = DurableIds
    BY <1>1 DEF DurableIds
  <2>3. pc' \in {"cp_flush", "replay", "idle"}
    BY <1>1 DEF Caller
  <2> QED
    BY <1>1, <2>1, <2>2, <2>3 DEF DurabilityInvariant, ContentInv, ClearedPcs
<1>8. BufferInv'
  BY <1>1 DEF DurabilityInvariant, BufferInv, Caller
<1> QED
  BY <1>4, <1>5, <1>6, <1>7, <1>8 DEF DurabilityInvariant

LEMMA FlushStep ==
  ASSUME DurabilityInvariant, TypeOk', Flush
  PROVE  DurabilityInvariant'
<1>1. /\ pc \in FlushPcs /\ FlushRecord /\ pc' = pc
      /\ UNCHANGED <<applied, cur, operation_count, unread, replaying, version_map, run>>
  BY DEF Flush, memVars
<1>2. /\ log_buffer \in Seq(Record) /\ log_file \in Seq(Record)
      /\ MarkFirst(log_file) /\ MarkFirst(log_buffer)
      /\ log_file # << >> => NoMark(log_buffer)
  BY DEF DurabilityInvariant, TypeOk, LogInv
<1>3. /\ MarkFirst(log_file') /\ NoMark(log_buffer')
      /\ LoggedIds(log_file') \cup LoggedIds(log_buffer')
           = LoggedIds(log_file) \cup LoggedIds(log_buffer)
      /\ Debt' = Debt
      /\ OpCount(log_buffer') <= OpCount(log_buffer)
  BY <1>1, <1>2, FlushMovesALine
<1>4. /\ log_buffer # << >> /\ log_buffer' = Tail(log_buffer)
      /\ log_buffer' \in Seq(Record)
      /\ Len(log_buffer') = Len(log_buffer) - 1
      /\ Len(log_buffer) \in Nat \ {0}
  BY <1>1, <1>2, TailIndices DEF FlushRecord
<1>5. ControlInv'
  BY <1>1, <1>4 DEF DurabilityInvariant, ControlInv, FlushPcs
<1>6. LogInv'
  <2>1. MarkFirst(log_buffer')
    BY <1>3 DEF NoMark, MarkFirst
  <2>2. replaying => OpCount(log_buffer') = 0
    <3>1. replaying => OpCount(log_buffer) = 0
      BY DEF DurabilityInvariant, LogInv
    <3>2. OpCount(log_buffer') \in Nat
      BY <1>4, CountFacts
    <3> QED
      BY <1>3, <3>1, <3>2
  <2> QED
    BY <1>1, <1>3, <2>1, <2>2 DEF DurabilityInvariant, LogInv, FlushPcs
<1>7. CountInv'
  BY <1>1, <1>3 DEF DurabilityInvariant, CountInv, FlushPcs, CheckpointPcs, ClearedPcs,
                    checkpoint_granularity
<1>8. ContentInv'
  <2>1. DurableIds' \cup LoggedIds(log_buffer') = DurableIds \cup LoggedIds(log_buffer)
    BY <1>1, <1>3 DEF DurableIds
  <2> QED
    BY <1>1, <2>1 DEF DurabilityInvariant, ContentInv, FlushPcs, ClearedPcs
<1>9. BufferInv'
  <2>1. MaxBuffered \in Nat /\ MaxBuffered' = MaxBuffered
    BY LogGranularityAssumption DEF MaxBuffered
  <2>2. Len(log_buffer) <= MaxBuffered
    BY DEF DurabilityInvariant, BufferInv
  <2>3. log_buffer' # << >> => log_buffer'[Len(log_buffer')] = log_buffer[Len(log_buffer)]
    <3>1. Len(log_buffer') \in Nat /\ (log_buffer' # << >> => Len(log_buffer') # 0)
      BY <1>4, EmptySeq, LenProperties
    <3> QED
      BY <1>2, <1>4, <3>1, TailIndices
  <2> QED
    BY <1>1, <1>4, <2>1, <2>2, <2>3 DEF DurabilityInvariant, BufferInv
<1> QED
  BY <1>5, <1>6, <1>7, <1>8, <1>9 DEF DurabilityInvariant

LEMMA EndFlushStep ==
  ASSUME DurabilityInvariant, TypeOk', EndFlush
  PROVE  DurabilityInvariant'
<1>1. /\ log_buffer = << >> /\ log_buffer' = << >>
      /\ UNCHANGED <<log_file, applied, cur, operation_count, unread, replaying,
                     version_map, run>>
      /\ \/ pc = "log_flush"  /\ pc' = "apply"
         \/ pc = "cp_flush"   /\ pc' = "cp_map"
         \/ pc = "mark_flush" /\ pc' = "cp_end"
  BY DEF EndFlush, FlushDone, memVars
<1>2. ControlInv'
  BY <1>1 DEF DurabilityInvariant, ControlInv
<1>3. LogInv'
  BY <1>1 DEF DurabilityInvariant, LogInv
<1>4. CountInv'
  BY <1>1 DEF DurabilityInvariant, CountInv, Debt, CheckpointPcs, ClearedPcs,
              checkpoint_granularity
<1>5. ContentInv'
  BY <1>1 DEF DurabilityInvariant, ContentInv, ClearedPcs, DurableIds
<1>6. BufferInv'
  BY <1>1, EmptyFacts, LogGranularityAssumption DEF BufferInv, MaxBuffered
<1> QED
  BY <1>2, <1>3, <1>4, <1>5, <1>6 DEF DurabilityInvariant

LEMMA WriteVersionMapStep ==
  ASSUME DurabilityInvariant, TypeOk', WriteVersionMap
  PROVE  DurabilityInvariant'
<1>1. /\ pc = "cp_map" /\ pc' = "cp_clear" /\ version_map'.tree = applied
      /\ UNCHANGED <<log_buffer, log_file, applied, cur, operation_count, unread,
                     replaying, run>>
  BY DEF WriteVersionMap, loggerVars, memVars
<1>2. unread = << >> /\ log_buffer = << >>
  BY <1>1, CheckpointReadsAll DEF CheckpointPcs, DurabilityInvariant, ControlInv
<1>3. ControlInv'
  BY <1>1 DEF DurabilityInvariant, ControlInv
<1>4. LogInv'
  BY <1>1 DEF DurabilityInvariant, LogInv
<1>5. CountInv'
  BY <1>1 DEF DurabilityInvariant, CountInv, Debt, CheckpointPcs, ClearedPcs,
              checkpoint_granularity
<1>6. ContentInv'
  <2>1. MessageIds(applied) \cup {} \cup {} = DurableIds \cup {}
    BY <1>1, <1>2, EmptyFacts DEF DurabilityInvariant, ContentInv
  <2>2. DurableIds' = MessageIds(applied) \cup LoggedIds(log_file)
    BY <1>1 DEF DurableIds
  <2>3. LoggedIds(log_file) \subseteq MessageIds(applied)
    BY <2>1 DEF DurableIds
  <2> QED
    BY <1>1, <1>2, <2>2, <2>3, EmptyFacts DEF ContentInv, ClearedPcs
<1>7. BufferInv'
  BY <1>1 DEF DurabilityInvariant, BufferInv
<1> QED
  BY <1>3, <1>4, <1>5, <1>6, <1>7 DEF DurabilityInvariant

LEMMA StillBufferedEmpty == StillBuffered(<< >>) = {<< >>}
<1>1. Len(<< >>) = 0 /\ 0..0 = {0} /\ 1..0 = {}
  OBVIOUS
<1>2. SubSeq(<< >>, 1, 0) = << >>
  BY EmptyLists, SubSeqProperties, EmptySeq
<1> QED
  BY <1>1, <1>2 DEF StillBuffered

LEMMA ClearLogStep ==
  ASSUME DurabilityInvariant, TypeOk', ClearLog
  PROVE  DurabilityInvariant'
<1>1. /\ pc = "cp_clear" /\ pc' = "cp_mark" /\ log_file' = << >>
      /\ unread' \in StillBuffered(unread)
      /\ UNCHANGED <<log_buffer, applied, cur, operation_count, replaying,
                     version_map, run>>
  BY DEF ClearLog, ClearLogOnDisk
<1>2. unread = << >> /\ log_buffer = << >> /\ version_map.tree = applied
  BY <1>1, CheckpointReadsAll DEF CheckpointPcs, DurabilityInvariant, ControlInv, ContentInv
<1>3. unread' = << >>
  BY <1>1, <1>2, StillBufferedEmpty
<1>4. run # 0
  BY <1>1 DEF DurabilityInvariant, ControlInv
<1>5. ControlInv'
  BY <1>1, <1>2, <1>3 DEF DurabilityInvariant, ControlInv
<1>6. LogInv'
  BY <1>1, <1>2, <1>3, EmptyFacts, EmptyLists DEF LogInv
<1>7. CountInv'
  <2>1. Debt' = 0
    BY <1>1, <1>2, EmptyFacts DEF Debt
  <2>2. Limit(run') \in Nat \ {0}
    BY <1>1, <1>4, LimitFacts DEF DurabilityInvariant
  <2> QED
    BY <1>1, <1>3, <2>1, <2>2 DEF CountInv, CheckpointPcs, ClearedPcs
<1>8. ContentInv'
  BY <1>1, <1>2, <1>3, EmptyFacts DEF ContentInv, ClearedPcs, DurableIds
<1>9. BufferInv'
  BY <1>1 DEF DurabilityInvariant, BufferInv
<1> QED
  BY <1>5, <1>6, <1>7, <1>8, <1>9 DEF DurabilityInvariant

LEMMA MarkCheckpointStep ==
  ASSUME DurabilityInvariant, TypeOk', MarkCheckpoint
  PROVE  DurabilityInvariant'
<1> DEFINE r == [op |-> CHECKPOINT, id |-> 0, ts |-> next_timestamp]
<1>1. /\ pc = "cp_mark" /\ log_buffer' = Append(log_buffer, r)
      /\ pc' = IF FlushDue THEN "mark_flush" ELSE "cp_end"
      /\ UNCHANGED <<log_file, applied, cur, operation_count, unread, replaying,
                     version_map, run>>
  BY DEF MarkCheckpoint, Log, memVars
<1>2. log_buffer = << >> /\ log_file = << >> /\ unread = << >> /\ Debt = 0
  BY <1>1 DEF DurabilityInvariant, ControlInv, LogInv, CountInv, ClearedPcs
<1>3. r \in Record /\ r.op = CHECKPOINT
  BY DEF DurabilityInvariant, TypeOk, Record
<1> HIDE DEF r
<1>4. /\ OpCount(log_buffer') = 0 /\ MarkFirst(log_buffer')
      /\ LoggedIds(log_buffer') = {}
      /\ Len(log_buffer') = 1
  <2>1. OpCount(log_buffer') = 0 + 0 /\ MarkFirst(log_buffer')
    BY <1>1, <1>2, <1>3, EmptyLists, EmptyFacts, AppendCount
  <2>2. LoggedIds(log_buffer') = {} \cup {}
    BY <1>1, <1>2, <1>3, EmptyLists, EmptyFacts, AppendIds
  <2>3. Len(log_buffer') = 0 + 1
    BY <1>1, <1>2, <1>3, EmptyLists, EmptyFacts, AppendProperties
  <2> QED
    BY <2>1, <2>2, <2>3
<1>5. ControlInv'
  BY <1>1 DEF DurabilityInvariant, ControlInv
<1>6. LogInv'
  BY <1>1, <1>2, <1>4 DEF DurabilityInvariant, LogInv
<1>7. CountInv'
  <2>1. Debt' = Debt
    BY <1>1, <1>2, <1>4, EmptyFacts DEF Debt
  <2> QED
    BY <1>1, <1>2, <2>1 DEF DurabilityInvariant, CountInv, CheckpointPcs, ClearedPcs
<1>8. ContentInv'
  BY <1>1, <1>2, <1>4, EmptyFacts DEF DurabilityInvariant, ContentInv, ClearedPcs, DurableIds
<1>9. BufferInv'
  <2>1. ~FlushDue => 1 < MaxBuffered
    BY <1>2, EmptyFacts, LogGranularityAssumption DEF FlushDue, MaxBuffered
  <2>2. 1 <= MaxBuffered /\ MaxBuffered' = MaxBuffered
    BY LogGranularityAssumption DEF MaxBuffered
  <2> QED
    BY <1>1, <1>4, <2>1, <2>2 DEF BufferInv
<1> QED
  BY <1>5, <1>6, <1>7, <1>8, <1>9 DEF DurabilityInvariant

LEMMA EndCheckpointStep ==
  ASSUME DurabilityInvariant, TypeOk', EndCheckpoint
  PROVE  DurabilityInvariant'
<1>1. /\ pc = "cp_end" /\ pc' = Caller /\ operation_count' = 0
      /\ UNCHANGED <<log_buffer, log_file, applied, unread, replaying, version_map, run>>
  BY DEF EndCheckpoint, loggerVars
<1>2. /\ unread = << >> /\ Debt = 0 /\ Debt' = Debt /\ Limit(run') = Limit(run)
      /\ run # 0
  BY <1>1 DEF DurabilityInvariant, ControlInv, CountInv, ClearedPcs, Debt
<1>3. ControlInv'
  BY <1>1, <1>2 DEF DurabilityInvariant, ControlInv, Caller
<1>4. LogInv'
  BY <1>1, <1>2, EmptyFacts DEF DurabilityInvariant, LogInv, Caller
<1>5. CountInv'
  <2>1. Limit(run) \in Nat \ {0}
    BY <1>2, LimitFacts DEF DurabilityInvariant
  <2> QED
    BY <1>1, <1>2, <2>1, EmptyFacts DEF CountInv, CheckpointPcs, ClearedPcs, Caller
<1>6. ContentInv'
  BY <1>1 DEF DurabilityInvariant, ContentInv, ClearedPcs, DurableIds, Caller
<1>7. BufferInv'
  BY <1>1 DEF DurabilityInvariant, BufferInv, Caller
<1> QED
  BY <1>3, <1>4, <1>5, <1>6, <1>7 DEF DurabilityInvariant

LEMMA ExitStep ==
  ASSUME DurabilityInvariant, TypeOk', Exit
  PROVE  DurabilityInvariant'
<1>1. /\ pc = "idle" /\ pc' = "exit_flush"
      /\ UNCHANGED <<log_buffer, log_file, applied, operation_count, unread, replaying,
                     version_map, run>>
  BY DEF Exit, loggerVars, memVars
<1>2. ControlInv' /\ LogInv'
  BY <1>1 DEF DurabilityInvariant, ControlInv, LogInv
<1>3. CountInv'
  BY <1>1 DEF DurabilityInvariant, CountInv, Debt, CheckpointPcs, ClearedPcs
<1>4. ContentInv' /\ BufferInv'
  BY <1>1 DEF DurabilityInvariant, ContentInv, BufferInv, ClearedPcs, DurableIds
<1> QED
  BY <1>2, <1>3, <1>4 DEF DurabilityInvariant

\* However a process ends, its log is no longer than the next one can bear.
LEMMA GoneStep ==
  ASSUME DurabilityInvariant, TypeOk', MemoryGone
  PROVE  DurabilityInvariant'
<1>1. /\ pc' = "down" /\ ~replaying' /\ unread' = << >> /\ log_buffer' = << >>
      /\ applied' = << >> /\ operation_count' = 0
      /\ UNCHANGED <<log_file, version_map, run>>
  BY DEF MemoryGone, LoggerDies
<1>2. ControlInv'
  BY <1>1 DEF ControlInv
<1>3. LogInv'
  BY <1>1, EmptyFacts, EmptyLists DEF DurabilityInvariant, LogInv
<1>4. CountInv'
  <2>1. Debt' \in Nat /\ Debt' <= Debt /\ Debt \in Nat
    <3>1. log_file \in Seq(Record) /\ log_buffer \in Seq(Record)
      BY DEF DurabilityInvariant, TypeOk
    <3>2. OpCount(log_file) \in Nat /\ OpCount(log_buffer) \in Nat
      BY <3>1, CountFacts
    <3> QED
      BY <1>1, <3>2, EmptyFacts DEF Debt
  <2>2. Debt <= Limit(run) /\ Limit(run') = Limit(run) /\ Limit(run) \in Nat
    <3>1. CASE run = 0
      BY <1>1, <3>1 DEF DurabilityInvariant, CountInv, Limit
    <3>2. CASE run # 0
      BY <1>1, <3>2, LimitFacts DEF DurabilityInvariant, CountInv
    <3> QED
      BY <3>1, <3>2
  <2>3. Debt' <= Limit(run')
    BY <2>1, <2>2
  <2> QED
    BY <1>1, <2>3 DEF CountInv, CheckpointPcs, ClearedPcs
<1>5. ContentInv'
  BY <1>1, EmptyFacts DEF ContentInv, ClearedPcs
<1>6. BufferInv'
  BY <1>1, EmptyFacts, LogGranularityAssumption DEF BufferInv, MaxBuffered
<1> QED
  BY <1>2, <1>3, <1>4, <1>5, <1>6 DEF DurabilityInvariant

LEMMA InvariantStep ==
  ASSUME GranularityNeverShrinks, DurabilityInvariant, [Next]_vars
  PROVE  DurabilityInvariant'
<1>1. TypeOk'
  BY TypeStep DEF DurabilityInvariant
<1>2. CASE Boot
  BY <1>1, <1>2, BootStep
<1>3. ASSUME NEW op \in Opcodes, Upsert(op) PROVE DurabilityInvariant'
  BY <1>1, <1>3, UpsertStep
<1>4. CASE ReplayOperation
  BY <1>1, <1>4, ReplayOperationStep
<1>5. CASE ReplayCheckpointRecord
  BY <1>1, <1>5, ReplayCheckpointRecordStep
<1>6. CASE ReplayTornLine
  BY <1>6, NoTornLine
<1>7. CASE ReplayDone
  BY <1>1, <1>7, ReplayDoneStep
<1>8. CASE Apply
  BY <1>1, <1>8, ApplyStep
<1>9. CASE Flush
  BY <1>1, <1>9, FlushStep
<1>10. CASE EndFlush
  BY <1>1, <1>10, EndFlushStep
<1>11. CASE WriteVersionMap
  BY <1>1, <1>11, WriteVersionMapStep
<1>12. CASE ClearLog
  BY <1>1, <1>12, ClearLogStep
<1>13. CASE MarkCheckpoint
  BY <1>1, <1>13, MarkCheckpointStep
<1>14. CASE EndCheckpoint
  BY <1>1, <1>14, EndCheckpointStep
<1>15. CASE Exit
  BY <1>1, <1>15, ExitStep
<1>16. CASE EndExit
  BY <1>1, <1>16, GoneStep DEF EndExit
<1>17. CASE Crash
  BY <1>1, <1>17, GoneStep DEF Crash
<1>18. CASE UNCHANGED vars
  <2>1. UNCHANGED <<pc, log_buffer, log_file, applied, cur, operation_count, unread,
                    replaying, version_map, run>>
    BY <1>18 DEF vars, loggerVars, memVars
  <2>2. ControlInv' /\ LogInv'
    BY <2>1 DEF DurabilityInvariant, ControlInv, LogInv
  <2>3. CountInv'
    BY <2>1 DEF DurabilityInvariant, CountInv, Debt, checkpoint_granularity
  <2>4. ContentInv' /\ BufferInv'
    BY <2>1 DEF DurabilityInvariant, ContentInv, DurableIds, BufferInv
  <2> QED
    BY <1>1, <2>2, <2>3, <2>4 DEF DurabilityInvariant
<1> QED
  BY <1>2, <1>3, <1>4, <1>5, <1>6, <1>7, <1>8, <1>9, <1>10, <1>11, <1>12, <1>13,
     <1>14, <1>15, <1>16, <1>17, <1>18 DEF Next, ProcessStep

\* The invariant the other theorems rest on: in particular a checkpoint never
\* truncates a log that recovery is still reading (checkpoint 677-699, called from
\* replayLogs 960-1023), as long as -c never shrinks from a run to the next.
THEOREM InvariantHolds ==
  ASSUME GranularityNeverShrinks
  PROVE  Spec => []DurabilityInvariant
BY InvariantInit, InvariantStep, PTL DEF Spec

-----------------------------------------------------------------------------
(* What follows from the invariant.                                        *)

\* After every recovery the tree is back to what was durable, and while clients
\* are served it is that and what the log buffer holds.
THEOREM TreeMatchesDisk ==
  ASSUME GranularityNeverShrinks
  PROVE  Spec => []TreeIsDurablePlusBuffer
<1>1. DurabilityInvariant => TreeIsDurablePlusBuffer
  <2> SUFFICES ASSUME DurabilityInvariant, Serving
               PROVE MessageIds(applied) \cup PendingIds
                       = DurableIds \cup LoggedIds(log_buffer)
    BY DEF TreeIsDurablePlusBuffer
  <2>1. unread = << >> /\ pc \notin {"down", "aborted"}
    BY DEF DurabilityInvariant, ControlInv, Serving
  <2>2. PendingIds = IF pc \in {"log_flush", "apply"} THEN {cur.id} ELSE {}
    BY DEF PendingIds
  <2> QED
    BY <2>1, <2>2, EmptyFacts DEF DurabilityInvariant, ContentInv
<1> QED
  BY <1>1, InvariantHolds, PTL

\* Truncating the log takes nothing back: the map holds all of it.
LEMMA DurableStaysStep ==
  ASSUME DurabilityInvariant, [Next]_vars
  PROVE  DurableIds \subseteq DurableIds'
<1>1. CASE Flush
  <2>1. LoggedIds(log_file) \subseteq LoggedIds(log_file') /\ version_map' = version_map
    BY <1>1, FlushMovesALine DEF DurabilityInvariant, TypeOk, LogInv, Flush
  <2> QED
    BY <2>1 DEF DurableIds
<1>2. CASE WriteVersionMap
  <2>1. /\ pc = "cp_map" /\ log_file' = log_file /\ version_map'.tree = applied
    BY <1>2 DEF WriteVersionMap, loggerVars
  <2>2. unread = << >> /\ log_buffer = << >>
    BY <2>1, CheckpointReadsAll DEF CheckpointPcs, DurabilityInvariant, ControlInv
  <2>3. MessageIds(applied) \cup {} \cup {} = DurableIds \cup {}
    BY <2>1, <2>2, EmptyFacts DEF DurabilityInvariant, ContentInv
  <2> QED
    BY <2>1, <2>3 DEF DurableIds
<1>3. CASE ClearLog
  <2>1. pc = "cp_clear" /\ version_map' = version_map
    BY <1>3 DEF ClearLog
  <2>2. unread = << >> /\ log_buffer = << >> /\ version_map.tree = applied
    BY <2>1, CheckpointReadsAll
       DEF CheckpointPcs, DurabilityInvariant, ControlInv, ContentInv
  <2>3. MessageIds(applied) \cup {} \cup {} = DurableIds \cup {}
    BY <2>1, <2>2, EmptyFacts DEF DurabilityInvariant, ContentInv
  <2> QED
    BY <2>1, <2>2, <2>3 DEF DurableIds
<1>4. CASE UNCHANGED <<log_file, version_map>>
  BY <1>4 DEF DurableIds
<1>5. Flush \/ WriteVersionMap \/ ClearLog \/ UNCHANGED <<log_file, version_map>>
  BY DEF Next, ProcessStep, vars, loggerVars, Boot, LoggerConstruct, Upsert, Log,
         ReplayOperation, ReplayCheckpointRecord, ReplayTornLine, ReplayDone, Apply,
         EndFlush, FlushDone, MarkCheckpoint, EndCheckpoint, Exit, EndExit, Crash,
         MemoryGone, LoggerDies
<1> QED
  BY <1>1, <1>2, <1>3, <1>4, <1>5

\* No step takes a durable call back, at any granularity that does not shrink.
THEOREM DurableCallsStay ==
  ASSUME GranularityNeverShrinks
  PROVE  Spec => DurableStays
<1>1. DurabilityInvariant /\ [Next]_vars => [DurableIds \subseteq DurableIds']_vars
  BY DurableStaysStep
<1> QED
  BY <1>1, InvariantHolds, PTL DEF Spec, DurableStays

\* Operations(s) is an interval, so that OpCount counts it.
LEMMA OperationsCounted ==
  ASSUME NEW s \in Seq(Record), MarkFirst(s)
  PROVE  Cardinality(Operations(s)) = OpCount(s)
<1>1. /\ Len(s) \in Nat /\ DOMAIN s = 1..Len(s)
      /\ s = << >> <=> Len(s) = 0
  BY LenProperties, EmptySeq
<1>2. CASE s # << >> /\ s[1].op = CHECKPOINT
  <2>1. Operations(s) = 2..Len(s)
    BY <1>1, <1>2 DEF Operations, MarkFirst
  <2>2. Cardinality(2..Len(s)) = IF 2 > Len(s) THEN 0 ELSE Len(s) - 2 + 1
    BY <1>1, FS_Interval
  <2>3. OpCount(s) = Len(s) - 1
    BY <1>2 DEF OpCount
  <2> QED
    BY <1>1, <1>2, <2>1, <2>2, <2>3
<1>3. CASE ~(s # << >> /\ s[1].op = CHECKPOINT)
  <2>1. Operations(s) = 1..Len(s)
    BY <1>1, <1>3 DEF Operations, MarkFirst
  <2>2. Cardinality(1..Len(s)) = IF 1 > Len(s) THEN 0 ELSE Len(s) - 1 + 1
    BY <1>1, FS_Interval
  <2>3. OpCount(s) = Len(s)
    BY <1>1, <1>3 DEF OpCount
  <2> QED
    BY <1>1, <2>1, <2>2, <2>3
<1> QED
  BY <1>2, <1>3

\* operation_count is the length of the log also after a crash and a recovery, so
\* that no recovery ever has more than -c operations to replay.
THEOREM RecoveryWorkIsBounded ==
  ASSUME GranularityNeverShrinks
  PROVE  Spec => []OperationCountIsReplayDebt
<1>1. DurabilityInvariant => OperationCountIsReplayDebt
  <2> SUFFICES ASSUME DurabilityInvariant, pc = "idle"
               PROVE /\ operation_count = ReplayDebt
                     /\ ReplayDebt < IF checkpoint_granularity = 0
                                       THEN 1 ELSE checkpoint_granularity
    BY DEF OperationCountIsReplayDebt
  <2>1. unread = << >> /\ run # 0
    BY DEF DurabilityInvariant, ControlInv
  <2>2. operation_count + 0 = Debt /\ Debt < Limit(run) /\ operation_count \in Nat
    BY <2>1, EmptyFacts DEF DurabilityInvariant, TypeOk, CountInv
  <2>3. ReplayDebt = Debt
    BY OperationsCounted DEF DurabilityInvariant, TypeOk, LogInv, ReplayDebt, Debt
  <2> QED
    BY <2>1, <2>2, <2>3 DEF Limit, checkpoint_granularity
<1> QED
  BY <1>1, InvariantHolds, PTL

\* n lines name at most n calls.
LEMMA FewIds ==
  ASSUME NEW s \in Seq(Record), NEW n \in Nat, NEW T \in SUBSET LoggedIds(s),
         \A x \in T : \E i \in 1..n : i \in DOMAIN s /\ s[i].id = x
  PROVE  IsFiniteSet(T) /\ Cardinality(T) <= n
<1> DEFINE I == {i \in 1..n : i \in DOMAIN s /\ s[i].id \in T}
           f == [i \in I |-> s[i].id]
<1>1. IsFiniteSet(1..n) /\ Cardinality(1..n) = n
  <2>1. Cardinality(1..n) = IF 1 > n THEN 0 ELSE n - 1 + 1
    BY FS_Interval
  <2> QED
    BY <2>1, FS_Interval
<1>2. IsFiniteSet(I) /\ Cardinality(I) <= n
  BY <1>1, FS_Subset
<1>3. f \in Surjection(I, T)
  BY DEF Surjection
<1>4. IsFiniteSet(T) /\ Cardinality(T) <= Cardinality(I)
  BY <1>2, <1>3, FS_Surjection
<1>5. Cardinality(T) \in Nat /\ Cardinality(I) \in Nat
  BY <1>2, <1>4, FS_CardinalityType
<1> QED
  BY <1>2, <1>4, <1>5

\* What the end of a process takes was in the log buffer.
LEMMA LostCalls ==
  ASSUME DurabilityInvariant, pc \notin {"down", "aborted"}, DurableIds' = DurableIds,
         NEW lost, lost = (MessageIds(applied) \cup PendingIds) \ DurableIds'
  PROVE  /\ lost \subseteq LoggedIds(log_buffer)
         /\ Cardinality(lost \ PendingIds) < MaxBuffered
<1>1. log_buffer \in Seq(Record) /\ MaxBuffered \in Nat \ {0}
  BY LogGranularityAssumption DEF DurabilityInvariant, TypeOk, MaxBuffered
<1>2. /\ Len(log_buffer) \in Nat /\ DOMAIN log_buffer = 1..Len(log_buffer)
      /\ log_buffer = << >> <=> Len(log_buffer) = 0
  BY <1>1, LenProperties, EmptySeq
<1>3. lost \subseteq LoggedIds(log_buffer)
  <2>1. PendingIds \subseteq IF pc \in {"log_flush", "apply"} THEN {cur.id} ELSE {}
    BY DEF PendingIds
  <2> QED
    BY <2>1 DEF DurabilityInvariant, ContentInv
<1> DEFINE T == lost \ PendingIds
<1>4. T \subseteq LoggedIds(log_buffer)
  BY <1>3
<1>5. \A x \in T : \E i \in 1..Len(log_buffer) : log_buffer[i].id = x
  BY <1>2, <1>4 DEF LoggedIds
<1> HIDE DEF T
<1>6. CASE pc \notin {"log_flush", "mark_flush"}
  <2>1. Len(log_buffer) < MaxBuffered
    BY <1>6 DEF DurabilityInvariant, BufferInv
  <2>2. IsFiniteSet(T) /\ Cardinality(T) <= Len(log_buffer)
    BY <1>1, <1>2, <1>4, <1>5, FewIds
  <2>3. Cardinality(T) \in Nat
    BY <2>2, FS_CardinalityType
  <2> QED
    BY <1>1, <1>2, <1>3, <2>1, <2>2, <2>3 DEF T
<1>7. CASE pc = "mark_flush"
  <2>1. Debt = 0 /\ MarkFirst(log_buffer) /\ log_file \in Seq(Record)
    BY <1>7 DEF DurabilityInvariant, CountInv, LogInv, TypeOk, ClearedPcs
  <2>2. OpCount(log_buffer) \in Nat /\ OpCount(log_file) \in Nat
    BY <1>1, <2>1, CountFacts
  <2>3. OpCount(log_buffer) = 0
    BY <2>1, <2>2 DEF Debt
  <2>4. LoggedIds(log_buffer) = {}
    BY <1>1, <2>1, <2>3, CountFacts
  <2>5. T = {}
    BY <1>4, <2>4
  <2>6. Cardinality(T) = 0
    BY <2>5, FS_EmptySet
  <2> QED
    BY <1>1, <1>3, <2>6 DEF T
<1>8. CASE pc = "log_flush"
  <2>1. PendingIds = {cur.id} /\ Len(log_buffer) <= MaxBuffered
        /\ (log_buffer # << >> => log_buffer[Len(log_buffer)].id = cur.id)
    BY <1>8 DEF DurabilityInvariant, ControlInv, BufferInv, PendingIds, Serving
  <2>2. CASE log_buffer = << >>
    <3>1. T = {}
      BY <1>4, <2>2, EmptyFacts
    <3>2. Cardinality(T) = 0
      BY <3>1, FS_EmptySet
    <3> QED
      BY <1>1, <1>3, <3>2 DEF T
  <2>3. CASE log_buffer # << >>
    <3>1. \A x \in T : x # cur.id
      BY <2>1 DEF T
    <3>2. Len(log_buffer) - 1 \in Nat
      BY <1>2, <2>3
    <3>3. \A x \in T : \E i \in 1..(Len(log_buffer) - 1) :
            i \in DOMAIN log_buffer /\ log_buffer[i].id = x
      BY <1>2, <1>5, <2>1, <2>3, <3>1
    <3>4. IsFiniteSet(T) /\ Cardinality(T) <= Len(log_buffer) - 1
      BY <1>1, <1>4, <3>2, <3>3, FewIds
    <3>5. Cardinality(T) \in Nat
      BY <3>4, FS_CardinalityType
    <3> QED
      BY <1>1, <1>2, <1>3, <2>1, <3>4, <3>5 DEF T
  <2> QED
    BY <2>2, <2>3
<1> QED
  BY <1>6, <1>7, <1>8

\* A crash takes back fewer than -p returned calls, an exit none.
THEOREM LossIsBounded ==
  ASSUME GranularityNeverShrinks
  PROVE  Spec => LossBound
<1> DEFINE Bound == pc # "down" /\ pc' = "down" =>
             LET lost == (MessageIds(applied) \cup PendingIds) \ DurableIds' IN
             /\ Cardinality(lost \ PendingIds) < MaxBuffered
             /\ crashes' = crashes => lost = {}
<1>1. DurabilityInvariant /\ [Next]_vars => [Bound]_vars
  <2> SUFFICES ASSUME DurabilityInvariant, Next, pc # "down", pc' = "down",
                      NEW lost, lost = (MessageIds(applied) \cup PendingIds) \ DurableIds'
               PROVE /\ Cardinality(lost \ PendingIds) < MaxBuffered
                     /\ crashes' = crashes => lost = {}
    OBVIOUS
  <2>1. EndExit \/ Crash
    BY NoTornLine
       DEF Next, ProcessStep, Boot, Upsert, ReplayOperation, ReplayCheckpointRecord,
           ReplayDone, Apply, Flush, EndFlush, WriteVersionMap, ClearLog,
           MarkCheckpoint, EndCheckpoint, Exit, Caller
  <2>2. pc \notin {"down", "aborted"} /\ DurableIds' = DurableIds
    BY <2>1 DEF EndExit, Crash, MemoryGone, LoggerDies, DurableIds
  <2>3. /\ lost \subseteq LoggedIds(log_buffer)
        /\ Cardinality(lost \ PendingIds) < MaxBuffered
    BY <2>2, LostCalls
  <2>4. CASE EndExit
    BY <2>3, <2>4, EmptyFacts DEF EndExit
  <2>5. CASE Crash
    BY <2>3, <2>5 DEF Crash, DurabilityInvariant, TypeOk
  <2> QED
    BY <2>1, <2>4, <2>5
<1> QED
  BY <1>1, InvariantHolds, PTL DEF Spec, LossBound
=============================================================================

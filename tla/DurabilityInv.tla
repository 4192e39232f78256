---------------------------- MODULE DurabilityInv ---------------------------
(***************************************************************************)
(* The inductive invariant behind the theorems of DurabilityProofs.  It    *)
(* holds when no run has a smaller checkpoint granularity than the one     *)
(* before: a smaller one lets recovery start a checkpoint while it still   *)
(* has lines of the log to read, and truncate them.                        *)
(***************************************************************************)
EXTENDS Durability

GranularityNeverShrinks ==
  \A i, j \in DOMAIN Granularities : i <= j => Granularities[i] <= Granularities[j]

\* The checkpoint record can only be the first line of a log.
NoMark(s)    == \A i \in DOMAIN s : s[i].op # CHECKPOINT
MarkFirst(s) == \A i \in DOMAIN s : i > 1 => s[i].op # CHECKPOINT

\* The number of operations in such a log.
OpCount(s) == IF s = << >> THEN 0
              ELSE IF s[1].op = CHECKPOINT THEN Len(s) - 1 ELSE Len(s)

Debt == OpCount(log_file) + OpCount(log_buffer)

\* A checkpoint falls due at this many operations in run r.
Limit(r) == IF r = 0 THEN 0 ELSE IF Granularities[r] = 0 THEN 1 ELSE Granularities[r]

CheckpointPcs == {"cp_flush", "cp_map", "cp_clear"}
ClearedPcs    == {"cp_mark", "mark_flush", "cp_end"}

ControlInv ==
  /\ pc \in {"down", "aborted", "idle", "log_flush", "exit_flush"} => ~replaying
  /\ pc = "replay" => replaying
  /\ run = 0 => pc = "down"
  /\ pc \in {"down", "aborted", "cp_map", "cp_clear", "cp_mark"} => log_buffer = << >>
  /\ ~replaying => unread = << >>

LogInv ==
  /\ MarkFirst(log_file) /\ MarkFirst(log_buffer)
  /\ log_file # << >> => NoMark(log_buffer)
  /\ unread \in Seq(Record)
  /\ MarkFirst(unread)
  /\ operation_count > 0 => NoMark(unread)
  /\ replaying => OpCount(log_buffer) = 0
  /\ pc = "cp_mark" => log_file = << >>

\* Operations counted and operations still to be read make up the log.
CountInv ==
  /\ pc \in {"log_flush", "apply"} \cup CheckpointPcs => operation_count >= 1
  /\ pc \in CheckpointPcs => operation_count >= checkpoint_granularity
  /\ pc \in {"replay", "idle", "log_flush", "apply"} \cup CheckpointPcs =>
       operation_count + OpCount(unread) = Debt
  /\ pc = "replay" => operation_count < Limit(run)
  /\ pc = "idle" => Debt < Limit(run)
  /\ Debt <= Limit(run)
  /\ pc \in ClearedPcs => Debt = 0 /\ unread = << >>

\* The tree, what it is being given and what recovery will still give it make up
\* what is durable or buffered.
ContentInv ==
  /\ MessageIds(applied) \cup LoggedIds(unread)
       \cup (IF pc \in {"log_flush", "apply"} THEN {cur.id} ELSE {})
     = IF pc \in {"down", "aborted"} THEN {}
       ELSE DurableIds \cup LoggedIds(log_buffer)
  /\ pc = "cp_clear" => version_map.tree = applied
  /\ pc \in ClearedPcs => MessageIds(version_map.tree) = MessageIds(applied)

\* The buffer is short of a flush, except while it is being flushed; if log() does
\* that, the last record is the one of the call in progress.
BufferInv ==
  /\ pc \notin {"log_flush", "mark_flush"} => Len(log_buffer) < MaxBuffered
  /\ Len(log_buffer) <= MaxBuffered
  /\ pc = "log_flush" /\ log_buffer # << >> => log_buffer[Len(log_buffer)].id = cur.id

DurabilityInvariant ==
  TypeOk /\ ControlInv /\ LogInv /\ CountInv /\ ContentInv /\ BufferInv

\* Whatever the granularities: while a process runs, it holds in its tree, or has
\* still to bring into it, all that is durable or buffered; the tree contains the
\* one the map names; a map is written with the buffer empty (checkpoint 677-699,
\* recoverState 904-928, replayLogs 979-1023).
HoldsDurable ==
  /\ pc \notin {"down", "aborted"} =>
       /\ LoggedIds(log_file) \cup LoggedIds(log_buffer)
            \subseteq MessageIds(applied) \cup LoggedIds(unread)
                        \cup (IF pc \in {"log_flush", "apply"} THEN {cur.id} ELSE {})
       /\ MessageIds(version_map.tree) \subseteq MessageIds(applied)
  /\ pc \in {"cp_map", "cp_clear"} => log_buffer = << >>
  /\ pc = "cp_clear" => version_map.tree = applied
  /\ ~replaying => unread = << >>
  /\ 0 \notin LoggedIds(log_file) \cup LoggedIds(log_buffer)
=============================================================================

----------------------------- MODULE Durability -----------------------------
(***************************************************************************)
(* How project3 makes upserts survive a crash: betree::upsert logs and     *)
(* applies, betree::checkpoint writes the pages, the version map and       *)
(* truncates the log, and recoveryManager rebuilds the tree from the map   *)
(* and replays the log.  One process, one thread; a kill may fall between  *)
(* any two steps, also inside a checkpoint and inside a recovery.          *)
(*                                                                         *)
(* The tree is abstracted to the sequence of messages it has absorbed: a   *)
(* message is [op, id, ts], id being the number of the upsert call.  What  *)
(* version_map.txt makes durable is such a sequence too.  The pages behind *)
(* it are files no older map refers to (module SwapSpace), so that the     *)
(* rename of the map is the one step that changes the durable tree.        *)
(***************************************************************************)
EXTENDS Logger, FiniteSets

CONSTANTS
  Opcodes,           \* the calls clients make: a subset of INSERT, DELETE, UPDATE
  Granularities,     \* checkpoint_granularity (-c) of the first, second, ... run;
                     \* the last entry serves every later run
  MaxOps,            \* bound: upsert calls in a behaviour
  MaxCrashes         \* bound: kills in a behaviour

ASSUME OpcodesAssumption == Opcodes \subseteq {INSERT, DELETE, UPDATE}
ASSUME GranularitiesAssumption ==
  Granularities \in Seq(Nat) /\ Granularities # << >>
ASSUME BoundsAssumption == MaxOps \in Nat /\ MaxCrashes \in Nat

VARIABLES
  pc,                \* where the process is; "down" when there is none
  replaying,         \* the constructor of betree has not returned yet
  unread,            \* lines replayLogs has not read yet
  cur,               \* the message upsert is bringing into the tree
  applied,           \* the messages the tree has absorbed, in order
  operation_count,
  next_timestamp,
  root_id,           \* does swap_space::root_id name the root of the tree?
  version_map,       \* version_map.txt: the tree and the root it names
  run,               \* number of the run, selects checkpoint_granularity
  issued,            \* history: the opcode of every upsert call, by id
  crashes            \* history: kills so far

loggerVars == <<log_buffer, log_file>>
memVars  == <<applied, cur, operation_count, next_timestamp, root_id, unread, replaying>>
vars == <<pc, loggerVars, memVars, version_map, run, issued, crashes>>

Torn == [op |-> 4, id |-> 0, ts |-> 0]
NoMessage == [op |-> CHECKPOINT, id |-> 0, ts |-> 0]
Message == [op : {INSERT, DELETE, UPDATE}, id : Nat, ts : Nat]

FlushPcs == {"log_flush", "cp_flush", "mark_flush", "exit_flush"}
Pcs == {"down", "aborted", "replay", "idle", "apply", "cp_map", "cp_clear",
        "cp_mark", "cp_end"} \cup FlushPcs

\* The root written in the map: none yet, the root of the tree, or something else.
Roots == {"none", "root", "garbage"}

checkpoint_granularity == Granularities[run]

\* "Nothing has a timestamp of 0".
ZeroTimestamp  == 0
FirstTimestamp == 1

-----------------------------------------------------------------------------
Init ==
  /\ LoggerInit
  /\ pc = "down" /\ replaying = FALSE /\ unread = << >>
  /\ cur = NoMessage /\ applied = << >>
  /\ operation_count = 0 /\ next_timestamp = FirstTimestamp
  /\ root_id = "garbage"
  /\ version_map = [tree |-> << >>, root |-> "none"]
  /\ run = 0 /\ issued = << >> /\ crashes = 0

\* What a process loses when it ends, however it ends.
MemoryGone ==
  /\ pc' = "down"
  /\ LoggerDies
  /\ replaying' = FALSE /\ unread' = << >>
  /\ cur' = NoMessage /\ applied' = << >>
  /\ operation_count' = 0 /\ next_timestamp' = FirstTimestamp
  /\ root_id' = "garbage"
  /\ UNCHANGED <<version_map, run, issued>>

\* main constructs Logger, swap_space and betree, whose constructor runs
\* recoverState.  With an empty map a new root is allocated and its id noted;
\* otherwise get_root leaves root_id uninitialised, with any value.  If the map
\* names something that is no object the process dies on an assertion; it is
\* enough to let it do so here, before it has changed anything.
Boot ==
  /\ pc \in {"down", "aborted"}
  /\ run' = IF run < Len(Granularities) THEN run + 1 ELSE run
  /\ LoggerConstruct
  /\ IF version_map.root = "garbage"
       THEN /\ pc' = "aborted"
            /\ UNCHANGED memVars
       ELSE /\ pc' = "replay"
            /\ replaying' = TRUE
            /\ unread' = log_file
            /\ cur' = NoMessage
            /\ applied' = version_map.tree
            /\ operation_count' = 0 /\ next_timestamp' = FirstTimestamp
            /\ root_id' \in IF version_map.root = "none"
                              THEN {"root"} ELSE {"root", "garbage"}
  /\ UNCHANGED <<version_map, issued, crashes>>

\* Where upsert returns to.
Caller == IF replaying THEN "replay" ELSE "idle"

\* The first half of upsert(opcode, k, v, do_log = true): count and log.  The
\* message carries the timestamp after the one in the log.
Upsert(op) ==
  /\ pc = "idle"
  /\ Len(issued) < MaxOps
  /\ issued' = Append(issued, op)
  /\ operation_count' = operation_count + 1
  /\ Log([op |-> op, id |-> Len(issued) + 1, ts |-> next_timestamp])
  /\ pc' = IF FlushDue THEN "log_flush" ELSE "apply"
  /\ next_timestamp' = next_timestamp + 1
  /\ cur' = [op |-> op, id |-> Len(issued) + 1, ts |-> next_timestamp + 1]
  /\ UNCHANGED <<applied, root_id, unread, replaying, version_map, run, crashes>>

\* The call replayLogs makes for an opcode it reads.
ReplayOpcode(op) == IF op = 1 THEN UPDATE ELSE IF op = 2 THEN DELETE ELSE INSERT

\* A line of the log is read and handed to upsert(..., do_log = false), which
\* counts it and gives it the current timestamp.
ReplayOperation ==
  /\ pc = "replay" /\ unread # << >>
  /\ Head(unread).op \in {0, 1, 2}
  /\ unread' = Tail(unread)
  /\ operation_count' = operation_count + 1
  /\ cur' = [op |-> ReplayOpcode(Head(unread).op), id |-> Head(unread).id,
             ts |-> next_timestamp]
  /\ pc' = "apply"
  /\ UNCHANGED <<loggerVars, applied, next_timestamp, root_id, replaying,
                 version_map, run, issued, crashes>>

\* Mutant: the `break' of case 3 leaves the loop.
ReplayStopsAtCheckpointRecord ==
  /\ pc = "replay" /\ unread # << >>
  /\ Head(unread).op = CHECKPOINT
  /\ unread' = << >>
  /\ UNCHANGED <<pc, loggerVars, applied, cur, operation_count, next_timestamp,
                 root_id, replaying, version_map, run, issued, crashes>>

\* case 3 of the switch: nothing to do.
ReplayCheckpointRecord ==
  /\ pc = "replay" /\ unread # << >>
  /\ Head(unread).op = CHECKPOINT
  /\ unread' = Tail(unread)
  /\ UNCHANGED <<pc, loggerVars, applied, cur, operation_count, next_timestamp,
                 root_id, replaying, version_map, run, issued, crashes>>

\* A line cut short (see LogText): an upsert nobody made, with what the line has
\* left and what the line before it left behind; or nothing, if that is no
\* operation; or an exception that nobody catches, if a number has no digits left.
ReplayTornLine ==
  /\ pc = "replay" /\ unread # << >>
  /\ Head(unread) = Torn
  /\ \/ /\ \E op \in {INSERT, DELETE, UPDATE} :
              cur' = [op |-> op, id |-> 0, ts |-> next_timestamp]
        /\ unread' = Tail(unread)
        /\ operation_count' = operation_count + 1
        /\ pc' = "apply"
        /\ UNCHANGED <<loggerVars, applied, next_timestamp, root_id, replaying,
                       version_map, run, issued>>
     \/ /\ unread' = Tail(unread)
        /\ UNCHANGED <<pc, loggerVars, applied, cur, operation_count, next_timestamp,
                       root_id, replaying, version_map, run, issued>>
     \/ MemoryGone
  /\ UNCHANGED crashes

\* Mutant: the loop ends with a line still to be read.
ReplayMissesLastLine ==
  /\ pc = "replay" /\ Len(unread) <= 1
  /\ pc' = "idle" /\ replaying' = FALSE
  /\ cur' = NoMessage
  /\ unread' = << >>
  /\ UNCHANGED <<loggerVars, applied, operation_count, next_timestamp, root_id,
                 version_map, run, issued, crashes>>

\* End of file: recoverState and the constructor return.
ReplayDone ==
  /\ pc = "replay" /\ unread = << >>
  /\ pc' = "idle" /\ replaying' = FALSE
  /\ cur' = NoMessage
  /\ UNCHANGED <<loggerVars, applied, operation_count, next_timestamp, root_id,
                 unread, version_map, run, issued, crashes>>

\* Mutant: a checkpoint is due only beyond the granularity.
ApplyAboveGranularity ==
  /\ pc = "apply"
  /\ applied' = Append(applied, cur)
  /\ \E root_splits \in BOOLEAN : root_id' = IF root_splits THEN "root" ELSE root_id
  /\ pc' = IF operation_count > checkpoint_granularity THEN "cp_flush" ELSE Caller
  /\ cur' = NoMessage
  /\ UNCHANGED <<loggerVars, operation_count, next_timestamp, unread, replaying,
                 version_map, run, issued, crashes>>

\* The second half of upsert: root->flush, perhaps a new root (allocate_root
\* sets root_id), and the test whether a checkpoint is due.
Apply ==
  /\ pc = "apply"
  /\ applied' = Append(applied, cur)
  /\ \E root_splits \in BOOLEAN : root_id' = IF root_splits THEN "root" ELSE root_id
  /\ pc' = IF operation_count >= checkpoint_granularity THEN "cp_flush" ELSE Caller
  /\ cur' = NoMessage
  /\ UNCHANGED <<loggerVars, operation_count, next_timestamp, unread, replaying,
                 version_map, run, issued, crashes>>

\* Logger::flush, from log(), from checkpoint() or from ~Logger().
Flush ==
  /\ pc \in FlushPcs
  /\ FlushRecord
  /\ UNCHANGED <<pc, memVars, version_map, run, issued, crashes>>

\* Mutant: the flush of the checkpoint record starts the checkpoint again.
EndFlushRestartsCheckpoint ==
  /\ FlushDone
  /\ \/ pc = "log_flush"  /\ pc' = "apply"
     \/ pc = "cp_flush"   /\ pc' = "cp_map"
     \/ pc = "mark_flush" /\ pc' = "cp_flush"
  /\ UNCHANGED <<memVars, version_map, run, issued, crashes>>

EndFlush ==
  /\ FlushDone
  /\ \/ pc = "log_flush"  /\ pc' = "apply"
     \/ pc = "cp_flush"   /\ pc' = "cp_map"
     \/ pc = "mark_flush" /\ pc' = "cp_end"
  /\ UNCHANGED <<memVars, version_map, run, issued, crashes>>

\* Mutant: the new map stays in its temporary file.
MapIsNotRenamed ==
  /\ pc = "cp_map"
  /\ pc' = "cp_clear"
  /\ UNCHANGED <<loggerVars, memVars, version_map, run, issued, crashes>>

\* write_back_dirty_pages_info_to_disk and write_version_map_to_disk; the rename
\* is the moment the new tree becomes the durable one.
WriteVersionMap ==
  /\ pc = "cp_map"
  /\ version_map' = [tree |-> applied, root |-> root_id]
  /\ pc' = "cp_clear"
  /\ UNCHANGED <<loggerVars, memVars, run, issued, crashes>>

\* What replayLogs, in the middle of reading, can still get from a file that has
\* been truncated: the lines its stream had buffered, the last one maybe cut.
StillBuffered(lines) ==
  {SubSeq(lines, 1, n) : n \in 0..Len(lines)}
    \cup {Append(SubSeq(lines, 1, n - 1), Torn) : n \in 1..Len(lines)}

ClearLog ==
  /\ pc = "cp_clear"
  /\ ClearLogOnDisk
  /\ unread' \in StillBuffered(unread)
  /\ pc' = "cp_mark"
  /\ UNCHANGED <<applied, cur, operation_count, next_timestamp, root_id,
                 replaying, version_map, run, issued, crashes>>

\* delete_old_version (files the map does not name), then the checkpoint record.
MarkCheckpoint ==
  /\ pc = "cp_mark"
  /\ Log([op |-> CHECKPOINT, id |-> 0, ts |-> next_timestamp])
  /\ pc' = IF FlushDue THEN "mark_flush" ELSE "cp_end"
  /\ UNCHANGED <<memVars, version_map, run, issued, crashes>>

\* Mutant: operation_count is not reset.
EndCheckpointKeepsCount ==
  /\ pc = "cp_end"
  /\ pc' = Caller
  /\ UNCHANGED <<loggerVars, memVars, version_map, run, issued, crashes>>

EndCheckpoint ==
  /\ pc = "cp_end"
  /\ operation_count' = 0
  /\ pc' = Caller
  /\ UNCHANGED <<loggerVars, applied, cur, next_timestamp, root_id, unread,
                 replaying, version_map, run, issued, crashes>>

\* main returns; the logger, declared first, is destroyed last and flushes.
Exit ==
  /\ pc = "idle"
  /\ pc' = "exit_flush"
  /\ UNCHANGED <<loggerVars, memVars, version_map, run, issued, crashes>>

EndExit ==
  /\ pc = "exit_flush"
  /\ log_buffer = << >>
  /\ MemoryGone
  /\ UNCHANGED crashes

\* kill -9, as in TestScript.sh, at any point of a run.  A script that ends by
\* exit(0) inside test() leaves the same behind, as main's logger is not destroyed.
Crash ==
  /\ pc \notin {"down", "aborted"}
  /\ crashes < MaxCrashes
  /\ crashes' = crashes + 1
  /\ MemoryGone

\* The steps the process takes on its own once it has been started or called.
ProcessStep ==
  \/ ReplayOperation \/ ReplayCheckpointRecord \/ ReplayTornLine \/ ReplayDone
  \/ Apply \/ Flush \/ EndFlush \/ WriteVersionMap \/ ClearLog
  \/ MarkCheckpoint \/ EndCheckpoint \/ EndExit

Next ==
  \/ Boot
  \/ \E op \in Opcodes : Upsert(op)
  \/ Exit
  \/ Crash
  \/ ProcessStep

Spec == Init /\ [][Next]_vars

\* A single-threaded program does not stop in the middle of a call.
FairSpec == Spec /\ WF_vars(ProcessStep)
-----------------------------------------------------------------------------
(***************************************************************************)
(* Properties.                                                             *)
(***************************************************************************)
MessageIds(s) == {s[i].id : i \in DOMAIN s}
LoggedIds(s)  == {s[i].id : i \in {j \in DOMAIN s : s[j].op # CHECKPOINT}}

\* The calls a kill at this moment cannot take back.
DurableIds == MessageIds(version_map.tree) \cup LoggedIds(log_file)

\* Clients are being served.
Serving == pc \notin {"down", "aborted"} /\ ~replaying

\* The call upsert is working on: logged or about to be, not in the tree yet.
PendingIds == IF Serving /\ pc \in {"log_flush", "apply"} THEN {cur.id} ELSE {}

\* A buffer of size 0 flushes at once, as one of size 1 does.
MaxBuffered == IF LogGranularity = 0 THEN 1 ELSE LogGranularity

TypeOk ==
  /\ pc \in Pcs
  /\ replaying \in BOOLEAN
  /\ log_buffer \in Seq(Record) /\ log_file \in Seq(Record)
  /\ unread \in Seq(Record \cup {Torn})
  /\ cur \in IF pc \in {"log_flush", "apply"} THEN Message ELSE {NoMessage}
  /\ applied \in Seq(Message)
  /\ operation_count \in Nat /\ next_timestamp \in Nat \ {0}
  /\ root_id \in Roots \ {"none"}
  /\ version_map \in [tree : Seq(Message), root : Roots]
  /\ run \in 0..Len(Granularities)
  /\ issued \in Seq(Opcodes)
  /\ crashes \in 0..MaxCrashes

\* Whenever clients are served, the tree embodies exactly the calls that are
\* durable or wait in the log buffer: recovery has brought back every durable
\* call, no call that a crash took comes back, and the log misses nothing the
\* tree has (upsert 706-725, checkpoint 677-699, replayLogs 960-1023).
TreeIsDurablePlusBuffer ==
  Serving => MessageIds(applied) \cup PendingIds
               = DurableIds \cup LoggedIds(log_buffer)

\* No step of the program, no crash and no recovery takes back a call that has
\* reached the log file or a version map: checkpoint truncates the log only
\* behind a map that embodies it.
DurableStays == [][DurableIds \subseteq DurableIds']_vars

\* With a smaller -c than the run before, a recovery may checkpoint with lines
\* still to be read.  Then, too, no step but its truncation of the log takes back
\* a durable call, and that one only what is still to be read (690; the
\* loop of replayLogs, 979).
OnlyUnreadIsLost ==
  [][DurableIds \ DurableIds'
       \subseteq IF replaying /\ pc = "cp_clear" THEN LoggedIds(unread) ELSE {}]_vars

\* A crash or an exit takes back fewer than -p of the calls that had returned
\* (Logger::log 22-27 and the checkpoint's flush); an exit takes back none.
LossBound ==
  [][pc # "down" /\ pc' = "down" =>
       LET lost == (MessageIds(applied) \cup PendingIds) \ DurableIds' IN
       /\ Cardinality(lost \ PendingIds) < MaxBuffered
       /\ crashes' = crashes => lost = {}]_vars

\* A call never ends up behind a younger one.  A crash between the map's rename
\* and the log's truncation makes recovery apply calls a second time, but then
\* every younger one is applied again after them, so that blind writes converge.
LastWriterWins ==
  Serving =>
    \A i, j \in DOMAIN applied :
      i < j /\ applied[i].id > applied[j].id =>
        \E k \in DOMAIN applied : k > j /\ applied[k].id = applied[i].id

\* Recovery has a bounded amount of work: operation_count is the number of
\* operations in the log, file and buffer, also after a recovery, so that a
\* checkpoint is due when the log reaches -c of them.
Operations(s) == {i \in DOMAIN s : s[i].op # CHECKPOINT}
ReplayDebt == Cardinality(Operations(log_file)) + Cardinality(Operations(log_buffer))
OperationCountIsReplayDebt ==
  pc = "idle" =>
    /\ operation_count = ReplayDebt
    /\ ReplayDebt < IF checkpoint_granularity = 0 THEN 1 ELSE checkpoint_granularity

\* A call returns, with the checkpoint it may run, and so does a recovery, with
\* the checkpoint it may run, unless the process is killed.
CallsReturn == pc \notin {"idle", "down", "aborted"} ~> pc \in {"idle", "down"}

\* The abstract store: its contents are the calls in the tree (with the one
\* being brought in) while clients are served, the durable ones otherwise.
Store == INSTANCE DurableStore WITH
  Calls    <- 1..MaxOps,
  Window   <- MaxBuffered,
  contents <- IF Serving THEN MessageIds(applied) \cup PendingIds ELSE DurableIds,
  stable   <- DurableIds,
  up       <- Serving

\* The program implements the abstract store.
StoreSpec == Store!Spec

-----------------------------------------------------------------------------
(***************************************************************************)
(* What comments of the code say and the code does not do.                 *)
(***************************************************************************)

\* Recovery repeats the calls clients made.  logger.hpp:10-15 numbers UPDATE 1
\* and DELETE 2, and replayLogs decodes them so; betree.hpp:137-139, which
\* upsert logs with, has DELETE 1 and UPDATE 2.
ReplayRepeatsTheCall ==
  \A i \in DOMAIN applied : applied[i].op = issued[applied[i].id]

\* "Else make dictionary and find root" (betree.hpp:908): a map that a checkpoint
\* wrote can be recovered from.
RecoveryFindsRoot == pc # "aborted"

=============================================================================

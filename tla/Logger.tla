------------------------------- MODULE Logger -------------------------------
(***************************************************************************)
(* The write-ahead log of project3/logger.hpp and logger.cpp: a buffer in  *)
(* memory and an append-only file.                                         *)
(*                                                                         *)
(* A line of the file is a record [op, id, ts].  Key and value are         *)
(* abstracted into `id', the number of the upsert call that logged them;   *)
(* the lsn is left out, because nothing reads it back.  Logger::flush      *)
(* writes a line per loop iteration and std::endl hands each line to the   *)
(* operating system, so a killed process leaves a prefix of whole lines:   *)
(* one iteration is one action.  A kill is survived by what the operating  *)
(* system holds; the code never syncs the log, and a power failure, which  *)
(* could lose such lines, is not modelled.                                 *)
(***************************************************************************)
EXTENDS Naturals, Sequences

CONSTANT LogGranularity      \* log_granularity, the -p argument

ASSUME LogGranularityAssumption == LogGranularity \in Nat

VARIABLES
  log_buffer,                \* records not handed to the file yet
  log_file                   \* the lines of kv_store.log

\* The opcodes of betree.hpp, and the 3 that checkpoint() logs.
INSERT     == 0
DELETE     == 1
UPDATE     == 2
CHECKPOINT == 3

Record == [op : {INSERT, DELETE, UPDATE, CHECKPOINT}, id : Nat, ts : Nat]

LoggerInit == log_buffer = << >> /\ log_file = << >>

\* The constructor opens the file to append to it; the buffer is a new vector.
LoggerConstruct == log_buffer' = << >> /\ UNCHANGED log_file

\* The process dies: the buffer goes, the file stays.
LoggerDies == log_buffer' = << >> /\ UNCHANGED log_file

\* log(): the push ...
Log(record) == log_buffer' = Append(log_buffer, record) /\ UNCHANGED log_file

\* ... and its test whether this record fills the buffer.
\* (Mutant: > for >=.)
FlushDueBeyond == Len(log_buffer) + 1 > LogGranularity
FlushDue == Len(log_buffer) + 1 >= LogGranularity

\* Mutant: the buffer is written youngest record first.
FlushYoungest ==
  /\ log_buffer # << >>
  /\ log_file' = Append(log_file, log_buffer[Len(log_buffer)])
  /\ log_buffer' = SubSeq(log_buffer, 1, Len(log_buffer) - 1)

\* One iteration of flush().
FlushRecord ==
  /\ log_buffer # << >>
  /\ log_file' = Append(log_file, Head(log_buffer))
  /\ log_buffer' = Tail(log_buffer)

\* flush() is through, and its clear() has nothing left to drop.
FlushDone == log_buffer = << >> /\ UNCHANGED <<log_buffer, log_file>>

ClearLogOnDisk == log_file' = << >> /\ UNCHANGED log_buffer
=============================================================================

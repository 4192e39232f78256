------------------------------ MODULE LogText ------------------------------
(***************************************************************************)
(* The text of kv_store.log: what LogRecord::serialize writes and what     *)
(* replayLogs of betree.hpp makes of it again.  Module Logger takes a line *)
(* for a record; this module says when that is right.                      *)
(*                                                                         *)
(* The file is a sequence of tokens: punctuation, digits, the characters   *)
(* of values and the labels, which all begin with a quote.  The spaces     *)
(* between fields, which nobody looks at, are left out.                    *)
(*                                                                         *)
(* A record of 1 KB or more goes to the file on its own and its newline    *)
(* only with the std::endl behind it; the token "block" in a value makes   *)
(* the record that long.                                                   *)
(***************************************************************************)
EXTENDS Naturals, SequencesExt

CONSTANTS
  Keys,              \* the keys of clients, as sequences of digits
  Values,            \* their values, as sequences of ValueTokens
  MaxRecords         \* bound: records in a log

Digits == {"0", "1", "2", "3", "4", "5", "6", "7", "8", "9"}
ValueTokens == {"a", "b", "quote", "newline", "block"}

ASSUME KeysAssumption ==
  \A k \in Keys : k \in Seq(Digits) /\ k # << >>
ASSUME ValuesAssumption ==
  \A v \in Values : v \in Seq(ValueTokens)
\* Only so that Expected, below, stays short: a long value is a single line.
ASSUME LongValuesAssumption ==
  \A v \in Values : Contains(v, "block") => ~Contains(v, "newline")

VARIABLES
  text,              \* the file
  logged,            \* history: the records written
  phase,             \* "serve", "replay", "done", or "threw" if an exception ended it
  rest,              \* what replayLogs has still to read
  cut,               \* is that a file truncated under the reader?
  operation, key,    \* the variables of replayLogs that outlive a line
  calls              \* the calls replayLogs has made

logVars == <<text, logged, phase, rest, cut, operation, key, calls>>

Labels == {"LSN", "OPERATION", "KEY", "VALUE", "TIMESTAMP"}
Quotes == Labels \cup {"quote"}

Unset == <<"unset">>

\* Records of calls, by opcode, and the one of a checkpoint.
Records ==
  [op : {"0", "2"}, key : Keys, value : Values]
    \cup [op : {"1"}, key : Keys, value : {<< >>}]
    \cup [op : {"3"}, key : {<<"0">>}, value : {<< >>}]

-----------------------------------------------------------------------------
\* LogRecord::serialize.  The value goes out as it is.
Serialize(r) ==
  <<"{", "LSN", "0", ",", "OPERATION", r.op, ",", "KEY">> \o r.key
    \o <<",", "VALUE", "quote">> \o r.value
    \o <<"quote", ",", "TIMESTAMP", "1", "}">>

\* find: the first place at or after `from' with one of the tokens; 0 for npos.
Find(line, tokens, from) ==
  LET found == {i \in from..Len(line) : line[i] \in tokens}
  IN IF found = {} THEN 0 ELSE Min(found)

\* The number stoi, stoull or stoul reads behind a label.
NumberAfter(line, label) ==
  LET p == Find(line, {label}, 1)
      Length == CHOOSE n \in 0..(Len(line) - p) :
                  /\ \A i \in 1..n : line[p + i] \in Digits
                  /\ p + n + 1 <= Len(line) => line[p + n + 1] \notin Digits
  IN SubSeq(line, p + 1, p + Length)

\* They throw if there is no digit.
Throws(line) ==
  \E label \in {"OPERATION", "KEY", "TIMESTAMP"} :
    Contains(line, label) /\ NumberAfter(line, label) = << >>

\* Mutant: the quote that opens the value is taken for the one that closes it.
ValueFromLabel(line) ==
  LET label == Find(line, {"VALUE"}, 1)
      end   == Find(line, Quotes, label + 1)
  IN IF label = 0 THEN << >>
     ELSE SubSeq(line, label + 1, IF end = 0 THEN Len(line) ELSE end - 1)

\* From the quote behind the label, or from the start of the line if there is
\* none (npos + 1), to the next quote.
ValueOf(line) ==
  LET label == Find(line, {"VALUE"}, 1)
      start == Find(line, Quotes, label + 1) + 1
      end   == Find(line, Quotes, start)
  IN IF label = 0 THEN << >>
     ELSE SubSeq(line, start, IF end = 0 THEN Len(line) ELSE end - 1)

\* Mutant: the `break' of case 0 is missing.
CallsFallThrough(op, k, value) ==
  LET update == [call |-> "update", key |-> k, value |-> value]
  IN IF op = "0" THEN <<[update EXCEPT !.call = "insert"], update>>
     ELSE IF op = "1" THEN <<update>>
     ELSE << >>

\* The switch over the operation.
CallsFor(op, k, value) ==
  IF op = "0" THEN <<[call |-> "insert", key |-> k, value |-> value]>>
  ELSE IF op = "1" THEN <<[call |-> "update", key |-> k, value |-> value]>>
  ELSE IF op = "2" THEN <<[call |-> "erase", key |-> k, value |-> << >>]>>
  ELSE << >>

-----------------------------------------------------------------------------
LogTextInit ==
  /\ text = << >> /\ logged = << >>
  /\ phase = "serve" /\ rest = << >> /\ cut = FALSE
  /\ operation = "4" /\ key = Unset /\ calls = << >>

\* A new record goes on where the file ends, even in the middle of a line.
Write(r, newline) ==
  /\ phase = "serve"
  /\ Len(logged) < MaxRecords
  /\ logged' = Append(logged, r @@ [joins |-> text # << >> /\ Last(text) # "newline"])
  /\ text' = text \o Serialize(r) \o newline
  /\ UNCHANGED <<phase, rest, cut, operation, key, calls>>

\* Logger::flush, for one record.
FlushRecord(r) == Write(r, <<"newline">>)

\* A kill between a long record and its newline.  The next run appends.
KillBeforeNewline(r) == Contains(r.value, "block") /\ Write(r, << >>)

\* replayLogs opens the file.  It reads all of it, or as much as its stream had
\* buffered when a checkpoint of its own truncated the file.
StartReplay ==
  /\ phase = "serve" /\ logged # << >>
  /\ phase' = "replay"
  /\ \E n \in 0..Len(text) : rest' = SubSeq(text, 1, n) /\ cut' = (n < Len(text))
  /\ operation' = "4" /\ key' = Unset /\ calls' = << >>
  /\ UNCHANGED <<text, logged>>

\* getline, up to a newline or the end of the file, and the rest of the loop's
\* body.  A line without an operation or a key takes those of the line before.
ReplayLine ==
  /\ phase = "replay" /\ rest # << >>
  /\ LET newline == Find(rest, {"newline"}, 1)
         line == IF newline = 0 THEN rest ELSE SubSeq(rest, 1, newline - 1)
     IN IF Throws(line)
          THEN phase' = "threw" /\ UNCHANGED <<rest, operation, key, calls>>
          ELSE /\ rest' = IF newline = 0 THEN << >>
                          ELSE SubSeq(rest, newline + 1, Len(rest))
               /\ operation' = IF Contains(line, "OPERATION")
                                 THEN Head(NumberAfter(line, "OPERATION")) ELSE operation
               /\ key' = IF Contains(line, "KEY") THEN NumberAfter(line, "KEY") ELSE key
               /\ calls' = calls \o CallsFor(operation', key', ValueOf(line))
               /\ phase' = phase
  /\ UNCHANGED <<text, logged, cut>>

ReplayDone ==
  /\ phase = "replay" /\ rest = << >>
  /\ phase' = "done"
  /\ UNCHANGED <<text, logged, rest, cut, operation, key, calls>>

LogTextNext ==
  \/ \E r \in Records : FlushRecord(r) \/ KillBeforeNewline(r)
  \/ StartReplay \/ ReplayLine \/ ReplayDone

-----------------------------------------------------------------------------
(***************************************************************************)
(* Properties.                                                             *)
(***************************************************************************)

\* The record whose operation and key a line of the i-th one takes: a record
\* written behind one without a newline is part of that one's line.
Owner[i \in Nat] == IF logged[i].joins THEN Owner[i - 1] ELSE i

\* What replay makes of the i-th record: one call, the value cut at its first
\* quote or newline (none if it joins another line); then, for every newline in
\* the value, the call again with an empty value.
Effect(i) ==
  LET r == logged[Owner[i]]
      stop == Find(r.value, {"quote", "newline"}, 1)
      newlines == {j \in DOMAIN logged[i].value : logged[i].value[j] = "newline"}
  IN (IF logged[i].joins THEN << >>
      ELSE CallsFor(r.op, r.key, IF stop = 0 THEN r.value ELSE SubSeq(r.value, 1, stop - 1)))
     \o FlattenSeq([j \in 1..Cardinality(newlines) |-> CallsFor(r.op, r.key, << >>)])

Expected == FlattenSeq([i \in DOMAIN logged |-> Effect(i)])

\* A log that is read whole is replayed without an exception, in order, with
\* every record once: exactly, if its value has neither quote nor newline and no
\* kill has left the line before it open (serialize 26-33, replayLogs 979-1020).
ReplayIsExpected ==
  ~cut => /\ phase # "threw"
          /\ phase = "done" => calls = Expected

\* A log cut anywhere under the reader adds one call at most that nobody made.  It
\* is the last one, and its key is one of the log, perhaps of the line before, or
\* what is left of one, or was never set.
CutAddsOneCall ==
  calls # << >> =>
    /\ IsPrefix(Front(calls), Expected)
    /\ \/ IsPrefix(calls, Expected)
       \/ /\ cut /\ rest = << >>
          /\ \/ Last(calls).key = Unset
             \/ \E i \in DOMAIN logged : IsPrefix(Last(calls).key, logged[i].key)

=============================================================================

# A TLA+ development for adv_db (`project3`)

`src/project3` is a key-value store: a B-epsilon tree whose nodes live in a swap
space (a cache over one file per node), made durable by a write-ahead log and
checkpoints. It has one thread. What makes it hard is not concurrency but that
four things keep parts of the same data - the tree, the cache, the log buffer
and the disk - and that a kill may fall between any two steps, also in a
checkpoint and in a recovery.

`src/CS6530-P2` is the predecessor: the same tree on an earlier swap space,
without log or recovery.

## 1. Inventory

### Write-ahead log - `logger.hpp`, `logger.cpp`

* State: `log_buffer` in memory, the file `kv_store.log`, the constants
  `log_granularity` (`-p`) and `checkpoint_granularity` (`-c`).
* Operations: construct (open to append), `log` (push, flush at `-p` records),
  `flush` (a line and a `std::endl` per record, then clear), `clear_log_on_disk`
  (truncate), destroy (flush).
* Hard: the buffer dies with the process; a kill may fall between two lines of a
  flush; the truncation runs while a recovery may still be reading the file.
* Correct when: what is on disk is a prefix, in call order, of what was logged
  since the last truncation, and a line read back is the call that was logged.

### Upsert, checkpoint, recovery - `betree.hpp` 653-740 and 892-1025

* State: `operation_count`, `next_timestamp`, `swap_space::root_id`, and on disk
  `version_map.txt` (and `master.log`, which names it).
* Operations: `upsert` (count, log, flush the message into the root, perhaps a
  checkpoint), `checkpoint` (flush log, write dirty pages, write and rename the
  map, truncate the log, delete old pages, log a checkpoint record),
  `recoverState` (read the map, rebuild the objects, find the root, replay the
  log through `upsert`).
* Interactions: `upsert` calls the logger and the tree; `checkpoint` calls the
  logger and the swap space; `replayLogs` calls `upsert`, which may call
  `checkpoint`, which truncates the file that is being replayed.
* Hard: every order of the steps above with respect to a kill; recovery that
  checkpoints; counters that must agree between runs of the program.
* Correct when: the recovered tree is the durable calls, nothing durable is ever
  lost, a kill loses less than a buffer, and recovery ends and its work is
  bounded.

### Swap space - `swap_space.hpp`, `swap_space.cpp`

* State: `objects` (id to node pointer, version, reference count, pin count,
  dirty and leaf flags, last access), `lru_pqueue`, `objects_to_versions`,
  `current_in_memory_objects`, `next_id`, `root_id`.
* Operations: `allocate`, `allocate_root`, `get_root`; copy, assign and destroy
  pointers; dereference (pin, queue, load, evict) and unpin; `write_back`,
  `maybe_evict_something`; the three parts of a checkpoint; `rebuildVersionMap`
  and `rebuildObjectMap`.
* Interactions: every `->` of the tree runs an eviction; evicting and loading
  serialise the pointers inside a node, which must not change counts; deleting a
  node releases its children, which may have to be loaded for that.
* Hard: stale flags (`is_leaf` from the last write-out), counts divided between
  memory and disk, what is pinned further up the stack, files of several versions.
* Correct when: counts are exact, what is pinned stays, no change is dropped, and
  the disk always holds one complete tree, the one the map names.

### Tree nodes and iterators - `betree.hpp` 63-651 and 742-870

* State: per node `pivots` (key to child) and `elements` (message key to
  message); the root.
* Operations: `apply`, `split`, `flush` (through to a dirty child or into the
  buffer, then down as the buffer fills), `query`, `get_next_message`, iterators.
* Interactions: the way a message takes depends on whether a child is dirty or in
  memory, so on the cache.
* Hard: messages for one key on several levels, applied in batches; keys below
  the first pivot; splits in the middle of a loop over pivots.
* Correct when: queries and scans give what a plain map would, whatever the cache
  did in between.

### Earlier swap space - `CS6530-P2/swap_space.hpp`, `pointer.hpp`

* State: `ptrMap` (id to node pointer, version, reference count, pin count, last
  access), `memory_store`, `next_id`.
* Operations: `allocate`; copy, assign and destroy pointers; dereference (pin,
  load, evict one object), unpin.
* Hard: a pin keeps the address of the pointer it was made from, inside another
  node; nothing is freed; only accesses for writing count for the LRU order.
* Correct when: counts and pins are exact, an object is in memory or in exactly
  one file, and the client reads what it wrote.

### Earlier tree - `CS6530-P2/betree.hpp`

* State and operations: those of the tree above, without log or recovery.
* Interactions: it asks the swap space whether a child is in memory, in the middle
  of a flush, when its own accesses may have evicted that child. `is_dirty` is
  always false there, as nothing sets `target_is_dirty`.
* Correct when: queries and scans give what a plain map would, whatever the answers;
  and "whenever a flush returns, all the nodes in the subtree of that node are
  guaranteed to satisfy the max-size requirement" (36-41).

### Text formats - `swap_space.*`, `betree.hpp`, `logger.hpp`

* A page: `serialize` and `deserialize` for integers, strings, maps and what
  consists of them, read once more by `rebuildObjectMap`, which looks at its second
  line only. A log line: `LogRecord::serialize`, read by `replayLogs` with `find`.
* Hard: values hold any characters, also the ones the formats are made of; a log
  line may be cut by a kill or by a truncation under its reader, whose variables
  outlive the line.
* Correct when: what is read is what was written.

### Others

Backing store (`backing_store.cpp`: one file per object and version), test drivers
and scripts. `PROJECT.json` lists all parts with what is modelled of each, and
under "hazards" each place where this code can go wrong in a way a test would
hardly reach.

## 2. Modules

| module | models | role |
|---|---|---|
| `Logger` | `logger.*` | the log as operators on `log_buffer`, `log_file` |
| `Durability` | `upsert`, `checkpoint`, `recoverState`, kill and restart | extends `Logger`; one action per step |
| `DurableStore` | - | abstract: what a store with a log promises its clients |
| `DurabilityInv` | - | the inductive invariant of `Durability` |
| `DurabilityProofs` | - | the theorems that need a `-c` that does not shrink |
| `DurabilityStoreProofs` | - | the theorems for any `-c`; the order of calls; `Durability` implements `DurableStore` |
| `LogText` | a line of the log, written, cut and read | justifies `Logger`'s records |
| `SwapSpace` | `swap_space.*`, `backing_store.cpp` | pointers, pins, cache, versions, map, crash, recovery |
| `SwapSpaceInv` | - | the inductive invariant of `SwapSpace` |
| `SwapSpaceProofs` | - | it is inductive; the safety properties; `SwapSpace` implements `ObjectHeap` |
| `ObjectHeap` | - | abstract: a heap of nodes with a copy that survives a crash |
| `PageText` | a page, written, read and looked at by recovery | justifies `SwapSpace`'s nodes in files |
| `LegacySwapSpace` | `CS6530-P2/swap_space.hpp`, `pointer.hpp`, `backing_store.cpp` | the predecessor of `SwapSpace` |
| `LegacySwapSpaceProofs` | - | its properties, and that it implements `ObjectHeap` |
| `BeTreeNode` | one node: `apply`, `split`, `get_pivot`, the steps of `flush` in it | functions, no recursion |
| `BeTreeFlush` | `flush` and what `upsert` does of it, for both trees | a stack of calls; extends `BeTreeNode` |
| `BeTreeQuery` | `query`, for both trees | one action per step; extends `BeTreeFlush` |
| `BeTreeScan` | `get_next_message`, iterators | recursive operators, for the runs only |
| `BeTree` | the tree of `project3`: upsert, replay, cache, checkpoint, restart | extends `BeTreeQuery` |
| `LegacyBeTree` | the tree of `CS6530-P2` | extends `BeTreeQuery` |
| `BeTreeFlushProofs` | - | the invariant of the heap of nodes; nodes and every step of `flush` keep it |
| `BeTreeValueProofs` | - | order, values and queries: the invariants and every step of `flush` and `query` |
| `BeTreeProofs`, `LegacyBeTreeProofs` | - | the theorems about the two trees |
| `MCDurability`, `MCSwapSpace`, `MCLegacySwapSpace`, `MCBeTree`, `MCLegacyBeTree`, `MCText` | - | instances for TLC |

The three large models of `project3` cut the program at its interfaces. `Durability` sees the tree
as the sequence of messages it has absorbed and a checkpoint as one atomic
replacement of the durable tree. `SwapSpace` justifies that: it implements
`ObjectHeap`, in which a checkpoint replaces the saved heap in one step and
nothing else touches it. `BeTree` sees the cache as a set of dirty nodes, from which
one may be written out between any two steps, and shows that the sequence of messages
determines what queries and scans give - in one run of the program. `LogText` and `PageText`
justify what the others take for granted, that what is read from a file is what was
written, and say where it is not.

### How state and actions correspond to the code

**Durability.** `pc` is the place in the call: `idle` between calls,
`log_flush` in `Logger::flush` called by `log`, `apply` before `root->flush`,
`cp_flush`, `cp_map`, `cp_clear`, `cp_mark`, `mark_flush`, `cp_end` the
steps of `checkpoint`, `replay` the loop of `replayLogs`, `exit_flush`
`~Logger`, `down` no process, `aborted` a process that failed an assertion while
starting. A message is `[op, id, ts]`; `id` is the number of the call and stands
for key and value. `unread` is what `replayLogs` has still to read; when the
file is truncated under it, the stream may still hold any prefix of those lines,
the last one cut (`StillBuffered`, `Torn`). `root_id` is only tracked as "names
the root" or "garbage": `get_root` leaves it uninitialised, so after a recovery
it may be either. `run` counts the starts of the program and selects its `-c`.

**SwapSpace.** Variables have the names of the code. The client is not the tree
but any legal use of pointers: a root and local pointers (`handles`), a stack of
pins (the temporaries of `->`), changes to the node on top. `dropping` counts
pointers whose `depoint` has still to run, so that the recursion of `depoint`
through deleted nodes is a sequence of actions. A node is `[data, kids]`.
Evictions are one action with the access that causes them.
Assigning a pointer is what it is in the code, a release and a copy
(`DropHandle`, then `CopyKid` or `AddKid`); only the root's is an action of its own.

**LegacySwapSpace.** The same client and the same names. A pin records the node
its pointer lies in (`through`, 0 for a local pointer), because the code follows
that pointer again to unpin. `now` is the clock in milliseconds, so several
accesses may have the same time; ties are broken by a hash table's order, that
is, arbitrarily. A node is only its `kids`: they are read and written with the
rest. `target_is_dirty` is left out, since nothing sets it - in the tree of
`CS6530-P2` the branch of `flush` for a single dirty child is therefore dead.

**BeTreeFlush, BeTreeQuery.** `nodes` is the heap of tree nodes, from ids to records
`[pivots, elements]`; pivots lead to ids. A call of `flush` that has not returned is a
frame on `stack`: its node, the messages it has still to apply, `first_pivot_idx`, the
pivot of the child it has called, and `at`, its place in the code: `enter`; `apply`, the loop over
`elts` and the while loop behind it; `child` and `through`, waiting at 510 and at 471;
`done`, behind 479. Each action is a step of the frame on top: a call, a
message applied, or a return with all the caller does before its next call. A split names its new nodes by
one fresh number and their first keys. `asked` is a query in progress: the
nodes on its path, whether it goes `down`, comes back `up`, has messages to `add` or an `answer`.

The nth call writes the value `<<n>>`, and `+` appends, as it does
for the strings of the tests, so a value shows which updates it has seen in
which order. `expected` is the `std::map` of `test.cpp`, `means` in a message what the
map had for the key after the call, and `came` what was the last message for each key that came to a
node or to what it was split from; guards look at none of these histories. `faults` records
what a `flush` would have failed on: a full buffer where the code asserts an
empty one, the use of an erased iterator. No behaviour goes on after a fault.

**BeTree.** `dirty` is what `is_dirty` answers; `WriteBack` takes any node from it that
no flush has pinned, between any two steps, and `is_in_memory` may say either of a node that is not
dirty. `Replay` is a call that `replayLogs` makes again after a restart, with
`do_log` = false: it does not move `next_timestamp` on, so that all replayed
messages have the same one. `blind` says that there was no update so far.

**LegacyBeTree.** The same steps with `TracksDirty` false: nothing is ever dirty, and each
`is_in_memory` may be answered either way.

**LogText.** The file is a sequence of tokens: punctuation, digits, labels (which
begin with a quote) and the characters of values. `operation` and `key` are
variables because they outlive a line in the code. `std::ofstream` writes a string
of 1 KB or more on its own, and the newline behind it later: `KillBeforeNewline` is
a kill in between, after which the next run appends to the open line. `StartReplay`
takes the whole file or, for the truncation under the reader, any prefix of it.

**PageText.** A page is a sequence of tokens, too. Readers are functions from the
tokens left to a value and what is left then, `Failed` once the stream has thrown.
The actions are those of one object: the tree changes it, `WriteBack`, `Load`, and
a restart with `rebuildObjectMap`.

### Abstractions

* In `Durability` a line of the log is written whole or not at all. That is so for
  records below 1 KB, which go to the file with their newline; `LogText` has the
  others. Lines that reached the operating system survive: a kill is modelled, a
  power failure is not.
* A line that is cut because the file was truncated under its reader may, in
  `Durability`, be read as nothing, as an upsert nobody made, or end the process with
  an uncaught exception (`ReplayTornLine`); `LogText` says which and why.
* In `BeTree` a write-back may come between any two steps of a flush and takes one node;
  the code does it inside an access, which is part of some step, and takes as many as it needs: several
  write-backs. A node is dirty from the step of the flush that first writes to it or calls
  through it, and pinned while its frame is on the stack.
* In `SwapSpace` `last_access` of a rebuilt object is 0, not `UINT64_MAX`: the
  object is not in the queue before its first access, which sets it.
* `child_size` is left out: only `merge_small_children`, which has no caller,
  reads it. The write through an erased iterator to it is kept, as a fault
  (`ReturnWholeFails`).
* `master.log`, directories, options and the value of the `lsn` are left out.

## 3. Runs

| run | question | bounds |
|---|---|---|
| `durability_core` | does the store keep its promises over kills, checkpoints and recoveries? | `-p` 2, `-c` 2 then 3, 6 calls, 2 kills |
| `durability_progress` | do calls and recoveries return, and what can be lost, when `-c` shrinks? | `-p` 1, `-c` 4 then 2, 4 calls, 2 kills |
| `swap_core` | are counts, pins, flags and the queue right under any legal use of pointers? | 3 objects, 1 in memory, 2 nested pins, no kill |
| `swap_crash` | is the disk always one complete heap? | 2 objects, 2 data values, 2 kills |
| `tree_core` | are queries and scans right for small nodes? | nodes of 3, flushes of 1; 3 inserts, then 3 calls of any kind on 3 of 5 keys; 1 write-back, checkpoint or restart at any point after them |
| `legacy_core` | does the earlier swap space keep nodes, counts and pins right? | 3 objects, 1 in memory, 2 local pointers, 2 nested pins, 3 nodes written out |
| `legacy_tree` | are queries and scans right in the earlier tree, and do its nodes fit? | nodes of 5, flushes of 2; 7 inserts, then 3 calls of any kind on 3 of 9 keys |
| `text` | is what is read from the log and from a page what was written? | 3 records, 2 keys, 2 values; 31 nodes with values made of the format's own characters |
| `opcodes`, `root`, `tree_restart`, `dirty_child` | findings, section 6 | each as small as shows it |

`durability_core` checks the inductive invariant, `TreeIsDurablePlusBuffer`
(served clients see exactly what is durable or buffered), `LastWriterWins` (a
call applied again by recovery is followed again by all younger ones),
`OperationCountIsReplayDebt`, the action properties `DurableStays` and
`LossBound`, and that `Durability` implements `DurableStore`. With `-c` 2 and 3
and 6 calls there are up to three checkpoints and each of two kills can fall
into any step of a call, a checkpoint or a recovery, also a recovery that
checkpoints. Calls are all inserts here: the opcode matters only to `opcodes`.
`-p` 2 lets a record wait, and a checkpoint record share a flush with a call's;
the `-p` 1 of `durability_progress` makes the checkpoint record flush itself.

`durability_progress` uses the one setting in which recovery reads on in a file
that it has truncated. Every call and recovery ends there, too; `HoldsDurable` says
that a running process always has what is durable in its tree or still to be
replayed, and `OnlyUnreadIsLost` that a step can take back durable calls only by
truncating lines its own replay has not read.

`swap_core`: three objects give a parent, a child and a grandchild or sibling; a
cache of one makes every access evict; two pins are enough to evict around a
pinned parent. The counter is taken modulo 8 instead of 2^64, so that it wraps.
States are compared up to the order of access times (the `VIEW`), which is all
that eviction looks at. `swap_crash` trades the third object for data, kills, the
refinement of `ObjectHeap` and the inductive invariant, `SwapInvariant`, which
speaks of files and the map as well as of memory. Both switch the deadlock check off: at the
bounds on ids and versions the client can run out of moves.

`tree_core`: nodes of 3 with a minimum flush size of 1 split at the third
message, so the three inserts end with an inner root over leaves. The three calls
after them go through or into its buffer, lower its first pivot (1 and 2 are below the first keys),
merge and batch messages of all three kinds, flush to a clean and to a dirty child, and split
leaves and the root. The one cache step falls between any two steps of these calls and of the
queries, which come at any time between calls. The restart is there for the shape of the tree
(`KeysWithinPivots`, `LeavesHoldInserts`) and for queries as long as no call was an
update: inserts and deletes sweep away what they meet, whatever its timestamp.
All else about the meaning of messages is checked up to the restart (`restarts = 0`),
because it does not survive one (run `tree_restart`).
The bounds on calls and cache steps end every behaviour, so deadlock is not
checked. `ScansAreExpected` is defined in `MCBeTree`, since scans are recursive and
the module with the theorems does without.

`legacy_core`: with three objects and room for one, eviction has a choice; two
pins hold a parent and a child while a third object enters; three nodes written
out give one of them two versions, so that an old file is unlinked. States are
compared up to the order of access times and up to files of objects in memory,
which are replaced before they are read. The four invariants of this run together
are the inductive invariant of section 4. `LegacyHeapSpec` reuses `ObjectHeap`
with an empty copy.

`legacy_tree`: seven inserts in ascending order make an inner root whose buffer is
nearly full, so that the three calls after them flush, split and lower pivots, and a
third level comes up; 8 is a pivot, 4 lies within a leaf and 1 below all pivots.
With nodes of 5 a share of `split` is 2, as with larger nodes several things; with
nodes of 4 it would be 1, and nodes fall apart into pieces too many for their
parent. `NodesFit` holds because flushes of 2 are small against 5 (see section 6).

`text`: one value ends with a newline, the other is long and has a quote in it, one
key is a prefix of the other; a log of three records joined by kills is read whole
or cut at every token. The pages are an empty leaf, leaves with two messages for
a key and inner nodes, with values that look like lengths, braces and ends of lines.
No text has anything to do with the other, so a behaviour looks at one of them.

**Fairness.** Only `durability_progress` needs it: weak fairness of
`ProcessStep`, the steps the process takes once it has been started or called.
The program is sequential and waits for nobody, so it does not stop in the middle
of a call. Clients need not call, and nobody need restart a dead process.

## 4. Proofs

Every theorem holds for all values of the constants that the named assumptions
allow: every `-p`, sequence of `-c`, cache size, number of objects, calls and kills.

| theorem | statement | module |
|---|---|---|
| `TypeCorrect` | `Spec => []TypeOk` | `DurabilityProofs` |
| `InvariantHolds` | `Spec => []DurabilityInvariant` | |
| `TreeMatchesDisk` | `Spec => []TreeIsDurablePlusBuffer` | |
| `DurableCallsStay` | `Spec => DurableStays` | |
| `RecoveryWorkIsBounded` | `Spec => []OperationCountIsReplayDebt` | |
| `LossIsBounded` | `Spec => LossBound` | |
| `ProcessHoldsDurable` | `Spec => []HoldsDurable` | `DurabilityStoreProofs` |
| `LossIsUnread` | `Spec => OnlyUnreadIsLost` | |
| `WritersStayInOrder` | `Spec => []LastWriterWins` | |
| `ImplementsStore` | `Spec => StoreSpec` | |
| `SwapInvariantHolds` | `Spec => []SwapInvariant` | `SwapSpaceProofs` |
| `SwapTypeCorrect` | `Spec => []SwapTypeOk` | |
| `PointersAreCounted` | `Spec => []RefCountsExact` | |
| `NothingDangles` | `Spec => []NoDanglingPointer` | |
| `PinsProtect` | `Spec => []PinnedIsResident` | |
| `NoChangeIsDropped` | `Spec => []CleanMatchesFile` | |
| `QueueIsTrue` | `Spec => []QueueIsResident` | |
| `LeafFlagsAreTrue` | `Spec => []LeafFlagIsTrue` | |
| `ImplementsHeap` | `Spec => HeapSpec` | |
| `LegacyTypeCorrect` | `Spec => []LegacyTypeOk` | `LegacySwapSpaceProofs` |
| `LegacyPointersAreCounted` | `Spec => []CountsArePointers` | |
| `LegacyPinsProtect` | `Spec => []PinsHold` | |
| `LegacyFilesInStep` | `Spec => []OneFilePerObject` | |
| `LegacyCacheGrowsForPins` | `Spec => GrowsOnlyWhenPinned` | |
| `LegacyImplementsHeap` | `Spec => LegacyHeapSpec` | |
| `BeTreeInvariantHolds` | `Spec => []BeTreeInvariant` | `BeTreeProofs` |
| `BeTreeTypeCorrect` | `Spec => []BeTreeTypeOk` | |
| `TreeKeepsKeysWithinPivots` | `Spec => []KeysWithinPivots` | |
| `TreeLeavesHoldInserts` | `Spec => []LeavesHoldInserts` | |
| `TreeNewerAbove` | `Spec => []NewerAbove` | |
| `TreeQueryIsExpected` | `Spec => []QueryIsExpected` | |
| `LegacyTreeInvariantHolds` | `Spec => []LegacyTreeInvariant` | `LegacyBeTreeProofs` |
| `LegacyTreeInOrder` | `Spec => []TreeInOrder` | |
| `LegacyQueryIsExpected` | `Spec => []QueryIsExpected` | |

### Durability

All theorems of `DurabilityProofs` but the first, and the last two of
`DurabilityStoreProofs`, assume `GranularityNeverShrinks`: no run has a smaller `-c`
than the one before. `TestScript.sh` runs with 200 and then 1000. Without it
the statements are false: a recovery may start a checkpoint while it still has
lines to read, truncate them, and a kill then loses them. `ProcessHoldsDurable` and
`LossIsUnread` do without, and say that this is the only way to lose a durable call.

The argument. `TreeIsDurablePlusBuffer` speaks of `idle` processes, so it is not
inductive. `DurabilityInvariant` extends it to every `pc`: the tree, the message
on its way into it and the lines recovery has still to read make up what is
durable or buffered (`ContentInv`). For the truncation to keep this, `unread`
must be empty then. That follows from counting: `operation_count` plus the
operations still unread are the operations in the log (`CountInv`), which never
exceed the granularity of the run that wrote them (`Debt <= Limit(run)`), so a
checkpoint, which needs `operation_count >= -c`, comes only after the last line.
Counting needs to know where checkpoint records are: only first in a log
(`LogInv`). `BufferInv` bounds the buffer, for `LossBound`. There is a lemma per
action that it preserves the invariant, on lemmas about `Append`, `Tail`,
`OpCount` and `LoggedIds`; `NoTornLine` shows that a cut line is never read.

Without the assumption lines may be cut, the counts say nothing and the order of the
tree is lost, but inclusions remain. `HoldsDurable` is inductive as it stands, with
`TypeOk`: what is durable or buffered is in the tree, in the call being made or still
to be read, and when a map has been written the tree is the map's. So the truncation
takes back only what is still to be read, and no other step takes back anything.

*Order.* After a kill between the rename of the map and the truncation of the log,
recovery applies calls the tree has already. `LastWriterWins` says that each such call
is followed again by all younger ones. In the middle of a replay that is not so, and
`OrderInv` says what is missing: a call that stands behind a younger one is itself
still to come, or comes again later (`ConvergesUpTo(applied, Coming)`); what is to come
ascends, and with a call that the tree has comes every younger call the tree has.
That holds because the log has, with a call, every younger known one (`LogOrder`), which
again is so because only youngest calls are buffered and truncation takes all.

*Refinement.* The store holds the calls of the tree while clients are served, else the
durable ones; stable are the durable ones. A call is `Issue`; a line that reaches the file, a map
that is renamed and a truncation are `Stabilize` or change nothing; the end of a recovery is `Start`;
an exit or a kill is `Stop`. That a kill takes the youngest, and that calls become stable
oldest first, is `OrderInv` again.

### Swap space

The properties the runs check are not inductive one by one: that counts are
exact depends on which file holds the children of an object that is out, that a page may be dropped
depends on flags, that a pinned node is not destroyed depends on counts. `SwapInvariant`
ties them together:

* `CacheOk`: the queue is what is in memory; what is dirty is in memory; what is clean
  equals the file of its current version; the leaf flag of what is out is true.
* `PointerInv`: counts are exact and no pointer leads to a freed object.
* `PinInv`: whoever is pinned is in memory, and held by a pointer that its pin
  protects - the root's, a local one, or one in the node pinned before it. That is why
  `depoint` does not destroy it. Pin counts are the pins on the stack.
* `StepInv`: in a checkpoint nothing is pinned or on its way to be released, no page is dirty,
  and the nodes form a tree; what no process has is empty.
* `SavedInv`: the map names files that exist and make up a tree; a running process has
  not gone behind a saved version of an object and gives no saved id to another one. So
  files the map names are not overwritten, and recovery finds counts of one.

Each action has a lemma that it keeps the invariant. Evicting and loading are lemmas about
operators (`CacheOk` has the objects in the middle of an action as a parameter), used by
each action that ends with them. Counting parents rests on cardinalities of sets that
differ by one element. Assumptions: the bounds and the cache size are natural numbers - also a cache of size
0 is covered -, with `MaxId >= 2` (the id of the first root is taken for granted);
`NULL` is not a node.

`ImplementsHeap` maps objects to their nodes, wherever these are, and the files the map names
to the saved copy, which is also the heap while no process runs. Evictions, loads and the
writing of pages become stutters, the rename of the map the one step that replaces the copy, a kill
a return to it, and recovery a stutter. It needs `SwapInvariant`: an eviction
leaves the heap alone only because a clean node equals its file.

### Earlier swap space

`LegacyTypeOk`, `CountsArePointers`, `PinsHold` and `OneFilePerObject` are together inductive as they
stand. `PinsHold` needs them all: to unpin, the code follows a pointer in another node again, so that
node must not leave memory, and it does not since it is itself pinned; `PinsHold` therefore says
that a pin is made through the pin before it on the stack. The counts are subtracted from, so that they
do not pass below 0 rests on `CountsArePointers`. Eviction moves a node to the file of the
next version and unlinks the last one, which `OneFilePerObject` has there. `GrowsOnlyWhenPinned`
follows as there is always a least `last_access` among what is not pinned (`LeastExists`, by the
well-foundedness of the naturals). `LegacyImplementsHeap` maps objects to nodes as above,
with an empty copy, since nothing survives a restart. Assumption: `NULL` is not a node.

### Trees

Both trees make the same steps, so the invariants and the lemmas about them are stated once, for
`FlushStep` and `QueryStep`; the two theorem modules add calls, cache and restart. Nodes
are of any size from 3, flushes of any minimum, keys are any numbers. There are four layers.

*Shape* (`TreeInv`). That a search finds a message (`KeysWithinPivots`) is about two nodes at a time
and says nothing of the messages in flight, so it needs: the heap is a tree (a node has one pivot that leads to
it, the root none); every frame but the top one waits for the child at its pivot, and no
node is on the stack twice; messages on top came to their node and, once its first pivot has been lowered, are
not below its pivots; a leaf has one insert for a key. Splitting is the hard step: `Split` deals out units
by a quotient of what came before (`Cuts`), and the lemmas show that its parts
cover all pivots and elements, once, in order, that a pivot stays with the elements behind it, and that there
is a first part - whatever the quotient. A key below all parts belongs to the first one.

*Order* (`OrderInv`, up to a restart). `OlderBelow` compares a buffer with what ever came to the child;
`PendingAreNewer` does so for the messages on top, against the buffer and against the children. A batch that is being
flushed is in the buffer and below at the same time (`Sent`). The branch past the buffer keeps the order because
its child has nothing in the buffer, which is what the assertion at 469 asks - the theorems say what holds
of every state before it fails.

*Values* (`ValueInv`). `came` keeps, for each node and key, the value the last message that came there stood for. That
is what the messages that wait in the node make of what its children know, one after the other
(`Explained`, `Linked`): insert and delete say what they say, an update appends to what is before it.
With it, a message that is applied, a batch that goes down, a split and a new root each change one equation, and at
the root it says `expected`. Behind the first message for a key there are only updates, so that the
assertion at 582 holds. In the proof `apply` is taken apart by `Merges` and `Into`: a
message merges into an insert, or sweeps away what is there, or lies down behind it.

*Queries* (`QueryInv`). On the way down each node of the path leads to the next one and has only updates for
the key, on the way up the value is what the nodes below know (`Below`), and while messages are added
those left are the newest (`Adding`). So the answer is what came to the root.

After a restart timestamps say nothing: `OrderInv` goes, and with it the values. `BlindInv` is what
remains if no call was an update: a buffer has at most one message for a key, and each sweeps away what it meets, so
that no order is needed. `BeTreeInvariant` has `ValueInv` and `QueryInv` under
`restarts = 0 \/ blind`, which is exactly what `QueryIsExpected` claims, and what the run `tree_restart` shows to be
the most that can be. TLC checked the parts of the invariants on the instances of `tree_core` and `legacy_tree`
before they were proved. `LegacyTreeInvariant` is the same without cache and restart.

### Model-checked only

* Liveness: `CallsReturn`, under fairness, which is beyond TLAPS.
* Scans (`ScansAreExpected`, `ScansAgree`): `get_next_message` and the iterators are recursive
  operators, of which the proof system has no induction.
* `NodesFit`: it depends on sizes (flushes that are small against nodes) and is false of some.
* `LogText` and `PageText`: readers and writers are folds and recursions over tokens, like scans.

## 5. Not modelled

* `merge`, `merge_small_children`, `dump_messages`, print functions: no caller,
  or no state.
* An iterator that is kept over an upsert.
* Power failure; directories (recovery opens pages in `./tmpdir` whatever `-d`
  says); garbage files of freed objects.
* In `CS6530-P2`: `get_pin` and the assignment of pins, which its tree does not use;
  serialization, whose format is that of `project3`; its tests and drivers.

## 6. Findings

Each is a run that TLC ends with a counterexample.

* `opcodes` - `upsert` logs DELETE as 1 and UPDATE as 2 (`betree.hpp:137-139`);
  `replayLogs` takes 1 for an update and 2 for an erase, as the comment in
  `logger.hpp:10-15` numbers them. Recovery turns deletes into updates and
  updates into deletes.
* `root` - `get_root` does not set `swap_space::root_id`, so a checkpoint after a
  recovery in which the root did not split writes an uninitialised root id, and
  the next start fails an assertion.
* `tree_restart` - `next_timestamp` starts at 1 in every process, and recovery
  does not restore it. New messages sort before older ones for the same key; a
  query gives a wrong value or fails its assertion. Replayed messages all have the
  same timestamp, so in a buffer a replayed update takes the place of a replayed delete
  or update of the same key.
* `dirty_child` - the assertion at `betree.hpp:469`, that nothing is buffered for
  a dirty child, fails: a batch for several children is buffered also for dirty
  ones.

Some more came up and have no run.

* A kill between the rename of the map and the truncation of the log makes recovery
  apply all operations of the log a second time, though `betree.hpp:925` says "only
  apply log entries after checkpoint". Inserts and deletes converge
  (`LastWriterWins`); updates append twice.
* The loop at `betree.hpp:487-520` writes through `first_pivot_idx` (516) after
  `pivots.erase` has freed it, when a buffer is flushed to two children and the first
  splits; else it may set the wrong child's size. `BeTreeFlush` keeps it as a fault.
* With a smaller `-c` than before, recovery truncates lines it has not applied
  (section 4); reading on, it may make an upsert out of a cut line, with the key of
  the line before or one never set, or end in an uncaught exception (`LogText`).
* A value is logged as it is: one with a quote comes back cut at the quote, one with a
  newline brings one more call with an empty value for each newline, which wipes what
  the call before wrote. A record of 1 KB or more that a kill separates from its newline
  swallows the record after it. `ReplayIsExpected` states exactly this.
* `depoint` decrements `current_in_memory_objects` for objects that are not in memory,
  so the cache keeps more than `-C` nodes.
* A node that takes the branch for a single dirty child may outgrow `max_node_size`,
  against the comment at `betree.hpp:39-41`.
* In `CS6530-P2` an access puts out one object at most, so a cache that pins have
  let grow past its size never shrinks again (`GrowsOnlyWhenPinned` is what does
  hold), and an object without pointers is not freed, though `swap_space.hpp:47`
  says that objects are garbage collected.
* `CS6530-P2/test.cpp:411` passes `-f` as the constructor's third argument, the
  minimum node size, so that `min_flush_size` stays 2^14. With its nodes of 64 no
  buffer is ever flushed, the root gets a new level with every split, and nodes with
  one pivot, which cannot split, outgrow the maximum.

## 7. Plan

Written so far, in this order: log and durability, since they are what the
project adds to its predecessor; the swap space, on which they rest; the tree;
the earlier swap space; the text formats; the earlier tree; what is lost when `-c`
shrinks.

Then the proofs: durability, loss, the order of calls and the refinement of
`DurableStore`; the swap space and its refinement of `ObjectHeap`; the same for the
earlier swap space; the trees, whose steps were cut at calls and returns for that.

What is left: scans, if `get_next_message` is taken apart into steps as `query` is; what
of `LogText` and `PageText` is not recursive; a condition on the sizes under which `NodesFit` can be proved.

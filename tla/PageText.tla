------------------------------ MODULE PageText ------------------------------
(***************************************************************************)
(* The text of a node's page: written by write_back, read by load, and     *)
(* read once more, in its own way, by rebuildObjectMap.  SwapSpace takes   *)
(* what is read for what was written and the leaf flags of both readers    *)
(* for the same; this module says why it may.  The earlier project has the *)
(* same format.                                                            *)
(*                                                                         *)
(* A page is a sequence of tokens: a number, a word or a character of a    *)
(* value.  Keys are numbers and values strings, as in the tests.           *)
(***************************************************************************)
EXTENDS Naturals, SequencesExt

CONSTANT Pages       \* nodes the tree may have in memory

ASSUME PagesAssumption ==
  \A p \in Pages :
    /\ \A k \in DOMAIN p.pivots : p.pivots[k].child > 0
    /\ \A m \in DOMAIN p.elements : m \in Nat \X Nat      \* key, timestamp

VARIABLES
  node,              \* the node in memory, or Gone
  page,              \* its file
  is_leaf,           \* object::is_leaf
  page_written       \* history: the node the file was written from

pageVars == <<node, page, is_leaf, page_written>>

Gone == [gone |-> TRUE]
Unreadable == [unreadable |-> TRUE]

-----------------------------------------------------------------------------
(***************************************************************************)
(* Writing.                                                                *)
(***************************************************************************)
\* Integers; strings, with their length in front.
IntText(x) == <<ToString(x), " ">>
StrText(x) == <<ToString(Len(x)), ",">> \o x

\* serialize(std::map), given the texts of the entries: a line each.
EntryText(k, v) == k \o <<" ", "->", " ">> \o v
MapText(entries) ==
  <<"map", " ", ToString(Len(entries)), " ", "{", "newline">>
    \o FlattenSeq([i \in DOMAIN entries |-> <<" ", " ">> \o entries[i] \o <<"newline">>])
    \o <<"}", "newline">>

\* _serialize of child_info, MessageKey and Message.
ChildText(c)   == IntText(c.child) \o <<" ">> \o IntText(c.child_size)
KeyText(m)     == IntText(m[2]) \o IntText(m[1])
MessageText(e) == IntText(e.opcode) \o StrText(e.val)

\* node::_serialize.  Maps are in the order of their keys.
NodeText(n) ==
  LET keys     == SetToSortSeq(DOMAIN n.pivots, LAMBDA a, b : a < b)
      messages == SetToSortSeq(DOMAIN n.elements,
                    LAMBDA a, b : a[1] < b[1] \/ (a[1] = b[1] /\ a[2] < b[2]))
  IN <<"pivots:", "newline">>
       \o MapText([i \in DOMAIN keys |->
                    EntryText(IntText(keys[i]), ChildText(n.pivots[keys[i]]))])
       \o <<"elements:", "newline">>
       \o MapText([i \in DOMAIN messages |->
                    EntryText(KeyText(messages[i]), MessageText(n.elements[messages[i]]))])

-----------------------------------------------------------------------------
(***************************************************************************)
(* Reading.  A reader maps the tokens left to [val, left]; left is Failed  *)
(* once the stream has thrown, which it does at the end of the file, too   *)
(* (backing store, get).                                                   *)
(***************************************************************************)
Failed == <<"failed">>
Blanks == {" ", "newline"}

\* The place of the first token that is one of some; the tokens from a place on.
FirstIn(s, tokens) == SelectInSeq(s, LAMBDA t : t \in tokens)
From(s, n) == IF n = 0 THEN << >> ELSE SubSeq(s, n, Len(s))
Skip(s) == From(s, SelectInSeq(s, LAMBDA t : t \notin Blanks))

\* fs >> word.
WordOf(t, end) == IF end = 0 THEN [val |-> << >>, left |-> Failed]
                  ELSE [val |-> SubSeq(t, 1, end - 1), left |-> From(t, end)]
ReadWord(s) == WordOf(Skip(s), FirstIn(Skip(s), Blanks))

\* fs >> x, an integer: the digits and no more.
MaxNumber == 20      \* bound: larger than any number in a page
IntOf(t) ==
  IF Len(t) > 1 /\ \E n \in 0..MaxNumber : Head(t) = ToString(n)
    THEN [val |-> CHOOSE n \in 0..MaxNumber : Head(t) = ToString(n), left |-> Tail(t)]
    ELSE [val |-> 0, left |-> Failed]
ReadInt(s) == IntOf(Skip(s))

\* Mutant: the characters are read as a word.
ReadStrAsWord(s) == ReadWord(Tail(Skip(ReadInt(s).left)))

\* deserialize(std::string): a length, a comma, so many characters of any kind.
StrOf(length, t) == IF t = Failed \/ Len(t) <= length THEN [val |-> << >>, left |-> Failed]
                    ELSE [val |-> SubSeq(t, 2, length + 1), left |-> From(t, length + 2)]
ReadStr(s) == StrOf(ReadInt(s).val, Skip(ReadInt(s).left))

\* _deserialize of child_info, MessageKey and Message: two values, one behind the other.
ReadChild(s) ==
  LET child_size == ReadInt(ReadInt(s).left)
  IN [val |-> [child |-> ReadInt(s).val, child_size |-> child_size.val],
      left |-> child_size.left]
ReadKey(s) ==
  LET key == ReadInt(ReadInt(s).left)
  IN [val |-> <<key.val, ReadInt(s).val>>, left |-> key.left]
ReadMessage(s) ==
  LET val == ReadStr(ReadInt(s).left)
  IN [val |-> [opcode |-> ReadInt(s).val, val |-> val.val], left |-> val.left]

\* An entry of a map: of the pivots or of the elements.
ReadEntryKey(s, pivots)   == IF pivots THEN ReadInt(s) ELSE ReadKey(s)
ReadEntryValue(s, pivots) == IF pivots THEN ReadChild(s) ELSE ReadMessage(s)
AddEntry(map, k, v) == [val |-> (k :> v.val) @@ map, left |-> v.left]
ReadEntry(map, k, pivots) ==
  AddEntry(map, k.val, ReadEntryValue(ReadWord(k.left).left, pivots))

\* deserialize(std::map): "map", the size, "{", so many entries, "}".
ReadEntries(size, pivots) ==
  FoldLeft(LAMBDA read, i : ReadEntry(read.val, ReadEntryKey(read.left, pivots), pivots),
           [val |-> << >>, left |-> ReadWord(size.left).left],
           [i \in 1..size.val |-> i])
MapOf(all) == [val |-> all.val, left |-> ReadWord(all.left).left]
ReadMap(s, pivots) == MapOf(ReadEntries(ReadInt(ReadWord(s).left), pivots))

\* node::_deserialize.
NodeOf(pivots, elements) ==
  [val |-> [pivots |-> pivots.val, elements |-> elements.val], left |-> elements.left]
ReadElements(pivots) == NodeOf(pivots, ReadMap(ReadWord(pivots.left).left, FALSE))
ReadNode(s) == ReadElements(ReadMap(ReadWord(s).left, TRUE))

\* What rebuildObjectMap reads: the number behind the first word of line 2.
PivotCount(s) ==
  LET below == From(s, FirstIn(s, {"newline"}) + 1)
      line  == SubSeq(below, 1, FirstIn(below, {"newline"}) - 1)
  IN ReadInt(ReadWord(line).left).val

-----------------------------------------------------------------------------
PageTextInit == node = Gone /\ page = << >> /\ is_leaf = FALSE /\ page_written = Gone

\* The tree makes or changes the node.
Change(n) ==
  /\ node # Unreadable
  /\ node' = n
  /\ UNCHANGED <<page, is_leaf, page_written>>

\* Mutant: the flag stays as it was.
WriteBackKeepsFlag ==
  /\ node \in Pages
  /\ page' = NodeText(node) /\ page_written' = node
  /\ node' = Gone
  /\ UNCHANGED is_leaf

\* write_back.  The context's flag goes with the first pointer written.
WriteBack ==
  /\ node \in Pages
  /\ page' = NodeText(node) /\ page_written' = node
  /\ is_leaf' = (DOMAIN node.pivots = {})
  /\ node' = Gone

\* load.
Load ==
  /\ node = Gone /\ page # << >>
  /\ node' = IF ReadNode(page).left = Failed THEN Unreadable ELSE ReadNode(page).val
  /\ UNCHANGED <<page, is_leaf, page_written>>

\* A restart: memory goes, rebuildObjectMap looks at the page.
Rebuild ==
  /\ page # << >>
  /\ node' = Gone
  /\ is_leaf' = (PivotCount(page) = 0)
  /\ UNCHANGED <<page, page_written>>

PageTextNext == (\E n \in Pages : Change(n)) \/ WriteBack \/ Load \/ Rebuild

-----------------------------------------------------------------------------
(***************************************************************************)
(* Properties.                                                             *)
(***************************************************************************)

\* A page is read to its end as the node it was written from, whatever blanks,
\* newlines, commas or braces its values hold.
PageComesBack == [][Load => node' = page_written]_pageVars

\* The flag depoint trusts, be it from the last write-out or from the second line
\* of the file after a restart, says whether the page has pointers.
LeafFlagFromText == page # << >> => is_leaf = (DOMAIN page_written.pivots = {})

=============================================================================

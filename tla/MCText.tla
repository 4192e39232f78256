------------------------------- MODULE MCText -------------------------------
\* Small instances of the two text formats, one beside the other.
EXTENDS LogText, PageText

\* A key that is a prefix of another; a value that ends with a newline, and a long
\* one with a quote in it.
LogKeys   == {<<"5">>, <<"5", "6">>}
LogValues == {<<"a", "newline">>, <<"block", "quote", "b">>}

\* A leaf, an empty leaf and an inner node.  One key has two messages, and values
\* hold what the format itself is made of.
Strings == {<< >>, <<"a">>, <<" ", "a">>, <<"newline", "}", "newline">>, <<"2", ",", "{">>}
PageNodes ==
  {[pivots |-> << >>, elements |-> << >>]}
    \cup {[pivots |-> << >>,
           elements |-> (<<7, 3>> :> [opcode |-> 0, val |-> v])
                          @@ (<<7, 12>> :> [opcode |-> 2, val |-> w])] : v, w \in Strings}
    \cup {[pivots |-> (7 :> [child |-> 4, child_size |-> 0])
                        @@ (12 :> [child |-> 11, child_size |-> 3]),
           elements |-> (<<12, 2>> :> [opcode |-> 1, val |-> v])] : v \in Strings}

Init == LogTextInit /\ PageTextInit

\* The formats have nothing in common: a behaviour looks at one of them.
Next ==
  \/ node = Gone /\ page = << >> /\ LogTextNext /\ UNCHANGED pageVars
  \/ text = << >> /\ PageTextNext /\ UNCHANGED logVars
Spec == Init /\ [][Next]_<<logVars, pageVars>>
=============================================================================

------------------------------ MODULE Namespace ------------------------------
(***************************************************************************)
(* What a data block or a save frame holds (FrameData, CifBlock and        *)
(* CifSaveFrame), and the two ways anything gets into it:                  *)
(*   order   its tags in order of first appearance                         *)
(*   tags    the values of each                                            *)
(*   loops   the headers of its loops                                      *)
(***************************************************************************)
EXTENDS Naturals, Sequences
LOCAL INSTANCE SequencesExt
Sets == INSTANCE FiniteSets

NoData == [order |-> <<>>, tags |-> <<>>, loops |-> <<>>]

\* append_value / _append_value
AppendValue(d, tag, v) ==
    IF tag \in DOMAIN d.tags
    THEN [d EXCEPT !.tags[tag] = Append(@, v)]
    ELSE [d EXCEPT !.order = Append(@, tag),
                   !.tags = [t \in DOMAIN @ \cup {tag} |-> IF t = tag THEN <<v>> ELSE @[t]]]

\* The numbers of a set, in order.
InOrder(S) ==
    [n \in 1 .. Sets!Cardinality(S) |-> CHOOSE k \in S : Sets!Cardinality({j \in S : j <= k}) = n]

\* The header's tags that the namespace does not hold yet, once each, in order.
NewTags(d, header) ==
    LET new == InOrder({k \in DOMAIN header : /\ header[k] \notin DOMAIN d.tags
                                              /\ \A j \in 1 .. k - 1 : header[j] # header[k]})
    IN  [n \in DOMAIN new |-> header[new[n]]]

\* add_loop / _add_loop: the loop's columns replace whatever its tags held.
AddLoop(d, header, columns) ==
    LET own == {header[k] : k \in DOMAIN header} IN
    [order |-> d.order \o NewTags(d, header),
     tags  |-> [t \in DOMAIN d.tags \cup own |-> IF t \in own THEN columns[t] ELSE d.tags[t]],
     loops |-> Append(d.loops, header)]

LoopTags(d) == UNION {{d.loops[i][k] : k \in DOMAIN d.loops[i]} : i \in DOMAIN d.loops}

-----------------------------------------------------------------------------
(***************************************************************************)
(* A namespace as the sequence of its items, a tag with its values or a    *)
(* loop with its columns.  A loop stands where the first of its tags does. *)
(***************************************************************************)
ItemOf(d, header, isLoop) ==
    [loop |-> isLoop, header |-> header, columns |-> [i \in DOMAIN header |-> d.tags[header[i]]]]

\* The loop of a tag, 0 for a scalar.
LoopOf(d, tag) == SelectLastInSeq(d.loops, LAMBDA h : tag \in ToSet(h))

\* The places in the order at which an item starts.
Starts(d) ==
    {k \in DOMAIN d.order :
        \/ LoopOf(d, d.order[k]) = 0
        \/ \A j \in 1 .. k - 1 : LoopOf(d, d.order[j]) # LoopOf(d, d.order[k])}

ItemAt(d, k) ==
    LET i == LoopOf(d, d.order[k]) IN
    IF i = 0 THEN ItemOf(d, <<d.order[k]>>, FALSE) ELSE ItemOf(d, d.loops[i], TRUE)

Items(d) == LET places == InOrder(Starts(d)) IN [n \in DOMAIN places |-> ItemAt(d, places[n])]

\* An item put behind a namespace: a loop with its columns, or the values of a tag.
AddItem(d, it) ==
    LET added[n \in 0 .. Len(it.columns[1])] ==
            IF n = 0 THEN d ELSE AppendValue(added[n - 1], it.header[1], it.columns[1][n])
    IN  IF it.loop
        THEN AddLoop(d, it.header, [t \in ToSet(it.header) |->
                it.columns[SelectInSeq(it.header, LAMBDA h : h = t)]])
        ELSE added[Len(it.columns[1])]

\* The namespace read back from its items.
Replay(items) ==
    LET read[n \in 0 .. Len(items)] ==
            IF n = 0 THEN NoData ELSE AddItem(read[n - 1], items[n])
    IN  read[Len(items)]

=============================================================================

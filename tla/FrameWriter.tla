----------------------------- MODULE FrameWriter -----------------------------
(***************************************************************************)
(* SaveFrameWriter and BlockWriter (writer.py): what each edit makes of a  *)
(* namespace.  An edit is a pair of operators, Can... for the conditions   *)
(* under which the code does not raise, and the namespace it leaves.  A    *)
(* loop is named by its place; the code finds it by any of its tags.       *)
(* Legality of names and the conversion of Python values are left out.     *)
(***************************************************************************)
EXTENDS Namespace, FiniteSets
LOCAL INSTANCE SequencesExt

\* A list or table value, whatever is in it; the list of one text, and its text.
Container == "container"
ListOfText == "[v]"
Containers == {Container, ListOfText}
Unwrapped(v) == IF v = ListOfText THEN "v" ELSE v

FirstPlace(s, x) == SelectInSeq(s, LAMBDA y : y = x)

Without(f, x) == [y \in DOMAIN f \ {x} |-> f[y]]

\* A loop is found by its tags: one that has lost them all is not.
CanFind(d, i) == d.loops[i] # <<>>

\* Loops whose columns have one length, and that have rows.
Rectangular(d, i) == \A t, u \in ToSet(d.loops[i]) : Len(d.tags[t]) = Len(d.tags[u])

\* _loop_row_count: the length of the first column.
RowCount(d, i) == Len(d.tags[Head(d.loops[i])])

CanSetTag(d, tag) == tag \notin DOMAIN d.tags
SetTag(d, tag, v) == AppendValue(d, tag, v)

CanAddLoop(d, header, columns) ==
    /\ header # <<>>
    /\ \A t \in ToSet(header) : t \notin DOMAIN d.tags
    /\ \A t, u \in ToSet(header) : Len(columns[t]) = Len(columns[u])

CanAddLoopColumn(d, i, tag, column) ==
    /\ CanFind(d, i) /\ tag \notin DOMAIN d.tags
    /\ Len(column) = RowCount(d, i)

\* Mutant of AddLoopColumn: the tag is put at the end of the namespace.
AddLoopColumnAtEnd(d, i, tag, column) ==
    [order |-> Append(d.order, tag),
     tags  |-> [t \in DOMAIN d.tags \cup {tag} |-> IF t = tag THEN column ELSE d.tags[t]],
     loops |-> [d.loops EXCEPT ![i] = Append(@, tag)]]

\* add_loop_column: behind the loop's last tag.
AddLoopColumn(d, i, tag, column) ==
    [order |-> InsertAt(d.order, SelectLastInSeq(d.order, LAMBDA t : t = Last(d.loops[i])) + 1, tag),
     tags  |-> [t \in DOMAIN d.tags \cup {tag} |-> IF t = tag THEN column ELSE d.tags[t]],
     loops |-> [d.loops EXCEPT ![i] = Append(@, tag)]]

CanReorderLoopTags(d, i, header) ==
    /\ CanFind(d, i) /\ Len(header) = Len(d.loops[i])
    /\ \A t \in ToSet(header) \cup ToSet(d.loops[i]) :
        Cardinality({k \in DOMAIN header : header[k] = t})
            = Cardinality({k \in DOMAIN header : d.loops[i][k] = t})

\* reorder_loop_tags: the loop's tags are taken to follow one another in `order`,
\* and are written over the places from the first of them on.
ReorderLoopTags(d, i, header) ==
    LET start == SelectInSeq(d.order, LAMBDA t : t \in ToSet(d.loops[i])) IN
    [d EXCEPT !.order = [k \in DOMAIN @ |-> IF k \in start .. start + Len(header) - 1
                                            THEN header[k - start + 1] ELSE @[k]],
              !.loops[i] = header]

CanAddLoopRow(d, i, row) == CanFind(d, i) /\ Len(row) = Len(d.loops[i])

\* Mutant of AddLoopRow: zip stops before the last column.
AddLoopRowCutShort(d, i, row) ==
    [d EXCEPT !.tags = [t \in DOMAIN @ |->
        IF t \in ToSet(Front(d.loops[i])) THEN Append(@[t], row[FirstPlace(d.loops[i], t)])
                                         ELSE @[t]]]

AddLoopRow(d, i, row) ==
    [d EXCEPT !.tags = [t \in DOMAIN @ |->
        IF t \in ToSet(d.loops[i]) THEN Append(@[t], row[FirstPlace(d.loops[i], t)])
                                   ELSE @[t]]]

\* reassign_tag with a list: a column takes its elements whatever their number, a
\* scalar its one element, or the list as a container.
CanReassignTag(d, tag) == tag \in DOMAIN d.tags
ReassignTag(d, tag, values) ==
    [d EXCEPT !.tags[tag] = IF tag \in LoopTags(d) \/ Len(values) = 1 THEN values
                                                                   ELSE <<Container>>]

\* reassign_tag of a scalar with a value that stands by itself: a list among the
\* values is taken for the values, and one of one element for that element.
ReassignValue(d, tag, v) == ReassignTag(d, tag, <<Unwrapped(v)>>)

CanDeleteTag(d, tag) == tag \in DOMAIN d.tags

\* Mutant of RemoveLoopTag: a loop of one tag that is left is given up.
RemoveLoopTagTooFar(d, i, tag) ==
    LET header == RemoveFirst(d.loops[i], tag) IN
    [order |-> RemoveFirst(d.order, tag),
     tags  |-> Without(d.tags, tag),
     loops |-> IF Len(header) <= 1 THEN RemoveAt(d.loops, i) ELSE [d.loops EXCEPT ![i] = header]]

\* The tag is not where it is to be taken out of `_tag_order`: ValueError, when its
\* values and its place in a loop are gone already.
OrderHasLost(d, tag) == tag \notin ToSet(d.order)

\* _remove_loop_tag_impl: a loop without tags is gone, if the call gets that far.
RemoveLoopTag(d, i, tag) ==
    LET header == RemoveFirst(d.loops[i], tag) IN
    [order |-> RemoveFirst(d.order, tag),
     tags  |-> Without(d.tags, tag),
     loops |-> IF header = <<>> /\ ~OrderHasLost(d, tag)
               THEN RemoveAt(d.loops, i) ELSE [d.loops EXCEPT ![i] = header]]

\* delete_tag
DeleteTag(d, tag) ==
    IF tag \in LoopTags(d)
    THEN RemoveLoopTag(d, SelectInSeq(d.loops, LAMBDA h : tag \in ToSet(h)), tag)
    ELSE [d EXCEPT !.order = RemoveFirst(@, tag), !.tags = Without(@, tag)]

\* _validate_namespace
ValidationErrors(d, version) ==
    {"unequal columns" : i \in {j \in DOMAIN d.loops : ~Rectangular(d, j)}}
        \cup {"zero rows" : i \in {j \in DOMAIN d.loops :
                                CanFind(d, j) /\ Rectangular(d, j) /\ RowCount(d, j) = 0}}
        \cup {"not one value" :
                t \in {u \in ToSet(d.order) \ LoopTags(d) : Len(d.tags[u]) # 1}}
        \cup {"container" :
                t \in {u \in DOMAIN d.tags : version = "1.1" /\ ToSet(d.tags[u]) \cap Containers # {}}}

=============================================================================

------------------------------ MODULE CifModel ------------------------------
(***************************************************************************)
(* The intermediate representation that both builders fill: namespaces,    *)
(* and the values in them.  A value is a stored string, a list or a table. *)
(* An absent thing (None) is <<>>, a present one <<x>>.                    *)
(***************************************************************************)
EXTENDS EventSink, Namespace, FiniteSets

\* A string as stored: a delimited '?' or '.' keeps quotes, one that is bare or
\* the content of a text field does not.
Str(x, form) ==
    [is |-> "str", text |-> x, quotes |-> form = "quoted" /\ x \in {Unknown, "."},
     items |-> <<>>]
Lst(items) == [is |-> "list", text |-> "", quotes |-> FALSE, items |-> items]
\* A table is the sequence of its pairs, in order of arrival.
Tbl(pairs) == [is |-> "table", text |-> "", quotes |-> FALSE, items |-> pairs]

\* A Python dict as the sequence of its items: a key keeps its place, the last
\* value given to it wins.
DictSet(items, k, v) ==
    LET at == {i \in DOMAIN items : items[i][1] = k} IN
    IF at = {} THEN Append(items, <<k, v>>)
               ELSE [i \in DOMAIN items |-> IF i \in at THEN <<k, v>> ELSE items[i]]

Occurrences(tag, header) == {i \in DOMAIN header : header[i] = tag}

\* Mutant of Padded: one '?' too few.
PaddedOneShort(columns, header, total) ==
    LET missing(t) == {i \in Occurrences(t, header) :
                            total % Len(header) # 0 /\ i > (total % Len(header)) + 1}
    IN  [t \in DOMAIN columns |->
            columns[t] \o [k \in 1..Cardinality(missing(t)) |-> Str(Unknown, "bare")]]

\* The last row of a loop of `total` values completed with '?' by on_loop_end.
Padded(columns, header, total) ==
    LET missing(t) == {i \in Occurrences(t, header) :
                            total % Len(header) # 0 /\ i > total % Len(header)}
    IN  [t \in DOMAIN columns |->
            columns[t] \o [k \in 1..Cardinality(missing(t)) |-> Str(Unknown, "bare")]]

=============================================================================

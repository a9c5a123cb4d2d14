------------------------------- MODULE Document -------------------------------
(***************************************************************************)
(* What CifWriter lets a caller do to a file, whatever structures it keeps *)
(* the file in: every namespace is a sequence of items, an edit touches    *)
(* one item of the namespace it is made on and nothing else, only a        *)
(* removal closes a namespace and only cleaning takes away what nobody     *)
(* named.  An item is a record of `loop`, `header` and `columns`; a        *)
(* namespace is <<b, 0>> for a block, <<b, f>> for a frame of it; a call   *)
(* has a `kind` and the namespace it is made on, `at`.                     *)
(***************************************************************************)
EXTENDS Naturals, Sequences
LOCAL INSTANCE SequencesExt

CONSTANTS
    Unknown,        \* the value padding is made of
    ErrorTag,       \* the tag of the values no tag was found for
    Unwrapped(_)    \* what is kept of a value: of a list of one, what is in it

VARIABLES
    doc,    \* for each namespace, its items
    call    \* the last call

\* No tag occurs twice in a namespace.
WellFormed(items) ==
    \A i, j \in DOMAIN items : \A k \in DOMAIN items[i].header, l \in DOMAIN items[j].header :
        items[i].header[k] = items[j].header[l] => i = j /\ k = l

Cell(item, m) == <<item.header[m], item.columns[m]>>

\* b is a with an element more at the end, without its k-th, with another for its k-th.
Longer(a, b) == Len(b) = Len(a) + 1 /\ \A i \in DOMAIN a : b[i] = a[i]
Shorter(a, b, k) ==
    Len(b) = Len(a) - 1 /\ \A i \in DOMAIN b : b[i] = a[IF i < k THEN i ELSE i + 1]
DiffersAt(a, b, k) == Len(b) = Len(a) /\ \A i \in DOMAIN a \ {k} : b[i] = a[i]

\* What can happen to a loop: a column more, a column less, the columns in another
\* order, a row more; and, to any item, other values for one tag.
ItemEdit(a, b) ==
    /\ a.loop = b.loop
    /\ \/ a.loop /\ Longer(a.header, b.header) /\ Longer(a.columns, b.columns)
       \/ \E m \in DOMAIN a.header :
            Shorter(a.header, b.header, m) /\ Shorter(a.columns, b.columns, m)
       \/ /\ Len(a.header) = Len(b.header)
          /\ {Cell(a, m) : m \in DOMAIN a.header} = {Cell(b, m) : m \in DOMAIN b.header}
       \/ /\ a.loop /\ a.header = b.header
          /\ \A m \in DOMAIN a.header : Longer(a.columns[m], b.columns[m])
       \/ /\ a.header = b.header
          /\ \E m \in DOMAIN a.header : DiffersAt(a.columns, b.columns, m)

NamespaceEdit(p, q) ==
    \/ Longer(p, q)
    \/ \E k \in DOMAIN p : Shorter(p, q, k)
    \/ \E k \in DOMAIN p : DiffersAt(p, q, k) /\ ItemEdit(p[k], q[k])

\* What is left of an item: of a loop, all but the last rows, of nothing but unknown
\* values; of a tag with several values, one of them.
Fewer(a, b) ==
    /\ b.loop = a.loop /\ b.header = a.header
    /\ IF a.loop
       THEN \E k \in 0 .. Len(a.columns[1]) :
                \A m \in DOMAIN a.columns :
                    a.columns[m] = b.columns[m] \o [r \in 1 .. k |-> Unknown]
       ELSE \/ b.columns = a.columns
            \/ \E k \in DOMAIN a.columns[1] : b.columns = << <<Unwrapped(a.columns[1][k])>> >>

\* The values without a tag are gone, other items have fewer values.
Pruned(p, q) ==
    \E kept \in SUBSET DOMAIN p :
        LET of == SetToSortSeq(kept, <) IN
        /\ \A k \in DOMAIN p \ kept : p[k].header = <<ErrorTag>>
        /\ Len(of) = Len(q) /\ \A k \in DOMAIN q : Fewer(p[of[k]], q[k])

Init == \A n \in DOMAIN doc : WellFormed(doc[n])

Edit(old, new, n) ==
    /\ n \in DOMAIN old /\ DOMAIN new = DOMAIN old
    /\ \A m \in DOMAIN old \ {n} : new[m] = old[m]
    /\ NamespaceEdit(old[n], new[n]) /\ WellFormed(new[n])

\* A new namespace is empty.
Open(old, new, n) ==
    /\ n \notin DOMAIN old
    /\ new = [m \in DOMAIN old \cup {n} |-> IF m = n THEN <<>> ELSE old[m]]

\* A block goes with its frames.
GoesWith(n, m) == m = n \/ (n[2] = 0 /\ m[1] = n[1])
Close(old, new, n) ==
    /\ n \in DOMAIN old
    /\ new = [m \in {k \in DOMAIN old : ~GoesWith(n, k)} |-> old[m]]

Prune(old, new) ==
    DOMAIN new \subseteq DOMAIN old /\ \A n \in DOMAIN new : Pruned(old[n], new[n])

Step(old, new, c) ==
    \/ c.kind = "edit" /\ Edit(old, new, c.at)
    \/ c.kind = "add" /\ Open(old, new, c.at)
    \/ c.kind = "remove" /\ Close(old, new, c.at)
    \/ c.kind = "rename" /\ new = old
    \/ c.kind = "clean" /\ Prune(old, new)

Next == Step(doc, doc', call')

Spec == Init /\ [][Next]_<<doc, call>>

=============================================================================

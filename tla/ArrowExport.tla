---------------------------- MODULE ArrowExport ----------------------------
(***************************************************************************)
(* The two exports of a document to Arrow record batches: ParsedCif's, of  *)
(* the raw document (raw_builder.rs), and cif_to_arrow's, of the CifFile   *)
(* (cifmodel/builder.py).  A batch is                                      *)
(*   block, frame  index and name, frame <<>> for the block itself         *)
(*   loop          0 for the scalars, else the loop's place                *)
(*   rows          the length of its metadata columns                      *)
(*   columns       its tags with their cells: a text <<x>>, or None        *)
(***************************************************************************)
EXTENDS CifModel
LOCAL INSTANCE SequencesExt

CONSTANTS
    RawToStr(_),    \* raw_to_str, of a raw value (PipelineValues)
    Enc(_)          \* _enc, of a Python value (PipelineValues)

None == <<>>

-----------------------------------------------------------------------------
(***************************************************************************)
(* What both look at: which tags are scalars, how long a column is, which  *)
(* loops have rows.                                                        *)
(***************************************************************************)
\* column[t] has the cells of tag t.
Batch(block, frame, loop, rows, tags, column) ==
    [block |-> block, frame |-> frame, loop |-> loop, rows |-> rows,
     columns |-> [i \in DOMAIN tags |-> <<tags[i], column[tags[i]]>>]]

ScalarTags(d) ==
    LET scalars == InOrder({k \in DOMAIN d.order : d.order[k] \notin LoopTags(d)})
    IN  [n \in DOMAIN scalars |-> d.order[scalars[n]]]

\* The length of the longest column, 0 without one.
Longest(d, tags) ==
    LET lengths == {0} \cup {Len(d.tags[tags[i]]) : i \in DOMAIN tags}
    IN  CHOOSE n \in lengths : \A m \in lengths : m <= n

\* The first column says how many rows a loop has.
LoopRows(d, i) == IF d.loops[i] = <<>> THEN 0 ELSE Len(d.tags[d.loops[i][1]])

\* The places of the loops that have rows, in order.
FullLoops(d) == InOrder({i \in DOMAIN d.loops : LoopRows(d, i) > 0})

-----------------------------------------------------------------------------
(***************************************************************************)
(* ParsedCif::to_py_batches.                                               *)
(***************************************************************************)
\* (0..n_rows).map(|i| vals.get(i).map(raw_to_str))
RustScalarColumn(values, rows) ==
    [i \in 1..rows |-> IF i \in DOMAIN values THEN <<RawToStr(values[i])>> ELSE None]

RustLoopColumn(values) == [i \in DOMAIN values |-> <<RawToStr(values[i])>>]

\* frame_to_batches
RustNamespace(d, block, frame) ==
    LET tags    == ScalarTags(d)
        rows    == Longest(d, tags)
        padded  == [t \in DOMAIN d.tags |-> RustScalarColumn(d.tags[t], rows)]
        scalars == Batch(block, frame, 0, rows, tags, padded)
        full    == FullLoops(d)
        column  == [t \in DOMAIN d.tags |-> RustLoopColumn(d.tags[t])]
        looped(i) == Batch(block, frame, i, LoopRows(d, i), d.loops[i], column)
    IN  (IF rows > 0 THEN <<scalars>> ELSE <<>>)
            \o [k \in DOMAIN full |-> looped(full[k])]

\* make_batch: RecordBatch::try_new(..).expect(..) on columns of unequal length.
Panics(d) ==
    \E i \in DOMAIN d.loops : LoopRows(d, i) > 0
        /\ \E t \in ToSet(d.loops[i]) : Len(d.tags[t]) # LoopRows(d, i)

\* The frames of a block, numbered as they come.
RustFrames(b, block) ==
    FlattenSeq([fi \in DOMAIN b.frames |->
        RustNamespace(b.frames[fi].data, block, <<fi, b.frames[fi].name>>)])

RustBatches(doc) ==
    FlattenSeq([bi \in DOMAIN doc |->
        LET block == <<bi, doc[bi].name>> IN
        RustNamespace(doc[bi].data, block, None) \o RustFrames(doc[bi], block)])

-----------------------------------------------------------------------------
(***************************************************************************)
(* cif_to_arrow.                                                           *)
(***************************************************************************)
\* Mutant of PyScalarColumn: the column is filled up in front.
PyScalarColumnAtItsEnd(values, rows) ==
    [k \in 1..rows - Len(values) |-> None] \o [i \in DOMAIN values |-> <<Enc(values[i])>>]

\* [_enc(v) for v in ns[tag]] + [None] * (n - len(col))
PyScalarColumn(values, rows) ==
    [i \in DOMAIN values |-> <<Enc(values[i])>>] \o [k \in 1..rows - Len(values) |-> None]

PyScalars(d, block, frame) ==
    LET tags == ScalarTags(d)
        rows == Longest(d, tags)
    IN  IF tags = <<>> \/ rows = 0 THEN <<>>
        ELSE <<Batch(block, frame, 0, rows, tags,
                     [t \in DOMAIN d.tags |-> PyScalarColumn(d.tags[t], rows)])>>

PyLoops(d, block, frame) ==
    LET cells(values) == [i \in DOMAIN values |-> <<Enc(values[i])>>]
        column == [t \in DOMAIN d.tags |-> cells(d.tags[t])]
        full   == FullLoops(d)
    IN  [k \in DOMAIN full |->
            Batch(block, frame, full[k], LoopRows(d, full[k]), d.loops[full[k]], column)]

\* _ns_batches
PyNamespace(d, block, frame) == PyScalars(d, block, frame) \o PyLoops(d, block, frame)

\* cif_to_arrow looks each block up again by its name, which finds the first of
\* that name, and takes the frames name by name.
PlaceOfName(s, name) ==
    CHOOSE i \in DOMAIN s : s[i].name = name /\ \A j \in 1..i - 1 : s[j].name # name

FirstOfName(doc, name) == doc[PlaceOfName(doc, name)]

Earlier(frames, j, i) ==
    LET first(k) == PlaceOfName(frames, frames[k].name) IN
    first(j) < first(i) \/ (first(j) = first(i) /\ j < i)

ByName(frames) ==
    [k \in DOMAIN frames |->
        frames[CHOOSE i \in DOMAIN frames :
                   Sets!Cardinality({j \in DOMAIN frames : Earlier(frames, j, i)}) = k - 1]]

PyFrames(b, block) ==
    LET frames == ByName(b.frames) IN
    FlattenSeq([fi \in DOMAIN frames |->
        PyNamespace(frames[fi].data, block, <<fi, frames[fi].name>>)])

PyBatches(doc) ==
    FlattenSeq([bi \in DOMAIN doc |->
        LET name  == doc[bi].name
            block == FirstOfName(doc, name)
        IN  PyNamespace(block.data, <<bi, name>>, None) \o PyFrames(block, <<bi, name>>)])

=============================================================================

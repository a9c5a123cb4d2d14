------------------------------- MODULE Cleaner -------------------------------
(***************************************************************************)
(* clean() (clean.py): five steps over the namespaces of a file, each an   *)
(* operator on                                                             *)
(*   file      the blocks, a Directory of [id, name, data, frames], frames *)
(*             a Directory of [id, name, data]                             *)
(*   warnings  the CleanWarnings: the step, the block and frame named in   *)
(*             it, and how many values or objects it says were removed     *)
(*   raised    an exception ended the step and the call                    *)
(* A step walks the objects of the file and edits them through handles it  *)
(* looks up by name.                                                       *)
(***************************************************************************)
EXTENDS FrameWriter, Directory
LOCAL INSTANCE SequencesExt
LOCAL INSTANCE FiniteSetsExt

Unknown  == "?"
ErrorTag == "_cifflow_error_value"

\* Place 0 of a block is its own data, place j that of its j-th frame.
DataAt(file, p) ==
    IF p[2] = 0 THEN file.list[p[1]].data ELSE file.list[p[1]].frames.list[p[2]].data
WithData(file, p, d) ==
    IF p[2] = 0 THEN [file EXCEPT !.list[p[1]].data = d]
                ELSE [file EXCEPT !.list[p[1]].frames.list[p[2]].data = d]

\* The namespaces of a file in order: each block, then its frames.
NamespacePlaces(file) ==
    FlattenSeq([i \in DOMAIN file.list |->
        [k \in 1 .. Len(file.list[i].frames.list) + 1 |-> <<i, k - 1>>]])

\* A place as get_block(name), get_save_frame(name, index = place in the list)
\* find it: the first block of the name; of the frames with the name, the one
\* whose number is the place.  None of that number: IndexError.
Handles(file, p) ==
    LET i == Min(Places(file, file.list[p[1]].name))
        named == Places(file.list[i].frames, file.list[p[1]].frames.list[p[2]].name)
    IN  IF p[2] = 0 THEN {<<i, 0>>}
        ELSE {<<i, j>> : j \in {k \in named : Cardinality({m \in named : m <= k}) = p[2]}}

Raise(s) == [s EXCEPT !.raised = TRUE]

\* A CleanWarning, and one on the namespace at p.
Note(s, category, block, frame, n) ==
    [s EXCEPT !.warnings = Append(@,
        [category |-> category, block |-> block, frame |-> frame, count |-> n])]
Warn(s, category, p, n) ==
    Note(s, category, s.file.list[p[1]].name,
         IF p[2] = 0 THEN <<>> ELSE <<s.file.list[p[1]].frames.list[p[2]].name>>, n)

\* One step: At(s, p, h) on each namespace p and its handle h, until one raises.
EachNamespace(s, At(_, _, _)) ==
    FoldLeft(LAMBDA r, p :
                IF r.raised THEN r
                ELSE IF Handles(r.file, p) = {} THEN Raise(r)
                ELSE At(r, p, CHOOSE h \in Handles(r.file, p) : TRUE),
             s, NamespacePlaces(s.file))

-----------------------------------------------------------------------------
\* _remove_error_from_ns
RemoveErrorAt(s, p, h) ==
    LET here    == DataAt(s.file, p)
        there   == DataAt(s.file, h)
        deleted == [s EXCEPT !.file = WithData(@, h, DeleteTag(there, ErrorTag))]
    IN  IF ErrorTag \notin DOMAIN here.tags THEN s
        ELSE IF ~CanDeleteTag(there, ErrorTag) THEN Raise(s)
        ELSE IF OrderHasLost(there, ErrorTag) THEN Raise(deleted)
        ELSE Warn(deleted, "remove_error_values", p, Len(here.tags[ErrorTag]))

RemoveErrorValues(s) == EachNamespace(s, RemoveErrorAt)

\* The names of a list's objects that occur more than once, in order.
Repeated(list) ==
    LET firsts == SelectSeq([i \in DOMAIN list |-> i],
                    LAMBDA i : /\ \A k \in 1 .. i - 1 : list[k].name # list[i].name
                               /\ \E k \in i + 1 .. Len(list) : list[k].name = list[i].name)
    IN  [k \in DOMAIN firsts |-> list[firsts[k]].name]

\* Mutant of DeduplicateBlocks: one block of each repeated name is removed.
DeduplicateBlocksOnce(s, keep) ==
    LET once(r, n) ==
            IF n \notin DOMAIN r.file.named THEN Raise(r)
            ELSE [r EXCEPT !.file = RemoveNamed(@, n, keep = "first")]
    IN  FoldLeft(once, s, Repeated(s.file.list))

RemoveRepeatedBlock(s, n, keep) ==
    LET once(r) ==
            IF r.raised \/ Cardinality(Places(r.file, n)) <= 1 THEN r
            ELSE IF n \notin DOMAIN r.file.named THEN Raise(r)
            ELSE [r EXCEPT !.file = RemoveNamed(@, n, keep = "first")]
    IN  FoldLeft(LAMBDA r, k : once(r), s, s.file.list)

\* Mutant of DeduplicateBlocks: what was removed is not reported.
DeduplicateBlocksSilently(s, keep) ==
    FoldLeft(LAMBDA r, n : RemoveRepeatedBlock(r, n, keep), s, Repeated(s.file.list))

\* _step_deduplicate_blocks
DeduplicateBlocks(s, keep) ==
    LET one(r, n) ==
            LET done == RemoveRepeatedBlock(r, n, keep) IN
            IF done.raised THEN done
            ELSE Note(done, "deduplicate_blocks", n, <<>>, Len(r.file.list) - Len(done.file.list))
    IN  FoldLeft(one, s, Repeated(s.file.list))

\* _step_deduplicate_save_frames: counts the frames of block i, and removes them
\* from the block its name looks up until there is one left in block i.
DeduplicateFrames(s, keep) ==
    LET target(r, i) == Min(Places(r.file, r.file.list[i].name))
        once(r, i, n) ==
            IF r.raised \/ Cardinality(Places(r.file.list[i].frames, n)) <= 1 THEN r
            ELSE IF n \notin DOMAIN r.file.list[target(r, i)].frames.named THEN Raise(r)
            ELSE [r EXCEPT !.file.list[target(r, i)].frames = RemoveNamed(@, n, keep = "first")]
        rounds(i) == s.file.list[i].frames.list \o s.file.list[target(s, i)].frames.list
        count(r, i) == Len(r.file.list[target(s, i)].frames.list)
        one(r, i, n) ==
            LET done == FoldLeft(LAMBDA q, k : once(q, i, n), r, rounds(i)) IN
            IF done.raised THEN done
            ELSE Note(done, "deduplicate_save_frames", s.file.list[i].name, <<n>>,
                      count(r, i) - count(done, i))
        block(r, i) ==
            FoldLeft(LAMBDA q, n : one(q, i, n), r, Repeated(r.file.list[i].frames.list))
    IN  FoldLeft(block, s, [i \in DOMAIN s.file.list |-> i])

\* _dedup_tags_in_ns
DeduplicateTagsAt(s, p, h, keep) ==
    LET scalars == SelectSeq(DataAt(s.file, p).order, LAMBDA t : t \notin LoopTags(DataAt(s.file, p)))
        one(r, tag) ==
            LET values == DataAt(r.file, p).tags[tag]
                kept   == IF keep = "first" THEN Head(values) ELSE Last(values)
                there  == DataAt(r.file, h)
            IN  IF r.raised \/ Len(values) <= 1 THEN r
                ELSE IF ~CanReassignTag(there, tag) \/ tag \in LoopTags(there) THEN Raise(r)
                ELSE Warn([r EXCEPT !.file = WithData(@, h, ReassignValue(there, tag, kept))],
                          "deduplicate_tags", p, Len(values) - 1)
    IN  FoldLeft(one, s, scalars)

DeduplicateTags(s, keep) ==
    EachNamespace(s, LAMBDA r, p, h : DeduplicateTagsAt(r, p, h, keep))

\* Mutant of TrailingPlaceholders: placeholders anywhere in the column.
PlaceholdersAnywhere(values) == Len(SelectSeq(values, LAMBDA v : v = Unknown))

\* _trailing_placeholder_count
TrailingPlaceholders(values) ==
    Len(values) - SelectLastInSeq(values, LAMBDA v : v # Unknown)

\* _strip_padding_in_ns
StripPaddingAt(s, p, h) ==
    LET one(r, header) ==
            LET column(t) == DataAt(r.file, p).tags[t]
                k == Min({Len(header) - 1} \cup {TrailingPlaceholders(column(t)) : t \in ToSet(header)})
                cut(q, t) ==
                    IF q.raised \/ ~CanReassignTag(DataAt(q.file, h), t) THEN Raise(q)
                    ELSE [q EXCEPT !.file = WithData(@, h, ReassignTag(DataAt(@, h), t,
                            SubSeq(column(t), 1, Len(column(t)) - k)))]
                stripped == FoldLeft(cut, r, header)
            IN  IF r.raised \/ Len(column(Head(header))) = 0 \/ k = 0 THEN r
                ELSE IF stripped.raised THEN stripped
                ELSE Warn(stripped, "strip_loop_padding", p, k * Len(header))
    IN  FoldLeft(one, s, DataAt(s.file, p).loops)

StripLoopPadding(s) == EachNamespace(s, StripPaddingAt)

\* clean, its steps switched by the options.
Clean(file, o) ==
    LET on(switch, s, Step(_)) == IF switch /\ ~s.raised THEN Step(s) ELSE s
        s0 == [file |-> file, warnings |-> <<>>, raised |-> FALSE]
        s1 == on(o.errors, s0, RemoveErrorValues)
        s2 == on(o.blocks # "off", s1, LAMBDA s : DeduplicateBlocks(s, o.blocks))
        s3 == on(o.frames # "off", s2, LAMBDA s : DeduplicateFrames(s, o.frames))
        s4 == on(o.tags # "off", s3, LAMBDA s : DeduplicateTags(s, o.tags))
    IN  on(o.padding, s4, StripLoopPadding)

\* CifFile.deepcopy
DeepCopy(file) ==
    LET copy == Reindexed(file) IN
    [copy EXCEPT !.list = [i \in DOMAIN @ |-> [@[i] EXCEPT !.frames = Reindexed(@)]]]

=============================================================================

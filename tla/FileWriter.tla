------------------------------ MODULE FileWriter ------------------------------
(***************************************************************************)
(* CifWriter over a file (writer.py): the blocks and their save frames,    *)
(* the edits a caller makes through writer handles, and clean() on the     *)
(* file as it is.  The file may be new or one the parser has built.  Calls *)
(* that raise are left out, as they change nothing; of clean() and of the  *)
(* deletion of a tag the order has lost there is what they leave.          *)
(***************************************************************************)
EXTENDS Cleaner, FiniteSets
LOCAL INSTANCE SequencesExt

CONSTANTS
    Settings,   \* for each use of the writer: the files it begins with, and the
                \* names, tags, values and clean() options it gives its calls
    MaxBlocks, MaxFrames, MaxRows

ASSUME SettingsAssumption ==
    /\ MaxBlocks \in Nat /\ MaxFrames \in Nat /\ MaxRows \in Nat
    /\ \A s \in DOMAIN Settings :
        DOMAIN Settings[s] = {"files", "blocks", "frames", "tags", "values", "options"}

BlockFields == {"id", "name", "data", "frames"}
FrameFields == {"id", "name", "data"}

\* The builders make a file by adding its blocks and frames one after the other.
ASSUME FilesAssumption ==
    \A s \in DOMAIN Settings : \A f \in Settings[s].files :
        /\ IsDirectory(f, BlockFields) /\ Loaded(f)
        /\ \A i \in DOMAIN f.list :
            IsDirectory(f.list[i].frames, FrameFields) /\ Loaded(f.list[i].frames)

VARIABLES
    setting,    \* the use
    file,       \* the CifFile: a Directory of blocks
    cleaned,    \* what the last call returned, if it was clean(): <<>> or <<record>>
    doc,        \* history: the file's items, for the abstract specification
    duplicates, \* history: the file was loaded with repeated names
    reassigned, \* history: values of a tag were replaced, or repeated by the file
    call        \* history: the last call and the namespace it was made on

vars == <<setting, file, cleaned, doc, duplicates, reassigned, call>>

Given == Settings[setting]

NewFrame(dir, n) == [id |-> NewId(dir), name |-> n, data |-> NoData]
NewBlock(dir, n) == [id |-> NewId(dir), name |-> n, data |-> NoData, frames |-> Empty]

Directories(f) == {f} \cup {f.list[i].frames : i \in DOMAIN f.list}
Data(f) == UNION {{dir.list[k].data : k \in DOMAIN dir.list} : dir \in Directories(f)}

\* The namespaces of the file, told apart by the identities of block and frame.
NamespacesOf(f) ==
    UNION {{<<i, k>> : k \in 0 .. Len(f.list[i].frames.list)} : i \in DOMAIN f.list}
Identity(f, p) ==
    <<f.list[p[1]].id, IF p[2] = 0 THEN 0 ELSE f.list[p[1]].frames.list[p[2]].id>>
Place(f, n) == CHOOSE p \in NamespacesOf(f) : Identity(f, p) = n
Identities(f) == {Identity(f, p) : p \in NamespacesOf(f)}

DocumentOf(f) == [n \in Identities(f) |-> Items(DataAt(f, Place(f, n)))]

D == INSTANCE Document

Made(kind, n) == [kind |-> kind, at |-> n]

RepeatsName(dir) == \E n \in Names(dir) : Cardinality(Places(dir, n)) > 1

Init ==
    /\ setting \in DOMAIN Settings
    /\ file \in Given.files
    /\ cleaned = <<>> /\ doc = DocumentOf(file) /\ call = Made("none", <<0, 0>>)
    /\ duplicates = (\E dir \in Directories(file) : RepeatsName(dir))
    /\ reassigned = (\E d \in Data(file) : "not one value" \in ValidationErrors(d, "2.0"))

-----------------------------------------------------------------------------
(***************************************************************************)
(* Namespaces, through a handle on a block or on a frame of it.            *)
(***************************************************************************)
Columns(header) ==
    UNION {[ToSet(header) -> [1 .. n -> Given.values]] : n \in 0 .. MaxRows}
Column == UNION {[1 .. n -> Given.values] : n \in 0 .. MaxRows}

\* Tags in every order, once each.
HeadersOf(tags) == {h \in UNION {[1 .. n -> tags] : n \in 1 .. Cardinality(tags)} :
                        Cardinality(ToSet(h)) = Len(h)}

Edited(p, d) ==
    /\ file' = WithData(file, p, d)
    /\ cleaned' = <<>> /\ call' = Made("edit", Identity(file, p))
    /\ UNCHANGED <<setting, duplicates>>

CallSetTag(p) ==
    \E t \in Given.tags, v \in Given.values :
        /\ CanSetTag(DataAt(file, p), t)
        /\ Edited(p, SetTag(DataAt(file, p), t, v))
        /\ UNCHANGED reassigned

CallAddLoop(p) ==
    \E header \in HeadersOf(Given.tags) : \E columns \in Columns(header) :
        /\ CanAddLoop(DataAt(file, p), header, columns)
        /\ Edited(p, AddLoop(DataAt(file, p), header, columns))
        /\ UNCHANGED reassigned

CallAddLoopColumn(p) ==
    \E i \in DOMAIN DataAt(file, p).loops, t \in Given.tags, column \in Column :
        /\ CanAddLoopColumn(DataAt(file, p), i, t, column)
        /\ Edited(p, AddLoopColumn(DataAt(file, p), i, t, column))
        /\ UNCHANGED reassigned

CallReorderLoopTags(p) ==
    \E i \in DOMAIN DataAt(file, p).loops :
        \E header \in HeadersOf(ToSet(DataAt(file, p).loops[i])) :
            /\ CanReorderLoopTags(DataAt(file, p), i, header)
            /\ Edited(p, ReorderLoopTags(DataAt(file, p), i, header))
            /\ UNCHANGED reassigned

CallAddLoopRow(p) ==
    \E i \in DOMAIN DataAt(file, p).loops :
        \E row \in [1 .. Len(DataAt(file, p).loops[i]) -> Given.values] :
            /\ \A t \in ToSet(DataAt(file, p).loops[i]) : Len(DataAt(file, p).tags[t]) < MaxRows
            /\ CanAddLoopRow(DataAt(file, p), i, row)
            /\ Edited(p, AddLoopRow(DataAt(file, p), i, row))
            /\ UNCHANGED reassigned

CallReassignTag(p) ==
    \E t \in Given.tags, values \in Column :
        /\ CanReassignTag(DataAt(file, p), t)
        /\ Edited(p, ReassignTag(DataAt(file, p), t, values))
        /\ reassigned' = TRUE

CallDeleteTag(p) ==
    \E t \in Given.tags :
        /\ CanDeleteTag(DataAt(file, p), t)
        /\ Edited(p, DeleteTag(DataAt(file, p), t))
        /\ UNCHANGED reassigned

CallRemoveLoopTag(p) ==
    \E i \in DOMAIN DataAt(file, p).loops :
        \E t \in ToSet(DataAt(file, p).loops[i]) \cap Given.tags :
            /\ Edited(p, RemoveLoopTag(DataAt(file, p), i, t))
            /\ UNCHANGED reassigned

EditNamespace ==
    \E p \in NamespacesOf(file) :
        \/ CallSetTag(p) \/ CallAddLoop(p) \/ CallAddLoopColumn(p) \/ CallReorderLoopTags(p)
        \/ CallAddLoopRow(p) \/ CallReassignTag(p) \/ CallDeleteTag(p) \/ CallRemoveLoopTag(p)

-----------------------------------------------------------------------------
(***************************************************************************)
(* Blocks and save frames.                                                 *)
(***************************************************************************)
Refiled(f, kind, n) ==
    /\ file' = f
    /\ cleaned' = <<>> /\ call' = Made(kind, n)
    /\ UNCHANGED <<setting, duplicates, reassigned>>

WithFrames(i, frames) == [file EXCEPT !.list[i].frames = frames]

\* The namespace of the block, of the frame of block i, that goes by the name.
BlockNamed(n, fromEnd) == <<file.list[OneNamed(file, n, fromEnd)].id, 0>>
FrameNamed(i, n, fromEnd) ==
    LET frames == file.list[i].frames IN
    <<file.list[i].id, frames.list[OneNamed(frames, n, fromEnd)].id>>

CallAddBlock ==
    \E n \in Given.blocks :
        /\ n \notin DOMAIN file.named /\ Len(file.list) < MaxBlocks
        /\ Refiled(Add(file, NewBlock(file, n)), "add", <<NewId(file), 0>>)

CallRemoveBlock ==
    \E n \in DOMAIN file.named \cap Given.blocks, fromEnd \in BOOLEAN :
        Refiled(RemoveNamed(file, n, fromEnd), "remove", BlockNamed(n, fromEnd))

CallRenameBlock ==
    \E old, new \in Given.blocks :
        /\ CanRename(file, old, new)
        /\ Refiled(Rename(file, old, new), "rename", <<file.named[old], 0>>)

CallAddSaveFrame ==
    \E i \in DOMAIN file.list, n \in Given.frames :
        LET frames == file.list[i].frames IN
        /\ n \notin DOMAIN frames.named /\ Len(frames.list) < MaxFrames
        /\ Refiled(WithFrames(i, Add(frames, NewFrame(frames, n))),
                   "add", <<file.list[i].id, NewId(frames)>>)

CallRemoveSaveFrame ==
    \E i \in DOMAIN file.list, fromEnd \in BOOLEAN :
        \E n \in DOMAIN file.list[i].frames.named \cap Given.frames :
            Refiled(WithFrames(i, RemoveNamed(file.list[i].frames, n, fromEnd)),
                    "remove", FrameNamed(i, n, fromEnd))

CallRenameSaveFrame ==
    \E i \in DOMAIN file.list, old, new \in Given.frames :
        LET frames == file.list[i].frames IN
        /\ CanRename(frames, old, new)
        /\ Refiled(WithFrames(i, Rename(frames, old, new)),
                   "rename", <<file.list[i].id, frames.named[old]>>)

\* clean(copy = TRUE) works on a copy, which replaces the file here if the call
\* returns; clean(copy = FALSE) leaves in the file what it had done when it raised.
\* Bound: not twice without another call in between.
CallClean ==
    \E o \in Given.options, copy \in BOOLEAN :
        cleaned = <<>> /\
        LET target == IF copy THEN DeepCopy(file) ELSE file
            result == Clean(target, o)
        IN  /\ file' = IF copy /\ result.raised THEN file ELSE result.file
            /\ cleaned' = <<[before |-> file, options |-> o, copy |-> copy,
                             warnings |-> result.warnings, raised |-> result.raised]>>
            /\ duplicates' = (duplicates /\ ~(copy /\ ~result.raised
                                /\ o.blocks # "off" /\ o.frames # "off"))
            /\ call' = Made("clean", <<0, 0>>)
            /\ UNCHANGED <<setting, reassigned>>

Next ==
    /\ \/ EditNamespace
       \/ CallAddBlock \/ CallRemoveBlock \/ CallRenameBlock
       \/ CallAddSaveFrame \/ CallRemoveSaveFrame \/ CallRenameSaveFrame
       \/ CallClean
    /\ doc' = DocumentOf(file')

Spec == Init /\ [][Next]_vars

-----------------------------------------------------------------------------
(***************************************************************************)
(* What the file promises after any calls.                                 *)
(***************************************************************************)

\* No block of the file and no frame of a block is listed twice, and what a name
\* looks up is listed; every tag listed or in a loop has values.
TypeOK ==
    /\ setting \in DOMAIN Settings
    /\ \A dir \in Directories(file) :
        /\ Distinct(dir)
        /\ \A n \in DOMAIN dir.named : dir.named[n] \in {dir.list[i].id : i \in DOMAIN dir.list}
    /\ \A d \in Data(file) : ToSet(d.order) \cup LoopTags(d) \subseteq DOMAIN d.tags
    /\ cleaned # <<>> => cleaned[1].options \in Given.options
    /\ duplicates \in BOOLEAN /\ reassigned \in BOOLEAN

\* A name looks up an object of the list that bears it, whatever was added, removed
\* or renamed; and if no name was repeated when the file was loaded, each name is
\* borne by one object, the one it looks up (CifWriter, BlockWriter, clean).
LookupsAgree ==
    \A dir \in Directories(file) :
        /\ LookupsSound(dir)
        /\ ~duplicates => LookupsExact(dir)

\* The three structures of a namespace, _tag_order, _tags and _loops, are edited one
\* by one and stay those the builder would make of its items: no tag unlisted, in
\* two loops or apart from its loop (SaveFrameWriter).
NamespacesReplay == \A d \in Data(file) : Replay(Items(d)) = d

\* Only reassign_tag can leave what build() rejects for its numbers of values: the
\* other edits keep the columns of a loop even and scalars single (_validate_namespace).
OnlyReassignUnbalances ==
    ~reassigned =>
        \A d \in Data(file) :
            ValidationErrors(d, "2.0") \cap {"unequal columns", "not one value"} = {}

\* A call edits one item of the namespace it is made on and leaves every other item as
\* and where it was; a removal closes what it names, a renaming changes no values, and
\* only clean() takes away what no one named: the values without a tag, last rows of
\* '?' alone, all but one value of a tag (writer.py and clean.py).
ImplementsDocument == D!Spec

\* Once clean() has returned, what its options name is gone from every namespace:
\* error values, repeated names, repeated scalars (clean).
CleanedIsClean ==
    cleaned # <<>> /\ ~cleaned[1].raised =>
        LET o == cleaned[1].options IN
        /\ o.errors => \A d \in Data(file) : ErrorTag \notin DOMAIN d.tags
        /\ o.blocks # "off" => ~RepeatsName(file)
        /\ o.frames # "off" => \A i \in DOMAIN file.list : ~RepeatsName(file.list[i].frames)
        /\ o.tags # "off" => \A d \in Data(file) :
                \A t \in DOMAIN d.tags \ LoopTags(d) : Len(d.tags[t]) = 1

ValueCount(d) == FoldLeft(LAMBDA n, t : n + Len(d.tags[t]), 0, d.order)

\* What the warnings of some steps say was removed, under a block's and frame's names.
Warned(steps, block, frame) ==
    FoldLeft(LAMBDA n, w : IF w.category \in steps /\ w.block = block /\ w.frame = frame
                           THEN n + w.count ELSE n,
             0, cleaned[1].warnings)

FrameName(f, p) == IF p[2] = 0 THEN <<>> ELSE <<f.list[p[1]].frames.list[p[2]].name>>

\* How many frames of a name the blocks of a name have that clean() has left.
FramesOfNames(f, block, frame) ==
    Cardinality({p \in NamespacesOf(f) :
        /\ <<f.list[p[1]].id, 0>> \in Identities(file)
        /\ f.list[p[1]].name = block /\ p[2] # 0 /\ FrameName(f, p) = frame})

\* Every removal produces a CleanWarning (clean.py:9).  The blocks of a name that are
\* gone, and the frames of a name that blocks still there have lost, are those the
\* warnings speak of; what a namespace still there has lost is what the warnings on it
\* say, or less where the name was repeated and they speak of a removed namesake too.
WarningsAccountForLosses ==
    cleaned # <<>> /\ ~cleaned[1].raised =>
        LET before == cleaned[1].before IN
        /\ \A n \in Names(before) :
            Cardinality(Places(before, n)) - Cardinality(Places(file, n))
                = Warned({"deduplicate_blocks"}, n, <<>>)
        /\ \A p \in NamespacesOf(before) :
            LET block == before.list[p[1]].name
                frame == FrameName(before, p)
            IN  p[2] # 0 =>
                FramesOfNames(before, block, frame) - FramesOfNames(file, block, frame)
                    = Warned({"deduplicate_save_frames"}, block, frame)
        /\ \A n \in Identities(file) :
            LET p      == Place(file, n)
                lost   == ValueCount(DataAt(before, Place(before, n))) - ValueCount(DataAt(file, p))
                warned == Warned({"remove_error_values", "deduplicate_tags", "strip_loop_padding"},
                                 file.list[p[1]].name, FrameName(file, p))
            IN  /\ lost <= warned
                /\ (\A dir \in Directories(before) : ~RepeatsName(dir)) => lost = warned

-----------------------------------------------------------------------------
(***************************************************************************)
(* What the documentation says and the code does not do.                   *)
(***************************************************************************)

\* A listed block or frame is found by its name (writer.py, KeyError "if no block
\* with that name exists").
ListedIsFound == \A dir \in Directories(file) : Names(dir) \subseteq DOMAIN dir.named

\* `tags` lists the tags present in a namespace (SaveFrameWriter.tags).
TagsAreListed == \A d \in Data(file) : ToSet(d.order) = DOMAIN d.tags

\* clean() returns a cleaned file whatever the parser has built (clean.py).
CleanReturns == cleaned # <<>> => ~cleaned[1].raised

=============================================================================

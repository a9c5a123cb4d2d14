----------------------------- MODULE WriterProofs -----------------------------
(***************************************************************************)
(* Theorems about FileWriter: the lookups of blocks and frames, and the    *)
(* order, tags and loops of every namespace, whatever the calls of a       *)
(* writer, in files of any size.                                           *)
(***************************************************************************)
EXTENDS FileWriter, EditProofs
LOCAL INSTANCE SequencesExt
LOCAL INSTANCE FiniteSetsExt

-----------------------------------------------------------------------------
(***************************************************************************)
(* Files: a directory of blocks, and in each a directory of frames.        *)
(***************************************************************************)
FileInv(f) ==
    /\ DirInv(f, BlockFields)
    /\ \A i \in DOMAIN f.list : DirInv(f.list[i].frames, FrameFields)

Exact(f) == \A dir \in Directories(f) : LookupsExact(dir)

\* What loading makes.
LEMMA LoadedIsKept ==
    ASSUME NEW F, NEW dir, IsDirectory(dir, F), Loaded(dir)
    PROVE  DirInv(dir, F) /\ (~RepeatsName(dir) => LookupsExact(dir))
  <1> DEFINE n == Len(dir.list)
  <1>1. n \in Nat /\ DOMAIN dir.list = 1 .. n
    BY ListTyped
  <1>2. DOMAIN dir.named = Names(dir)
    BY DEF Loaded
  <1>3. ASSUME NEW m \in Names(dir)
        PROVE  /\ Min(Places(dir, m)) \in Places(dir, m) /\ Places(dir, m) \subseteq 1 .. n
               /\ dir.named[m] = dir.list[Min(Places(dir, m))].id
    <2>1. Places(dir, m) # {} /\ Places(dir, m) \subseteq Nat /\ Places(dir, m) \subseteq 1 .. n
      BY <1>3, ListTyped
    <2>2. Min(Places(dir, m)) \in Places(dir, m)
      BY <2>1, MinIsLeast
    <2>3. QED
      BY <1>3, <2>1, <2>2 DEF Loaded
  <1>4. LookupsSound(dir)
    BY <1>2, <1>3 DEF LookupsSound
  <1>5. ASSUME ~RepeatsName(dir) PROVE LookupsExact(dir)
    <2>1. ASSUME NEW m \in Names(dir)
          PROVE  Places(dir, m) = {i \in DOMAIN dir.list : dir.list[i].id = dir.named[m]}
      <3>1. PICK a : a = Min(Places(dir, m))
        OBVIOUS
      <3>2. a \in Places(dir, m) /\ a \in 1 .. n /\ dir.named[m] = dir.list[a].id
        BY <1>3, <2>1, <3>1
      <3>3. ASSUME NEW b \in Places(dir, m), b # a PROVE FALSE
        <4>1. PICK T : T = Places(dir, m)
          OBVIOUS
        <4>2. a \in T /\ b \in T /\ T \subseteq 1 .. n /\ a # b
          BY <1>3, <2>1, <3>2, <3>3, <4>1
        <4>3. Cardinality(T) > 1
          BY <1>1, <4>2, MoreThanOne
        <4>4. QED
          BY <1>5, <2>1, <4>1, <4>3 DEF RepeatsName
      <3>4. \A i \in DOMAIN dir.list : dir.list[i].id = dir.named[m] <=> i = a
        BY <1>1, <3>2 DEF Loaded, Distinct
      <3>5. QED
        BY <1>1, <3>2, <3>3, <3>4
    <2>2. QED
      BY <1>2, <2>1 DEF LookupsExact
  <1>6. QED
    BY <1>4, <1>5 DEF DirInv, Loaded

LEMMA FieldsOfObjects == BlockFields \in Fields /\ FrameFields \in Fields
  BY DEF BlockFields, FrameFields, Fields

LEMMA ExactEverywhere ==
    ASSUME NEW f
    PROVE  Exact(f) <=> LookupsExact(f) /\ \A i \in DOMAIN f.list : LookupsExact(f.list[i].frames)
  BY DEF Exact, Directories

\* The frames of a block replaced by others that are as well looked up.
Reframed(f, i, frames) == [f EXCEPT !.list[i].frames = frames]

LEMMA FramesReplaced ==
    ASSUME NEW f, FileInv(f), NEW i \in DOMAIN f.list,
           NEW frames, DirInv(frames, FrameFields),
           LookupsExact(f.list[i].frames) => LookupsExact(frames)
    PROVE  FileInv(Reframed(f, i, frames)) /\ (Exact(f) => Exact(Reframed(f, i, frames)))
  <1>1. f = [list |-> f.list, named |-> f.named]
    BY DEF FileInv, DirInv, IsDirectory
  <1>2. PICK g : g = Changed(f, i, "frames", frames)
    OBVIOUS
  <1>3. Reframed(f, i, frames) = g
    BY <1>1, <1>2 DEF Reframed, Changed
  <1>4. /\ DirInv(g, BlockFields) /\ (LookupsExact(f) => LookupsExact(g))
        /\ DOMAIN g.list = DOMAIN f.list
        /\ \A j \in DOMAIN f.list : \A x \in BlockFields :
             g.list[j][x] = IF j = i /\ x = "frames" THEN frames ELSE f.list[j][x]
    <2>1. DirInv(f, BlockFields) /\ BlockFields \in Fields /\ "frames" \in {"data", "frames"}
      BY FieldsOfObjects DEF FileInv
    <2>2. QED
      BY <1>2, <2>1, ChangeKeeps
  <1>5. "frames" \in BlockFields
    BY DEF BlockFields
  <1>6. \A j \in DOMAIN f.list : g.list[j].frames = IF j = i THEN frames ELSE f.list[j].frames
    BY <1>4, <1>5
  <1>7. \A j \in DOMAIN g.list : /\ DirInv(g.list[j].frames, FrameFields)
                                 /\ LookupsExact(f.list[j].frames) => LookupsExact(g.list[j].frames)
    BY <1>4, <1>6 DEF FileInv
  <1>8. QED
    BY <1>3, <1>4, <1>7, ExactEverywhere DEF FileInv

\* An edit of a namespace.
LEMMA DataReplaced ==
    ASSUME NEW f, FileInv(f), NEW p, NEW d
    PROVE  FileInv(WithData(f, p, d)) /\ (Exact(f) => Exact(WithData(f, p, d)))
  <1>1. f = [list |-> f.list, named |-> f.named]
    BY DEF FileInv, DirInv, IsDirectory
  <1>2. CASE p[2] = 0
    <2>1. PICK g : g = Changed(f, p[1], "data", d)
      OBVIOUS
    <2>2. WithData(f, p, d) = g
      BY <1>1, <1>2, <2>1 DEF WithData, Changed
    <2>3. /\ DirInv(g, BlockFields) /\ (LookupsExact(f) => LookupsExact(g))
          /\ DOMAIN g.list = DOMAIN f.list
          /\ \A j \in DOMAIN f.list : \A x \in BlockFields :
               g.list[j][x] = IF j = p[1] /\ x = "data" THEN d ELSE f.list[j][x]
      <3>1. DirInv(f, BlockFields) /\ BlockFields \in Fields /\ "data" \in {"data", "frames"}
        BY FieldsOfObjects DEF FileInv
      <3>2. QED
        BY <2>1, <3>1, ChangeKeeps
    <2>4. \A j \in DOMAIN f.list : g.list[j].frames = f.list[j].frames
      <3>1. "frames" \in BlockFields
        BY DEF BlockFields
      <3>2. QED
        BY <2>3, <3>1
    <2>5. QED
      BY <2>2, <2>3, <2>4, ExactEverywhere DEF FileInv
  <1>3. CASE p[2] # 0
    <2>1. PICK old : old = f.list[p[1]].frames
      OBVIOUS
    <2>2. PICK frames : frames = [old EXCEPT !.list[p[2]].data = d]
      OBVIOUS
    <2>3. WithData(f, p, d) = Reframed(f, p[1], frames)
      BY <1>3, <2>1, <2>2 DEF WithData, Reframed
    <2>4. CASE p[1] \in DOMAIN f.list
      <3>1. DirInv(old, FrameFields)
        BY <2>1, <2>4 DEF FileInv
      <3>2. old = [list |-> old.list, named |-> old.named]
        BY <3>1 DEF DirInv, IsDirectory
      <3>3. frames = Changed(old, p[2], "data", d)
        BY <2>2, <3>2 DEF Changed
      <3>4. DirInv(frames, FrameFields) /\ (LookupsExact(old) => LookupsExact(frames))
        BY <3>1, <3>3, ChangeKeeps, FieldsOfObjects
      <3>5. QED
        BY <2>1, <2>3, <2>4, <3>4, FramesReplaced
    <2>5. CASE p[1] \notin DOMAIN f.list
      <3>1. f.list = [j \in DOMAIN f.list |-> f.list[j]]
        BY DEF FileInv, DirInv, IsDirectory
      <3>2. Reframed(f, p[1], frames) = f
        BY <1>1, <2>5, <3>1 DEF Reframed
      <3>3. QED
        BY <2>3, <3>2
    <2>6. QED
      BY <2>4, <2>5
  <1>4. QED
    BY <1>2, <1>3

-----------------------------------------------------------------------------
(***************************************************************************)
(* The calls.                                                              *)
(***************************************************************************)
RefiledTo(f) == \E kind, n : Refiled(f, kind, n)

LEMMA EditKeeps ==
    ASSUME FileInv(file), EditNamespace
    PROVE  FileInv(file') /\ (Exact(file) => Exact(file')) /\ duplicates' = duplicates
  <1>1. PICK p, d : Edited(p, d)
    BY DEF EditNamespace, CallSetTag, CallAddLoop, CallAddLoopColumn, CallReorderLoopTags,
           CallAddLoopRow, CallReassignTag, CallDeleteTag, CallRemoveLoopTag
  <1>2. file' = WithData(file, p, d) /\ duplicates' = duplicates
    BY <1>1 DEF Edited
  <1>3. QED
    BY <1>2, DataReplaced

LEMMA AddBlockKeeps ==
    ASSUME FileInv(file), CallAddBlock
    PROVE  FileInv(file') /\ (Exact(file) => Exact(file')) /\ duplicates' = duplicates
  <1>1. PICK n : n \notin DOMAIN file.named /\ RefiledTo(Add(file, NewBlock(file, n)))
    BY DEF CallAddBlock, RefiledTo
  <1>2. PICK new : new = NewBlock(file, n)
    OBVIOUS
  <1>3. file' = Add(file, new) /\ duplicates' = duplicates
    BY <1>1, <1>2 DEF RefiledTo, Refiled
  <1>4. /\ DOMAIN new = BlockFields /\ new.id = NewId(file) /\ new.name = n /\ new.frames = Empty
    BY <1>2 DEF NewBlock, BlockFields
  <1>5. new.id \in Nat \ {0} /\ \A i \in DOMAIN file.list : file.list[i].id # new.id
    BY <1>4, NewIdIsNew DEF FileInv
  <1>6. /\ DirInv(file', BlockFields)
        /\ LookupsExact(file) => LookupsExact(file')
        /\ Len(file'.list) = Len(file.list) + 1
        /\ \A i \in 1 .. Len(file.list) : file'.list[i] = file.list[i]
        /\ file'.list[Len(file.list) + 1] = new
    BY <1>1, <1>3, <1>4, <1>5, AddKeeps, FieldsOfObjects DEF FileInv
  <1>7. /\ DOMAIN file.list = 1 .. Len(file.list) /\ Len(file.list) \in Nat
        /\ DOMAIN file'.list = 1 .. Len(file'.list)
    BY <1>6, ListTyped DEF FileInv, DirInv
  <1>8. \A i \in DOMAIN file'.list : \/ i \in DOMAIN file.list /\ file'.list[i] = file.list[i]
                                     \/ file'.list[i] = new
    BY <1>6, <1>7
  <1>9. QED
    BY <1>3, <1>4, <1>6, <1>8, EmptyDirectory, ExactEverywhere DEF FileInv

LEMMA RemoveBlockKeeps ==
    ASSUME FileInv(file), CallRemoveBlock
    PROVE  FileInv(file') /\ (Exact(file) => Exact(file')) /\ duplicates' = duplicates
  <1>1. PICK n \in DOMAIN file.named, fromEnd \in BOOLEAN : RefiledTo(RemoveNamed(file, n, fromEnd))
    BY DEF CallRemoveBlock, RefiledTo
  <1>2. file' = RemoveNamed(file, n, fromEnd) /\ duplicates' = duplicates
    BY <1>1 DEF RefiledTo, Refiled
  <1>3. /\ DirInv(file', BlockFields) /\ (LookupsExact(file) => LookupsExact(file'))
        /\ \A i \in DOMAIN file'.list : \E j \in DOMAIN file.list : file'.list[i] = file.list[j]
    BY <1>2, RemoveKeeps DEF FileInv
  <1>4. QED
    BY <1>2, <1>3, ExactEverywhere DEF FileInv

LEMMA RenameBlockKeeps ==
    ASSUME FileInv(file), CallRenameBlock
    PROVE  FileInv(file') /\ (Exact(file) => Exact(file')) /\ duplicates' = duplicates
  <1>1. PICK old, new : CanRename(file, old, new) /\ RefiledTo(Rename(file, old, new))
    BY DEF CallRenameBlock, RefiledTo
  <1>2. file' = Rename(file, old, new) /\ duplicates' = duplicates
    BY <1>1 DEF RefiledTo, Refiled
  <1>3. /\ DirInv(file', BlockFields) /\ (LookupsExact(file) => LookupsExact(file'))
        /\ DOMAIN file'.list = DOMAIN file.list
        /\ \A j \in DOMAIN file.list : \A x \in BlockFields \ {"name"} : file'.list[j][x] = file.list[j][x]
    BY <1>1, <1>2, RenameKeeps, FieldsOfObjects DEF FileInv
  <1>4. \A j \in DOMAIN file.list : file'.list[j].frames = file.list[j].frames
    BY <1>3 DEF BlockFields
  <1>5. QED
    BY <1>2, <1>3, <1>4, ExactEverywhere DEF FileInv

LEMMA AddSaveFrameKeeps ==
    ASSUME FileInv(file), CallAddSaveFrame
    PROVE  FileInv(file') /\ (Exact(file) => Exact(file')) /\ duplicates' = duplicates
  <1>1. PICK i, n :
            /\ i \in DOMAIN file.list
            /\ n \notin DOMAIN file.list[i].frames.named
            /\ RefiledTo(WithFrames(i, Add(file.list[i].frames, NewFrame(file.list[i].frames, n))))
    BY DEF CallAddSaveFrame, RefiledTo
  <1>2. PICK old : old = file.list[i].frames
    OBVIOUS
  <1>3. PICK new : new = NewFrame(old, n)
    OBVIOUS
  <1>4. file' = Reframed(file, i, Add(old, new)) /\ duplicates' = duplicates
    BY <1>1, <1>2, <1>3 DEF RefiledTo, Refiled, WithFrames, Reframed
  <1>5. DirInv(old, FrameFields)
    BY <1>1, <1>2 DEF FileInv
  <1>6. DOMAIN new = FrameFields /\ new.id = NewId(old) /\ new.name = n
    BY <1>3 DEF NewFrame, FrameFields
  <1>7. new.id \in Nat \ {0} /\ \A j \in DOMAIN old.list : old.list[j].id # new.id
    BY <1>5, <1>6, NewIdIsNew
  <1>8. DirInv(Add(old, new), FrameFields) /\ (LookupsExact(old) => LookupsExact(Add(old, new)))
    BY <1>1, <1>2, <1>5, <1>6, <1>7, AddKeeps, FieldsOfObjects
  <1>9. QED
    BY <1>1, <1>2, <1>4, <1>8, FramesReplaced

LEMMA RemoveSaveFrameKeeps ==
    ASSUME FileInv(file), CallRemoveSaveFrame
    PROVE  FileInv(file') /\ (Exact(file) => Exact(file')) /\ duplicates' = duplicates
  <1>1. PICK i, fromEnd, n :
            /\ i \in DOMAIN file.list /\ fromEnd \in BOOLEAN /\ n \in DOMAIN file.list[i].frames.named
            /\ RefiledTo(WithFrames(i, RemoveNamed(file.list[i].frames, n, fromEnd)))
    BY DEF CallRemoveSaveFrame, RefiledTo
  <1>2. PICK frames : frames = RemoveNamed(file.list[i].frames, n, fromEnd)
    OBVIOUS
  <1>3. file' = Reframed(file, i, frames) /\ duplicates' = duplicates
    BY <1>1, <1>2 DEF RefiledTo, Refiled, WithFrames, Reframed
  <1>4. DirInv(file.list[i].frames, FrameFields)
    BY <1>1 DEF FileInv
  <1>5. DirInv(frames, FrameFields) /\ (LookupsExact(file.list[i].frames) => LookupsExact(frames))
    BY <1>1, <1>2, <1>4, RemoveKeeps
  <1>6. QED
    BY <1>1, <1>3, <1>5, FramesReplaced

LEMMA RenameSaveFrameKeeps ==
    ASSUME FileInv(file), CallRenameSaveFrame
    PROVE  FileInv(file') /\ (Exact(file) => Exact(file')) /\ duplicates' = duplicates
  <1>1. PICK i, old, new :
            /\ i \in DOMAIN file.list
            /\ CanRename(file.list[i].frames, old, new)
            /\ RefiledTo(WithFrames(i, Rename(file.list[i].frames, old, new)))
    BY DEF CallRenameSaveFrame, RefiledTo
  <1>2. PICK frames : frames = Rename(file.list[i].frames, old, new)
    OBVIOUS
  <1>3. file' = Reframed(file, i, frames) /\ duplicates' = duplicates
    BY <1>1, <1>2 DEF RefiledTo, Refiled, WithFrames, Reframed
  <1>4. DirInv(file.list[i].frames, FrameFields)
    BY <1>1 DEF FileInv
  <1>5. DirInv(frames, FrameFields) /\ (LookupsExact(file.list[i].frames) => LookupsExact(frames))
    BY <1>1, <1>2, <1>4, RenameKeeps, FieldsOfObjects
  <1>6. QED
    BY <1>1, <1>3, <1>5, FramesReplaced

-----------------------------------------------------------------------------
(***************************************************************************)
(* The lookups, in every behaviour of the calls that edit.                 *)
(***************************************************************************)
LookupsInv == FileInv(file) /\ (~duplicates => Exact(file))

\* The behaviours in which clean() is not called.
EditsSpec == Init /\ [][Next /\ cleaned' = <<>>]_vars

LEMMA LookupsInit ==
    ASSUME Init
    PROVE  LookupsInv
  <1>1. setting \in DOMAIN Settings /\ file \in Settings[setting].files
    BY DEF Init, Given
  <1>2. /\ IsDirectory(file, BlockFields) /\ Loaded(file)
        /\ \A i \in DOMAIN file.list :
            IsDirectory(file.list[i].frames, FrameFields) /\ Loaded(file.list[i].frames)
    BY <1>1, FilesAssumption
  <1>3. FileInv(file)
    BY <1>2, LoadedIsKept DEF FileInv
  <1>4. ASSUME ~duplicates PROVE Exact(file)
    <2>1. \A dir \in Directories(file) : ~RepeatsName(dir)
      BY <1>4 DEF Init
    <2>2. ~RepeatsName(file) /\ \A i \in DOMAIN file.list : ~RepeatsName(file.list[i].frames)
      BY <2>1 DEF Directories
    <2>3. QED
      BY <1>2, <2>2, LoadedIsKept, ExactEverywhere
  <1>5. QED
    BY <1>3, <1>4 DEF LookupsInv

LEMMA LookupsStep ==
    ASSUME LookupsInv, Next, cleaned' = <<>>
    PROVE  LookupsInv'
  <1>1. FileInv(file) /\ (~duplicates => Exact(file))
    BY DEF LookupsInv
  <1>2. FileInv(file') /\ (Exact(file) => Exact(file')) /\ duplicates' = duplicates
    <2>1. CASE EditNamespace
      BY <1>1, <2>1, EditKeeps
    <2>2. CASE CallAddBlock
      BY <1>1, <2>2, AddBlockKeeps
    <2>3. CASE CallRemoveBlock
      BY <1>1, <2>3, RemoveBlockKeeps
    <2>4. CASE CallRenameBlock
      BY <1>1, <2>4, RenameBlockKeeps
    <2>5. CASE CallAddSaveFrame
      BY <1>1, <2>5, AddSaveFrameKeeps
    <2>6. CASE CallRemoveSaveFrame
      BY <1>1, <2>6, RemoveSaveFrameKeeps
    <2>7. CASE CallRenameSaveFrame
      BY <1>1, <2>7, RenameSaveFrameKeeps
    <2>8. ~CallClean
      <3>1. CallClean => \E x : cleaned' = <<x>>
        BY DEF CallClean
      <3>2. QED
        BY <3>1
    <2>9. QED
      BY <2>1, <2>2, <2>3, <2>4, <2>5, <2>6, <2>7, <2>8 DEF Next
  <1>3. QED
    BY <1>1, <1>2 DEF LookupsInv, Exact, FileInv

\* A name looks up an object of the list that bears it, whatever was added, removed or
\* renamed; and if no name was repeated when the file was loaded, each name is borne by
\* one object, the one it looks up (CifWriter and BlockWriter, any number of calls).
THEOREM LookupsCorrect == EditsSpec => []LookupsAgree
  <1>1. Init => LookupsInv
    BY LookupsInit
  <1>2. LookupsInv /\ [Next /\ cleaned' = <<>>]_vars => LookupsInv'
    <2>1. CASE UNCHANGED vars
      BY <2>1 DEF LookupsInv, FileInv, Exact, vars
    <2>2. QED
      BY <2>1, LookupsStep
  <1>3. LookupsInv => LookupsAgree
    BY DEF LookupsInv, LookupsAgree, FileInv, DirInv, Exact, Directories
  <1>4. QED
    BY <1>1, <1>2, <1>3, PTL DEF EditsSpec

\* Also of a file that clean() has worked on: whatever it leaves, as long as the lookups
\* agree then, no edit makes them disagree.
THEOREM EditsKeepLookups == Spec => [][LookupsInv /\ cleaned' = <<>> => LookupsInv']_vars
  <1>1. [Next]_vars => [LookupsInv /\ cleaned' = <<>> => LookupsInv']_vars
    BY LookupsStep DEF vars
  <1>2. QED
    BY <1>1, PTL DEF Spec

-----------------------------------------------------------------------------
(***************************************************************************)
(* The calls, on namespaces.  A handle's edit leaves one tidy: balanced,   *)
(* and even unless reassign_tag was used; placed if it was; and with its   *)
(* loops in the order of their tags if they were.                          *)
(***************************************************************************)
Tidy(d, even, placed, turn) ==
    /\ Balanced(d, even)
    /\ placed => Placed(d)
    /\ turn => Placed(d) /\ InTurn(d)

AllTidy(dir, even, placed, turn) == \A k \in DOMAIN dir.list : Tidy(dir.list[k].data, even, placed, turn)

FileTidy(f, even, placed, turn) ==
    AllTidy(f, even, placed, turn) /\ \A i \in DOMAIN f.list : AllTidy(f.list[i].frames, even, placed, turn)

LEMMA HeaderFacts ==
    ASSUME NEW S, NEW h \in HeadersOf(S)
    PROVE  IsList(h) /\ (\A k \in DOMAIN h : h[k] \in S) /\ \A k, l \in DOMAIN h : h[k] = h[l] => k = l
  <1>1. PICK n : n \in 1 .. Cardinality(S) /\ h \in [1 .. n -> S] /\ Cardinality(ToSet(h)) = Len(h)
    BY DEF HeadersOf
  <1>2. n \in Nat
    BY <1>1
  <1>3. h \in Seq(S) /\ Len(h) = n /\ DOMAIN h = 1 .. n
    BY <1>1, <1>2
  <1>4. IsList(h) /\ \A k \in DOMAIN h : h[k] \in S
    BY <1>1, <1>3, IsListOver
  <1>5. Cardinality({h[k] : k \in 1 .. n}) = n
    BY <1>1, <1>3 DEF ToSet
  <1>6. \A k, l \in 1 .. n : h[k] = h[l] => k = l
    BY <1>2, <1>3, <1>5, AllDifferent
  <1>7. QED
    BY <1>3, <1>4, <1>6

LEMMA ColumnIsList ==
    ASSUME NEW c \in Column
    PROVE  IsList(c)
  <1>1. PICK n \in 0 .. MaxRows : c \in [1 .. n -> Given.values]
    BY DEF Column
  <1>2. n \in Nat
    BY <1>1
  <1>3. c \in Seq(Given.values)
    BY <1>1, <1>2
  <1>4. QED
    BY <1>3, IsListOver

LEMMA ColumnsAreLists ==
    ASSUME NEW h, NEW C \in Columns(h)
    PROVE  \A k \in DOMAIN h : IsList(C[h[k]])
  <1>1. PICK n \in 0 .. MaxRows : C \in [ToSet(h) -> [1 .. n -> Given.values]]
    BY DEF Columns
  <1>2. ASSUME NEW k \in DOMAIN h PROVE IsList(C[h[k]])
    <2>1. h[k] \in ToSet(h)
      BY DEF ToSet
    <2>2. C[h[k]] \in [1 .. n -> Given.values]
      BY <1>1, <2>1
    <2>3. C[h[k]] \in Column
      BY <1>1, <2>2 DEF Column
    <2>4. QED
      BY <2>3, ColumnIsList
  <1>3. QED
    BY <1>2

LEMMA EditedTidy ==
    ASSUME EditNamespace, NEW even, even => ~reassigned', NEW placed, NEW turn
    PROVE  \E p, d : Edited(p, d) /\ (Tidy(DataAt(file, p), even, placed, turn) => Tidy(d, even, placed, turn))
  <1>1. PICK p : \/ CallSetTag(p) \/ CallAddLoop(p) \/ CallAddLoopColumn(p) \/ CallReorderLoopTags(p)
                 \/ CallAddLoopRow(p) \/ CallReassignTag(p) \/ CallDeleteTag(p) \/ CallRemoveLoopTag(p)
    BY DEF EditNamespace
  <1>2. PICK here : here = DataAt(file, p)
    OBVIOUS
  <1>3. CASE CallSetTag(p)
    <2>1. PICK t, v : CanSetTag(here, t) /\ Edited(p, SetTag(here, t, v)) /\ reassigned' = reassigned
      BY <1>2, <1>3 DEF CallSetTag
    <2>2. Tidy(here, even, placed, turn) => Tidy(SetTag(here, t, v), even, placed, turn)
      BY <2>1, SetTagBalanced, SetTagPlaced, SetTagInTurn DEF Tidy
    <2>3. QED
      BY <1>2, <2>1, <2>2
  <1>4. CASE CallAddLoop(p)
    <2>1. PICK h \in HeadersOf(Given.tags) : \E C \in Columns(h) :
            CanAddLoop(here, h, C) /\ Edited(p, AddLoop(here, h, C)) /\ reassigned' = reassigned
      BY <1>2, <1>4 DEF CallAddLoop
    <2>2. PICK C \in Columns(h) :
            CanAddLoop(here, h, C) /\ Edited(p, AddLoop(here, h, C)) /\ reassigned' = reassigned
      BY <2>1
    <2>3. IsList(h) /\ \A k, l \in DOMAIN h : h[k] = h[l] => k = l
      BY HeaderFacts
    <2>4. \A k \in DOMAIN h : IsList(C[h[k]])
      BY ColumnsAreLists
    <2>5. Tidy(here, even, placed, turn) => Tidy(AddLoop(here, h, C), even, placed, turn)
      BY <2>2, <2>3, <2>4, AddLoopBalanced, AddLoopPlaced, AddLoopInTurn DEF Tidy
    <2>6. QED
      BY <1>2, <2>2, <2>5
  <1>5. CASE CallAddLoopColumn(p)
    <2>1. PICK i, t, c : /\ i \in DOMAIN here.loops /\ c \in Column
                         /\ CanAddLoopColumn(here, i, t, c)
                         /\ Edited(p, AddLoopColumn(here, i, t, c)) /\ reassigned' = reassigned
      BY <1>2, <1>5 DEF CallAddLoopColumn
    <2>2. IsList(c)
      BY <2>1, ColumnIsList
    <2>3. Tidy(here, even, placed, turn) => Tidy(AddLoopColumn(here, i, t, c), even, placed, turn)
      BY <2>1, <2>2, AddLoopColumnBalanced, AddLoopColumnPlaced, AddLoopColumnInTurn DEF Tidy
    <2>4. QED
      BY <1>2, <2>1, <2>3
  <1>6. CASE CallReorderLoopTags(p)
    <2>1. PICK i \in DOMAIN here.loops : \E h \in HeadersOf(ToSet(here.loops[i])) :
            /\ CanReorderLoopTags(here, i, h)
            /\ Edited(p, ReorderLoopTags(here, i, h)) /\ reassigned' = reassigned
      BY <1>2, <1>6 DEF CallReorderLoopTags
    <2>2. PICK h \in HeadersOf(ToSet(here.loops[i])) :
            /\ CanReorderLoopTags(here, i, h)
            /\ Edited(p, ReorderLoopTags(here, i, h)) /\ reassigned' = reassigned
      BY <2>1
    <2>3. /\ IsList(h) /\ \A k \in DOMAIN h : h[k] \in ToSet(here.loops[i])
          /\ \A k, l \in DOMAIN h : h[k] = h[l] => k = l
      BY HeaderFacts
    <2>4. Tidy(here, even, placed, turn) => Tidy(ReorderLoopTags(here, i, h), even, placed, turn)
      <3> SUFFICES ASSUME Tidy(here, even, placed, turn)
                   PROVE  Tidy(ReorderLoopTags(here, i, h), even, placed, turn)
        OBVIOUS
      <3>1. IsList(here.loops[i])
        BY DEF Tidy, Balanced, Shaped, Columned
      <3>2. Permuted(here.loops[i], h)
        BY <2>2, <2>3, <3>1, HeaderPermuted
      <3>3. QED
        BY <2>3, <3>2, ReorderBalanced, ReorderPlaced, ReorderInTurn DEF Tidy
    <2>5. QED
      BY <1>2, <2>2, <2>4
  <1>7. CASE CallAddLoopRow(p)
    <2>1. PICK i, row : /\ i \in DOMAIN here.loops
                        /\ Edited(p, AddLoopRow(here, i, row)) /\ reassigned' = reassigned
      BY <1>2, <1>7 DEF CallAddLoopRow
    <2>2. Tidy(here, even, placed, turn) => Tidy(AddLoopRow(here, i, row), even, placed, turn)
      BY <2>1, AddLoopRowBalanced, AddLoopRowPlaced, AddLoopRowInTurn DEF Tidy
    <2>3. QED
      BY <1>2, <2>1, <2>2
  <1>8. CASE CallReassignTag(p)
    <2>1. PICK t, values : /\ values \in Column /\ CanReassignTag(here, t)
                           /\ Edited(p, ReassignTag(here, t, values)) /\ reassigned' = TRUE
      BY <1>2, <1>8 DEF CallReassignTag
    <2>2. IsList(values) /\ ~even
      BY <2>1, ColumnIsList
    <2>3. Tidy(here, even, placed, turn) => Tidy(ReassignTag(here, t, values), even, placed, turn)
      BY <2>1, <2>2, ReassignBalanced, ReassignPlaced, ReassignInTurn DEF Tidy
    <2>4. QED
      BY <1>2, <2>1, <2>3
  <1>9. CASE CallDeleteTag(p)
    <2>1. PICK t : CanDeleteTag(here, t) /\ Edited(p, DeleteTag(here, t))
      BY <1>2, <1>9 DEF CallDeleteTag
    <2>2. Tidy(here, even, placed, turn) => Tidy(DeleteTag(here, t), even, placed, turn)
      BY <2>1, DeleteTagBalanced, DeleteTagPlaced, DeleteTagInTurn DEF Tidy
    <2>3. QED
      BY <1>2, <2>1, <2>2
  <1>10. CASE CallRemoveLoopTag(p)
    <2>1. PICK i, t : /\ i \in DOMAIN here.loops /\ t \in ToSet(here.loops[i])
                      /\ Edited(p, RemoveLoopTag(here, i, t)) /\ reassigned' = reassigned
      BY <1>2, <1>10 DEF CallRemoveLoopTag
    <2>2. PICK k \in DOMAIN here.loops[i] : t = here.loops[i][k]
      BY <2>1 DEF ToSet
    <2>3. Tidy(here, even, placed, turn) => Tidy(RemoveLoopTag(here, i, t), even, placed, turn)
      BY <2>1, <2>2, RemoveLoopTagBalanced, RemoveLoopTagPlaced, RemoveLoopTagInTurn DEF Tidy
    <2>4. QED
      BY <1>2, <2>1, <2>3
  <1>11. QED
    BY <1>1, <1>3, <1>4, <1>5, <1>6, <1>7, <1>8, <1>9, <1>10

LEMMA NothingIsTidy ==
    ASSUME NEW even, NEW placed, NEW turn
    PROVE  Tidy(NoData, even, placed, turn)
  <1>1. NoData.order = <<>> /\ NoData.tags = <<>> /\ NoData.loops = <<>>
    BY DEF NoData
  <1>2. DOMAIN <<>> = {} /\ <<>> \in Seq({})
    OBVIOUS
  <1>3. IsList(<<>>)
    BY <1>2, IsListOver
  <1>4. Placed(NoData)
    BY <1>1, <1>2, <1>3 DEF Placed, Listed, Together
  <1>5. InTurn(NoData)
    BY <1>1, <1>2 DEF InTurn, Ranked, Filled
  <1>6. QED
    BY <1>4, <1>5, NothingIsBalanced DEF Tidy

-----------------------------------------------------------------------------
(***************************************************************************)
(* The calls, on files.                                                    *)
(***************************************************************************)
LEMMA FramesChanged ==
    ASSUME NEW f, FileInv(f), NEW i, NEW frames, NEW g, g = Reframed(f, i, frames)
    PROVE  /\ DOMAIN g.list = DOMAIN f.list
           /\ \A j \in DOMAIN f.list : /\ g.list[j].data = f.list[j].data
                                       /\ g.list[j].frames = IF j = i THEN frames ELSE f.list[j].frames
  <1>1. f = [list |-> f.list, named |-> f.named]
    BY DEF FileInv, DirInv, IsDirectory
  <1>2. g = Changed(f, i, "frames", frames)
    BY <1>1 DEF Reframed, Changed
  <1>3. /\ DOMAIN g.list = DOMAIN f.list
        /\ \A j \in DOMAIN f.list : \A x \in BlockFields :
             g.list[j][x] = IF j = i /\ x = "frames" THEN frames ELSE f.list[j][x]
    <2>1. DirInv(f, BlockFields) /\ BlockFields \in Fields /\ "frames" \in {"data", "frames"}
      BY FieldsOfObjects DEF FileInv
    <2>2. QED
      BY <1>2, <2>1, ChangeKeeps
  <1>4. "frames" \in BlockFields /\ "data" \in BlockFields
    BY DEF BlockFields
  <1>5. QED
    BY <1>3, <1>4

LEMMA FramesTidy ==
    ASSUME NEW even, NEW placed, NEW turn, NEW f, FileInv(f), FileTidy(f, even, placed, turn),
           NEW i, NEW frames, i \in DOMAIN f.list => AllTidy(frames, even, placed, turn)
    PROVE  FileTidy(Reframed(f, i, frames), even, placed, turn)
  <1>1. PICK g : g = Reframed(f, i, frames)
    OBVIOUS
  <1>2. /\ DOMAIN g.list = DOMAIN f.list
        /\ \A j \in DOMAIN f.list : /\ g.list[j].data = f.list[j].data
                                    /\ g.list[j].frames = IF j = i THEN frames ELSE f.list[j].frames
    BY <1>1, FramesChanged
  <1>3. AllTidy(g, even, placed, turn)
    BY <1>2 DEF FileTidy, AllTidy
  <1>4. ASSUME NEW j \in DOMAIN f.list PROVE AllTidy(g.list[j].frames, even, placed, turn)
    <2>1. AllTidy(f.list[j].frames, even, placed, turn)
      BY DEF FileTidy
    <2>2. QED
      BY <1>2, <2>1
  <1>5. QED
    BY <1>1, <1>2, <1>3, <1>4 DEF FileTidy

LEMMA DataTidy ==
    ASSUME NEW even, NEW placed, NEW turn, NEW f, FileInv(f), FileTidy(f, even, placed, turn),
           NEW p, NEW d, Tidy(DataAt(f, p), even, placed, turn) => Tidy(d, even, placed, turn)
    PROVE  FileTidy(WithData(f, p, d), even, placed, turn)
  <1>1. f = [list |-> f.list, named |-> f.named]
    BY DEF FileInv, DirInv, IsDirectory
  <1>2. CASE p[2] = 0
    <2>1. PICK g : g = Changed(f, p[1], "data", d)
      OBVIOUS
    <2>2. WithData(f, p, d) = g
      BY <1>1, <1>2, <2>1 DEF WithData, Changed
    <2>3. /\ DOMAIN g.list = DOMAIN f.list
          /\ \A j \in DOMAIN f.list : \A x \in BlockFields :
               g.list[j][x] = IF j = p[1] /\ x = "data" THEN d ELSE f.list[j][x]
      <3>1. DirInv(f, BlockFields) /\ BlockFields \in Fields /\ "data" \in {"data", "frames"}
        BY FieldsOfObjects DEF FileInv
      <3>2. QED
        BY <2>1, <3>1, ChangeKeeps
    <2>4. \A j \in DOMAIN f.list : /\ g.list[j].frames = f.list[j].frames
                                   /\ g.list[j].data = IF j = p[1] THEN d ELSE f.list[j].data
      <3>1. "frames" \in BlockFields /\ "data" \in BlockFields
        BY DEF BlockFields
      <3>2. QED
        BY <2>3, <3>1
    <2>5. p[1] \in DOMAIN f.list => Tidy(d, even, placed, turn)
      BY <1>2 DEF DataAt, FileTidy, AllTidy
    <2>6. AllTidy(g, even, placed, turn)
      BY <2>3, <2>4, <2>5 DEF FileTidy, AllTidy
    <2>7. \A j \in DOMAIN g.list : AllTidy(g.list[j].frames, even, placed, turn)
      BY <2>3, <2>4 DEF FileTidy
    <2>8. QED
      BY <2>2, <2>6, <2>7 DEF FileTidy
  <1>3. CASE p[2] # 0
    <2>1. PICK old : old = f.list[p[1]].frames
      OBVIOUS
    <2>2. PICK frames : frames = [old EXCEPT !.list[p[2]].data = d]
      OBVIOUS
    <2>3. WithData(f, p, d) = Reframed(f, p[1], frames)
      BY <1>3, <2>1, <2>2 DEF WithData, Reframed
    <2>4. ASSUME p[1] \in DOMAIN f.list PROVE AllTidy(frames, even, placed, turn)
      <3>1. DirInv(old, FrameFields) /\ AllTidy(old, even, placed, turn)
        BY <2>1, <2>4 DEF FileInv, FileTidy
      <3>2. old = [list |-> old.list, named |-> old.named]
        BY <3>1 DEF DirInv, IsDirectory
      <3>3. frames = Changed(old, p[2], "data", d)
        BY <2>2, <3>2 DEF Changed
      <3>4. /\ DOMAIN frames.list = DOMAIN old.list
            /\ \A j \in DOMAIN old.list : \A x \in FrameFields :
                 frames.list[j][x] = IF j = p[2] /\ x = "data" THEN d ELSE old.list[j][x]
        <4>1. FrameFields \in Fields /\ "data" \in {"data", "frames"}
          BY FieldsOfObjects
        <4>2. QED
          BY <3>1, <3>3, <4>1, ChangeKeeps
      <3>5. \A j \in DOMAIN old.list : frames.list[j].data = IF j = p[2] THEN d ELSE old.list[j].data
        BY <3>4 DEF FrameFields
      <3>6. p[2] \in DOMAIN old.list => Tidy(d, even, placed, turn)
        BY <1>3, <2>1, <3>1 DEF DataAt, AllTidy
      <3>7. QED
        BY <3>1, <3>4, <3>5, <3>6 DEF AllTidy
    <2>5. QED
      BY <2>3, <2>4, FramesTidy
  <1>4. QED
    BY <1>2, <1>3

LEMMA BlocksTidy ==
    ASSUME NEW even, NEW placed, NEW turn, FileInv(file), FileTidy(file, even, placed, turn),
           CallAddBlock \/ CallRemoveBlock \/ CallRenameBlock
    PROVE  FileTidy(file', even, placed, turn) /\ reassigned' = reassigned
  <1>1. CASE CallAddBlock
    <2>1. PICK n : RefiledTo(Add(file, NewBlock(file, n)))
      BY <1>1 DEF CallAddBlock, RefiledTo
    <2>2. PICK new : new = NewBlock(file, n)
      OBVIOUS
    <2>3. file' = Add(file, new) /\ reassigned' = reassigned
      BY <2>1, <2>2 DEF RefiledTo, Refiled
    <2>4. new.data = NoData /\ new.frames = Empty
      BY <2>2 DEF NewBlock
    <2>5. file'.list = Append(file.list, new)
      BY <2>3 DEF Add
    <2>6. IsList(file.list)
      BY DEF FileInv, DirInv, IsDirectory, IsList
    <2>7. \A i \in DOMAIN file'.list : \/ i \in DOMAIN file.list /\ file'.list[i] = file.list[i]
                                       \/ file'.list[i] = new
      BY <2>5, <2>6, ListFacts, Appended
    <2>8. AllTidy(Empty, even, placed, turn)
      BY DEF AllTidy, Empty
    <2>9. QED
      BY <2>3, <2>4, <2>7, <2>8, NothingIsTidy DEF FileTidy, AllTidy
  <1>2. CASE CallRemoveBlock
    <2>1. PICK n \in DOMAIN file.named, fromEnd \in BOOLEAN : RefiledTo(RemoveNamed(file, n, fromEnd))
      BY <1>2 DEF CallRemoveBlock, RefiledTo
    <2>2. file' = RemoveNamed(file, n, fromEnd) /\ reassigned' = reassigned
      BY <2>1 DEF RefiledTo, Refiled
    <2>3. \A i \in DOMAIN file'.list : \E j \in DOMAIN file.list : file'.list[i] = file.list[j]
      BY <2>2, RemoveKeeps DEF FileInv
    <2>4. QED
      BY <2>2, <2>3 DEF FileTidy, AllTidy
  <1>3. CASE CallRenameBlock
    <2>1. PICK old, new : CanRename(file, old, new) /\ RefiledTo(Rename(file, old, new))
      BY <1>3 DEF CallRenameBlock, RefiledTo
    <2>2. file' = Rename(file, old, new) /\ reassigned' = reassigned
      BY <2>1 DEF RefiledTo, Refiled
    <2>3. /\ DOMAIN file'.list = DOMAIN file.list
          /\ \A j \in DOMAIN file.list : \A x \in BlockFields \ {"name"} : file'.list[j][x] = file.list[j][x]
      BY <2>1, <2>2, RenameKeeps, FieldsOfObjects DEF FileInv
    <2>4. \A j \in DOMAIN file.list : /\ file'.list[j].frames = file.list[j].frames
                                      /\ file'.list[j].data = file.list[j].data
      BY <2>3 DEF BlockFields
    <2>5. QED
      BY <2>2, <2>3, <2>4 DEF FileTidy, AllTidy
  <1>4. QED
    BY <1>1, <1>2, <1>3

LEMMA SaveFramesTidy ==
    ASSUME NEW even, NEW placed, NEW turn, FileInv(file), FileTidy(file, even, placed, turn),
           CallAddSaveFrame \/ CallRemoveSaveFrame \/ CallRenameSaveFrame
    PROVE  FileTidy(file', even, placed, turn) /\ reassigned' = reassigned
  <1>1. CASE CallAddSaveFrame
    <2>1. PICK i, n : /\ i \in DOMAIN file.list
                      /\ RefiledTo(WithFrames(i, Add(file.list[i].frames, NewFrame(file.list[i].frames, n))))
      BY <1>1 DEF CallAddSaveFrame, RefiledTo
    <2>2. PICK old : old = file.list[i].frames
      OBVIOUS
    <2>3. PICK new : new = NewFrame(old, n)
      OBVIOUS
    <2>4. PICK frames : frames = Add(old, new)
      OBVIOUS
    <2>5. file' = Reframed(file, i, frames) /\ reassigned' = reassigned
      BY <2>1, <2>2, <2>3, <2>4 DEF RefiledTo, Refiled, WithFrames, Reframed
    <2>6. new.data = NoData
      BY <2>3 DEF NewFrame
    <2>7. DirInv(old, FrameFields) /\ AllTidy(old, even, placed, turn)
      BY <2>1, <2>2 DEF FileInv, FileTidy
    <2>8. frames.list = Append(old.list, new)
      BY <2>4 DEF Add
    <2>9. IsList(old.list)
      BY <2>7 DEF DirInv, IsDirectory, IsList
    <2>10. \A k \in DOMAIN frames.list : \/ k \in DOMAIN old.list /\ frames.list[k] = old.list[k]
                                         \/ frames.list[k] = new
      BY <2>8, <2>9, ListFacts, Appended
    <2>11. AllTidy(frames, even, placed, turn)
      BY <2>6, <2>7, <2>10, NothingIsTidy DEF AllTidy
    <2>12. QED
      BY <2>5, <2>11, FramesTidy
  <1>2. CASE CallRemoveSaveFrame
    <2>1. PICK i, fromEnd, n :
              /\ i \in DOMAIN file.list /\ fromEnd \in BOOLEAN /\ n \in DOMAIN file.list[i].frames.named
              /\ RefiledTo(WithFrames(i, RemoveNamed(file.list[i].frames, n, fromEnd)))
      BY <1>2 DEF CallRemoveSaveFrame, RefiledTo
    <2>2. PICK old : old = file.list[i].frames
      OBVIOUS
    <2>3. PICK frames : frames = RemoveNamed(old, n, fromEnd)
      OBVIOUS
    <2>4. file' = Reframed(file, i, frames) /\ reassigned' = reassigned
      BY <2>1, <2>2, <2>3 DEF RefiledTo, Refiled, WithFrames, Reframed
    <2>5. DirInv(old, FrameFields) /\ AllTidy(old, even, placed, turn)
      BY <2>1, <2>2 DEF FileInv, FileTidy
    <2>6. \A k \in DOMAIN frames.list : \E j \in DOMAIN old.list : frames.list[k] = old.list[j]
      BY <2>1, <2>2, <2>3, <2>5, RemoveKeeps
    <2>7. AllTidy(frames, even, placed, turn)
      BY <2>5, <2>6 DEF AllTidy
    <2>8. QED
      BY <2>4, <2>7, FramesTidy
  <1>3. CASE CallRenameSaveFrame
    <2>1. PICK i, m, n :
              /\ i \in DOMAIN file.list
              /\ CanRename(file.list[i].frames, m, n)
              /\ RefiledTo(WithFrames(i, Rename(file.list[i].frames, m, n)))
      BY <1>3 DEF CallRenameSaveFrame, RefiledTo
    <2>2. PICK old : old = file.list[i].frames
      OBVIOUS
    <2>3. PICK frames : frames = Rename(old, m, n)
      OBVIOUS
    <2>4. file' = Reframed(file, i, frames) /\ reassigned' = reassigned
      BY <2>1, <2>2, <2>3 DEF RefiledTo, Refiled, WithFrames, Reframed
    <2>5. DirInv(old, FrameFields) /\ AllTidy(old, even, placed, turn)
      BY <2>1, <2>2 DEF FileInv, FileTidy
    <2>6. /\ DOMAIN frames.list = DOMAIN old.list
          /\ \A k \in DOMAIN old.list : \A x \in FrameFields \ {"name"} : frames.list[k][x] = old.list[k][x]
      BY <2>1, <2>2, <2>3, <2>5, RenameKeeps, FieldsOfObjects
    <2>7. AllTidy(frames, even, placed, turn)
      BY <2>5, <2>6 DEF AllTidy, FrameFields
    <2>8. QED
      BY <2>4, <2>7, FramesTidy
  <1>4. QED
    BY <1>1, <1>2, <1>3

LEMMA TidyStep ==
    ASSUME NEW even, NEW placed, NEW turn, FileInv(file), FileTidy(file, even, placed, turn), even => ~reassigned',
           Next, cleaned' = <<>>
    PROVE  FileTidy(file', even, placed, turn)
  <1>1. CASE EditNamespace
    <2>1. PICK p, d : Edited(p, d) /\ (Tidy(DataAt(file, p), even, placed, turn) => Tidy(d, even, placed, turn))
      BY <1>1, EditedTidy
    <2>2. file' = WithData(file, p, d)
      BY <2>1 DEF Edited
    <2>3. QED
      BY <2>1, <2>2, DataTidy
  <1>2. CASE CallAddBlock \/ CallRemoveBlock \/ CallRenameBlock
    BY <1>2, BlocksTidy
  <1>3. CASE CallAddSaveFrame \/ CallRemoveSaveFrame \/ CallRenameSaveFrame
    BY <1>3, SaveFramesTidy
  <1>4. ~CallClean
    <2>1. CallClean => \E x : cleaned' = <<x>>
      BY DEF CallClean
    <2>2. QED
      BY <2>1
  <1>5. QED
    BY <1>1, <1>2, <1>3, <1>4 DEF Next

LEMMA OnceReassigned ==
    ASSUME Next
    PROVE  reassigned' = reassigned \/ reassigned' = TRUE
  <1>1. CASE EditNamespace
    <2>1. PICK p : \/ CallSetTag(p) \/ CallAddLoop(p) \/ CallAddLoopColumn(p) \/ CallReorderLoopTags(p)
                   \/ CallAddLoopRow(p) \/ CallReassignTag(p) \/ CallDeleteTag(p) \/ CallRemoveLoopTag(p)
      BY <1>1 DEF EditNamespace
    <2>2. QED
      BY <2>1 DEF CallSetTag, CallAddLoop, CallAddLoopColumn, CallReorderLoopTags,
                  CallAddLoopRow, CallReassignTag, CallDeleteTag, CallRemoveLoopTag
  <1>2. CASE CallAddBlock \/ CallRemoveBlock \/ CallRenameBlock
    BY <1>2 DEF CallAddBlock, CallRemoveBlock, CallRenameBlock, Refiled
  <1>3. CASE CallAddSaveFrame \/ CallRemoveSaveFrame \/ CallRenameSaveFrame
    BY <1>3 DEF CallAddSaveFrame, CallRemoveSaveFrame, CallRenameSaveFrame, Refiled
  <1>4. CASE CallClean
    BY <1>4 DEF CallClean
  <1>5. QED
    BY <1>1, <1>2, <1>3, <1>4 DEF Next

LEMMA SettingKept ==
    ASSUME Next
    PROVE  setting' = setting /\ (duplicates \in BOOLEAN => duplicates' \in BOOLEAN)
  <1>1. CASE EditNamespace
    <2>1. \E p, d : Edited(p, d)
      BY <1>1, EditedTidy
    <2>2. QED
      BY <2>1 DEF Edited
  <1>2. CASE CallAddBlock \/ CallRemoveBlock \/ CallRenameBlock
    BY <1>2 DEF CallAddBlock, CallRemoveBlock, CallRenameBlock, Refiled
  <1>3. CASE CallAddSaveFrame \/ CallRemoveSaveFrame \/ CallRenameSaveFrame
    BY <1>3 DEF CallAddSaveFrame, CallRemoveSaveFrame, CallRenameSaveFrame, Refiled
  <1>4. CASE CallClean
    BY <1>4 DEF CallClean
  <1>5. QED
    BY <1>1, <1>2, <1>3, <1>4 DEF Next

LEMMA LessEven ==
    ASSUME NEW f, NEW even, NEW placed, NEW turn, FileTidy(f, even, placed, turn), NEW less, less => even
    PROVE  FileTidy(f, less, placed, turn)
  <1>1. \A d : Tidy(d, even, placed, turn) => Tidy(d, less, placed, turn)
    BY DEF Tidy, Balanced, Shaped
  <1>2. QED
    BY <1>1 DEF FileTidy, AllTidy

-----------------------------------------------------------------------------
(***************************************************************************)
(* The namespaces, in every behaviour of the calls that edit.              *)
(***************************************************************************)

\* What _validate_namespace asks of the numbers of values of a namespace.
Even(d) ==
    /\ "unequal columns" \notin ValidationErrors(d, "2.0")
    /\ \A t \in DOMAIN d.tags \ LoopTags(d) : Len(d.tags[t]) = 1

LEMMA BalancedIsEven ==
    ASSUME NEW d, Balanced(d, TRUE)
    PROVE  Even(d)
  <1>1. \A i \in DOMAIN d.loops : Rectangular(d, i)
    BY DEF Balanced, Shaped, Lengths, Rectangular, ToSet
  <1>2. "unequal columns" \notin ValidationErrors(d, "2.0")
    BY <1>1 DEF ValidationErrors
  <1>3. \A t : InLoop(d.loops, t) => t \in LoopTags(d)
    BY DEF InLoop, LoopTags
  <1>4. \A t \in DOMAIN d.tags \ LoopTags(d) : Len(d.tags[t]) = 1
    BY <1>3 DEF Balanced, Shaped, Lengths
  <1>5. QED
    BY <1>2, <1>4 DEF Even

LEMMA TidyEverywhere ==
    ASSUME NEW even, NEW placed, NEW turn, FileTidy(file, even, placed, turn)
    PROVE  \A d \in Data(file) : Tidy(d, even, placed, turn)
  <1>1. \A dir \in Directories(file) : AllTidy(dir, even, placed, turn)
    BY DEF FileTidy, Directories
  <1>2. QED
    BY <1>1 DEF Data, AllTidy

\* However a file is edited, one whose loops have even columns, each tag in one of them
\* at most, and whose other tags have one value stays so until reassign_tag is called:
\* build() then never rejects a namespace for its numbers of values (_validate_namespace).
THEOREM EditsStayEven ==
    EditsSpec /\ (~reassigned => FileTidy(file, TRUE, FALSE, FALSE))
        => [](~reassigned => \A d \in Data(file) : Even(d))
  <1> DEFINE Inv == LookupsInv /\ (~reassigned => FileTidy(file, TRUE, FALSE, FALSE))
  <1>1. Init /\ (~reassigned => FileTidy(file, TRUE, FALSE, FALSE)) => Inv
    BY LookupsInit
  <1>2. Inv /\ [Next /\ cleaned' = <<>>]_vars => Inv'
    <2> SUFFICES ASSUME Inv, [Next /\ cleaned' = <<>>]_vars PROVE Inv'
      OBVIOUS
    <2>1. CASE UNCHANGED vars
      BY <2>1 DEF LookupsInv, FileInv, Exact, FileTidy, AllTidy, vars
    <2>2. CASE Next /\ cleaned' = <<>>
      <3>1. LookupsInv'
        BY <2>2, LookupsStep
      <3>2. ASSUME ~reassigned' PROVE FileTidy(file', TRUE, FALSE, FALSE)
        <4>1. FileTidy(file, TRUE, FALSE, FALSE)
          BY <2>2, <3>2, OnceReassigned
        <4>2. FileInv(file)
          BY DEF LookupsInv
        <4>3. QED
          BY <2>2, <3>2, <4>1, <4>2, TidyStep
      <3>3. QED
        BY <3>1, <3>2 DEF FileTidy, AllTidy
    <2>3. QED
      BY <2>1, <2>2
  <1>3. Inv => (~reassigned => \A d \in Data(file) : Even(d))
    BY TidyEverywhere, BalancedIsEven DEF Tidy
  <1> HIDE DEF Inv
  <1>4. QED
    BY <1>1, <1>2, <1>3, PTL DEF EditsSpec

NamespacesInv == LookupsInv /\ FileTidy(file, ~reassigned, TRUE, FALSE)

LEMMA NamespacesStep ==
    ASSUME NamespacesInv, Next, cleaned' = <<>>
    PROVE  NamespacesInv'
  <1>1. PICK now : now = ~reassigned
    OBVIOUS
  <1>2. PICK next : next = ~reassigned'
    OBVIOUS
  <1>3. FileInv(file) /\ FileTidy(file, now, TRUE, FALSE)
    BY <1>1 DEF NamespacesInv, LookupsInv
  <1>4. next => now
    BY <1>1, <1>2, OnceReassigned
  <1>5. FileTidy(file, next, TRUE, FALSE)
    BY <1>3, <1>4, LessEven
  <1>6. FileTidy(file', next, TRUE, FALSE)
    BY <1>2, <1>3, <1>5, TidyStep
  <1>7. LookupsInv'
    BY LookupsStep DEF NamespacesInv
  <1>8. QED
    BY <1>2, <1>6, <1>7 DEF NamespacesInv, FileTidy, AllTidy, Tidy, Balanced, Shaped

\* Nothing is listed twice, and what a name looks up is listed.
LEMMA ListedOnce ==
    ASSUME FileInv(file), NEW dir \in Directories(file)
    PROVE  /\ Distinct(dir)
           /\ \A n \in DOMAIN dir.named : dir.named[n] \in {dir.list[i].id : i \in DOMAIN dir.list}
  <1>1. PICK fields : DirInv(dir, fields)
    BY DEF FileInv, Directories
  <1>2. \A n \in DOMAIN dir.named : \E i \in DOMAIN dir.list : dir.list[i].id = dir.named[n]
    BY <1>1 DEF DirInv, LookupsSound, Places
  <1>3. Distinct(dir)
    BY <1>1 DEF DirInv
  <1>4. QED
    BY <1>2, <1>3

LEMMA TagsOfPlaced ==
    ASSUME NEW d, NEW even, Tidy(d, even, TRUE, FALSE)
    PROVE  ToSet(d.order) = DOMAIN d.tags /\ LoopTags(d) \subseteq DOMAIN d.tags
  <1>1. ToSet(d.order) = DOMAIN d.tags
    <2>1. \A k \in DOMAIN d.order : d.order[k] \in DOMAIN d.tags
      BY DEF Tidy, Placed, Listed
    <2>2. \A t \in DOMAIN d.tags : \E k \in DOMAIN d.order : d.order[k] = t
      BY DEF Tidy, Placed, Listed
    <2>3. QED
      BY <2>1, <2>2 DEF ToSet
  <1>2. \A i \in DOMAIN d.loops : \A k \in DOMAIN d.loops[i] : d.loops[i][k] \in DOMAIN d.tags
    BY DEF Tidy, Balanced, Shaped, Columned
  <1>3. LoopTags(d) \subseteq DOMAIN d.tags
    BY <1>2 DEF LoopTags
  <1>4. QED
    BY <1>1, <1>3

LEMMA NamespacesAlways == EditsSpec /\ FileTidy(file, ~reassigned, TRUE, FALSE) => []NamespacesInv
  <1>1. Init /\ FileTidy(file, ~reassigned, TRUE, FALSE) => NamespacesInv
    BY LookupsInit DEF NamespacesInv
  <1>2. NamespacesInv /\ [Next /\ cleaned' = <<>>]_vars => NamespacesInv'
    <2>1. CASE UNCHANGED vars
      BY <2>1 DEF NamespacesInv, LookupsInv, FileInv, Exact, FileTidy, AllTidy, vars
    <2>2. QED
      BY <2>1, NamespacesStep
  <1>3. QED
    BY <1>1, <1>2, PTL DEF EditsSpec

\* `tags` lists the tags a namespace holds, no more and no fewer, whatever the calls of a
\* writer that began with such namespaces (SaveFrameWriter.tags).  Of a file in which the
\* tags of a loop do not follow one another it does not hold: reorder_loop_tags loses tags.
THEOREM TagsStayListed == EditsSpec /\ FileTidy(file, ~reassigned, TRUE, FALSE) => []TagsAreListed
  <1>1. NamespacesInv => TagsAreListed
    BY TidyEverywhere, TagsOfPlaced DEF NamespacesInv, TagsAreListed
  <1>2. QED
    BY <1>1, NamespacesAlways, PTL

LEMMA EvenIsValid ==
    ASSUME NEW d, Tidy(d, TRUE, TRUE, FALSE)
    PROVE  ValidationErrors(d, "2.0") \cap {"unequal columns", "not one value"} = {}
  <1>1. Even(d)
    BY BalancedIsEven DEF Tidy
  <1>2. ToSet(d.order) = DOMAIN d.tags
    BY TagsOfPlaced
  <1>3. "not one value" \notin ValidationErrors(d, "2.0")
    BY <1>1, <1>2 DEF Even, ValidationErrors
  <1>4. QED
    BY <1>1, <1>3 DEF Even

\* Only reassign_tag can leave what build() rejects for its numbers of values: the other
\* calls keep the columns of a loop even and scalars single (_validate_namespace).
THEOREM OnlyReassign == EditsSpec /\ FileTidy(file, ~reassigned, TRUE, FALSE) => []OnlyReassignUnbalances
  <1>1. ASSUME NamespacesInv, ~reassigned, NEW d \in Data(file)
        PROVE  ValidationErrors(d, "2.0") \cap {"unequal columns", "not one value"} = {}
    <2>1. FileTidy(file, TRUE, TRUE, FALSE)
      BY <1>1 DEF NamespacesInv
    <2>2. Tidy(d, TRUE, TRUE, FALSE)
      BY <2>1, TidyEverywhere
    <2>3. QED
      BY <2>2, EvenIsValid
  <1>2. NamespacesInv => OnlyReassignUnbalances
    BY <1>1 DEF OnlyReassignUnbalances
  <1>3. QED
    BY <1>2, NamespacesAlways, PTL

OthersInv ==
    /\ setting \in DOMAIN Settings /\ cleaned = <<>>
    /\ duplicates \in BOOLEAN /\ reassigned \in BOOLEAN

LEMMA OthersAlways == EditsSpec => []OthersInv
  <1>1. Init => OthersInv
    BY DEF Init, OthersInv
  <1>2. OthersInv /\ [Next /\ cleaned' = <<>>]_vars => OthersInv'
    <2> SUFFICES ASSUME OthersInv, [Next /\ cleaned' = <<>>]_vars PROVE OthersInv'
      OBVIOUS
    <2>1. CASE UNCHANGED vars
      BY <2>1 DEF OthersInv, vars
    <2>2. CASE Next /\ cleaned' = <<>>
      <3>1. setting' = setting /\ duplicates' \in BOOLEAN
        BY <2>2, SettingKept DEF OthersInv
      <3>2. QED
        BY <2>2, <3>1, OnceReassigned DEF OthersInv
    <2>3. QED
      BY <2>1, <2>2
  <1>3. QED
    BY <1>1, <1>2, PTL DEF EditsSpec

\* No block of the file and no frame of a block is listed twice, and what a name looks up is
\* listed; every tag in the order or in a loop has values (writer.py).
THEOREM TypeCorrect == EditsSpec /\ FileTidy(file, ~reassigned, TRUE, FALSE) => []TypeOK
  <1>1. ASSUME NamespacesInv, OthersInv
        PROVE  TypeOK
    <2>1. FileInv(file)
      BY <1>1 DEF NamespacesInv, LookupsInv
    <2>2. \A dir \in Directories(file) :
            /\ Distinct(dir)
            /\ \A n \in DOMAIN dir.named : dir.named[n] \in {dir.list[i].id : i \in DOMAIN dir.list}
      BY <2>1, ListedOnce
    <2>3. \A d \in Data(file) : ToSet(d.order) \cup LoopTags(d) \subseteq DOMAIN d.tags
      <3>1. PICK even : FileTidy(file, even, TRUE, FALSE)
        BY <1>1 DEF NamespacesInv
      <3>2. QED
        BY <3>1, TidyEverywhere, TagsOfPlaced
    <2>4. QED
      BY <1>1, <2>2, <2>3 DEF TypeOK, OthersInv
  <1>2. NamespacesInv /\ OthersInv => TypeOK
    BY <1>1
  <1>3. QED
    BY <1>2, NamespacesAlways, OthersAlways, PTL

\* Also of a file that clean() has worked on: however it leaves the namespaces, if they are
\* as they should be then, no edit makes them otherwise.
THEOREM EditsKeepNamespaces == Spec => [][NamespacesInv /\ cleaned' = <<>> => NamespacesInv']_vars
  <1>1. [Next]_vars => [NamespacesInv /\ cleaned' = <<>> => NamespacesInv']_vars
    BY NamespacesStep DEF vars
  <1>2. QED
    BY <1>1, PTL DEF Spec

-----------------------------------------------------------------------------
(***************************************************************************)
(* The items of a namespace.  Where the tags of a loop stand together, an  *)
(* item starts at every tag but the later ones of the loops.               *)
(***************************************************************************)
Leads(L, t) == \A i \in DOMAIN L : \A k \in DOMAIN L[i] : L[i][k] = t => k = 1

Apart(L) == IsList(L) /\ OnceEach(L) /\ \A i \in DOMAIN L : IsList(L[i])

LEMMA LoopFound ==
    ASSUME NEW d, Apart(d.loops), NEW i \in DOMAIN d.loops,
           NEW k \in DOMAIN d.loops[i], NEW t, t = d.loops[i][k]
    PROVE  LoopOf(d, t) = i /\ i # 0
  <1>1. PICK I : I = {j \in 1 .. Len(d.loops) : t \in ToSet(d.loops[j])}
    OBVIOUS
  <1>2. DOMAIN d.loops = 1 .. Len(d.loops) /\ Len(d.loops) \in Nat
    BY ListFacts DEF Apart
  <1>3. ASSUME NEW j \in I
        PROVE  j = i
    <2>1. j \in DOMAIN d.loops /\ t \in ToSet(d.loops[j])
      BY <1>1, <1>2
    <2>2. PICK l \in DOMAIN d.loops[j] : d.loops[j][l] = t
      BY <2>1 DEF ToSet
    <2>3. QED
      BY <2>1, <2>2, OnlyOnce DEF Apart
  <1>4. t \in ToSet(d.loops[i])
    BY DEF ToSet
  <1>5. i \in I
    BY <1>1, <1>2, <1>4
  <1>6. I \subseteq 0 .. Len(d.loops)
    BY <1>1, <1>2
  <1>7. Max(I) \in I
    BY <1>2, <1>5, <1>6, MaxIsGreatest
  <1>8. Max(I) = i
    BY <1>3, <1>7
  <1>9. LoopOf(d, t) = Max(I)
    BY <1>1, <1>5 DEF LoopOf, SelectLastInSeq
  <1>10. QED
    BY <1>2, <1>8, <1>9

LEMMA NoLoopFound ==
    ASSUME NEW d, Apart(d.loops), NEW t, ~InLoop(d.loops, t)
    PROVE  LoopOf(d, t) = 0
  <1>1. PICK I : I = {j \in 1 .. Len(d.loops) : t \in ToSet(d.loops[j])}
    OBVIOUS
  <1>2. DOMAIN d.loops = 1 .. Len(d.loops)
    BY ListFacts DEF Apart
  <1>3. I = {}
    BY <1>1, <1>2 DEF InLoop, ToSet
  <1>4. QED
    BY <1>1, <1>3 DEF LoopOf, SelectLastInSeq

\* Two places of one tag are one.
LEMMA OnePlace ==
    ASSUME NEW o, NEW T, Listed(o, T), NEW j \in DOMAIN o, NEW k \in DOMAIN o, o[j] = o[k]
    PROVE  j = k
  BY DEF Listed

LEMMA LoopPlaces ==
    ASSUME NEW d, Apart(d.loops), Placed(d), NEW i \in DOMAIN d.loops
    PROVE  \E s \in Nat : /\ RunAt(d.order, d.loops[i], s) /\ 1 \in DOMAIN d.loops[i]
                          /\ \A k \in DOMAIN d.order : LoopOf(d, d.order[k]) = i =>
                                \E m \in DOMAIN d.loops[i] : k = s + m /\ d.order[k] = d.loops[i][m]
  <1>1. PICK s \in Nat : RunAt(d.order, d.loops[i], s) /\ 1 \in DOMAIN d.loops[i]
    BY DEF Placed, Together, Run
  <1>2. Listed(d.order, d.tags)
    BY DEF Placed
  <1>3. ASSUME NEW k \in DOMAIN d.order, LoopOf(d, d.order[k]) = i
        PROVE  \E m \in DOMAIN d.loops[i] : k = s + m /\ d.order[k] = d.loops[i][m]
    <2>1. DOMAIN d.loops = 1 .. Len(d.loops) /\ i # 0
      BY ListFacts DEF Apart
    <2>2. InLoop(d.loops, d.order[k])
      BY <1>3, <2>1, NoLoopFound
    <2>3. PICK j, m : j \in DOMAIN d.loops /\ m \in DOMAIN d.loops[j] /\ d.loops[j][m] = d.order[k]
      BY <2>2 DEF InLoop
    <2>4. j = i
      BY <1>3, <2>3, LoopFound
    <2>5. s + m \in DOMAIN d.order /\ d.order[s + m] = d.loops[i][m]
      BY <1>1, <2>3, <2>4 DEF RunAt
    <2>6. k = s + m
      BY <1>2, <2>3, <2>4, <2>5, OnePlace
    <2>7. QED
      BY <2>3, <2>4, <2>6
  <1>4. QED
    BY <1>1, <1>3

LEMMA StartsAre ==
    ASSUME NEW d, Apart(d.loops), Placed(d)
    PROVE  /\ Starts(d) = {k \in DOMAIN d.order : Leads(d.loops, d.order[k])}
           /\ Starts(d) \subseteq 1 .. Len(d.order) /\ Len(d.order) \in Nat
  <1>1. Len(d.order) \in Nat /\ DOMAIN d.order = 1 .. Len(d.order)
    BY ListFacts DEF Placed, Listed
  <1>2. ASSUME NEW k \in DOMAIN d.order
        PROVE  k \in Starts(d) <=> Leads(d.loops, d.order[k])
    <2>1. CASE ~InLoop(d.loops, d.order[k])
      <3>1. LoopOf(d, d.order[k]) = 0
        BY <2>1, NoLoopFound
      <3>2. Leads(d.loops, d.order[k])
        BY <2>1 DEF Leads, InLoop
      <3>3. QED
        BY <3>1, <3>2 DEF Starts
    <2>2. CASE InLoop(d.loops, d.order[k])
      <3>1. PICK i, m : i \in DOMAIN d.loops /\ m \in DOMAIN d.loops[i] /\ d.loops[i][m] = d.order[k]
        BY <2>2 DEF InLoop
      <3>2. LoopOf(d, d.order[k]) = i /\ i # 0
        BY <3>1, LoopFound
      <3>3. PICK s \in Nat :
              /\ RunAt(d.order, d.loops[i], s) /\ 1 \in DOMAIN d.loops[i]
              /\ \A l \in DOMAIN d.order : LoopOf(d, d.order[l]) = i =>
                    \E n \in DOMAIN d.loops[i] : l = s + n /\ d.order[l] = d.loops[i][n]
        BY <3>1, LoopPlaces
      <3>4. PICK h \in Nat : DOMAIN d.loops[i] = 1 .. h
        <4>1. IsList(d.loops[i])
          BY <3>1 DEF Apart
        <4>2. QED
          BY <4>1, ListFacts
      <3>5. k = s + m
        <4>1. PICK n \in DOMAIN d.loops[i] : k = s + n /\ d.order[k] = d.loops[i][n]
          BY <3>2, <3>3
        <4>2. n = m
          BY <3>1, <4>1, OnlyOnce DEF Apart
        <4>3. QED
          BY <4>1, <4>2
      <3>6. CASE m = 1
        <4>1. Leads(d.loops, d.order[k])
          BY <3>1, <3>6, OnlyOnce DEF Leads, Apart
        <4>2. ASSUME NEW j \in 1 .. k - 1
              PROVE  LoopOf(d, d.order[j]) # LoopOf(d, d.order[k])
          <5> SUFFICES ASSUME LoopOf(d, d.order[j]) = i PROVE FALSE
            BY <3>2
          <5>1. j \in DOMAIN d.order
            BY <1>1
          <5>2. PICK n \in DOMAIN d.loops[i] : j = s + n
            BY <3>3, <5>1
          <5>3. QED
            BY <3>4, <3>5, <3>6, <5>2
        <4>3. QED
          BY <4>1, <4>2 DEF Starts
      <3>7. CASE m # 1
        <4>1. ~Leads(d.loops, d.order[k])
          BY <3>1, <3>7 DEF Leads
        <4>2. m - 1 \in DOMAIN d.loops[i]
          BY <3>1, <3>4, <3>7
        <4>3. PICK j : j = s + (m - 1)
          OBVIOUS
        <4>4. j \in 1 .. k - 1
          <5>1. m \in Nat /\ m - 1 \in Nat /\ m - 1 # 0
            BY <3>1, <3>4, <4>2
          <5>2. QED
            BY <3>5, <4>3, <5>1
        <4>5. d.order[j] = d.loops[i][m - 1]
          BY <3>3, <4>2, <4>3 DEF RunAt
        <4>6. LoopOf(d, d.order[j]) = LoopOf(d, d.order[k])
          BY <3>1, <3>2, <4>2, <4>5, LoopFound
        <4>7. QED
          BY <3>2, <4>1, <4>4, <4>6 DEF Starts
      <3>8. QED
        BY <3>6, <3>7
    <2>3. QED
      BY <2>1, <2>2
  <1>3. Starts(d) \subseteq DOMAIN d.order
    BY DEF Starts
  <1>4. QED
    BY <1>1, <1>2, <1>3

LEMMA LoopItem ==
    ASSUME NEW d, Apart(d.loops), NEW i \in DOMAIN d.loops, NEW k \in DOMAIN d.loops[i],
           NEW p, d.order[p] = d.loops[i][k]
    PROVE  ItemAt(d, p) = ItemOf(d, d.loops[i], TRUE)
  <1>1. LoopOf(d, d.order[p]) = i /\ i # 0
    BY LoopFound
  <1>2. QED
    BY <1>1 DEF ItemAt

LEMMA ScalarItem ==
    ASSUME NEW d, Apart(d.loops), NEW p, ~InLoop(d.loops, d.order[p])
    PROVE  ItemAt(d, p) = ItemOf(d, <<d.order[p]>>, FALSE)
  <1>1. LoopOf(d, d.order[p]) = 0
    BY NoLoopFound
  <1>2. QED
    BY <1>1 DEF ItemAt

\* The item a tag belongs to is the same in e: the header of its loop and the values.
SameFor(d, e, t) ==
    /\ \A i \in DOMAIN d.loops : \A k \in DOMAIN d.loops[i] : d.loops[i][k] = t =>
            /\ \E j \in DOMAIN e.loops : e.loops[j] = d.loops[i]
            /\ \A l \in DOMAIN d.loops[i] : e.tags[d.loops[i][l]] = d.tags[d.loops[i][l]]
    /\ ~InLoop(d.loops, t) => ~InLoop(e.loops, t) /\ e.tags[t] = d.tags[t]

LEMMA SameItem ==
    ASSUME NEW d, Apart(d.loops), NEW e, Apart(e.loops), NEW p, NEW q, e.order[q] = d.order[p],
           SameFor(d, e, d.order[p])
    PROVE  ItemAt(e, q) = ItemAt(d, p)
  <1>1. PICK t : t = d.order[p]
    OBVIOUS
  <1>2. CASE InLoop(d.loops, t)
    <2>1. PICK i, k : i \in DOMAIN d.loops /\ k \in DOMAIN d.loops[i] /\ d.loops[i][k] = t
      BY <1>2 DEF InLoop
    <2>2. PICK h : h = d.loops[i]
      OBVIOUS
    <2>3. \A l \in DOMAIN h : e.tags[h[l]] = d.tags[h[l]]
      BY <1>1, <2>1, <2>2 DEF SameFor
    <2>4. PICK j \in DOMAIN e.loops : e.loops[j] = h
      BY <1>1, <2>1, <2>2 DEF SameFor
    <2>5. ItemAt(d, p) = ItemOf(d, h, TRUE)
      BY <1>1, <2>1, <2>2, LoopItem
    <2>6. ItemAt(e, q) = ItemOf(e, h, TRUE)
      <3>1. k \in DOMAIN e.loops[j] /\ e.order[q] = e.loops[j][k]
        BY <1>1, <2>1, <2>2, <2>4
      <3>2. ItemAt(e, q) = ItemOf(e, e.loops[j], TRUE)
        BY <3>1, LoopItem
      <3>3. QED
        BY <2>4, <3>2
    <2>7. [l \in DOMAIN h |-> e.tags[h[l]]] = [l \in DOMAIN h |-> d.tags[h[l]]]
      BY <2>3
    <2>8. QED
      BY <2>5, <2>6, <2>7 DEF ItemOf
  <1>3. CASE ~InLoop(d.loops, t)
    <2>1. ~InLoop(e.loops, t) /\ e.tags[t] = d.tags[t]
      BY <1>1, <1>3 DEF SameFor
    <2>2. ItemAt(d, p) = ItemOf(d, <<t>>, FALSE) /\ ItemAt(e, q) = ItemOf(e, <<t>>, FALSE)
      BY <1>1, <1>3, <2>1, ScalarItem
    <2>3. \A l \in DOMAIN <<t>> : <<t>>[l] = t
      OBVIOUS
    <2>4. [l \in DOMAIN <<t>> |-> e.tags[<<t>>[l]]] = [l \in DOMAIN <<t>> |-> d.tags[<<t>>[l]]]
      BY <2>1, <2>3
    <2>5. QED
      BY <2>2, <2>4 DEF ItemOf
  <1>4. QED
    BY <1>2, <1>3

\* The items as a list over the starts, in whatever way these are listed.
LEMMA ItemsListed ==
    ASSUME NEW d, Apart(d.loops), Placed(d), NEW o, Sorts(o, Starts(d))
    PROVE  /\ Items(d) = [n \in DOMAIN o |-> ItemAt(d, o[n])]
           /\ Len(Items(d)) = Len(o) /\ Len(o) \in Nat /\ DOMAIN o = 1 .. Len(o)
           /\ DOMAIN Items(d) = DOMAIN o
           /\ \A n \in DOMAIN o : o[n] \in Starts(d) /\ o[n] \in DOMAIN d.order /\ Items(d)[n] = ItemAt(d, o[n])
  <1>1. Sorts(InOrder(Starts(d)), Starts(d))
    BY StartsAre, InOrderSorts
  <1>2. InOrder(Starts(d)) = o
    BY <1>1, SortedOnce
  <1>3. Items(d) = [n \in DOMAIN o |-> ItemAt(d, o[n])]
    BY <1>2 DEF Items
  <1>4. Len(o) \in Nat /\ DOMAIN o = 1 .. Len(o)
    BY ListFacts DEF Sorts
  <1>5. Len(Items(d)) = Len(o)
    BY <1>3, <1>4
  <1>6. \A n \in DOMAIN o : o[n] \in Starts(d) /\ o[n] \in DOMAIN d.order
    BY DEF Sorts, Starts
  <1>7. QED
    BY <1>3, <1>4, <1>5, <1>6

LEMMA StartsListed ==
    ASSUME NEW d, Apart(d.loops), Placed(d)
    PROVE  \E o : Sorts(o, Starts(d))
  BY StartsAre, InOrderSorts

\* No tag occurs twice in the items.
LEMMA ItemsWellFormed ==
    ASSUME NEW d, Apart(d.loops), Placed(d)
    PROVE  D!WellFormed(Items(d))
  <1>1. PICK o : Sorts(o, Starts(d))
    BY StartsListed
  <1>2. PICK items : items = Items(d)
    OBVIOUS
  <1>3. DOMAIN items = DOMAIN o /\ \A n \in DOMAIN o : o[n] \in DOMAIN d.order /\ items[n] = ItemAt(d, o[n])
    BY <1>1, <1>2, ItemsListed
  <1>4. \A m, n \in DOMAIN o : o[m] = o[n] => m = n
    <2>1. Len(o) \in Nat /\ DOMAIN o = 1 .. Len(o)
      BY <1>1, ListFacts DEF Sorts
    <2>2. \A m, n \in DOMAIN o : m = n \/ m < n \/ n < m
      BY <2>1
    <2>3. \A m, n \in DOMAIN o : o[m] \in Nat /\ (m < n => o[m] < o[n])
      BY <1>1 DEF Sorts
    <2>4. QED
      BY <2>2, <2>3
  <1>5. ASSUME NEW n \in DOMAIN o
        PROVE  \/ /\ ~InLoop(d.loops, d.order[o[n]]) /\ items[n].header = <<d.order[o[n]]>>
               \/ \E i \in DOMAIN d.loops : /\ items[n].header = d.loops[i]
                                            /\ 1 \in DOMAIN d.loops[i] /\ d.order[o[n]] = d.loops[i][1]
    <2>1. o[n] \in Starts(d) /\ items[n] = ItemAt(d, o[n])
      BY <1>1, <1>3 DEF Sorts
    <2>2. Leads(d.loops, d.order[o[n]])
      BY <2>1, StartsAre
    <2>3. CASE InLoop(d.loops, d.order[o[n]])
      <3>1. PICK i, k : i \in DOMAIN d.loops /\ k \in DOMAIN d.loops[i] /\ d.loops[i][k] = d.order[o[n]]
        BY <2>3 DEF InLoop
      <3>2. k = 1
        BY <2>2, <3>1 DEF Leads
      <3>3. items[n].header = d.loops[i]
        <4>1. ItemAt(d, o[n]) = ItemOf(d, d.loops[i], TRUE)
          BY <3>1, LoopItem
        <4>2. ItemOf(d, d.loops[i], TRUE).header = d.loops[i]
          BY DEF ItemOf
        <4>3. QED
          BY <2>1, <4>1, <4>2
      <3>4. QED
        BY <3>1, <3>2, <3>3
    <2>4. CASE ~InLoop(d.loops, d.order[o[n]])
      <3>1. ItemAt(d, o[n]) = ItemOf(d, <<d.order[o[n]]>>, FALSE)
        BY <2>4, ScalarItem
      <3>2. ItemOf(d, <<d.order[o[n]]>>, FALSE).header = <<d.order[o[n]]>>
        BY DEF ItemOf
      <3>4. items[n].header = <<d.order[o[n]]>>
        BY <2>1, <3>1, <3>2
      <3>3. QED
        BY <2>4, <3>4
    <2>5. QED
      BY <2>3, <2>4
  <1>6. ASSUME NEW m \in DOMAIN o, NEW n \in DOMAIN o,
               NEW k \in DOMAIN items[m].header, NEW l \in DOMAIN items[n].header,
               items[m].header[k] = items[n].header[l]
        PROVE  m = n /\ k = l
    <2>1. PICK a, b : a = d.order[o[m]] /\ b = d.order[o[n]]
      OBVIOUS
    <2>2. a = b => m = n
      BY <1>3, <1>4, <2>1, OnePlace DEF Placed
    <2>3. PICK g, h : g = items[m].header /\ h = items[n].header
      OBVIOUS
    <2>4. CASE g = <<a>> /\ h = <<b>>
      <3>1. k = 1 /\ l = 1 /\ g[k] = a /\ h[l] = b
        BY <2>3, <2>4
      <3>2. QED
        BY <1>6, <2>2, <2>3, <3>1
    <2>5. ASSUME NEW i \in DOMAIN d.loops, g = d.loops[i], h = <<b>>
          PROVE  InLoop(d.loops, b)
      <3>1. g[k] = b
        <4>1. h[l] = b
          BY <2>3, <2>5
        <4>2. QED
          BY <1>6, <2>3, <4>1
      <3>2. QED
        BY <2>3, <2>5, <3>1 DEF InLoop
    <2>6. ASSUME NEW i \in DOMAIN d.loops, h = d.loops[i], g = <<a>>
          PROVE  InLoop(d.loops, a)
      <3>1. h[l] = a
        <4>1. g[k] = a
          BY <2>3, <2>6
        <4>2. QED
          BY <1>6, <2>3, <4>1
      <3>2. QED
        BY <2>3, <2>6, <3>1 DEF InLoop
    <2>7. ASSUME NEW i \in DOMAIN d.loops, NEW j \in DOMAIN d.loops, g = d.loops[i], h = d.loops[j],
                 a = d.loops[i][1], b = d.loops[j][1]
          PROVE  m = n /\ k = l
      <3>1. i = j /\ k = l
        BY <1>6, <2>3, <2>7, OnlyOnce DEF Apart
      <3>2. QED
        BY <2>2, <2>7, <3>1
    <2>8. \/ ~InLoop(d.loops, a) /\ g = <<a>>
          \/ \E i \in DOMAIN d.loops : g = d.loops[i] /\ a = d.loops[i][1]
      BY <1>5, <2>1, <2>3
    <2>9. \/ ~InLoop(d.loops, b) /\ h = <<b>>
          \/ \E i \in DOMAIN d.loops : h = d.loops[i] /\ b = d.loops[i][1]
      BY <1>5, <2>1, <2>3
    <2>10. QED
      BY <2>4, <2>5, <2>6, <2>7, <2>8, <2>9
  <1>7. QED
    BY <1>2, <1>3, <1>6 DEF D!WellFormed

\* The same, for a name of the items.
LEMMA ListedItems ==
    ASSUME NEW d, Apart(d.loops), Placed(d), NEW o, Sorts(o, Starts(d)), NEW x, x = Items(d)
    PROVE  /\ DOMAIN x = DOMAIN o /\ DOMAIN o = 1 .. Len(o) /\ Len(x) = Len(o) /\ Len(o) \in Nat
           /\ \A n \in DOMAIN o : o[n] \in Starts(d) /\ o[n] \in DOMAIN d.order /\ x[n] = ItemAt(d, o[n])
  <1>1. \A n \in DOMAIN o : o[n] \in Starts(d) /\ o[n] \in DOMAIN d.order /\ Items(d)[n] = ItemAt(d, o[n])
    BY ItemsListed
  <1>2. Len(Items(d)) = Len(o) /\ Len(o) \in Nat /\ DOMAIN o = 1 .. Len(o) /\ DOMAIN Items(d) = DOMAIN o
    BY ItemsListed
  <1>3. QED
    BY <1>1, <1>2

\* Items that are the same, and stand where g says.
StartsAt(e, S) == Starts(e) = S
Carried(d, e, g, K) == \A k \in K : e.order[g[k]] = d.order[k] /\ SameFor(d, e, d.order[k])

Kept(d, e) == \A k \in Starts(d) : e.order[k] = d.order[k] /\ SameFor(d, e, d.order[k])

LEMMA ItemAppended ==
    ASSUME NEW d, Apart(d.loops), Placed(d), NEW e, Apart(e.loops), Placed(e),
           NEW m \in Nat, \A k \in Starts(d) : k < m, StartsAt(e, Starts(d) \cup {m}),
           Kept(d, e)
    PROVE  D!NamespaceEdit(Items(d), Items(e))
  <1>1. PICK o : Sorts(o, Starts(d))
    BY StartsListed
  <1>2. PICK p : p = Append(o, m)
    OBVIOUS
  <1>3. Sorts(p, Starts(e))
    BY <1>1, <1>2, SortedWithOneMore DEF StartsAt
  <1>4. Len(p) = Len(o) + 1 /\ \A n \in DOMAIN o : p[n] = o[n]
    BY <1>1, <1>2, Appended DEF Sorts
  <1>5. PICK a, b : a = Items(d) /\ b = Items(e)
    OBVIOUS
  <1>6. /\ DOMAIN a = 1 .. Len(o) /\ Len(a) = Len(o) /\ Len(o) \in Nat /\ DOMAIN o = 1 .. Len(o)
        /\ \A n \in DOMAIN o : o[n] \in Starts(d) /\ a[n] = ItemAt(d, o[n])
    BY <1>1, <1>5, ItemsListed
  <1>7. Len(b) = Len(p) /\ DOMAIN p = 1 .. Len(p) /\ \A n \in DOMAIN p : b[n] = ItemAt(e, p[n])
    BY <1>3, <1>5, ListedItems
  <1>8. ASSUME NEW n \in DOMAIN a
        PROVE  b[n] = a[n]
    <2>1. n \in DOMAIN o /\ n \in DOMAIN p /\ p[n] = o[n]
      BY <1>4, <1>6, <1>7
    <2>2. a[n] = ItemAt(d, o[n]) /\ b[n] = ItemAt(e, o[n]) /\ o[n] \in Starts(d)
      BY <1>6, <1>7, <2>1
    <2>3. ItemAt(e, o[n]) = ItemAt(d, o[n])
      BY <2>2, SameItem DEF Kept
    <2>4. QED
      BY <2>2, <2>3
  <1>9. D!Longer(a, b)
    BY <1>4, <1>6, <1>7, <1>8 DEF D!Longer
  <1>10. QED
    BY <1>5, <1>9 DEF D!NamespaceEdit

LEMMA ItemChanged ==
    ASSUME NEW d, Apart(d.loops), Placed(d), NEW e, Apart(e.loops), Placed(e),
           NEW g, Moves(g, Starts(d)), StartsAt(e, {g[k] : k \in Starts(d)}),
           NEW a \in Starts(d), Carried(d, e, g, Starts(d) \ {a}),
           D!ItemEdit(ItemAt(d, a), ItemAt(e, g[a]))
    PROVE  D!NamespaceEdit(Items(d), Items(e))
  <1>1. PICK o : Sorts(o, Starts(d))
    BY StartsListed
  <1>2. PICK p : p = [n \in DOMAIN o |-> g[o[n]]]
    OBVIOUS
  <1>3. Sorts(p, Starts(e))
    BY <1>1, <1>2, SortedMoved DEF StartsAt
  <1>4. PICK x, y : x = Items(d) /\ y = Items(e)
    OBVIOUS
  <1>5. /\ DOMAIN x = DOMAIN o /\ Len(x) = Len(o) /\ Len(o) \in Nat /\ DOMAIN o = 1 .. Len(o)
        /\ \A n \in DOMAIN o : o[n] \in Starts(d) /\ x[n] = ItemAt(d, o[n])
    BY <1>1, <1>4, ItemsListed
  <1>6. Len(y) = Len(p) /\ Len(p) \in Nat /\ DOMAIN p = 1 .. Len(p) /\ \A n \in DOMAIN p : y[n] = ItemAt(e, p[n])
    BY <1>3, <1>4, ListedItems
  <1>7. Len(p) = Len(o)
    BY <1>2, <1>5
  <1>8. \A n \in DOMAIN o : y[n] = ItemAt(e, g[o[n]])
    BY <1>2, <1>6
  <1>9. PICK m \in DOMAIN o : o[m] = a
    BY <1>1 DEF Sorts
  <1>10. ASSUME NEW n \in DOMAIN o, n # m
         PROVE  y[n] = x[n]
    <2>1. o[n] # o[m]
      <3>1. n < m \/ m < n
        BY <1>5, <1>10
      <3>2. o[n] \in Nat /\ o[m] \in Nat /\ (n < m => o[n] < o[m]) /\ (m < n => o[m] < o[n])
        BY <1>1 DEF Sorts
      <3>3. QED
        BY <3>1, <3>2
    <2>2. o[n] \in Starts(d) \ {a}
      BY <1>5, <1>9, <2>1
    <2>3. e.order[g[o[n]]] = d.order[o[n]] /\ SameFor(d, e, d.order[o[n]])
      BY <2>2 DEF Carried
    <2>4. ItemAt(e, g[o[n]]) = ItemAt(d, o[n])
      BY <2>3, SameItem
    <2>5. QED
      BY <1>5, <1>8, <2>4
  <1>11. D!DiffersAt(x, y, m)
    BY <1>5, <1>6, <1>7, <1>10 DEF D!DiffersAt
  <1>12. D!ItemEdit(x[m], y[m])
    <2>1. x[m] = ItemAt(d, a) /\ y[m] = ItemAt(e, g[a])
      BY <1>5, <1>8, <1>9
    <2>2. QED
      BY <2>1
  <1>13. QED
    BY <1>4, <1>5, <1>11, <1>12 DEF D!NamespaceEdit

LEMMA ItemRemoved ==
    ASSUME NEW d, Apart(d.loops), Placed(d), NEW e, Apart(e.loops), Placed(e),
           NEW g, NEW a \in Starts(d), Moves(g, Starts(d) \ {a}), StartsAt(e, {g[k] : k \in Starts(d) \ {a}}),
           Carried(d, e, g, Starts(d) \ {a})
    PROVE  D!NamespaceEdit(Items(d), Items(e))
  <1>1. PICK o : Sorts(o, Starts(d))
    BY StartsListed
  <1>2. PICK m \in DOMAIN o : o[m] = a
    BY <1>1 DEF Sorts
  <1>3. PICK p : p = [i \in 1 .. Len(o) - 1 |-> g[o[MovedUp(m, i)]]]
    OBVIOUS
  <1>4. Sorts(p, Starts(e))
    BY <1>1, <1>2, <1>3, SortedWithout DEF StartsAt
  <1>5. PICK x, y : x = Items(d) /\ y = Items(e)
    OBVIOUS
  <1>6. /\ DOMAIN x = DOMAIN o /\ Len(x) = Len(o) /\ Len(o) \in Nat /\ DOMAIN o = 1 .. Len(o)
        /\ \A n \in DOMAIN o : o[n] \in Starts(d) /\ x[n] = ItemAt(d, o[n])
    BY <1>1, <1>5, ItemsListed
  <1>7. /\ DOMAIN y = DOMAIN p /\ Len(y) = Len(p) /\ Len(p) \in Nat /\ DOMAIN p = 1 .. Len(p)
        /\ \A n \in DOMAIN p : y[n] = ItemAt(e, p[n])
    BY <1>4, <1>5, ListedItems
  <1>8. m \in 1 .. Len(o) /\ Len(o) - 1 \in Nat
    BY <1>6
  <1>9. Len(p) = Len(o) - 1
    BY <1>3, <1>7, <1>8
  <1>10. ASSUME NEW i \in DOMAIN y
         PROVE  y[i] = x[MovedUp(m, i)]
    <2>1. PICK n : n = MovedUp(m, i)
      OBVIOUS
    <2>2. i \in 1 .. Len(o) - 1
      BY <1>7, <1>9
    <2>3. n \in 1 .. Len(o) /\ n # m
      BY <1>8, <2>1, <2>2 DEF MovedUp
    <2>4. y[i] = ItemAt(e, g[o[n]])
      BY <1>3, <1>7, <2>1, <2>2
    <2>5. o[n] # o[m]
      <3>1. n < m \/ m < n
        BY <1>8, <2>3
      <3>2. o[n] \in Nat /\ o[m] \in Nat /\ (n < m => o[n] < o[m]) /\ (m < n => o[m] < o[n])
        BY <1>1, <1>6, <2>3 DEF Sorts
      <3>3. QED
        BY <3>1, <3>2
    <2>6. o[n] \in Starts(d) \ {a}
      BY <1>2, <1>6, <2>3, <2>5
    <2>7. e.order[g[o[n]]] = d.order[o[n]] /\ SameFor(d, e, d.order[o[n]])
      BY <2>6 DEF Carried
    <2>8. ItemAt(e, g[o[n]]) = ItemAt(d, o[n])
      BY <2>7, SameItem
    <2>9. QED
      BY <1>6, <2>1, <2>3, <2>4, <2>8
  <1>11. D!Shorter(x, y, m)
    BY <1>6, <1>7, <1>9, <1>10 DEF D!Shorter, MovedUp
  <1>12. QED
    BY <1>5, <1>6, <1>11 DEF D!NamespaceEdit

-----------------------------------------------------------------------------
(***************************************************************************)
(* The items read back.  Behind a namespace with the first tags of d, and  *)
(* their loops, AddItem puts the tags of the next item.                    *)
(***************************************************************************)
LEMMA SameSteps ==
    ASSUME NEW m \in Nat, NEW f, NEW g, f[0] = g[0],
           \A n \in 1 .. m : f[n - 1] = g[n - 1] => f[n] = g[n]
    PROVE  f[m] = g[m]
  <1> SUFFICES ASSUME f[m] # g[m] PROVE FALSE
    OBVIOUS
  <1>1. PICK S : S = {n \in 0 .. m : f[n] # g[n]}
    OBVIOUS
  <1>2. m \in S /\ S \subseteq Nat
    BY <1>1
  <1>3. PICK n \in S : \A k \in S : n <= k
    BY <1>2, HasLeast
  <1>4. n \in 1 .. m
    BY <1>1, <1>3
  <1>5. n - 1 \in 0 .. m /\ n - 1 \notin S
    BY <1>2, <1>3, <1>4
  <1>6. f[n - 1] = g[n - 1]
    BY <1>1, <1>5
  <1>7. QED
    BY <1>1, <1>4, <1>6

Reads(f, items) ==
    f = [n \in 0 .. Len(items) |-> IF n = 0 THEN NoData ELSE AddItem(f[n - 1], items[n])]

LEMMA ReplayReads ==
    ASSUME NEW items, NEW m \in Nat, Len(items) = m, NEW f, f[0] = NoData,
           \A n \in 1 .. m : f[n] = AddItem(f[n - 1], items[n])
    PROVE  Replay(items) = f[m]
  <1>1. PICK g : g = CHOOSE h : Reads(h, items)
    OBVIOUS
  <1>2. PICK r : r = [n \in 0 .. m |-> f[n]]
    OBVIOUS
  <1>3. Reads(r, items)
    <2>1. ASSUME NEW n \in 0 .. m
          PROVE  r[n] = IF n = 0 THEN NoData ELSE AddItem(r[n - 1], items[n])
      <3>1. CASE n = 0
        BY <1>2, <3>1
      <3>2. CASE n # 0
        <4>1. n \in 1 .. m /\ n - 1 \in 0 .. m
          BY <3>2
        <4>2. r[n] = f[n] /\ r[n - 1] = f[n - 1]
          BY <1>2, <4>1
        <4>3. QED
          BY <3>2, <4>1, <4>2
      <3>3. QED
        BY <3>1, <3>2
    <2>2. r = [n \in 0 .. m |-> IF n = 0 THEN NoData ELSE AddItem(r[n - 1], items[n])]
      BY <1>2, <2>1
    <2>3. QED
      BY <2>2 DEF Reads
  <1>4. Reads(g, items)
    BY <1>1, <1>3
  <1>5. /\ g[0] = NoData
        /\ \A n \in 1 .. m : g[n] = AddItem(g[n - 1], items[n])
    <2>1. \A n \in 0 .. m : g[n] = IF n = 0 THEN NoData ELSE AddItem(g[n - 1], items[n])
      BY <1>4 DEF Reads
    <2>2. QED
      BY <2>1
  <1>6. g[m] = f[m]
    <2>1. \A n \in 1 .. m : g[n - 1] = f[n - 1] => g[n] = f[n]
      BY <1>5
    <2>2. g[0] = f[0]
      BY <1>5
    <2>3. QED
      BY <2>1, <2>2, SameSteps
  <1>7. Replay(items) = g[Len(items)]
    BY <1>1 DEF Replay, Reads
  <1>8. QED
    BY <1>6, <1>7

Puts(f, d, it) ==
    f = [n \in 0 .. Len(it.columns[1]) |->
            IF n = 0 THEN d ELSE AppendValue(f[n - 1], it.header[1], it.columns[1][n])]

LEMMA ScalarPuts ==
    ASSUME NEW d, NEW it, ~it.loop, NEW m \in Nat, Len(it.columns[1]) = m, NEW f, f[0] = d,
           \A n \in 1 .. m : f[n] = AppendValue(f[n - 1], it.header[1], it.columns[1][n])
    PROVE  AddItem(d, it) = f[m]
  <1>1. PICK g : g = CHOOSE h : Puts(h, d, it)
    OBVIOUS
  <1>2. PICK r : r = [n \in 0 .. m |-> f[n]]
    OBVIOUS
  <1>3. Puts(r, d, it)
    <2>1. ASSUME NEW n \in 0 .. m
          PROVE  r[n] = IF n = 0 THEN d ELSE AppendValue(r[n - 1], it.header[1], it.columns[1][n])
      <3>1. CASE n = 0
        BY <1>2, <3>1
      <3>2. CASE n # 0
        <4>1. n \in 1 .. m /\ n - 1 \in 0 .. m
          BY <3>2
        <4>2. r[n] = f[n] /\ r[n - 1] = f[n - 1]
          BY <1>2, <4>1
        <4>3. QED
          BY <3>2, <4>1, <4>2
      <3>3. QED
        BY <3>1, <3>2
    <2>2. r = [n \in 0 .. m |-> IF n = 0 THEN d ELSE AppendValue(r[n - 1], it.header[1], it.columns[1][n])]
      BY <1>2, <2>1
    <2>3. QED
      BY <2>2 DEF Puts
  <1>4. Puts(g, d, it)
    BY <1>1, <1>3
  <1>5. /\ g[0] = d
        /\ \A n \in 1 .. m : g[n] = AppendValue(g[n - 1], it.header[1], it.columns[1][n])
    <2>1. \A n \in 0 .. m : g[n] = IF n = 0 THEN d ELSE AppendValue(g[n - 1], it.header[1], it.columns[1][n])
      BY <1>4 DEF Puts
    <2>2. QED
      BY <2>1
  <1>6. g[m] = f[m]
    <2>1. \A n \in 1 .. m : g[n - 1] = f[n - 1] => g[n] = f[n]
      BY <1>5
    <2>2. g[0] = f[0]
      BY <1>5
    <2>3. QED
      BY <2>1, <2>2, SameSteps
  <1>7. AddItem(d, it) = g[Len(it.columns[1])]
    BY <1>1 DEF AddItem, Puts
  <1>8. QED
    BY <1>6, <1>7

\* The first q tags of a namespace, with their values and the loops that begin with them.
FirstTags(d, q) == {d.order[k] : k \in 1 .. q}
Headed(d, q) == {i \in DOMAIN d.loops : d.loops[i][1] \in FirstTags(d, q)}
Before(d, q) ==
    [order |-> [k \in 1 .. q |-> d.order[k]],
     tags  |-> [t \in FirstTags(d, q) |-> d.tags[t]],
     loops |-> [i \in Headed(d, q) |-> d.loops[i]]]

LEMMA NothingBefore ==
    ASSUME NEW d
    PROVE  Before(d, 0) = NoData
  <1>1. FirstTags(d, 0) = {} /\ Headed(d, 0) = {}
    BY DEF FirstTags, Headed
  <1>2. \A f : DOMAIN f = {} /\ f = [x \in {} |-> f[x]] => f = <<>>
    OBVIOUS
  <1>3. /\ [k \in 1 .. 0 |-> d.order[k]] = <<>>
        /\ [t \in FirstTags(d, 0) |-> d.tags[t]] = <<>>
        /\ [i \in Headed(d, 0) |-> d.loops[i]] = <<>>
    BY <1>1
  <1>4. QED
    BY <1>3 DEF Before, NoData

LEMMA AllBefore ==
    ASSUME NEW even, NEW d, Balanced(d, even), Placed(d)
    PROVE  Before(d, Len(d.order)) = d
  <1>1. PICK n \in Nat : n = Len(d.order) /\ DOMAIN d.order = 1 .. n /\ d.order = [k \in 1 .. n |-> d.order[k]]
    BY ListFacts DEF Placed, Listed
  <1>2. FirstTags(d, n) = DOMAIN d.tags
    <2>1. /\ \A k \in 1 .. n : d.order[k] \in DOMAIN d.tags
          /\ \A t \in DOMAIN d.tags : \E k \in 1 .. n : d.order[k] = t
      BY <1>1 DEF Placed, Listed
    <2>2. QED
      BY <2>1 DEF FirstTags
  <1>3. \A i \in DOMAIN d.loops : d.loops[i][1] \in FirstTags(d, n)
    <2> SUFFICES ASSUME NEW i \in DOMAIN d.loops PROVE d.loops[i][1] \in FirstTags(d, n)
      OBVIOUS
    <2>1. 1 \in DOMAIN d.loops[i]
      BY DEF Placed, Together, Run
    <2>2. QED
      BY <1>2, <2>1 DEF Balanced, Shaped, Columned
  <1>4. Headed(d, n) = DOMAIN d.loops
    BY <1>3 DEF Headed
  <1>5. d.loops = [i \in DOMAIN d.loops |-> d.loops[i]]
    BY ListFacts DEF Balanced, Shaped, Columned
  <1>6. d.tags = [t \in DOMAIN d.tags |-> d.tags[t]]
    BY DEF Balanced, Shaped, Columned
  <1>7. d = [order |-> d.order, tags |-> d.tags, loops |-> d.loops]
    BY DEF Balanced
  <1>8. Before(d, n) = [order |-> d.order, tags |-> d.tags, loops |-> d.loops]
    BY <1>1, <1>2, <1>4, <1>5, <1>6 DEF Before
  <1>9. QED
    BY <1>1, <1>7, <1>8

\* What begins behind the first q tags begins with a tag that is not one of them.
LEMMA NotAmongFirst ==
    ASSUME NEW d, Placed(d), NEW q \in Nat, NEW k \in DOMAIN d.order, q < k, q <= Len(d.order)
    PROVE  d.order[k] \notin FirstTags(d, q)
  <1>1. IsList(d.order) /\ \A j, l \in DOMAIN d.order : d.order[j] = d.order[l] => j = l
    BY DEF Placed, Listed
  <1>2. PICK n \in Nat : n = Len(d.order) /\ DOMAIN d.order = 1 .. n
    BY <1>1, ListFacts
  <1>3. \A j \in 1 .. q : j \in DOMAIN d.order /\ j # k
    BY <1>2
  <1>4. QED
    BY <1>1, <1>3 DEF FirstTags

\* append_value, by the two branches of the code.
WithTag(T, t, c) == [u \in DOMAIN T \cup {t} |-> IF u = t THEN c ELSE T[u]]

IsData(d) == d = [order |-> d.order, tags |-> d.tags, loops |-> d.loops]

LEMMA FirstValue ==
    ASSUME NEW d, IsData(d), NEW t, t \notin DOMAIN d.tags, NEW v
    PROVE  AppendValue(d, t, v) =
             [order |-> Append(d.order, t), tags |-> WithTag(d.tags, t, <<v>>), loops |-> d.loops]
  <1>1. PICK N : N = [u \in DOMAIN d.tags \cup {t} |-> IF u = t THEN <<v>> ELSE d.tags[u]]
    OBVIOUS
  <1>2. PICK p : p = Append(d.order, t)
    OBVIOUS
  <1>3. AppendValue(d, t, v) = [order |-> p, tags |-> N, loops |-> d.loops]
    BY <1>1, <1>2 DEF AppendValue, IsData
  <1>4. N = WithTag(d.tags, t, <<v>>)
    BY <1>1 DEF WithTag
  <1>5. QED
    BY <1>2, <1>3, <1>4

LEMMA NextValue ==
    ASSUME NEW d, IsData(d), NEW t, t \in DOMAIN d.tags, NEW v
    PROVE  AppendValue(d, t, v) =
             [order |-> d.order, tags |-> WithTag(d.tags, t, Append(d.tags[t], v)), loops |-> d.loops]
  <1>1. PICK N : N = [d.tags EXCEPT ![t] = Append(d.tags[t], v)]
    OBVIOUS
  <1>2. AppendValue(d, t, v) = [d EXCEPT !.tags = N]
    BY <1>1 DEF AppendValue
  <1>3. [d EXCEPT !.tags = N] = [order |-> d.order, tags |-> N, loops |-> d.loops]
    BY DEF IsData
  <1>4. N = WithTag(d.tags, t, Append(d.tags[t], v))
    BY <1>1 DEF WithTag
  <1>5. QED
    BY <1>2, <1>3, <1>4

LEMMA TagAgain ==
    ASSUME NEW T, NEW t, NEW b, NEW c
    PROVE  /\ t \in DOMAIN WithTag(T, t, b) /\ WithTag(T, t, b)[t] = b
           /\ WithTag(WithTag(T, t, b), t, c) = WithTag(T, t, c)
  <1>1. PICK N : N = WithTag(T, t, b)
    OBVIOUS
  <1>2. DOMAIN N = DOMAIN T \cup {t} /\ N[t] = b /\ \A u \in DOMAIN T : u # t => N[u] = T[u]
    BY <1>1 DEF WithTag
  <1>3. WithTag(N, t, c) = WithTag(T, t, c)
    BY <1>2 DEF WithTag
  <1>4. QED
    BY <1>1, <1>2, <1>3

LEMMA ScalarBehind ==
    ASSUME NEW even, NEW d, Balanced(d, even), Placed(d), InTurn(d),
           NEW a \in Nat, a + 1 \in DOMAIN d.order, ~InLoop(d.loops, d.order[a + 1])
    PROVE  AddItem(Before(d, a), ItemAt(d, a + 1)) = Before(d, a + 1)
  <1>1. PICK t : t = d.order[a + 1]
    OBVIOUS
  <1>2. PICK V : V = d.tags[t]
    OBVIOUS
  <1>3. Apart(d.loops)
    BY DEF Balanced, Shaped, Columned, Apart
  <1>4. t \in DOMAIN d.tags
    BY <1>1 DEF Placed, Listed
  <1>5. IsList(V) /\ 1 \in DOMAIN V
    BY <1>1, <1>2, <1>4 DEF Balanced, Shaped, Columned, InTurn, Filled
  <1>6. PICK m \in Nat : m = Len(V) /\ DOMAIN V = 1 .. m /\ m # 0 /\ V = [n \in 1 .. m |-> V[n]]
    BY <1>5, ListFacts
  <1>7. PICK it : it = ItemAt(d, a + 1)
    OBVIOUS
  <1>8. ~it.loop /\ it.header[1] = t /\ it.columns[1] = V
    <2>1. it = ItemOf(d, <<t>>, FALSE)
      BY <1>1, <1>3, <1>7, ScalarItem
    <2>2. PICK h : h = <<t>>
      OBVIOUS
    <2>3. h[1] = t /\ 1 \in DOMAIN h
      BY <2>2
    <2>4. it = [loop |-> FALSE, header |-> h, columns |-> [i \in DOMAIN h |-> d.tags[h[i]]]]
      BY <2>1, <2>2 DEF ItemOf
    <2>5. QED
      BY <1>2, <2>3, <2>4
  <1>9. PICK before : before = Before(d, a)
    OBVIOUS
  <1>10. PICK o, L : o = before.order /\ L = before.loops
    OBVIOUS
  <1>11. PICK n \in Nat : n = Len(d.order) /\ DOMAIN d.order = 1 .. n /\ a + 1 \in 1 .. n
    <2>1. IsList(d.order)
      BY DEF Placed, Listed
    <2>2. QED
      BY <2>1, ListFacts
  <1>12. t \notin FirstTags(d, a)
    BY <1>1, <1>11, NotAmongFirst
  <1>13. FirstTags(d, a + 1) = FirstTags(d, a) \cup {t}
    <2>1. \A k : k \in 1 .. a + 1 <=> k \in 1 .. a \/ k = a + 1
      OBVIOUS
    <2>2. QED
      BY <1>1, <2>1 DEF FirstTags
  <1>14. Headed(d, a + 1) = Headed(d, a)
    <2>1. ASSUME NEW i \in DOMAIN d.loops PROVE d.loops[i][1] # t
      <3>1. 1 \in DOMAIN d.loops[i]
        BY DEF Placed, Together, Run
      <3>2. QED
        BY <1>1, <3>1 DEF InLoop
    <2>2. QED
      BY <1>13, <2>1 DEF Headed
  <1>15. PICK p : p = Append(o, t)
    OBVIOUS
  <1>16. p = [k \in 1 .. a + 1 |-> d.order[k]]
    <2>1. o = [k \in 1 .. a |-> d.order[k]]
      BY <1>9, <1>10 DEF Before
    <2>2. o = [k \in 1 .. a |-> o[k]]
      BY <2>1
    <2>3. IsList(o) /\ DOMAIN o = 1 .. a
      BY <2>1, <2>2, ListOverPlaces
    <2>4. Len(o) = a
      BY <2>3, ListFacts
    <2>5. IsList(p) /\ DOMAIN p = 1 .. a + 1 /\ p[a + 1] = t /\ \A k \in 1 .. a : p[k] = o[k]
      BY <1>15, <2>3, <2>4, Appended
    <2>6. p = [k \in 1 .. a + 1 |-> p[k]]
      BY <2>5, ListFacts
    <2>7. \A k \in 1 .. a + 1 : p[k] = d.order[k]
      BY <1>1, <2>1, <2>5
    <2>8. QED
      BY <2>6, <2>7
  <1>17. PICK B : B = before.tags
    OBVIOUS
  <1>18. PICK f : f = [v \in 0 .. m |-> IF v = 0 THEN before
                      ELSE [order |-> p, tags |-> WithTag(B, t, [x \in 1 .. v |-> V[x]]), loops |-> L]]
    OBVIOUS
  <1>19. /\ f[0] = before
         /\ \A v \in 1 .. m : f[v] = [order |-> p, tags |-> WithTag(B, t, [x \in 1 .. v |-> V[x]]), loops |-> L]
    BY <1>18
  <1>20. before = [order |-> o, tags |-> B, loops |-> L] /\ B = [u \in FirstTags(d, a) |-> d.tags[u]]
    BY <1>9, <1>10, <1>17 DEF Before
  <1>21. ASSUME NEW v \in 1 .. m
         PROVE  f[v] = AppendValue(f[v - 1], t, V[v])
    <2>1. PICK y, new : y = V[v] /\ new = [x \in 1 .. v |-> V[x]]
      OBVIOUS
    <2>2. f[v] = [order |-> p, tags |-> WithTag(B, t, new), loops |-> L]
      BY <1>19, <2>1
    <2>3. CASE v = 1
      <3>1. f[v - 1] = before
        BY <1>19, <2>3
      <3>2. t \notin DOMAIN B
        BY <1>12, <1>20
      <3>3. AppendValue(before, t, y) = [order |-> p, tags |-> WithTag(B, t, <<y>>), loops |-> L]
        <4>1. IsData(before) /\ before.order = o /\ before.tags = B /\ before.loops = L
          BY <1>20 DEF IsData
        <4>2. AppendValue(before, t, y) =
                [order |-> Append(before.order, t), tags |-> WithTag(before.tags, t, <<y>>), loops |-> before.loops]
          BY <3>2, <4>1, FirstValue
        <4>3. QED
          BY <1>15, <4>1, <4>2
      <3>4. <<y>> = new
        <4>1. <<y>> = [x \in 1 .. 1 |-> y]
          OBVIOUS
        <4>2. \A x \in 1 .. 1 : x = v
          BY <2>3
        <4>3. QED
          BY <2>1, <2>3, <4>1, <4>2
      <3>5. QED
        BY <2>1, <2>2, <3>1, <3>3, <3>4
    <2>4. CASE v # 1
      <3>1. v - 1 \in 1 .. m /\ v \in Nat
        BY <2>4
      <3>2. PICK old, N : old = [x \in 1 .. v - 1 |-> V[x]] /\ N = WithTag(B, t, old)
        OBVIOUS
      <3>3. f[v - 1] = [order |-> p, tags |-> N, loops |-> L]
        BY <1>19, <3>1, <3>2
      <3>4. t \in DOMAIN N /\ N[t] = old
        BY <3>2, TagAgain
      <3>5. AppendValue(f[v - 1], t, y) = [order |-> p, tags |-> WithTag(N, t, Append(N[t], y)), loops |-> L]
        <4>1. PICK e : e = f[v - 1]
          OBVIOUS
        <4>2. IsData(e) /\ e.order = p /\ e.tags = N /\ e.loops = L
          BY <3>3, <4>1 DEF IsData
        <4>3. AppendValue(e, t, y) =
                [order |-> e.order, tags |-> WithTag(e.tags, t, Append(e.tags[t], y)), loops |-> e.loops]
          BY <3>4, <4>2, NextValue
        <4>4. QED
          BY <4>1, <4>2, <4>3
      <3>6. Append(old, y) = new
        <4>1. IsList(old) /\ DOMAIN old = 1 .. v - 1
          <5>1. old = [x \in 1 .. v - 1 |-> old[x]] /\ v - 1 \in Nat
            BY <3>1, <3>2
          <5>2. QED
            BY <3>2, <5>1, ListOverPlaces
        <4>2. Len(old) = v - 1
          BY <3>1, <4>1, ListFacts
        <4>3. PICK r : r = Append(old, y)
          OBVIOUS
        <4>4. IsList(r) /\ DOMAIN r = 1 .. v /\ r[v] = y /\ \A x \in 1 .. v - 1 : r[x] = old[x]
          BY <3>1, <4>1, <4>2, <4>3, Appended
        <4>5. r = [x \in 1 .. v |-> r[x]]
          BY <4>4, ListFacts
        <4>6. \A x \in 1 .. v : r[x] = V[x]
          BY <2>1, <3>1, <3>2, <4>4
        <4>7. QED
          BY <2>1, <4>3, <4>5, <4>6
      <3>7. WithTag(N, t, new) = WithTag(B, t, new)
        BY <3>2, TagAgain
      <3>8. QED
        BY <2>1, <2>2, <3>4, <3>5, <3>6, <3>7
    <2>5. QED
      BY <2>3, <2>4
  <1>22. AddItem(before, it) = f[m]
    <2>1. Len(it.columns[1]) = m /\ \A v \in 1 .. m : f[v] = AppendValue(f[v - 1], it.header[1], it.columns[1][v])
      BY <1>6, <1>8, <1>21
    <2>2. QED
      BY <1>8, <1>19, <2>1, ScalarPuts
  <1>23. f[m] = Before(d, a + 1)
    <2>1. WithTag(B, t, V) = [u \in FirstTags(d, a + 1) |-> d.tags[u]]
      BY <1>2, <1>12, <1>13, <1>20 DEF WithTag
    <2>2. L = [i \in Headed(d, a + 1) |-> d.loops[i]]
      BY <1>9, <1>10, <1>14 DEF Before
    <2>3. f[m] = [order |-> p, tags |-> WithTag(B, t, V), loops |-> L]
      <3>1. m \in 1 .. m
        BY <1>6
      <3>2. f[m] = [order |-> p, tags |-> WithTag(B, t, [x \in 1 .. m |-> V[x]]), loops |-> L]
        BY <1>19, <3>1
      <3>3. QED
        BY <1>6, <3>2
    <2>4. QED
      BY <1>16, <2>1, <2>2, <2>3 DEF Before
  <1>24. QED
    BY <1>7, <1>9, <1>22, <1>23

\* The first places of x, and the next behind them.
LEMMA OneBehind ==
    ASSUME NEW x, NEW a \in Nat, NEW L, L = [k \in 1 .. a |-> x[k]]
    PROVE  Append(L, x[a + 1]) = [k \in 1 .. a + 1 |-> x[k]]
  <1>1. L = [k \in 1 .. a |-> L[k]]
    OBVIOUS
  <1>2. IsList(L) /\ DOMAIN L = 1 .. a
    BY <1>1, ListOverPlaces
  <1>3. Len(L) = a
    BY <1>2, ListFacts
  <1>4. PICK y, p : y = x[a + 1] /\ p = Append(L, y)
    OBVIOUS
  <1>5. IsList(p) /\ DOMAIN p = 1 .. a + 1 /\ p[a + 1] = y /\ \A k \in 1 .. a : p[k] = L[k]
    BY <1>2, <1>3, <1>4, Appended
  <1>6. p = [k \in 1 .. a + 1 |-> p[k]]
    BY <1>5, ListFacts
  <1>7. \A k \in 1 .. a + 1 : p[k] = x[k]
    BY <1>4, <1>5
  <1>8. QED
    BY <1>4, <1>6, <1>7

\* The loops that begin before a loop are the ones listed before it.
LEMMA HeadedBefore ==
    ASSUME NEW even, NEW d, Balanced(d, even), Placed(d), InTurn(d),
           NEW i \in DOMAIN d.loops, NEW a \in Nat, RunAt(d.order, d.loops[i], a)
    PROVE  Headed(d, a) = 1 .. i - 1 /\ i \in Nat
  <1>1. PICK o, L : o = d.order /\ L = d.loops
    OBVIOUS
  <1>2. PICK c \in Nat : c = Len(L) /\ DOMAIN L = 1 .. c
    <2>1. IsList(L)
      BY <1>1 DEF Balanced, Shaped, Columned
    <2>2. QED
      BY <2>1, ListFacts
  <1>3. PICK n \in Nat : n = Len(o) /\ DOMAIN o = 1 .. n
    <2>1. IsList(o)
      BY <1>1 DEF Placed, Listed
    <2>2. QED
      BY <2>1, ListFacts
  <1>4. a + 1 \in DOMAIN o /\ o[a + 1] = L[i][1] /\ 1 \in DOMAIN L[i]
    <2>1. 1 \in DOMAIN L[i]
      BY <1>1 DEF Placed, Together, Run
    <2>2. QED
      BY <1>1, <2>1 DEF RunAt
  <1>5. At(o, a + 1, L[i])
    BY <1>4 DEF At
  <1>6. Ranked(o, L)
    BY <1>1 DEF InTurn
  <1>7. ASSUME NEW j \in DOMAIN L, j < i
        PROVE  L[j][1] \in FirstTags(d, a)
    <2>1. PICK s \in Nat : RunAt(o, L[j], s) /\ 1 \in DOMAIN L[j]
      BY <1>1 DEF Placed, Together, Run
    <2>2. s + 1 \in DOMAIN o /\ o[s + 1] = L[j][1]
      BY <2>1 DEF RunAt
    <2>3. At(o, s + 1, L[j])
      BY <2>1, <2>2 DEF At
    <2>4. s + 1 < a + 1
      BY <1>1, <1>4, <1>5, <1>6, <1>7, <2>2, <2>3 DEF Ranked
    <2>5. s + 1 \in 1 .. a
      BY <2>4
    <2>6. QED
      BY <1>1, <2>2, <2>5 DEF FirstTags
  <1>8. ASSUME NEW j \in DOMAIN L, L[j][1] \in FirstTags(d, a)
        PROVE  j < i
    <2>1. PICK k \in 1 .. a : o[k] = L[j][1]
      BY <1>1, <1>8 DEF FirstTags
    <2>2. k \in DOMAIN o /\ k < a + 1
      BY <1>3, <1>4
    <2>3. 1 \in DOMAIN L[j]
      BY <1>1 DEF Placed, Together, Run
    <2>4. At(o, k, L[j])
      BY <2>1, <2>3 DEF At
    <2>5. ~(i < j)
      <3>1. SUFFICES ASSUME i < j PROVE FALSE
        OBVIOUS
      <3>2. a + 1 < k
        BY <1>1, <1>4, <1>5, <1>6, <2>2, <2>4, <3>1 DEF Ranked
      <3>3. QED
        BY <2>2, <3>2
    <2>6. i # j
      <3>1. SUFFICES ASSUME i = j PROVE FALSE
        OBVIOUS
      <3>2. o[k] = o[a + 1]
        BY <1>4, <2>1, <3>1
      <3>3. k = a + 1
        BY <1>1, <1>4, <2>2, <3>2, OnePlace DEF Placed
      <3>4. QED
        BY <2>2, <3>3
    <2>7. QED
      BY <1>1, <1>2, <2>5, <2>6
  <1>9. i \in 1 .. c
    BY <1>1, <1>2
  <1>10. Headed(d, a) = {j \in 1 .. c : L[j][1] \in FirstTags(d, a)}
    BY <1>1, <1>2 DEF Headed
  <1>11. ASSUME NEW j
         PROVE  j \in Headed(d, a) <=> j \in 1 .. i - 1
    <2>1. CASE j \in 1 .. c
      <3>1. j \in Headed(d, a) <=> j < i
        BY <1>2, <1>7, <1>8, <1>10, <2>1
      <3>2. QED
        BY <1>9, <2>1, <3>1
    <2>2. CASE j \notin 1 .. c
      BY <1>9, <1>10, <2>2
    <2>3. QED
      BY <2>1, <2>2
  <1>12. Headed(d, a) = 1 .. i - 1
    <2>1. PICK H, R : H = Headed(d, a) /\ R = 1 .. i - 1
      OBVIOUS
    <2>2. \A j : j \in H <=> j \in R
      BY <1>11, <2>1
    <2>3. H = R
      BY <2>2
    <2>4. QED
      BY <2>1, <2>3
  <1>13. QED
    BY <1>9, <1>12

\* Where a loop begins, its tags are next, and new.
NewNext(d, h, a, w) ==
    /\ a + w \in DOMAIN d.order /\ 1 \in DOMAIN h /\ IsList(h) /\ DOMAIN h = 1 .. w
    /\ \A m \in DOMAIN h : h[m] \notin FirstTags(d, a)
    /\ FirstTags(d, a + w) = FirstTags(d, a) \cup {h[m] : m \in DOMAIN h}
    /\ [k \in 1 .. a |-> d.order[k]] \o h = [k \in 1 .. a + w |-> d.order[k]]

LEMMA TagsBehind ==
    ASSUME NEW even, NEW d, Balanced(d, even), Placed(d), InTurn(d),
           NEW i \in DOMAIN d.loops, NEW h, h = d.loops[i], NEW w \in Nat, w = Len(h),
           NEW a \in Nat, RunAt(d.order, h, a)
    PROVE  NewNext(d, h, a, w)
  <1>1. IsList(h) /\ 1 \in DOMAIN h
    BY DEF Balanced, Shaped, Columned, Placed, Together, Run
  <1>2. DOMAIN h = 1 .. w /\ w # 0
    BY <1>1, ListFacts
  <1>3. PICK n \in Nat : n = Len(d.order) /\ DOMAIN d.order = 1 .. n
    <2>1. IsList(d.order)
      BY DEF Placed, Listed
    <2>2. QED
      BY <2>1, ListFacts
  <1>4. \A m \in 1 .. w : a + m \in 1 .. n /\ d.order[a + m] = h[m]
    BY <1>2, <1>3 DEF RunAt
  <1>5. a + w \in 1 .. n
    BY <1>2, <1>4
  <1>6. ASSUME NEW m \in 1 .. w PROVE h[m] \notin FirstTags(d, a)
    <2>1. a + m \in DOMAIN d.order /\ a < a + m /\ a <= Len(d.order)
      BY <1>3, <1>4, <1>5
    <2>2. d.order[a + m] \notin FirstTags(d, a)
      BY <2>1, NotAmongFirst
    <2>3. QED
      BY <1>4, <2>2
  <1>7. FirstTags(d, a + w) = FirstTags(d, a) \cup {h[m] : m \in 1 .. w}
    <2>1. \A k \in 1 .. a + w : k \in 1 .. a \/ (k - a \in 1 .. w /\ k = a + (k - a))
      OBVIOUS
    <2>2. ASSUME NEW t \in FirstTags(d, a + w)
          PROVE  t \in FirstTags(d, a) \cup {h[m] : m \in 1 .. w}
      <3>1. PICK k \in 1 .. a + w : t = d.order[k]
        BY <2>2 DEF FirstTags
      <3>2. CASE k \in 1 .. a
        BY <3>1, <3>2 DEF FirstTags
      <3>3. CASE k - a \in 1 .. w /\ k = a + (k - a)
        <4>1. t = h[k - a]
          BY <1>4, <3>1, <3>3
        <4>2. QED
          BY <3>3, <4>1
      <3>4. QED
        BY <2>1, <3>2, <3>3
    <2>3. FirstTags(d, a) \subseteq FirstTags(d, a + w)
      <3>1. \A k \in 1 .. a : k \in 1 .. a + w
        OBVIOUS
      <3>2. QED
        BY <3>1 DEF FirstTags
    <2>4. ASSUME NEW m \in 1 .. w PROVE h[m] \in FirstTags(d, a + w)
      <3>1. a + m \in 1 .. a + w
        OBVIOUS
      <3>2. QED
        BY <1>4, <3>1 DEF FirstTags
    <2>5. QED
      BY <2>2, <2>3, <2>4
  <1>8. PICK o : o = [k \in 1 .. a |-> d.order[k]]
    OBVIOUS
  <1>9. PICK p : p = o \o h
    OBVIOUS
  <1>10. p = [k \in 1 .. a + w |-> d.order[k]]
    <2>1. o = [k \in 1 .. a |-> o[k]]
      BY <1>8
    <2>2. IsList(o) /\ DOMAIN o = 1 .. a
      BY <2>1, ListOverPlaces
    <2>3. Len(o) = a
      BY <2>2, ListFacts
    <2>4. IsList(p) /\ Joined(o, h, p)
      BY <1>1, <1>9, <2>2, Concatenated
    <2>5. DOMAIN p = 1 .. a + w /\ \A k \in 1 .. a + w : p[k] = d.order[k]
      <3>1. /\ DOMAIN p = 1 .. a + w
            /\ \A k \in 1 .. a : p[k] = o[k]
            /\ \A m \in 1 .. w : p[a + m] = h[m]
        BY <1>2, <2>2, <2>3, <2>4 DEF Joined
      <3>2. ASSUME NEW k \in 1 .. a + w PROVE p[k] = d.order[k]
        <4>1. CASE k \in 1 .. a
          BY <1>8, <3>1, <4>1
        <4>2. CASE k \notin 1 .. a
          <5>1. k - a \in 1 .. w /\ a + (k - a) = k
            BY <4>2
          <5>2. p[a + (k - a)] = d.order[a + (k - a)]
            BY <1>4, <3>1, <5>1
          <5>3. QED
            BY <5>1, <5>2
        <4>3. QED
          BY <4>1, <4>2
      <3>3. QED
        BY <3>1, <3>2
    <2>6. p = [k \in 1 .. a + w |-> p[k]]
      <3>1. Len(p) = a + w
        <4>1. Len(p) \in Nat /\ 1 .. Len(p) = 1 .. a + w
          BY <2>4, <2>5, ListFacts
        <4>2. QED
          BY <1>2, <4>1
      <3>2. QED
        BY <2>4, <3>1, ListFacts
    <2>7. QED
      BY <2>5, <2>6
  <1>11. QED
    BY <1>1, <1>2, <1>3, <1>5, <1>6, <1>7, <1>8, <1>9, <1>10 DEF NewNext

\* The columns of the item of a loop, by their tags.
ByTag(C, h, columns) == C = [t \in ToSet(h) |-> columns[SelectInSeq(h, LAMBDA x : x = t)]]

LEMMA ColumnsBack ==
    ASSUME NEW h, IsList(h), \A k, l \in DOMAIN h : h[k] = h[l] => k = l,
           NEW columns, NEW C, ByTag(C, h, columns), NEW m \in DOMAIN h
    PROVE  C[h[m]] = columns[m]
  <1>1. PICK n \in Nat : n = Len(h) /\ DOMAIN h = 1 .. n
    BY ListFacts
  <1>2. PICK I : I = {k \in 1 .. Len(h) : h[k] = h[m]}
    OBVIOUS
  <1>3. I = {m}
    BY <1>1, <1>2
  <1>4. {m} \subseteq Nat /\ {m} # {}
    BY <1>1
  <1>5. Min(I) = m
    <2>1. Min({m}) \in {m}
      BY <1>4, MinIsLeast
    <2>2. QED
      BY <1>3, <2>1
  <1>6. SelectInSeq(h, LAMBDA x : x = h[m]) = m
    BY <1>2, <1>3, <1>5 DEF SelectInSeq
  <1>7. C[h[m]] = columns[SelectInSeq(h, LAMBDA x : x = h[m])]
    <2>1. h[m] \in ToSet(h)
      BY DEF ToSet
    <2>2. QED
      BY <2>1 DEF ByTag
  <1>8. QED
    BY <1>6, <1>7

Holds(it, h, T) == it.loop /\ it.header = h /\ \A m \in DOMAIN h : it.columns[m] = T[h[m]]

LEMMA ItemHolds ==
    ASSUME NEW d, NEW h
    PROVE  Holds(ItemOf(d, h, TRUE), h, d.tags)
  <1>1. ItemOf(d, h, TRUE).loop
    BY DEF ItemOf
  <1>2. ItemOf(d, h, TRUE).header = h
    BY DEF ItemOf
  <1>3. ItemOf(d, h, TRUE).columns = [k \in DOMAIN h |-> d.tags[h[k]]]
    BY DEF ItemOf
  <1>4. \A m \in DOMAIN h : ItemOf(d, h, TRUE).columns[m] = d.tags[h[m]]
    BY <1>3
  <1>5. QED
    BY <1>1, <1>2, <1>4 DEF Holds

LEMMA LoopBehind ==
    ASSUME NEW even, NEW d, Balanced(d, even), Placed(d), InTurn(d),
           NEW i \in DOMAIN d.loops, NEW h, h = d.loops[i], NEW w \in Nat, w = Len(h),
           NEW a \in Nat, RunAt(d.order, h, a)
    PROVE  AddItem(Before(d, a), ItemAt(d, a + 1)) = Before(d, a + w)
  <1>1. /\ a + w \in DOMAIN d.order /\ 1 \in DOMAIN h /\ IsList(h) /\ DOMAIN h = 1 .. w
        /\ \A m \in DOMAIN h : h[m] \notin FirstTags(d, a)
        /\ FirstTags(d, a + w) = FirstTags(d, a) \cup {h[m] : m \in DOMAIN h}
        /\ [k \in 1 .. a |-> d.order[k]] \o h = [k \in 1 .. a + w |-> d.order[k]]
    <2>1. NewNext(d, h, a, w)
      BY TagsBehind
    <2>2. QED
      BY <2>1 DEF NewNext
  <1>2. Apart(d.loops)
    BY DEF Balanced, Shaped, Columned, Apart
  <1>3. PICK it : it = ItemAt(d, a + 1)
    OBVIOUS
  <1>4. it = ItemOf(d, h, TRUE)
    <2>1. 1 \in DOMAIN d.loops[i] /\ d.order[a + 1] = d.loops[i][1]
      BY <1>1 DEF RunAt
    <2>2. QED
      BY <1>2, <1>3, <2>1, LoopItem
  <1>5. PICK cs : cs = it.columns
    OBVIOUS
  <1>6. it.loop /\ it.header = h /\ \A m \in DOMAIN h : cs[m] = d.tags[h[m]]
    <2>1. Holds(it, h, d.tags)
      BY <1>4, ItemHolds
    <2>2. QED
      BY <1>5, <2>1 DEF Holds
  <1>7. \A k, l \in DOMAIN h : h[k] = h[l] => k = l
    BY <1>2, OnlyOnce DEF Apart
  <1>8. PICK C : ByTag(C, h, cs) /\ \A m \in DOMAIN h : C[h[m]] = d.tags[h[m]]
    <2>1. PICK F : F = [t \in ToSet(h) |-> cs[SelectInSeq(h, LAMBDA x : x = t)]]
      OBVIOUS
    <2>2. ByTag(F, h, cs) /\ IsList(h)
      BY <1>1, <2>1 DEF ByTag
    <2>3. \A m \in DOMAIN h : F[h[m]] = cs[m]
      BY <1>7, <2>2, ColumnsBack
    <2>4. QED
      BY <1>6, <2>2, <2>3
  <1>9. PICK before : before = Before(d, a)
    OBVIOUS
  <1>10. AddItem(before, it) = AddLoop(before, h, C)
    BY <1>5, <1>6, <1>8 DEF AddItem, ByTag
  <1>11. PICK o, B, L : o = before.order /\ B = before.tags /\ L = before.loops
    OBVIOUS
  <1>12. /\ o = [k \in 1 .. a |-> d.order[k]]
         /\ B = [t \in FirstTags(d, a) |-> d.tags[t]]
         /\ L = [j \in Headed(d, a) |-> d.loops[j]]
    BY <1>9, <1>11 DEF Before
  <1>13. NewTags(before, h) = h
    <2>1. DOMAIN before.tags = FirstTags(d, a)
      BY <1>11, <1>12
    <2>2. \A m \in DOMAIN h : h[m] \notin DOMAIN before.tags
      BY <1>1, <2>1
    <2>3. IsList(h)
      BY <1>1
    <2>4. QED
      BY <1>7, <2>2, <2>3, ListFacts, AllNew
  <1>14. PICK own, N : /\ own = {h[k] : k \in DOMAIN h}
                       /\ N = [t \in DOMAIN B \cup own |-> IF t \in own THEN C[t] ELSE B[t]]
    OBVIOUS
  <1>15. PICK p, M : p = o \o h /\ M = Append(L, h)
    OBVIOUS
  <1>16. AddLoop(before, h, C) = [order |-> p, tags |-> N, loops |-> M]
    BY <1>11, <1>13, <1>14, <1>15 DEF AddLoop
  <1>17. p = [k \in 1 .. a + w |-> d.order[k]]
    BY <1>1, <1>12, <1>15
  <1>18. N = [t \in FirstTags(d, a + w) |-> d.tags[t]]
    <2>1. DOMAIN B \cup own = FirstTags(d, a + w)
      BY <1>1, <1>12, <1>14
    <2>2. \A t \in FirstTags(d, a + w) : (IF t \in own THEN C[t] ELSE B[t]) = d.tags[t]
      BY <1>1, <1>8, <1>12, <1>14
    <2>3. QED
      BY <1>14, <2>1, <2>2
  <1>19. Headed(d, a) = 1 .. i - 1 /\ i \in Nat
    BY HeadedBefore
  <1>20. Headed(d, a + w) = 1 .. i
    <2>1. i \in 1 .. i
      <3>1. i # 0
        BY <1>2, ListFacts DEF Apart
      <3>2. QED
        BY <1>19, <3>1
    <2>2. \A j : j \in Headed(d, a + w) <=> j \in Headed(d, a) \/ j = i
      <3>1. ASSUME NEW j \in DOMAIN d.loops
            PROVE  d.loops[j][1] \in {h[m] : m \in DOMAIN h} <=> j = i
        <4>1. 1 \in DOMAIN d.loops[j]
          BY DEF Placed, Together, Run
        <4>2. \A m \in DOMAIN h : d.loops[j][1] = h[m] => j = i
          BY <1>2, <4>1, OnlyOnce DEF Apart
        <4>3. QED
          BY <1>1, <4>2
      <3>2. QED
        BY <1>1, <3>1 DEF Headed
    <2>3. \A j : j \in 1 .. i - 1 \/ j = i <=> j \in 1 .. i
      BY <1>19, <2>1
    <2>4. QED
      BY <1>19, <2>2, <2>3
  <1>21. M = [j \in Headed(d, a + w) |-> d.loops[j]]
    <2>1. PICK c \in Nat : c + 1 = i
      <3>1. i # 0
        BY <1>2, ListFacts DEF Apart
      <3>2. i - 1 \in Nat /\ (i - 1) + 1 = i
        BY <1>19, <3>1
      <3>3. QED
        BY <3>2
    <2>2. L = [j \in 1 .. c |-> d.loops[j]]
      <3>1. i - 1 = c
        BY <2>1
      <3>2. QED
        BY <1>12, <1>19, <3>1
    <2>3. Append(L, d.loops[c + 1]) = [j \in 1 .. c + 1 |-> d.loops[j]]
      BY <2>2, OneBehind
    <2>4. QED
      BY <1>15, <1>20, <2>1, <2>3
  <1>22. QED
    BY <1>3, <1>9, <1>10, <1>16, <1>17, <1>18, <1>21 DEF Before

\* Behind the last place of an item the next one starts.
LEMMA FirstStarts ==
    ASSUME NEW d, Apart(d.loops), Placed(d), NEW q \in Nat, q + 1 \in DOMAIN d.order,
           \A j \in DOMAIN d.loops : \A k \in DOMAIN d.loops[j] :
               q # 0 /\ d.loops[j][k] = d.order[q] => k + 1 \notin DOMAIN d.loops[j]
    PROVE  q + 1 \in Starts(d)
  <1>1. PICK n \in Nat : n = Len(d.order) /\ DOMAIN d.order = 1 .. n
    <2>1. IsList(d.order)
      BY DEF Placed, Listed
    <2>2. QED
      BY <2>1, ListFacts
  <1>2. ASSUME NEW j \in DOMAIN d.loops, NEW k \in DOMAIN d.loops[j], d.loops[j][k] = d.order[q + 1]
        PROVE  k = 1
    <2>1. PICK s \in Nat : RunAt(d.order, d.loops[j], s)
      BY DEF Placed, Together, Run
    <2>2. PICK w \in Nat : DOMAIN d.loops[j] = 1 .. w
      <3>1. IsList(d.loops[j])
        BY DEF Apart
      <3>2. QED
        BY <3>1, ListFacts
    <2>3. s + k \in DOMAIN d.order /\ d.order[s + k] = d.order[q + 1]
      BY <1>2, <2>1 DEF RunAt
    <2>4. s + k = q + 1
      BY <2>3, OnePlace DEF Placed
    <2>5. SUFFICES ASSUME k # 1 PROVE FALSE
      OBVIOUS
    <2>6. k - 1 \in DOMAIN d.loops[j] /\ s + (k - 1) = q /\ (k - 1) + 1 = k
      BY <2>2, <2>4, <2>5
    <2>7. q \in DOMAIN d.order /\ d.loops[j][k - 1] = d.order[q]
      BY <2>1, <2>6 DEF RunAt
    <2>8. q # 0
      BY <1>1, <2>7
    <2>9. QED
      BY <2>6, <2>7, <2>8
  <1>3. Leads(d.loops, d.order[q + 1])
    BY <1>2 DEF Leads
  <1>4. QED
    BY <1>3, StartsAre

\* An item read, and where the next starts.
ReadTo(d, s, q) ==
    /\ AddItem(Before(d, s - 1), ItemAt(d, s)) = Before(d, q)
    /\ s <= q /\ q \in DOMAIN d.order
    /\ \A k \in Starts(d) : k <= s \/ q < k
    /\ q + 1 \in DOMAIN d.order => q + 1 \in Starts(d)

LEMMA ItemRead ==
    ASSUME NEW even, NEW d, Balanced(d, even), Placed(d), InTurn(d), NEW s \in Starts(d)
    PROVE  \E q \in Nat : ReadTo(d, s, q)
  <1>1. Apart(d.loops)
    BY DEF Balanced, Shaped, Columned, Apart
  <1>2. PICK n \in Nat : n = Len(d.order) /\ DOMAIN d.order = 1 .. n
    <2>1. IsList(d.order)
      BY DEF Placed, Listed
    <2>2. QED
      BY <2>1, ListFacts
  <1>3. /\ s \in 1 .. n /\ Leads(d.loops, d.order[s])
        /\ \A k \in Starts(d) : k \in 1 .. n /\ Leads(d.loops, d.order[k])
    BY <1>1, <1>2, StartsAre
  <1>4. PICK a \in Nat : s = a + 1 /\ a = s - 1
    BY <1>3
  <1>5. CASE ~InLoop(d.loops, d.order[s])
    <2>1. AddItem(Before(d, a), ItemAt(d, a + 1)) = Before(d, a + 1)
      BY <1>2, <1>3, <1>4, <1>5, ScalarBehind
    <2>2. ASSUME NEW k \in Starts(d) PROVE k <= s \/ s < k
      <3>1. k \in 1 .. n /\ s \in 1 .. n
        BY <1>3
      <3>2. QED
        BY <3>1
    <2>3. ASSUME s + 1 \in DOMAIN d.order PROVE s + 1 \in Starts(d)
      <3>1. \A j \in DOMAIN d.loops : \A k \in DOMAIN d.loops[j] : d.loops[j][k] # d.order[s]
        BY <1>5 DEF InLoop
      <3>2. s \in Nat
        BY <1>3
      <3>3. QED
        BY <1>1, <2>3, <3>1, <3>2, FirstStarts
    <2>4. ReadTo(d, s, s)
      BY <1>2, <1>3, <1>4, <2>1, <2>2, <2>3 DEF ReadTo
    <2>5. QED
      BY <1>3, <2>4
  <1>6. CASE InLoop(d.loops, d.order[s])
    <2>1. PICK i, l : i \in DOMAIN d.loops /\ l \in DOMAIN d.loops[i] /\ d.loops[i][l] = d.order[s]
      BY <1>6 DEF InLoop
    <2>2. PICK h : h = d.loops[i]
      OBVIOUS
    <2>3. l = 1 /\ 1 \in DOMAIN h /\ h[1] = d.order[s]
      BY <1>3, <2>1, <2>2 DEF Leads
    <2>4. PICK w \in Nat : w = Len(h) /\ DOMAIN h = 1 .. w
      <3>1. IsList(h)
        BY <1>1, <2>1, <2>2 DEF Apart
      <3>2. QED
        BY <3>1, ListFacts
    <2>5. RunAt(d.order, h, a)
      <3>1. PICK b \in Nat : RunAt(d.order, h, b)
        BY <2>1, <2>2 DEF Placed, Together, Run
      <3>2. b + 1 \in DOMAIN d.order /\ d.order[b + 1] = d.order[s]
        BY <2>3, <3>1 DEF RunAt
      <3>3. s \in DOMAIN d.order
        BY <1>2, <1>3
      <3>4. b + 1 = s
        BY <3>2, <3>3, OnePlace DEF Placed
      <3>5. b = a
        BY <1>4, <3>4
      <3>6. QED
        BY <3>1, <3>5
    <2>6. PICK q \in Nat : q = a + w
      OBVIOUS
    <2>7. AddItem(Before(d, a), ItemAt(d, a + 1)) = Before(d, a + w)
      BY <2>1, <2>2, <2>4, <2>5, LoopBehind
    <2>8. w \in DOMAIN h /\ q \in DOMAIN d.order /\ d.order[q] = h[w]
      <3>1. w \in DOMAIN h
        BY <2>3, <2>4
      <3>2. QED
        BY <2>5, <2>6, <3>1 DEF RunAt
    <2>9. ASSUME NEW k \in Starts(d) PROVE k <= s \/ q < k
      <3>1. SUFFICES ASSUME ~(k <= s), ~(q < k) PROVE FALSE
        OBVIOUS
      <3>2. k - a \in 1 .. w /\ k = a + (k - a) /\ k - a # 1
        BY <1>3, <1>4, <2>6, <3>1
      <3>3. d.order[k] = h[k - a]
        BY <2>4, <2>5, <3>2 DEF RunAt
      <3>4. Leads(d.loops, d.order[k])
        BY <1>3
      <3>5. k - a = 1
        BY <2>1, <2>2, <2>4, <3>2, <3>3, <3>4 DEF Leads
      <3>6. QED
        BY <3>2, <3>5
    <2>10. ASSUME q + 1 \in DOMAIN d.order PROVE q + 1 \in Starts(d)
      <3>1. ASSUME NEW j \in DOMAIN d.loops, NEW k \in DOMAIN d.loops[j], d.loops[j][k] = d.order[q]
            PROVE  k + 1 \notin DOMAIN d.loops[j]
        <4>1. d.loops[j][k] = d.loops[i][w] /\ w \in DOMAIN d.loops[i]
          BY <2>2, <2>8, <3>1
        <4>2. j = i /\ k = w
          BY <1>1, <2>1, <4>1, OnlyOnce DEF Apart
        <4>3. w + 1 \notin DOMAIN h
          BY <2>4
        <4>4. QED
          BY <2>2, <4>2, <4>3
      <3>2. QED
        BY <1>1, <2>10, <3>1, FirstStarts
    <2>11. ReadTo(d, s, q)
      <3>1. s <= q
        BY <1>4, <2>3, <2>4, <2>6
      <3>2. QED
        BY <1>4, <2>6, <2>7, <2>8, <2>9, <2>10, <3>1 DEF ReadTo
    <2>12. QED
      BY <2>11
  <1>7. QED
    BY <1>5, <1>6

\* A namespace whose loops are in the order of their tags is what its items read back as.
LEMMA ReplayOf ==
    ASSUME NEW even, NEW d, Balanced(d, even), Placed(d), InTurn(d)
    PROVE  Replay(Items(d)) = d
  <1>1. Apart(d.loops)
    BY DEF Balanced, Shaped, Columned, Apart
  <1>2. PICK n \in Nat : n = Len(d.order) /\ DOMAIN d.order = 1 .. n
    <2>1. IsList(d.order)
      BY DEF Placed, Listed
    <2>2. QED
      BY <2>1, ListFacts
  <1>3. PICK p : Sorts(p, Starts(d))
    BY <1>1, StartsListed
  <1>4. PICK items : items = Items(d)
    OBVIOUS
  <1>5. PICK m \in Nat : /\ m = Len(p) /\ DOMAIN p = 1 .. m /\ Len(items) = m
                         /\ \A k \in 1 .. m : p[k] \in Starts(d) /\ items[k] = ItemAt(d, p[k])
    BY <1>1, <1>3, <1>4, ItemsListed
  <1>6. /\ \A k \in 1 .. m : p[k] \in 1 .. n
        /\ \A k, l \in 1 .. m : k < l => p[k] < p[l]
        /\ \A s \in Starts(d) : \E k \in 1 .. m : p[k] = s
    <2>1. Starts(d) \subseteq 1 .. n
      BY <1>1, <1>2, StartsAre
    <2>2. \A s \in Starts(d) : \E k \in 1 .. m : p[k] = s
      BY <1>3, <1>5 DEF Sorts
    <2>3. \A k, l \in 1 .. m : k < l => p[k] < p[l]
      BY <1>3, <1>5 DEF Sorts
    <2>4. QED
      BY <1>5, <2>1, <2>2, <2>3
  <1>7. n # 0 => 1 \in Starts(d)
    <2>1. SUFFICES ASSUME n # 0 PROVE 0 + 1 \in Starts(d)
      OBVIOUS
    <2>2. 0 + 1 \in DOMAIN d.order
      BY <1>2, <2>1
    <2>3. QED
      BY <1>1, <2>2, FirstStarts
  <1>8. PICK until : until = [k \in 0 .. m |-> IF k < m THEN p[k + 1] - 1 ELSE n]
    OBVIOUS
  <1>9. until[0] = 0
    <2>1. CASE m = 0
      <3>1. n = 0
        BY <1>6, <1>7, <2>1
      <3>2. QED
        BY <1>8, <2>1, <3>1
    <2>2. CASE m # 0
      <3>1. p[1] \in 1 .. n
        BY <1>6, <2>2
      <3>2. PICK k \in 1 .. m : p[k] = 1
        BY <1>6, <1>7, <3>1
      <3>3. k = 1
        <4>1. 1 < k => p[1] < 1
          BY <1>6, <2>2, <3>2
        <4>2. QED
          BY <3>1, <4>1
      <3>4. until[0] = p[0 + 1] - 1
        BY <1>8, <2>2
      <3>5. QED
        BY <3>2, <3>3, <3>4
    <2>3. QED
      BY <2>1, <2>2
  <1>10. PICK f : f = [k \in 0 .. m |-> Before(d, until[k])]
    OBVIOUS
  <1>11. ASSUME NEW k \in 1 .. m
         PROVE  f[k] = AddItem(f[k - 1], items[k])
    <2>1. PICK s : s = p[k]
      OBVIOUS
    <2>2. s \in Starts(d) /\ s \in 1 .. n /\ items[k] = ItemAt(d, s)
      BY <1>5, <1>6, <2>1
    <2>3. until[k - 1] = s - 1 /\ k - 1 \in 0 .. m
      <3>1. k - 1 \in 0 .. m /\ k - 1 < m /\ (k - 1) + 1 = k
        OBVIOUS
      <3>2. QED
        BY <1>8, <2>1, <3>1
    <2>4. PICK q \in Nat : ReadTo(d, s, q)
      BY <2>2, ItemRead
    <2>5. /\ AddItem(Before(d, s - 1), ItemAt(d, s)) = Before(d, q)
          /\ s <= q /\ q \in 1 .. n /\ (\A j \in Starts(d) : j <= s \/ q < j)
          /\ (q + 1 \in 1 .. n => q + 1 \in Starts(d))
      BY <1>2, <2>4 DEF ReadTo
    <2>6. q = until[k]
      <3>1. CASE k = m
        <4>1. until[k] = n
          BY <1>8, <3>1
        <4>2. q + 1 \notin 1 .. n
          <5>1. SUFFICES ASSUME q + 1 \in 1 .. n PROVE FALSE
            OBVIOUS
          <5>2. PICK l \in 1 .. m : p[l] = q + 1
            BY <1>6, <2>5, <5>1
          <5>3. l < k => p[l] < s
            BY <1>6, <2>1
          <5>4. l = k \/ l < k
            BY <3>1
          <5>5. p[l] <= s
            BY <2>1, <2>2, <5>2, <5>3, <5>4
          <5>6. QED
            BY <2>2, <2>5, <5>2, <5>5
        <4>3. QED
          BY <2>5, <4>1, <4>2
      <3>2. CASE k # m
        <4>1. PICK b : b = p[k + 1]
          OBVIOUS
        <4>2. k + 1 \in 1 .. m /\ k < k + 1 /\ k < m /\ k \in 0 .. m
          BY <3>2
        <4>3. b \in Starts(d) /\ b \in 1 .. n /\ s < b
          BY <1>5, <1>6, <2>1, <4>1, <4>2
        <4>4. q < b
          BY <2>2, <2>5, <4>3
        <4>5. q + 1 \in Starts(d)
          BY <2>5, <4>3, <4>4
        <4>6. PICK l \in 1 .. m : p[l] = q + 1
          BY <1>6, <4>5
        <4>7. b <= q + 1
          <5>1. k < l
            <6>1. l < k => p[l] < s
              BY <1>6, <2>1
            <6>2. l # k /\ ~(l < k)
              BY <2>1, <2>2, <2>5, <4>6, <6>1
            <6>3. QED
              BY <6>2
          <5>2. l = k + 1 \/ k + 1 < l
            BY <5>1
          <5>3. k + 1 < l => b < p[l]
            BY <1>6, <4>1, <4>2
          <5>4. QED
            BY <2>5, <4>1, <4>3, <4>6, <5>2, <5>3
        <4>8. until[k] = b - 1
          BY <1>8, <4>1, <4>2
        <4>9. QED
          BY <2>5, <4>3, <4>4, <4>7, <4>8
      <3>3. QED
        BY <3>1, <3>2
    <2>7. f[k] = Before(d, q) /\ f[k - 1] = Before(d, s - 1)
      <3>1. k \in 0 .. m
        OBVIOUS
      <3>2. QED
        BY <1>10, <2>3, <2>6, <3>1
    <2>8. QED
      BY <2>2, <2>5, <2>7
  <1>12. f[0] = NoData
    <2>1. f[0] = Before(d, 0)
      BY <1>9, <1>10
    <2>2. QED
      BY <2>1, NothingBefore
  <1>13. f[m] = d
    <2>1. f[m] = Before(d, n)
      BY <1>8, <1>10
    <2>2. QED
      BY <1>2, <2>1, AllBefore
  <1>14. Replay(items) = f[m]
    BY <1>5, <1>11, <1>12, ReplayReads
  <1>15. QED
    BY <1>4, <1>13, <1>14

ReplayInv == LookupsInv /\ FileTidy(file, FALSE, TRUE, TRUE)

LEMMA ReplayAlways == EditsSpec /\ FileTidy(file, FALSE, TRUE, TRUE) => []ReplayInv
  <1>1. Init /\ FileTidy(file, FALSE, TRUE, TRUE) => ReplayInv
    BY LookupsInit DEF ReplayInv
  <1>2. ReplayInv /\ [Next /\ cleaned' = <<>>]_vars => ReplayInv'
    <2>1. CASE UNCHANGED vars
      BY <2>1 DEF ReplayInv, LookupsInv, FileInv, Exact, FileTidy, AllTidy, vars
    <2>2. ASSUME ReplayInv, Next, cleaned' = <<>>
          PROVE  ReplayInv'
      <3>1. FileInv(file) /\ FileTidy(file, FALSE, TRUE, TRUE)
        BY <2>2 DEF ReplayInv, LookupsInv
      <3>2. FileTidy(file', FALSE, TRUE, TRUE)
        BY <2>2, <3>1, TidyStep
      <3>3. LookupsInv'
        BY <2>2, LookupsStep DEF ReplayInv
      <3>4. QED
        BY <3>2, <3>3 DEF ReplayInv, FileTidy, AllTidy, Tidy
    <2>3. QED
      BY <2>1, <2>2
  <1>3. QED
    BY <1>1, <1>2, PTL DEF EditsSpec

\* The order, the values and the loops of a namespace, which the handles of a writer edit one
\* by one (SaveFrameWriter), are always those the builder would make of its items: no tag is
\* unlisted, in two loops or apart from its loop, and the loops are in the order of their tags.
\* It is so of a file in which it was so, and every tag outside a loop had a value.
THEOREM NamespacesReplayed == EditsSpec /\ FileTidy(file, FALSE, TRUE, TRUE) => []NamespacesReplay
  <1>1. ASSUME NEW d, Tidy(d, FALSE, TRUE, TRUE)
        PROVE  Replay(Items(d)) = d
    BY <1>1, ReplayOf DEF Tidy
  <1>2. ReplayInv => NamespacesReplay
    BY <1>1, TidyEverywhere DEF ReplayInv, NamespacesReplay
  <1>3. QED
    BY <1>2, ReplayAlways, PTL

\* All of it for a writer that begins with an empty file, and nothing assumed.
THEOREM WrittenFromScratch ==
    EditsSpec /\ file = Empty
        => [](TypeOK /\ LookupsAgree /\ TagsAreListed /\ OnlyReassignUnbalances /\ NamespacesReplay)
  <1>1. file = Empty => FileTidy(file, ~reassigned, TRUE, FALSE) /\ FileTidy(file, FALSE, TRUE, TRUE)
    BY DEF Empty, FileTidy, AllTidy
  <1>2. QED
    BY <1>1, TypeCorrect, LookupsCorrect, TagsStayListed, OnlyReassign, NamespacesReplayed, PTL

===============================================================================

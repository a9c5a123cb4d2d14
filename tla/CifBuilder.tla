----------------------------- MODULE CifBuilder -----------------------------
(***************************************************************************)
(* The Python builder (cifmodel/builder.py, over the CifBlock and CifFile  *)
(* of cif_model.rs), the sink of cifflow_core.parse: the sibling of        *)
(* RawBuilder, written apart from it.  pFile is `result`, a view of what   *)
(* has been accumulated; _block is its last element.                       *)
(***************************************************************************)
EXTENDS CifModel
LOCAL INSTANCE SequencesExt

CONSTANTS
    PyFold,         \* _casefold, NFC(casefold(NFD(x)))
    RustFold        \* to_lowercase, which lookups in the IR apply

VARIABLES
    strict,                 \* mode = 'strict', chosen by the caller
    pStopped, pErrors,
    pFile,                  \* _file, the current block last
    pFrame,                 \* _save_frame
    pActive, pInLoop, pHeader, pIndex, pColumns,
    pStack                  \* _container_stack

pItem == <<pActive, pInLoop, pHeader, pIndex, pColumns, pStack>>
pVars == <<pStopped, pErrors, pFile, pFrame, pItem>>

PyInit ==
    /\ strict \in BOOLEAN
    /\ pStopped = FALSE /\ pErrors = <<>>
    /\ pFile = <<>> /\ pFrame = <<>>
    /\ pActive = <<>>
    /\ pInLoop = FALSE /\ pHeader = <<>> /\ pIndex = 0 /\ pColumns = <<>>
    /\ pStack = <<>>

NoBlock == pFile = <<>>
Current == Len(pFile)

\* _semantic_error
PySemanticErrorIf(cond, what) ==
    /\ pErrors' = IF cond THEN Append(pErrors, what) ELSE pErrors
    /\ pStopped' = (pStopped \/ (cond /\ strict))

\* CifFile.__contains__
InFile(name) == \E i \in DOMAIN pFile : pFile[i].name = RustFold[name]

\* CifBlock.__contains__: a name that begins with '_' is looked up among the tags.
InBlock(block, name) ==
    IF RustFold[name] \in AllTags
    THEN RustFold[name] \in DOMAIN block.data.tags
    ELSE \E i \in DOMAIN block.frames : block.frames[i].name = RustFold[name]

OnDataBlockPy(n) ==
    LET name == PyFold[n] IN
    /\ PySemanticErrorIf(InFile(name), "duplicate block")
    /\ pFile' = Append(pFile, [name |-> name, data |-> NoData, frames |-> <<>>])
    /\ pFrame' = <<>>
    /\ pActive' = <<>>
    /\ pInLoop' = FALSE /\ pHeader' = <<>> /\ pIndex' = 0 /\ pColumns' = <<>>
    /\ pStack' = <<>>

OnSaveFrameStartPy(n) ==
    LET name == PyFold[n] IN
    IF NoBlock THEN UNCHANGED pVars
    ELSE /\ PySemanticErrorIf(InBlock(pFile[Current], name), "duplicate save frame")
         /\ pFrame' = <<[name |-> name, data |-> NoData]>>
         /\ UNCHANGED <<pFile, pItem>>

\* on_save_frame_end and _add_save_frame
OnSaveFrameEndPy ==
    /\ ~NoBlock
    /\ pFile' = [pFile EXCEPT ![Current].frames = @ \o pFrame]
    /\ pFrame' = <<>>
    /\ UNCHANGED <<pStopped, pErrors, pItem>>

AddTagPy(t) ==
    /\ pActive' = <<PyFold[t]>>
    /\ UNCHANGED <<pStopped, pErrors, pFile, pFrame, pInLoop, pHeader, pIndex, pColumns, pStack>>

\* Apply Op to _current_ns.
UpdateCurrentNs(Op(_)) ==
    IF pFrame # <<>>
    THEN pFrame' = <<[pFrame[1] EXCEPT !.data = Op(@)]>> /\ UNCHANGED pFile
    ELSE /\ pFile' = IF NoBlock THEN pFile ELSE [pFile EXCEPT ![Current].data = Op(@)]
         /\ UNCHANGED pFrame

\* What a container does with a value.
PyPut(c, v) ==
    IF c.is = "list" THEN [c EXCEPT !.items = Append(@, v)]
    ELSE IF c.key = <<>> THEN c
    ELSE [c EXCEPT !.items = DictSet(@, c.key[1], v), !.key = <<>>]

\* _dispatch_value, with the containers in s
DispatchPy(s, v) ==
    /\ UNCHANGED <<pStopped, pErrors, pInLoop, pHeader>>
    /\ IF s # <<>>
       THEN /\ pStack' = [s EXCEPT ![Len(s)] = PyPut(@, v)]
            /\ UNCHANGED <<pFile, pFrame, pActive, pIndex, pColumns>>
       ELSE /\ pStack' = s
            /\ IF pInLoop
               THEN LET tag == pHeader[(pIndex % Len(pHeader)) + 1] IN
                    /\ pColumns' = [pColumns EXCEPT ![tag] = Append(@, v)]
                    /\ pIndex' = pIndex + 1
                    /\ UNCHANGED <<pFile, pFrame, pActive>>
               ELSE /\ UNCHANGED <<pIndex, pColumns>>
                    /\ IF ~NoBlock /\ pActive # <<>>
                       THEN /\ UpdateCurrentNs(LAMBDA d : AppendValue(d, pActive[1], v))
                            /\ pActive' = <<>>
                       ELSE UNCHANGED <<pFile, pFrame, pActive>>

AddValuePy(x, form) == DispatchPy(pStack, Str(x, form))

OpenPy(kind) ==
    /\ pStack' = Append(pStack, [is |-> kind, items |-> <<>>, key |-> <<>>])
    /\ UNCHANGED <<pStopped, pErrors, pFile, pFrame, pActive, pInLoop, pHeader, pIndex, pColumns>>

\* on_list_end dispatches whatever it pops, on_table_end only a table.
ClosePy(kind) ==
    LET c    == pStack[Len(pStack)]
        rest == SubSeq(pStack, 1, Len(pStack) - 1)
    IN  IF kind = "list" \/ c.is = "table"
        THEN DispatchPy(rest, IF c.is = "list" THEN Lst(c.items) ELSE Tbl(c.items))
        ELSE /\ pStack' = rest
             /\ UNCHANGED <<pStopped, pErrors, pFile, pFrame, pActive, pInLoop, pHeader,
                            pIndex, pColumns>>

OnTableKeyPy(k) ==
    /\ pStack' = IF pStack[Len(pStack)].is = "table"
                 THEN [pStack EXCEPT ![Len(pStack)].key = <<k>>] ELSE pStack
    /\ UNCHANGED <<pStopped, pErrors, pFile, pFrame, pActive, pInLoop, pHeader, pIndex, pColumns>>

OnLoopStartPy(header) ==
    /\ pInLoop' = TRUE /\ pIndex' = 0
    /\ pHeader' = [i \in DOMAIN header |-> PyFold[header[i]]]
    /\ pColumns' = [t \in ToSet(pHeader') |-> <<>>]
    /\ UNCHANGED <<pStopped, pErrors, pFile, pFrame, pActive, pStack>>

\* A row cut short is padded, or in strict mode ends the accumulation.
OnLoopEndPy ==
    LET short == pHeader # <<>> /\ pIndex % Len(pHeader) # 0
        kept  == pHeader # <<>> /\ ~(short /\ strict)
    IN  /\ PySemanticErrorIf(short, "incomplete loop row")
        /\ pInLoop' = FALSE
        /\ IF kept
           THEN /\ UpdateCurrentNs(LAMBDA d :
                        AddLoop(d, pHeader, Padded(pColumns, pHeader, pIndex)))
                /\ pHeader' = <<>> /\ pIndex' = 0 /\ pColumns' = <<>>
           ELSE UNCHANGED <<pFile, pFrame, pHeader, pIndex, pColumns>>
        /\ UNCHANGED <<pActive, pStack>>

\* The early returns of the callbacks: a builder that has stopped, a frame without
\* a block, a container that is not open.
PyIgnores(c) ==
    \/ pStopped
    \/ c.op = "on_save_frame_end" /\ NoBlock
    \/ c.op \in {"on_list_end", "on_table_end", "on_table_key"} /\ pStack = <<>>

PyCall(c) ==
    /\ UNCHANGED strict
    /\ IF PyIgnores(c) THEN UNCHANGED pVars
       ELSE CASE c.op = "on_data_block"       -> OnDataBlockPy(c.arg)
              [] c.op = "on_save_frame_start" -> OnSaveFrameStartPy(c.arg)
              [] c.op = "on_save_frame_end"   -> OnSaveFrameEndPy
              [] c.op = "add_tag"             -> AddTagPy(c.arg)
              [] c.op = "add_value"           -> AddValuePy(c.arg, c.form)
              [] c.op = "on_list_start"       -> OpenPy("list")
              [] c.op = "on_table_start"      -> OpenPy("table")
              [] c.op = "on_list_end"         -> ClosePy("list")
              [] c.op = "on_table_end"        -> ClosePy("table")
              [] c.op = "on_table_key"        -> OnTableKeyPy(c.arg)
              [] c.op = "on_loop_start"       -> OnLoopStartPy(c.tags)
              [] c.op = "on_loop_end"         -> OnLoopEndPy

=============================================================================

----------------------------- MODULE RawBuilder -----------------------------
(***************************************************************************)
(* The Rust builder (raw_builder.rs), the sink of parse_cif, parse_raw and *)
(* parse_arrow: one action per callback, and the document `finish` hands   *)
(* over.  In strict mode the first semantic error stops it for good.       *)
(***************************************************************************)
EXTENDS CifModel

CONSTANTS
    RustFold        \* to_lowercase, on the names and tags in use

VARIABLES
    strict,                 \* mode_strict, chosen by the caller
    rStopped, rErrors,      \* semantic errors reported, in order
    rBlock, rFrame,         \* current_block, current_save_frame
    rSeenBlocks, rSeenFrames,
    rActive,                \* active_tag
    rInLoop, rHeader, rIndex, rColumns,
    rStack,                 \* container_stack
    rBlocks                 \* completed_blocks

rItem == <<rActive, rInLoop, rHeader, rIndex, rColumns, rStack>>
rVars == <<rStopped, rErrors, rBlock, rFrame, rSeenBlocks, rSeenFrames, rItem, rBlocks>>

RawInit ==
    /\ strict \in BOOLEAN
    /\ rStopped = FALSE /\ rErrors = <<>>
    /\ rBlock = <<>> /\ rFrame = <<>> /\ rBlocks = <<>>
    /\ rSeenBlocks = {} /\ rSeenFrames = {}
    /\ rActive = <<>>
    /\ rInLoop = FALSE /\ rHeader = <<>> /\ rIndex = 0 /\ rColumns = <<>>
    /\ rStack = <<>>

\* finish(): a save frame still open is not part of the document.
RawDocument == rBlocks \o rBlock

\* Mutant of SemanticErrorIf: strict mode goes on.
SemanticErrorNeverStops(cond, what) ==
    /\ rErrors' = IF cond THEN Append(rErrors, what) ELSE rErrors
    /\ UNCHANGED rStopped

\* semantic_error
SemanticErrorIf(cond, what) ==
    /\ rErrors' = IF cond THEN Append(rErrors, what) ELSE rErrors
    /\ rStopped' = (rStopped \/ (cond /\ strict))

\* Mutant of OnDataBlockRaw: the block before is not finished.
OnDataBlockRawForgets(n) ==
    LET name == RustFold[n] IN
    /\ SemanticErrorIf(name \in rSeenBlocks, "duplicate block")
    /\ rBlock' = <<[name |-> name, data |-> NoData, frames |-> <<>>]>>
    /\ rSeenBlocks' = rSeenBlocks \cup {name}
    /\ rFrame' = <<>> /\ rSeenFrames' = {}
    /\ rActive' = <<>>
    /\ rInLoop' = FALSE /\ rHeader' = <<>> /\ rIndex' = 0 /\ rColumns' = <<>>
    /\ rStack' = <<>>
    /\ UNCHANGED rBlocks

OnDataBlockRaw(n) ==
    LET name == RustFold[n] IN
    /\ SemanticErrorIf(name \in rSeenBlocks, "duplicate block")
    /\ rBlocks' = rBlocks \o rBlock
    /\ rBlock' = <<[name |-> name, data |-> NoData, frames |-> <<>>]>>
    /\ rSeenBlocks' = rSeenBlocks \cup {name}
    /\ rFrame' = <<>> /\ rSeenFrames' = {}
    /\ rActive' = <<>>
    /\ rInLoop' = FALSE /\ rHeader' = <<>> /\ rIndex' = 0 /\ rColumns' = <<>>
    /\ rStack' = <<>>

OnSaveFrameStartRaw(n) ==
    LET name == RustFold[n] IN
    IF rBlock = <<>> THEN UNCHANGED rVars
    ELSE /\ SemanticErrorIf(name \in rSeenFrames, "duplicate save frame")
         /\ rSeenFrames' = rSeenFrames \cup {name}
         /\ rFrame' = <<[name |-> name, data |-> NoData]>>
         /\ UNCHANGED <<rBlock, rSeenBlocks, rItem, rBlocks>>

OnSaveFrameEndRaw ==
    /\ rFrame' = IF rBlock = <<>> THEN rFrame ELSE <<>>
    /\ rBlock' = IF rBlock = <<>> THEN rBlock
                 ELSE <<[rBlock[1] EXCEPT !.frames = @ \o rFrame]>>
    /\ UNCHANGED <<rStopped, rErrors, rSeenBlocks, rSeenFrames, rItem, rBlocks>>

AddTagRaw(t) ==
    /\ rActive' = <<RustFold[t]>>
    /\ UNCHANGED <<rStopped, rErrors, rBlock, rFrame, rSeenBlocks, rSeenFrames, rInLoop,
                   rHeader, rIndex, rColumns, rStack, rBlocks>>

\* Apply Op to the data of the open save frame, or else of the open block.
UpdateNamespace(Op(_)) ==
    IF rFrame # <<>>
    THEN rFrame' = <<[rFrame[1] EXCEPT !.data = Op(@)]>> /\ UNCHANGED rBlock
    ELSE /\ rBlock' = IF rBlock = <<>> THEN <<>> ELSE <<[rBlock[1] EXCEPT !.data = Op(@)]>>
         /\ UNCHANGED rFrame

\* What a container does with a value; a table without a key drops it.
Put(c, v) ==
    IF c.is = "list" THEN [c EXCEPT !.items = Append(@, v)]
    ELSE IF c.key = <<>> THEN c
    ELSE [c EXCEPT !.items = Append(@, <<c.key[1], v>>), !.key = <<>>]

\* dispatch_value, with the containers in s
DispatchRaw(s, v) ==
    /\ UNCHANGED <<rStopped, rErrors, rSeenBlocks, rSeenFrames, rInLoop, rHeader, rBlocks>>
    /\ IF s # <<>>
       THEN /\ rStack' = [s EXCEPT ![Len(s)] = Put(@, v)]
            /\ UNCHANGED <<rBlock, rFrame, rActive, rIndex, rColumns>>
       ELSE /\ rStack' = s
            /\ IF rInLoop
               THEN LET tag == rHeader[(rIndex % Len(rHeader)) + 1] IN
                    /\ rColumns' = [rColumns EXCEPT ![tag] = Append(@, v)]
                    /\ rIndex' = rIndex + 1
                    /\ UNCHANGED <<rBlock, rFrame, rActive>>
               ELSE /\ IF rActive # <<>>
                       THEN UpdateNamespace(LAMBDA d : AppendValue(d, rActive[1], v))
                       ELSE UNCHANGED <<rBlock, rFrame>>
                    /\ rActive' = <<>>
                    /\ UNCHANGED <<rIndex, rColumns>>

AddValueRaw(x, form) == DispatchRaw(rStack, Str(x, form))

OpenRaw(kind) ==
    /\ rStack' = Append(rStack, [is |-> kind, items |-> <<>>, key |-> <<>>])
    /\ UNCHANGED <<rStopped, rErrors, rBlock, rFrame, rSeenBlocks, rSeenFrames, rActive,
                   rInLoop, rHeader, rIndex, rColumns, rBlocks>>

\* on_list_end, on_table_end: pop, and dispatch what was popped if it is of the kind.
CloseRaw(kind) ==
    IF rStack = <<>> THEN UNCHANGED rVars
    ELSE LET c == rStack[Len(rStack)]
             rest == SubSeq(rStack, 1, Len(rStack) - 1)
         IN  IF c.is = kind
             THEN DispatchRaw(rest, IF kind = "list" THEN Lst(c.items) ELSE Tbl(c.items))
             ELSE rStack' = rest
                  /\ UNCHANGED <<rStopped, rErrors, rBlock, rFrame, rSeenBlocks, rSeenFrames,
                                 rActive, rInLoop, rHeader, rIndex, rColumns, rBlocks>>

OnTableKeyRaw(k) ==
    /\ rStack' = IF rStack # <<>> /\ rStack[Len(rStack)].is = "table"
                 THEN [rStack EXCEPT ![Len(rStack)].key = <<k>>] ELSE rStack
    /\ UNCHANGED <<rStopped, rErrors, rBlock, rFrame, rSeenBlocks, rSeenFrames, rActive,
                   rInLoop, rHeader, rIndex, rColumns, rBlocks>>

OnLoopStartRaw(header) ==
    /\ rInLoop' = TRUE /\ rIndex' = 0
    /\ rHeader' = [i \in DOMAIN header |-> RustFold[header[i]]]
    /\ rColumns' = [t \in {rHeader'[i] : i \in DOMAIN header} |-> <<>>]
    /\ UNCHANGED <<rStopped, rErrors, rBlock, rFrame, rSeenBlocks, rSeenFrames, rActive,
                   rStack, rBlocks>>

\* FrameData::add_loop takes the column out of the buffers at the first occurrence
\* of its tag, and finds none at a second.
TakenColumns(columns, header) ==
    [t \in DOMAIN columns |->
        IF \E i, j \in DOMAIN header : i # j /\ header[i] = t /\ header[j] = t
        THEN <<>> ELSE columns[t]]

\* Mutant of OnLoopEndRaw: in_loop is not reset.
OnLoopEndRawStaysOpen ==
    LET ragged == rHeader # <<>> /\ rIndex % Len(rHeader) # 0
        columns == TakenColumns(Padded(rColumns, rHeader, rIndex), rHeader)
    IN  /\ SemanticErrorIf(ragged, "incomplete loop row")
        /\ IF rHeader = <<>> \/ (ragged /\ strict) THEN UNCHANGED <<rBlock, rFrame>>
           ELSE UpdateNamespace(LAMBDA d : AddLoop(d, rHeader, columns))
        /\ rHeader' = <<>> /\ rIndex' = 0 /\ rColumns' = <<>>
        /\ UNCHANGED <<rInLoop, rSeenBlocks, rSeenFrames, rActive, rStack, rBlocks>>

OnLoopEndRaw ==
    LET ragged == rHeader # <<>> /\ rIndex % Len(rHeader) # 0
        columns == TakenColumns(Padded(rColumns, rHeader, rIndex), rHeader)
    IN  /\ SemanticErrorIf(ragged, "incomplete loop row")
        /\ IF rHeader = <<>> \/ (ragged /\ strict) THEN UNCHANGED <<rBlock, rFrame>>
           ELSE UpdateNamespace(LAMBDA d : AddLoop(d, rHeader, columns))
        /\ rInLoop' = FALSE /\ rHeader' = <<>> /\ rIndex' = 0 /\ rColumns' = <<>>
        /\ UNCHANGED <<rSeenBlocks, rSeenFrames, rActive, rStack, rBlocks>>

\* The callbacks; a stopped builder ignores them.
RawCall(c) ==
    /\ UNCHANGED strict
    /\ IF rStopped THEN UNCHANGED rVars
       ELSE CASE c.op = "on_data_block"       -> OnDataBlockRaw(c.arg)
              [] c.op = "on_save_frame_start" -> OnSaveFrameStartRaw(c.arg)
              [] c.op = "on_save_frame_end"   -> OnSaveFrameEndRaw
              [] c.op = "add_tag"             -> AddTagRaw(c.arg)
              [] c.op = "add_value"           -> AddValueRaw(c.arg, c.form)
              [] c.op = "on_list_start"       -> OpenRaw("list")
              [] c.op = "on_table_start"      -> OpenRaw("table")
              [] c.op = "on_list_end"         -> CloseRaw("list")
              [] c.op = "on_table_end"        -> CloseRaw("table")
              [] c.op = "on_table_key"        -> OnTableKeyRaw(c.arg)
              [] c.op = "on_loop_start"       -> OnLoopStartRaw(c.tags)
              [] c.op = "on_loop_end"         -> OnLoopEndRaw

=============================================================================

------------------------------ MODULE Pipeline ------------------------------
(***************************************************************************)
(* Reading a CIF file: the parser and, side by side, the two sinks it can  *)
(* have, the Rust builder behind cifflow.build and the Python builder      *)
(* behind the callback interface.  Every callback goes to both, so that    *)
(* the two documents can be compared after each token.  `ctx` keeps the    *)
(* context of the callbacks, as in ParserStream.                           *)
(***************************************************************************)
EXTENDS ParserStream

CONSTANTS
    Alphabets,          \* what a file is made of: one of these sets of tokens
    RustFold, PyFold

ASSUME AlphabetsAssumption == Alphabets # {} /\ UNION Alphabets \subseteq Tokens

VARIABLES
    alphabet,   \* the tokens of this file
    strict,     \* the mode of the builders
    rStopped, rErrors, rBlock, rFrame, rSeenBlocks, rSeenFrames, rActive, rInLoop, rHeader,
    rIndex, rColumns, rStack, rBlocks,
    pStopped, pErrors, pFile, pFrame, pActive, pInLoop, pHeader, pIndex, pColumns, pStack,
    sent,       \* history: the scalars of the file passed on inside a data block
    misplaced,  \* history: something of the file had no place of its own (Misplaces)
    faulty      \* history: the parser reported an error

IR  == INSTANCE CifModel
Raw == INSTANCE RawBuilder
Py  == INSTANCE CifBuilder

builders ==
    <<strict, rStopped, rErrors, rBlock, rFrame, rSeenBlocks, rSeenFrames, rActive, rInLoop, rHeader,
      rIndex, rColumns, rStack, rBlocks,
      pStopped, pErrors, pFile, pFrame, pActive, pInLoop, pHeader, pIndex, pColumns, pStack>>

pipelineVars == <<vars, alphabet, builders, sent, misplaced, faulty>>

PipelineInit ==
    /\ StreamInit /\ Raw!RawInit /\ Py!PyInit
    /\ alphabet \in Alphabets
    /\ sent = 0 /\ misplaced = FALSE /\ faulty = FALSE

-----------------------------------------------------------------------------
\* The data of the open save frame, or else of the open block.
OpenData ==
    IF rFrame # <<>> THEN rFrame[1].data
    ELSE IF rBlock # <<>> THEN rBlock[1].data ELSE IR!NoData

Repeats(s) == \E i, j \in DOMAIN s : i # j /\ s[i] = s[j]

InTableRaw == rStack # <<>> /\ rStack[Len(rStack)].is = "table"

\* A loop over a tag that its header or the namespace already has, an item whose
\* tag a loop has, a key its table already has, a container where a key should be.
Misplaces(c) ==
    CASE c.op = "on_loop_start" ->
            LET fold == [i \in DOMAIN c.tags |-> RustFold[c.tags[i]]] IN
            Repeats(fold) \/ \E i \in DOMAIN fold : fold[i] \in DOMAIN OpenData.tags
      [] c.op = "add_tag" -> RustFold[c.arg] \in IR!LoopTags(OpenData)
      [] c.op = "on_table_key" ->
            /\ InTableRaw
            /\ LET pairs == rStack[Len(rStack)].items IN \E i \in DOMAIN pairs : pairs[i][1] = c.arg
      [] c.op \in {"on_list_start", "on_table_start"} ->
            InTableRaw /\ rStack[Len(rStack)].key = <<>>
      [] OTHER -> FALSE

\* One callback, executed by both builders.
Build ==
    /\ Deliver
    /\ LET c == Head(calls) IN
        /\ Raw!RawCall(c)
        /\ Py!PyCall(c)
        /\ sent' = IF c.op = "add_value" /\ ~c.ins /\ rBlock # <<>> THEN sent + 1 ELSE sent
        /\ misplaced' = (misplaced \/ Misplaces(c))
    /\ UNCHANGED <<alphabet, faulty>>

ReadFile ==
    /\ ParseFrom(alphabet)
    /\ faulty' = (faulty \/ report' # {})
    /\ UNCHANGED <<ctx, alphabet, builders, sent, misplaced>>

PipelineDone == phase # "running" /\ calls = <<>> /\ UNCHANGED pipelineVars

PipelineNext == ReadFile \/ Build \/ PipelineDone

PipelineSpec == PipelineInit /\ [][PipelineNext]_pipelineVars

-----------------------------------------------------------------------------
(***************************************************************************)
(* What the document promises.                                             *)
(***************************************************************************)
Finished == phase # "running" /\ calls = <<>>
BetweenTokens == calls = <<>> /\ tok = NoToken

\* Every namespace of a document.
Namespaces(doc) ==
    {doc[i].data : i \in DOMAIN doc}
        \cup UNION {{doc[i].frames[j].data : j \in DOMAIN doc[i].frames} : i \in DOMAIN doc}

\* Parser and builder keep the same context in two places, connected only by the
\* callbacks: between tokens the builder is in a loop, a frame, a container or
\* after a tag iff the parser is (in_loop, in_save_frame, container_stack,
\* active_tag of parser.rs and raw_builder.rs).
MirrorsParser ==
    BetweenTokens /\ ~rStopped /\ rBlock # <<>> =>
        /\ rInLoop = inLoop
        /\ (rFrame # <<>>) = inSaveFrame
        /\ rActive = IF activeTag = NoTag THEN <<>> ELSE <<RustFold[activeTag]>>
        /\ Len(rStack) = Len(stack)
        /\ \A i \in DOMAIN stack :
            /\ (rStack[i].is = "list") = (stack[i].at = "list")
            /\ stack[i].at \in {"Key", "Colon"} => rStack[i].key = <<>>

\* The columns of a loop have one length, its last row padded if need be
\* (on_loop_end), so that the Arrow export cannot panic (make_batch).
LoopsAreRectangular ==
    ~misplaced => \A d \in Namespaces(Raw!RawDocument) :
        \A i \in DOMAIN d.loops : \A k, l \in DOMAIN d.loops[i] :
            Len(d.tags[d.loops[i][k]]) = Len(d.tags[d.loops[i][l]])

=============================================================================

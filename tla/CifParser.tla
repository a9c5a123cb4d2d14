----------------------------- MODULE CifParser -----------------------------
(***************************************************************************)
(* The event-emitting parser of cifflow_core (parser.rs): a pushdown       *)
(* machine that reads the lexer's tokens one by one, recovers from every   *)
(* structural error, and calls back a sink.                                *)
(*                                                                         *)
(* A handler is one action: it updates the parser's state, queues in       *)
(* `calls` the callbacks it makes, in order, and leaves in `report` the    *)
(* kinds of errors it passes to on_parse_error.  The one loop inside the   *)
(* handlers, `while let Some(frame) = self.container_stack.pop()`, is one  *)
(* action per iteration (Unwind): the token that closes the containers     *)
(* waits in `tok`, and no other token is read in between.                  *)
(*                                                                         *)
(* The tokens are the environment's choice; MaxTokens bounds a file's      *)
(* length and MaxDepth the nesting a file uses.  A loop_ keyword carries   *)
(* the tags that follow it, which start_loop reads in the same call.       *)
(***************************************************************************)
EXTENDS EventSink

CONSTANTS
    Tokens,     \* the tokens a file is made of
    MaxTokens,
    MaxDepth

NoTag   == "no tag"     \* active_tag = None
NoKey   == "no key"     \* pending_key = None

Keywords == {"data_", "save_name", "save_", "loop_", "stop_", "global_"}

Token == [kind : Keywords \cup {"tag", "value"}, arg : Args, tags : Headers,
          form : Forms]

Tok(kind, arg) == [kind |-> kind, arg |-> arg, tags |-> <<>>, form |-> "bare"]

EofToken == Tok("EOF", NoArg)
NoToken  == Tok("none", NoArg)

ASSUME ConstantsAssumption ==
    /\ MaxTokens \in Nat
    /\ MaxDepth \in Nat
    /\ NoTag \notin AllTags
    /\ NoKey \notin Texts
    /\ Tokens \subseteq Token
    /\ \A t \in Tokens :
        /\ t.kind \in {"data_", "save_name"} => t.arg \in Names
        /\ t.kind = "tag" => t.arg \in Tags
        /\ t.kind = "value" => t.arg \in Texts

VARIABLES
    inDataBlock, inSaveFrame,
    inLoop, loopHasValues,
    activeTag,      \* the tag that waits for its value, or NoTag
    tagBase,        \* tag_base_depth
    stack,          \* container_stack
    phase,          \* "running", "halted" by global_, or "finished" by EOF
    tok,            \* the token whose handler is unwinding, or NoToken
    header,         \* the last token was loop_ with its header
    left,           \* tokens the file may still hold
    calls,          \* callbacks made and not yet executed by the sink
    report          \* errors the last handler reported

ctrl   == <<inDataBlock, inSaveFrame, inLoop, loopHasValues, activeTag, tagBase, phase>>
source == <<tok, header, left>>
parserVars == <<ctrl, stack, source, calls, report>>

(***************************************************************************)
(* A container on the stack: a list, or a table in one of the three states *)
(* of TableState, with the key it holds back until it has seen the colon.  *)
(***************************************************************************)
Frame == [at : {"list", "Key", "Colon", "Value"}, key : Texts \cup {NoKey}]

List         == [at |-> "list", key |-> NoKey]
Table(st, k) == [at |-> st, key |-> k]

Top      == stack[Len(stack)]
Rest     == SubSeq(stack, 1, Len(stack) - 1)
InList   == stack # <<>> /\ Top.at = "list"
InTable  == stack # <<>> /\ Top.at # "list"
SetTop(f) == [stack EXCEPT ![Len(stack)] = f]

\* What on_parse_error is called with.
Errors ==
    {"unclosed container", "loop without values", "tag without value",
     "loop without tags", "value without tag", "container without tag",
     "outside data block", "empty block name", "nested save frame",
     "unterminated save frame", "save_ outside frame", "stop_ outside loop", "global_",
     "container in table key position", "unquoted table key", "table key without :",
     "table key without value", "unexpected closing delimiter", "unexpected :"}

TypeOK ==
    /\ inDataBlock \in BOOLEAN /\ inSaveFrame \in BOOLEAN
    /\ inLoop \in BOOLEAN /\ loopHasValues \in BOOLEAN
    /\ activeTag \in AllTags \cup {NoTag}
    /\ tagBase \in Nat
    /\ stack \in Seq(Frame)
    /\ phase \in {"running", "halted", "finished"}
    /\ tok \in Tokens \cup {EofToken, NoToken}
    /\ header \in BOOLEAN
    /\ left \in 0..MaxTokens
    /\ calls \in Seq(Call)
    /\ report \subseteq Errors

\* Only the innermost container can be holding a key back, and then it has one.
StackOK(s) ==
    /\ s \in Seq(Frame)
    /\ \A i \in 1..Len(s) : s[i].at = "Colon" => i = Len(s) /\ s[i].key \in Texts

Init ==
    /\ inDataBlock = FALSE /\ inSaveFrame = FALSE
    /\ inLoop = FALSE /\ loopHasValues = FALSE
    /\ activeTag = NoTag /\ tagBase = 0
    /\ stack = <<>>
    /\ phase = "running"
    /\ tok = NoToken /\ header = FALSE /\ left = MaxTokens
    /\ calls = <<>> /\ report = {}

-----------------------------------------------------------------------------
(***************************************************************************)
(* The token source.  Tags that follow a header belong to it, so the token *)
(* after loop_ is never a tag.                                             *)
(***************************************************************************)
Opens(t) == t.kind = "value" /\ t.arg \in {"[", "{"}

Supply ==
    {EofToken} \cup {t \in Tokens :
        /\ left > 0
        /\ header => t.kind # "tag"
        /\ Opens(t) => Len(stack) < MaxDepth}

\* The token being handled: the next one of the file, or the one that unwinds.
Current(t) ==
    /\ phase = "running"
    /\ calls = <<>>
    /\ IF tok = NoToken THEN t \in Supply ELSE t = tok

\* Mutant of Consume: EOF is counted like a token of the file.
ConsumeCountsEof(t) ==
    /\ tok' = NoToken
    /\ header' = (t.kind = "loop_")
    /\ left' = left - 1

\* The token has been dealt with.
Consume(t) ==
    /\ tok' = NoToken
    /\ header' = (t.kind = "loop_")
    /\ left' = IF t = EofToken THEN left ELSE left - 1

\* Tokens whose handlers begin by closing whatever container is open.
ClosesContainers(t) ==
    \/ t.kind \in {"data_", "save_name", "save_", "loop_", "global_", "tag", "EOF"}
    \/ (t.kind = "stop_" /\ inLoop)

Emit(cs, rs) == calls' = cs /\ report' = rs

-----------------------------------------------------------------------------
(***************************************************************************)
(* Closing what is open.                                                   *)
(***************************************************************************)

\* Mutant of CleanupCalls: a key still without its colon is forgotten.
CleanupCallsWithoutKey(f) == IF f.at \in {"Colon", "Value"} THEN <<Placeholder>> ELSE <<>>

\* cleanup_table_frame: a key without its colon or its value gets a '?'.
CleanupCalls(f) ==
    (IF f.at = "Colon" THEN <<OnTableKey(f.key)>> ELSE <<>>)
        \o (IF f.at \in {"Colon", "Value"} THEN <<Placeholder>> ELSE <<>>)

EndCalls(f) ==
    IF f.at = "list" THEN <<OnListEnd>> ELSE Append(CleanupCalls(f), OnTableEnd)

\* Mutant of Unwind: the container is looked at and not popped.
UnwindInPlace(t) ==
    /\ Current(t) /\ ClosesContainers(t) /\ stack # <<>>
    /\ Emit(EndCalls(Top), {"unclosed container"})
    /\ tok' = t
    /\ UNCHANGED <<ctrl, stack, header, left>>

\* One iteration of close_all_containers, or of the same loop in handle_eof,
\* which does not reset active_tag.
Unwind(t) ==
    /\ Current(t) /\ ClosesContainers(t) /\ stack # <<>>
    /\ stack' = Rest
    /\ activeTag' = IF Rest # <<>> \/ (t = EofToken /\ ~inLoop) THEN activeTag ELSE NoTag
    /\ Emit(EndCalls(Top), {"unclosed container"})
    /\ tok' = t
    /\ UNCHANGED <<inDataBlock, inSaveFrame, inLoop, loopHasValues, tagBase, phase, header, left>>

\* close_loop once the containers are closed.
CloseLoopCalls  == IF inLoop THEN <<OnLoopEnd>> ELSE <<>>
CloseLoopReport == IF inLoop /\ ~loopHasValues THEN {"loop without values"} ELSE {}

\* close_active_tag
CloseTagCalls  == IF activeTag # NoTag THEN <<Placeholder>> ELSE <<>>
CloseTagReport == IF activeTag # NoTag THEN {"tag without value"} ELSE {}

\* prepare_for_keyword: the loop, or else the tag, ends before the keyword acts.
EndItemCalls  == IF inLoop THEN CloseLoopCalls ELSE CloseTagCalls
EndItemReport == IF inLoop THEN CloseLoopReport ELSE CloseTagReport

\* What both close_loop and close_active_tag leave behind.
EndItem ==
    /\ inLoop' = FALSE /\ loopHasValues' = FALSE
    /\ activeTag' = IF inLoop THEN activeTag ELSE NoTag

EndFrameCalls == IF inSaveFrame THEN <<OnSaveFrameEnd>> ELSE <<>>

\* The handler of t runs now: its containers, if it closes any, are closed.
Handle(t) ==
    /\ Current(t)
    /\ ClosesContainers(t) => stack = <<>>
    /\ Consume(t)

-----------------------------------------------------------------------------
(***************************************************************************)
(* Keywords.                                                               *)
(***************************************************************************)
OutsideBlock == IF inDataBlock THEN {} ELSE {"outside data block"}

HandleData(t) ==
    /\ t.kind = "data_" /\ Handle(t)
    /\ EndItem
    /\ inDataBlock' = TRUE /\ inSaveFrame' = FALSE
    /\ Emit(EndItemCalls \o EndFrameCalls \o <<OnDataBlock(t.arg)>>,
            EndItemReport \cup (IF t.arg = "" THEN {"empty block name"} ELSE {}))
    /\ UNCHANGED <<tagBase, stack, phase>>

HandleSaveStart(t) ==
    /\ t.kind = "save_name" /\ Handle(t)
    /\ EndItem
    /\ inSaveFrame' = TRUE
    /\ Emit(EndItemCalls \o EndFrameCalls \o <<OnSaveFrameStart(t.arg)>>,
            EndItemReport \cup OutsideBlock
                \cup (IF inSaveFrame THEN {"nested save frame"} ELSE {}))
    /\ UNCHANGED <<inDataBlock, tagBase, stack, phase>>

HandleSaveEnd(t) ==
    /\ t.kind = "save_" /\ Handle(t)
    /\ EndItem
    /\ inSaveFrame' = FALSE
    /\ Emit(EndItemCalls \o EndFrameCalls,
            EndItemReport \cup (IF inSaveFrame THEN {} ELSE {"save_ outside frame"}))
    /\ UNCHANGED <<inDataBlock, tagBase, stack, phase>>

\* loop_ and its header (start_loop); a loop_ without tags is skipped.
HandleLoop(t) ==
    /\ t.kind = "loop_" /\ Handle(t)
    /\ inLoop' = (t.tags # <<>>) /\ loopHasValues' = FALSE
    /\ activeTag' = IF inLoop THEN activeTag ELSE NoTag
    /\ Emit(EndItemCalls \o (IF t.tags # <<>> THEN <<OnLoopStart(t.tags)>> ELSE <<>>),
            EndItemReport \cup OutsideBlock
                \cup (IF t.tags = <<>> THEN {"loop without tags"} ELSE {}))
    /\ UNCHANGED <<inDataBlock, inSaveFrame, tagBase, stack, phase>>

HandleStop(t) ==
    /\ t.kind = "stop_" /\ Handle(t)
    /\ inLoop' = FALSE /\ loopHasValues' = FALSE
    /\ Emit(CloseLoopCalls,
            CloseLoopReport \cup (IF inLoop THEN {} ELSE {"stop_ outside loop"}))
    /\ UNCHANGED <<inDataBlock, inSaveFrame, activeTag, tagBase, stack, phase>>

\* Mutant of HandleGlobal: a save frame is left open.
HandleGlobalInFrame(t) ==
    /\ t.kind = "global_" /\ Handle(t)
    /\ EndItem
    /\ phase' = "halted"
    /\ Emit(EndItemCalls, EndItemReport \cup {"global_"})
    /\ UNCHANGED <<inDataBlock, inSaveFrame, tagBase, stack>>

\* global_ closes everything, like EOF, and ends the parse.
HandleGlobal(t) ==
    /\ t.kind = "global_" /\ Handle(t)
    /\ EndItem
    /\ inSaveFrame' = FALSE
    /\ phase' = "halted"
    /\ Emit(EndItemCalls \o EndFrameCalls, EndItemReport \cup {"global_"})
    /\ UNCHANGED <<inDataBlock, tagBase, stack>>

\* Mutant of HandleTag: a tag still without its value is not closed first.
HandleTagLeavesTag(t) ==
    /\ t.kind = "tag" /\ Handle(t)
    /\ inLoop' = FALSE /\ loopHasValues' = FALSE
    /\ activeTag' = t.arg /\ tagBase' = Len(stack)
    /\ Emit(CloseLoopCalls \o <<AddTag(t.arg)>>, CloseLoopReport \cup OutsideBlock)
    /\ UNCHANGED <<inDataBlock, inSaveFrame, stack, phase>>

HandleTag(t) ==
    /\ t.kind = "tag" /\ Handle(t)
    /\ inLoop' = FALSE /\ loopHasValues' = FALSE
    /\ activeTag' = t.arg /\ tagBase' = Len(stack)
    /\ Emit(CloseLoopCalls \o CloseTagCalls \o <<AddTag(t.arg)>>,
            CloseLoopReport \cup CloseTagReport \cup OutsideBlock)
    /\ UNCHANGED <<inDataBlock, inSaveFrame, stack, phase>>

\* handle_eof once its containers are popped.
HandleEof ==
    /\ Handle(EofToken)
    /\ inLoop' = FALSE /\ loopHasValues' = FALSE
    /\ activeTag' = NoTag /\ inSaveFrame' = FALSE
    /\ phase' = "finished"
    /\ Emit(CloseLoopCalls \o CloseTagCalls \o EndFrameCalls,
            CloseLoopReport \cup CloseTagReport
                \cup (IF inSaveFrame THEN {"unterminated save frame"} ELSE {}))
    /\ UNCHANGED <<inDataBlock, tagBase, stack>>

-----------------------------------------------------------------------------
(***************************************************************************)
(* Values.  handle_value compares the text of the token alone: a quoted    *)
(* '[' is a delimiter like a bare one: `form` decides nothing here.        *)
(***************************************************************************)
Is(t, x) == t.kind = "value" /\ t.arg = x

\* ':' is a separator inside a table and a scalar anywhere else.
IsColon(t)  == Is(t, ":") /\ InTable
IsScalar(t) == t.kind = "value" /\ t.arg \notin {"[", "]", "{", "}"} /\ ~IsColon(t)

\* ensure_value_context: nothing here can hold a value.
Orphan == ~inLoop /\ activeTag = NoTag /\ stack = <<>>

\* Mutant of ParentTold: the key is sent and the table goes on holding it.
ParentToldOfFirst == IF InTable /\ Top.at = "Key" THEN SetTop(Table("Value", NoKey)) ELSE stack

\* notify_parent_table_of_container_open
ParentTold == IF InTable THEN SetTop(Table("Value", NoKey)) ELSE stack
ParentCalls == IF InTable /\ Top.at = "Colon" THEN <<OnTableKey(Top.key)>> ELSE <<>>
ParentReport ==
    CASE InTable /\ Top.at = "Key"   -> {"container in table key position"}
      [] InTable /\ Top.at = "Colon" -> {"table key without :"}
      [] OTHER                       -> {}

OpenContainer(t, x, frame, call) ==
    /\ Is(t, x) /\ Handle(t)
    /\ stack' = Append(ParentTold, frame)
    /\ activeTag' = IF Orphan THEN ErrorTag ELSE activeTag
    /\ tagBase' = IF Orphan THEN 0 ELSE tagBase
    /\ Emit((IF Orphan THEN <<AddTag(ErrorTag)>> ELSE <<>>) \o ParentCalls \o <<call>>,
            ParentReport \cup (IF Orphan THEN {"container without tag"} ELSE {}))
    /\ UNCHANGED <<inDataBlock, inSaveFrame, inLoop, loopHasValues, phase>>

OpenList(t)  == OpenContainer(t, "[", List, OnListStart)
OpenTable(t) == OpenContainer(t, "{", Table("Key", NoKey), OnTableStart)

\* after_close_container on the stack that is left.
AfterClose(s) ==
    IF s # <<>> /\ s[Len(s)].at = "Value"
    THEN [s EXCEPT ![Len(s)] = Table("Key", NoKey)] ELSE s

\* Mutant of CloseContainer: the tag whose value was just closed keeps waiting.
CloseContainerKeepsTag(t) ==
    /\ Handle(t)
    /\ stack' = AfterClose(Rest)
    /\ loopHasValues' = (loopHasValues \/ (inLoop /\ Rest = <<>>))
    /\ Emit(EndCalls(Top), IF Top.at \in {"Colon", "Value"} THEN {"table key without value"}
                           ELSE {})
    /\ UNCHANGED <<inDataBlock, inSaveFrame, inLoop, activeTag, tagBase, phase>>

CloseContainer(t) ==
    /\ Handle(t)
    /\ stack' = AfterClose(Rest)
    /\ activeTag' = IF Len(Rest) = tagBase THEN NoTag ELSE activeTag
    /\ loopHasValues' = (loopHasValues \/ (inLoop /\ Rest = <<>>))
    /\ Emit(EndCalls(Top), IF Top.at \in {"Colon", "Value"} THEN {"table key without value"}
                           ELSE {})
    /\ UNCHANGED <<inDataBlock, inSaveFrame, inLoop, tagBase, phase>>

CloseList(t)  == Is(t, "]") /\ InList /\ CloseContainer(t)
CloseTable(t) == Is(t, "}") /\ InTable /\ CloseContainer(t)

\* A handler that reports its token and changes nothing else.
Ignore(t, why) == Handle(t) /\ Emit(<<>>, {why}) /\ UNCHANGED <<ctrl, stack>>

UnexpectedClose(t) ==
    /\ (Is(t, "]") /\ ~InList) \/ (Is(t, "}") /\ ~InTable)
    /\ Ignore(t, "unexpected closing delimiter")

\* handle_table_colon
HandleColon(t) ==
    /\ IsColon(t) /\ Top.at = "Colon"
    /\ Handle(t)
    /\ stack' = SetTop(Table("Value", NoKey))
    /\ Emit(<<OnTableKey(Top.key)>>, {})
    /\ UNCHANGED ctrl

UnexpectedColon(t) ==
    /\ IsColon(t) /\ Top.at # "Colon"
    /\ Ignore(t, "unexpected :")

\* dispatch_scalar_in_table
ScalarAsKey(t) ==
    /\ IsScalar(t) /\ InTable /\ Top.at = "Key"
    /\ Handle(t)
    /\ stack' = SetTop(Table("Colon", t.arg))
    /\ Emit(<<>>, IF t.form = "quoted" THEN {} ELSE {"unquoted table key"})
    /\ UNCHANGED ctrl

\* Mutant of ScalarInTable: a missing colon goes unreported.
ScalarInTableSilently(t) ==
    /\ IsScalar(t) /\ InTable /\ Top.at # "Key"
    /\ Handle(t)
    /\ stack' = SetTop(Table("Key", NoKey))
    /\ Emit((IF Top.at = "Colon" THEN <<OnTableKey(Top.key)>> ELSE <<>>)
                \o <<AddValue(t.arg, t.form)>>, {})
    /\ UNCHANGED ctrl

ScalarInTable(t) ==
    /\ IsScalar(t) /\ InTable /\ Top.at # "Key"
    /\ Handle(t)
    /\ stack' = SetTop(Table("Key", NoKey))
    /\ Emit((IF Top.at = "Colon" THEN <<OnTableKey(Top.key)>> ELSE <<>>)
                \o <<AddValue(t.arg, t.form)>>,
            IF Top.at = "Colon" THEN {"table key without :"} ELSE {})
    /\ UNCHANGED ctrl

\* dispatch_scalar_value: in a list, in a loop, after a tag, or after nothing.
ScalarInList(t) ==
    /\ IsScalar(t) /\ InList
    /\ Handle(t)
    /\ Emit(<<AddValue(t.arg, t.form)>>, {})
    /\ UNCHANGED <<ctrl, stack>>

ScalarInLoop(t) ==
    /\ IsScalar(t) /\ stack = <<>> /\ inLoop
    /\ Handle(t)
    /\ loopHasValues' = TRUE
    /\ Emit(<<AddValue(t.arg, t.form)>>, {})
    /\ UNCHANGED <<inDataBlock, inSaveFrame, inLoop, activeTag, tagBase, phase, stack>>

ScalarOfTag(t) ==
    /\ IsScalar(t) /\ stack = <<>> /\ ~inLoop /\ activeTag # NoTag
    /\ Handle(t)
    /\ activeTag' = NoTag
    /\ Emit(<<AddValue(t.arg, t.form)>>, {})
    /\ UNCHANGED <<inDataBlock, inSaveFrame, inLoop, loopHasValues, tagBase, phase, stack>>

OrphanScalar(t) ==
    /\ IsScalar(t) /\ Orphan
    /\ Handle(t)
    /\ Emit(<<AddTag(ErrorTag), AddValue(t.arg, t.form)>>, {"value without tag"})
    /\ UNCHANGED <<ctrl, stack>>

-----------------------------------------------------------------------------
HandleKeyword(t) ==
    \/ HandleData(t) \/ HandleSaveStart(t) \/ HandleSaveEnd(t)
    \/ HandleLoop(t) \/ HandleStop(t) \/ HandleGlobal(t)

HandleValue(t) ==
    \/ OpenList(t) \/ OpenTable(t) \/ CloseList(t) \/ CloseTable(t)
    \/ UnexpectedClose(t) \/ HandleColon(t) \/ UnexpectedColon(t)
    \/ ScalarAsKey(t) \/ ScalarInTable(t) \/ ScalarInList(t)
    \/ ScalarInLoop(t) \/ ScalarOfTag(t) \/ OrphanScalar(t)

\* parse(): one step of it, between two callbacks, on a file of tokens from S.
ParseFrom(S) ==
    \/ \E t \in S : HandleKeyword(t) \/ HandleTag(t) \/ HandleValue(t)
    \/ \E t \in S \cup {EofToken} : Unwind(t)
    \/ HandleEof

Parse == ParseFrom(Tokens)

=============================================================================

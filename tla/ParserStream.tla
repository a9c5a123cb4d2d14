---------------------------- MODULE ParserStream ----------------------------
(***************************************************************************)
(* The parser together with the context its callbacks build up in a sink:  *)
(* a callback is executed (Deliver) before the parser goes on.             *)
(***************************************************************************)
EXTENDS CifParser

VARIABLE ctx        \* the context of EventStream

ES == INSTANCE EventStream

vars == <<parserVars, ctx>>

StreamInit == Init /\ ctx = ES!Idle

Deliver ==
    /\ calls # <<>>
    /\ ctx' = ES!After(ctx, Head(calls))
    /\ calls' = Tail(calls)
    /\ UNCHANGED <<ctrl, stack, source, report>>

Done == phase # "running" /\ calls = <<>> /\ UNCHANGED vars

Next == (Parse /\ UNCHANGED ctx) \/ Deliver \/ Done

Spec == StreamInit /\ [][Next]_vars

\* parse() is a plain loop in one thread: as long as it can go on, it does.
FairSpec == Spec /\ WF_vars((Parse /\ UNCHANGED ctx) \/ Deliver)

-----------------------------------------------------------------------------
(***************************************************************************)
(* What the callbacks promise.                                             *)
(***************************************************************************)

\* Whatever the file, every callback the parser makes is legal, by the grammar of
\* EventStream, where the sink executes it, and changes the context as that callback
\* asks: containers nest, items never overlap, a value of the file always has a
\* place (parser.rs, every handler).
ImplementsEventStream == ES!Spec

\* However the parse ends, by EOF or halted by global_, everything the stream
\* opened has been closed (handle_eof, handle_global).
ClosedAtEnd == phase # "running" /\ calls = <<>> => ctx = ES!Idle

\* Between two tokens the parser and its sink are at the same place: same frame,
\* same loop, same nesting, and a tag waits in one iff it waits in the other
\* (active_tag, tag_base_depth and container_stack against the calls made).
SameFrame(f, kind) ==
    CASE f.at = "list"              -> kind = "list"
      [] f.at \in {"Key", "Colon"} -> kind = "key"
      [] f.at = "Value"             -> kind \in {"key", "val"}

ContextAgrees ==
    calls = <<>> /\ tok = NoToken =>
        /\ ctx.frame = inSaveFrame
        /\ ctx.loop = inLoop
        /\ ctx.tag = (activeTag # NoTag /\ stack = <<>>)
        /\ Len(ctx.nest) = Len(stack)
        /\ \A i \in 1..Len(stack) :
            /\ SameFrame(stack[i], ctx.nest[i])
            /\ i = Len(stack) /\ stack[i].at = "Value" => ctx.nest[i] = "val"

\* What the handlers rely on without testing it: a pending key is there when it is
\* unwrapped (cleanup_table_frame), a tag only ever waits outside loops and below
\* no container (tag_base_depth), a token that unwinds has not been counted yet.
ControlInvariant ==
    /\ StackOK(stack)
    /\ tok \in Tokens => left > 0
    /\ tagBase = 0
    /\ inLoop => activeTag = NoTag

\* What a token asks for when nothing is wrong.
Denoted(t) ==
    CASE t.kind = "data_"     -> OnDataBlock(t.arg)
      [] t.kind = "save_name" -> OnSaveFrameStart(t.arg)
      [] t.kind = "save_"     -> OnSaveFrameEnd
      [] t.kind = "loop_"     -> OnLoopStart(t.tags)
      [] t.kind = "stop_"     -> OnLoopEnd
      [] t.kind = "tag"       -> AddTag(t.arg)
      [] Is(t, "[")           -> OnListStart
      [] Is(t, "]")           -> OnListEnd
      [] Is(t, "{")           -> OnTableStart
      [] Is(t, "}")           -> OnTableEnd
      [] IsColon(t)           -> OnTableKey(Top.key)
      [] OTHER                -> AddValue(t.arg, t.form)

Read(t) == HandleKeyword(t) \/ HandleTag(t) \/ HandleValue(t)

\* A handler that reports no error has done what its token asked for and nothing
\* else: no '?' made up, no other value or tag, nothing ignored; a key is held
\* back for its colon.  (on_parse_error calls of all the handlers.)
NoSilentRecovery ==
    [][report' = {} =>
        \A t \in Tokens : Read(t) =>
            IF IsScalar(t) /\ InTable /\ Top.at = "Key"
            THEN calls' = <<>> /\ stack' = SetTop(Table("Colon", t.arg))
            ELSE /\ calls' # <<>> /\ calls'[Len(calls')] = Denoted(t)
                 /\ \A i \in 1..Len(calls') - 1 :
                        calls'[i].op \in {"on_loop_end", "on_save_frame_end"}
      ]_vars

\* If a step stops holding a key back, exactly one of its callbacks is an on_table_key,
\* and it is called with that key.
KeyEmitted ==
    \A i \in 1..Len(stack) :
        stack[i].at = "Colon" /\ (i > Len(stack') \/ stack'[i] # stack[i]) =>
            \E j \in 1..Len(calls') :
                /\ calls'[j] = OnTableKey(stack[i].key)
                /\ \A k \in 1..Len(calls') \ {j} : calls'[k].op # "on_table_key"

\* A key the parser holds back reaches the sink, by whichever of the five ways
\* out of the Colon state it leaves: never two keys in its place, never none.
PendingKeyIsEmitted == [][KeyEmitted]_vars

\* parse() comes to an end on every file, whatever it has to unwind.
Termination == <>(phase # "running" /\ calls = <<>>)

-----------------------------------------------------------------------------
(***************************************************************************)
(* What the documentation says and the parser does not do.                 *)
(***************************************************************************)

\* A quoted value is data, whatever its text (README.md, Round-trip fidelity).
QuotedIsData ==
    [][\A t \in Tokens :
        t.kind = "value" /\ t.form = "quoted" /\ Read(t) =>
            \/ \E j \in 1..Len(calls') : calls'[j].arg = t.arg
            \/ Len(stack') > 0 /\ stack'[Len(stack')].key = t.arg
      ]_vars

\* Each add_value supplies the value for a tag, a loop or a container that is
\* waiting for one (types.py, CifParserEvents.add_value).
NoStrayValue ==
    [][calls # <<>> /\ Head(calls).op = "add_value" /\ ctx' = ES!After(ctx, Head(calls))
        => ES!Room(ctx)]_vars

=============================================================================

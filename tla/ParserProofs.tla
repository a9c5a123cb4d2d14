---------------------------- MODULE ParserProofs ----------------------------
(***************************************************************************)
(* Theorems about the parser, for every set of names, tags, texts and      *)
(* headers, every alphabet of tokens and every bound on a file's length    *)
(* and nesting.                                                            *)
(***************************************************************************)
EXTENDS ParserStream, SequenceTheorems, TLAPS

-----------------------------------------------------------------------------
(***************************************************************************)
(* Typing.                                                                 *)
(***************************************************************************)

\* The constructors make calls: the one place that opens the record type.
LEMMA PlainIsCall ==
    ASSUME NEW op \in Ops, NEW arg \in Args, arg \in ArgsOf(op)
    PROVE  Plain(op, arg) \in Call
  BY HeadersAssumption DEF Plain, Call, Forms

LEMMA CallsAreTyped ==
    /\ \A n \in Names : OnDataBlock(n) \in Call /\ OnSaveFrameStart(n) \in Call
    /\ \A t \in AllTags : AddTag(t) \in Call
    /\ \A x \in Texts : OnTableKey(x) \in Call
    /\ \A x \in Texts, f \in Forms : AddValue(x, f) \in Call
    /\ \A h \in Headers : OnLoopStart(h) \in Call
    /\ {OnSaveFrameEnd, OnListStart, OnListEnd, OnTableStart, OnTableEnd, OnLoopEnd,
        Placeholder} \subseteq Call
  <1>1. \A n \in Names : OnDataBlock(n) \in Call /\ OnSaveFrameStart(n) \in Call
    BY PlainIsCall DEF OnDataBlock, OnSaveFrameStart, Ops, Args, ArgsOf
  <1>2. \A t \in AllTags : AddTag(t) \in Call
    BY PlainIsCall DEF AddTag, Ops, Args, ArgsOf
  <1>3. \A x \in Texts : OnTableKey(x) \in Call
    BY PlainIsCall DEF OnTableKey, Ops, Args, ArgsOf
  <1>4. \A x \in Texts, f \in Forms : AddValue(x, f) \in Call
    <2>1. \A x \in Texts : Plain("add_value", x) \in Call
      BY PlainIsCall DEF Ops, Args, ArgsOf
    <2>2. QED
      BY <2>1 DEF AddValue, Call
  <1>5. Plain("on_loop_start", NoArg) \in Call /\ Plain("add_value", Unknown) \in Call
    BY PlainIsCall DEF Ops, Args, ArgsOf, Texts
  <1>6. \A h \in Headers : OnLoopStart(h) \in Call
    BY <1>5 DEF OnLoopStart, Call
  <1>7. Placeholder \in Call
    BY <1>5 DEF Placeholder, Call
  <1>8. {OnSaveFrameEnd, OnListStart, OnListEnd, OnTableStart, OnTableEnd, OnLoopEnd}
            \subseteq Call
    BY PlainIsCall DEF OnSaveFrameEnd, OnListStart, OnListEnd, OnTableStart, OnTableEnd,
                       OnLoopEnd, Ops, Args, ArgsOf
  <1>9. QED
    BY <1>1, <1>2, <1>3, <1>4, <1>6, <1>7, <1>8

\* What a token carries.
LEMMA TokensAreTyped ==
    ASSUME NEW t \in Tokens
    PROVE  /\ t.kind \in Keywords \cup {"tag", "value"}
           /\ t.tags \in Headers /\ t.form \in Forms
           /\ t.kind \in {"data_", "save_name"} => t.arg \in Names
           /\ t.kind = "tag" => t.arg \in AllTags
           /\ t.kind = "value" => t.arg \in Texts
           /\ t # EofToken /\ t # NoToken
  BY ConstantsAssumption DEF Token, AllTags, EofToken, NoToken, Tok, Keywords

\* Sequences of calls of the lengths the handlers make.
LEMMA ShortSequences ==
    ASSUME NEW S
    PROVE  /\ <<>> \in Seq(S)
           /\ \A a \in S : <<a>> \in Seq(S)
           /\ \A a, b \in S : <<a, b>> \in Seq(S)
           /\ \A r, s \in Seq(S) : r \o s \in Seq(S)
           /\ \A s \in Seq(S), a \in S : Append(s, a) \in Seq(S)
  OBVIOUS

-----------------------------------------------------------------------------
(***************************************************************************)
(* The stack of containers.                                                *)
(***************************************************************************)

\* Popping a container leaves a stack in which no key is held back.
LEMMA StackPop ==
    ASSUME NEW s, StackOK(s), s # <<>>
    PROVE  LET r == SubSeq(s, 1, Len(s) - 1) IN
           /\ StackOK(r)
           /\ Len(r) = Len(s) - 1
           /\ \A i \in 1..Len(r) : r[i] = s[i] /\ r[i].at # "Colon"
  <1> DEFINE r == SubSeq(s, 1, Len(s) - 1)
  <1>1. s \in Seq(Frame) /\ Len(s) \in Nat \ {0}
    BY EmptySeq DEF StackOK
  <1>2. r \in Seq(Frame) /\ \A i \in 1..Len(s) - 1 : r[i] = s[i]
    BY <1>1
  <1>3. Len(r) = Len(s) - 1
    <2>1. CASE Len(s) = 1
      BY <2>1
    <2>2. CASE Len(s) > 1
      BY <1>1, <2>2
    <2>3. Len(s) = 1 \/ Len(s) > 1
      BY SMTT(30), <1>1
    <2>4. QED
      BY <2>1, <2>2, <2>3
  <1>4. \A i \in 1..Len(s) - 1 : s[i].at # "Colon"
    BY <1>1 DEF StackOK
  <1>5. QED
    BY <1>2, <1>3, <1>4 DEF StackOK

\* Changing the state of the innermost container.
LEMMA StackSetTop ==
    ASSUME NEW s, StackOK(s), s # <<>>,
           NEW f \in Frame, f.at = "Colon" => f.key \in Texts
    PROVE  LET r == [s EXCEPT ![Len(s)] = f] IN
           /\ StackOK(r)
           /\ Len(r) = Len(s) /\ r[Len(r)] = f
           /\ \A i \in 1..Len(s) - 1 : r[i] = s[i] /\ s[i].at # "Colon"
  <1> DEFINE r == [s EXCEPT ![Len(s)] = f]
  <1>1. s \in Seq(Frame) /\ Len(s) \in Nat \ {0}
    BY EmptySeq DEF StackOK
  <1>2. /\ r \in Seq(Frame) /\ Len(r) = Len(s) /\ r[Len(s)] = f
        /\ \A i \in 1..Len(s) - 1 : r[i] = s[i]
    BY <1>1, ExceptSeq
  <1>3. \A i \in 1..Len(s) - 1 : r[i] = s[i] /\ s[i].at # "Colon"
    <2>1. \A i \in 1..Len(s) - 1 : s[i].at # "Colon"
      BY <1>1 DEF StackOK
    <2>2. QED
      BY <1>2, <2>1
  <1>4. \A i \in 1..Len(r) : r[i].at = "Colon" => i = Len(r) /\ r[i].key \in Texts
    BY <1>1, <1>2, <1>3
  <1>5. QED
    BY <1>2, <1>3, <1>4 DEF StackOK

\* Opening a container in one that holds no key.
LEMMA StackPush ==
    ASSUME NEW s, StackOK(s), s # <<>> => s[Len(s)].at # "Colon",
           NEW f \in Frame, f.at # "Colon"
    PROVE  StackOK(Append(s, f))
  <1>1. s \in Seq(Frame) /\ Len(s) \in Nat
    BY LenProperties DEF StackOK
  <1>2. \A i \in 1..Len(s) : s[i].at # "Colon"
    BY <1>1, EmptySeq DEF StackOK
  <1>3. /\ Append(s, f) \in Seq(Frame) /\ Len(Append(s, f)) = Len(s) + 1
        /\ \A i \in 1..Len(s) : Append(s, f)[i] = s[i]
        /\ Append(s, f)[Len(s) + 1] = f
    BY <1>1, AppendProperties
  <1>4. \A i \in 1..Len(Append(s, f)) : Append(s, f)[i].at # "Colon"
    BY <1>1, <1>2, <1>3
  <1>5. QED
    BY <1>3, <1>4 DEF StackOK

LEMMA FramesAreTyped ==
    /\ List \in Frame /\ List.at = "list"
    /\ \A st \in {"Key", "Colon", "Value"}, k \in Texts \cup {NoKey} :
        Table(st, k) \in Frame /\ Table(st, k).at = st /\ Table(st, k).key = k
  BY DEF List, Table, Frame

-----------------------------------------------------------------------------
(***************************************************************************)
(* The invariant of the parser.                                            *)
(***************************************************************************)
IInv == TypeOK /\ ControlInvariant

\* What the helpers emit.
LEMMA EndItemTyped ==
    ASSUME TypeOK
    PROVE  /\ CloseLoopCalls \in Seq(Call) /\ CloseTagCalls \in Seq(Call)
           /\ EndItemCalls \in Seq(Call) /\ EndFrameCalls \in Seq(Call)
  BY CallsAreTyped, ShortSequences
  DEF CloseLoopCalls, CloseTagCalls, EndItemCalls, EndFrameCalls

LEMMA EndCallsTyped ==
    ASSUME NEW f \in Frame, f.at = "Colon" => f.key \in Texts
    PROVE  EndCalls(f) \in Seq(Call)
  <1> DEFINE key == IF f.at = "Colon" THEN <<OnTableKey(f.key)>> ELSE <<>>
             val == IF f.at \in {"Colon", "Value"} THEN <<Placeholder>> ELSE <<>>
  <1>1. key \in Seq(Call) /\ val \in Seq(Call)
    BY CallsAreTyped, ShortSequences
  <1>2. CleanupCalls(f) \in Seq(Call)
    BY <1>1, ShortSequences DEF CleanupCalls
  <1>3. QED
    BY <1>2, CallsAreTyped, ShortSequences DEF EndCalls

\* Handling a token of the file, or EOF.
LEMMA HandleTyped ==
    ASSUME IInv, NEW t \in Tokens \cup {EofToken}, Handle(t)
    PROVE  /\ tok' = NoToken /\ header' \in BOOLEAN /\ left' \in 0..MaxTokens
           /\ phase = "running" /\ calls = <<>>
           /\ ClosesContainers(t) => stack = <<>>
  <1>1. CASE t = EofToken
    BY <1>1 DEF IInv, TypeOK, Handle, Current, Consume
  <1>2. CASE t # EofToken
    <2>1. t \in Tokens /\ t # NoToken
      BY <1>2, TokensAreTyped
    <2>2. left > 0
      <3>1. CASE tok = NoToken
        BY <1>2, <3>1 DEF Handle, Current, Supply
      <3>2. CASE tok # NoToken
        BY <2>1, <3>2 DEF Handle, Current, IInv, ControlInvariant
      <3>3. QED
        BY <3>1, <3>2
    <2>3. left' = left - 1 /\ MaxTokens \in Nat /\ left \in 0..MaxTokens
      BY <1>2, ConstantsAssumption DEF Handle, Consume, IInv, TypeOK
    <2>4. left' \in 0..MaxTokens
      BY <2>2, <2>3
    <2>5. QED
      BY <2>4 DEF Handle, Current, Consume
  <1>3. QED
    BY <1>1, <1>2

LEMMA NoTokenIsNoToken == NoToken \notin Tokens
  BY TokensAreTyped

\* The stack between two tokens has a typed innermost container.
LEMMA TopTyped ==
    ASSUME IInv, stack # <<>>
    PROVE  /\ Top \in Frame /\ Len(stack) \in Nat \ {0}
           /\ Top.at = "Colon" => Top.key \in Texts
  <1>1. stack \in Seq(Frame) /\ Len(stack) \in Nat \ {0}
    BY EmptySeq DEF IInv, ControlInvariant, StackOK
  <1>2. Len(stack) \in 1..Len(stack)
    BY <1>1
  <1>3. QED
    BY <1>1, <1>2, ElementOfSeq DEF Top, IInv, ControlInvariant, StackOK

\* Unwinding a container.
LEMMA UnwindStep ==
    ASSUME IInv, NEW t \in Tokens \cup {EofToken}, Unwind(t)
    PROVE  IInv'
  <1>1. stack # <<>> /\ StackOK(stack) /\ StackOK(stack')
    BY StackPop DEF Unwind, Rest, IInv, ControlInvariant
  <1>2. calls' \in Seq(Call) /\ report' \subseteq Errors
    BY <1>1, TopTyped, EndCallsTyped DEF Unwind, Emit, Errors
  <1>3. tok' = t /\ left' = left /\ (t \in Tokens => left > 0)
    <2>1. CASE tok = NoToken
      BY <2>1, TokensAreTyped DEF Unwind, Current, Supply
    <2>2. CASE tok # NoToken
      BY <2>2 DEF Unwind, Current, IInv, ControlInvariant
    <2>3. QED
      BY <2>1, <2>2 DEF Unwind
  <1>4. TypeOK'
    BY <1>1, <1>2, <1>3 DEF IInv, TypeOK, Unwind, StackOK
  <1>5. ControlInvariant'
    BY <1>1, <1>3 DEF IInv, ControlInvariant, Unwind
  <1>6. QED
    BY <1>4, <1>5 DEF IInv

\* What is left to show of a handler once its token is dealt with.
LEMMA HandlerStep ==
    ASSUME IInv, NEW t \in Tokens \cup {EofToken}, Handle(t),
           calls' \in Seq(Call), report' \subseteq Errors, StackOK(stack'),
           inDataBlock' \in BOOLEAN, inSaveFrame' \in BOOLEAN, inLoop' \in BOOLEAN,
           loopHasValues' \in BOOLEAN, activeTag' \in AllTags \cup {NoTag},
           phase' \in {"running", "halted", "finished"},
           tagBase' = 0, inLoop' => activeTag' = NoTag
    PROVE  IInv'
  <1>1. tok' = NoToken /\ header' \in BOOLEAN /\ left' \in 0..MaxTokens
    BY HandleTyped
  <1>2. TypeOK'
    BY <1>1 DEF TypeOK, StackOK
  <1>3. ControlInvariant'
    BY <1>1, NoTokenIsNoToken DEF ControlInvariant
  <1>4. QED
    BY <1>2, <1>3 DEF IInv

\* The state that handlers leave alone is typed.
LEMMA StateTyped ==
    ASSUME IInv
    PROVE  /\ inDataBlock \in BOOLEAN /\ inSaveFrame \in BOOLEAN /\ inLoop \in BOOLEAN
           /\ loopHasValues \in BOOLEAN /\ activeTag \in AllTags \cup {NoTag}
           /\ phase \in {"running", "halted", "finished"}
           /\ tagBase = 0 /\ (inLoop => activeTag = NoTag) /\ StackOK(stack)
  BY DEF IInv, TypeOK, ControlInvariant

-----------------------------------------------------------------------------
(***************************************************************************)
(* Keywords and tags.                                                      *)
(***************************************************************************)

LEMMA HandleDataStep ==
    ASSUME IInv, NEW t \in Tokens, HandleData(t)
    PROVE  IInv'
  <1>1. Handle(t) /\ StackOK(stack')
    BY StateTyped DEF HandleData
  <1>2. calls' \in Seq(Call)
    BY EndItemTyped, CallsAreTyped, TokensAreTyped, ShortSequences DEF HandleData, Emit, IInv
  <1>3. report' \subseteq Errors
    BY DEF HandleData, Emit, EndItemReport, CloseLoopReport, CloseTagReport, OutsideBlock, Errors
  <1>4. QED
    BY <1>1, <1>2, <1>3, StateTyped, HandlerStep, TokensAreTyped DEF HandleData, EndItem

LEMMA HandleSaveStartStep ==
    ASSUME IInv, NEW t \in Tokens, HandleSaveStart(t)
    PROVE  IInv'
  <1>1. Handle(t) /\ StackOK(stack')
    BY StateTyped DEF HandleSaveStart
  <1>2. calls' \in Seq(Call)
    BY EndItemTyped, CallsAreTyped, TokensAreTyped, ShortSequences DEF HandleSaveStart, Emit, IInv
  <1>3. report' \subseteq Errors
    BY DEF HandleSaveStart, Emit, EndItemReport, CloseLoopReport, CloseTagReport, OutsideBlock, Errors
  <1>4. QED
    BY <1>1, <1>2, <1>3, StateTyped, HandlerStep, TokensAreTyped DEF HandleSaveStart, EndItem

LEMMA HandleSaveEndStep ==
    ASSUME IInv, NEW t \in Tokens, HandleSaveEnd(t)
    PROVE  IInv'
  <1>1. Handle(t) /\ StackOK(stack')
    BY StateTyped DEF HandleSaveEnd
  <1>2. calls' \in Seq(Call)
    BY EndItemTyped, CallsAreTyped, TokensAreTyped, ShortSequences DEF HandleSaveEnd, Emit, IInv
  <1>3. report' \subseteq Errors
    BY DEF HandleSaveEnd, Emit, EndItemReport, CloseLoopReport, CloseTagReport, OutsideBlock, Errors
  <1>4. QED
    BY <1>1, <1>2, <1>3, StateTyped, HandlerStep, TokensAreTyped DEF HandleSaveEnd, EndItem

LEMMA HandleLoopStep ==
    ASSUME IInv, NEW t \in Tokens, HandleLoop(t)
    PROVE  IInv'
  <1>1. Handle(t) /\ StackOK(stack')
    BY StateTyped DEF HandleLoop
  <1>2. calls' \in Seq(Call)
    BY EndItemTyped, CallsAreTyped, TokensAreTyped, ShortSequences DEF HandleLoop, Emit, IInv
  <1>3. report' \subseteq Errors
    BY DEF HandleLoop, Emit, EndItemReport, CloseLoopReport, CloseTagReport, OutsideBlock, Errors
  <1>4. QED
    BY <1>1, <1>2, <1>3, StateTyped, HandlerStep, TokensAreTyped DEF HandleLoop, EndItem

LEMMA HandleStopStep ==
    ASSUME IInv, NEW t \in Tokens, HandleStop(t)
    PROVE  IInv'
  <1>1. Handle(t) /\ StackOK(stack')
    BY StateTyped DEF HandleStop
  <1>2. calls' \in Seq(Call)
    BY EndItemTyped, CallsAreTyped, TokensAreTyped, ShortSequences DEF HandleStop, Emit, IInv
  <1>3. report' \subseteq Errors
    BY DEF HandleStop, Emit, EndItemReport, CloseLoopReport, CloseTagReport, OutsideBlock, Errors
  <1>4. QED
    BY <1>1, <1>2, <1>3, StateTyped, HandlerStep, TokensAreTyped DEF HandleStop, EndItem

LEMMA HandleGlobalStep ==
    ASSUME IInv, NEW t \in Tokens, HandleGlobal(t)
    PROVE  IInv'
  <1>1. Handle(t) /\ StackOK(stack')
    BY StateTyped DEF HandleGlobal
  <1>2. calls' \in Seq(Call)
    BY EndItemTyped, CallsAreTyped, TokensAreTyped, ShortSequences DEF HandleGlobal, Emit, IInv
  <1>3. report' \subseteq Errors
    BY DEF HandleGlobal, Emit, EndItemReport, CloseLoopReport, CloseTagReport, OutsideBlock, Errors
  <1>4. QED
    BY <1>1, <1>2, <1>3, StateTyped, HandlerStep, TokensAreTyped DEF HandleGlobal, EndItem

LEMMA HandleTagStep ==
    ASSUME IInv, NEW t \in Tokens, HandleTag(t)
    PROVE  IInv'
  <1>1. Handle(t) /\ StackOK(stack') /\ t.kind = "tag"
    BY StateTyped DEF HandleTag
  <1>2. stack = <<>>
    BY <1>1, HandleTyped DEF ClosesContainers
  <1>3. tagBase' = 0
    BY <1>2, EmptySeq DEF HandleTag
  <1>4. calls' \in Seq(Call)
    BY <1>1, EndItemTyped, CallsAreTyped, TokensAreTyped, ShortSequences
    DEF HandleTag, Emit, IInv
  <1>5. report' \subseteq Errors
    BY DEF HandleTag, Emit, CloseLoopReport, CloseTagReport, OutsideBlock, Errors
  <1>6. QED
    BY <1>1, <1>3, <1>4, <1>5, StateTyped, HandlerStep, TokensAreTyped DEF HandleTag

LEMMA HandleEofStep ==
    ASSUME IInv, HandleEof
    PROVE  IInv'
  <1>1. Handle(EofToken) /\ StackOK(stack')
    BY StateTyped DEF HandleEof
  <1>2. calls' \in Seq(Call)
    BY EndItemTyped, ShortSequences DEF HandleEof, Emit, IInv
  <1>3. report' \subseteq Errors
    BY DEF HandleEof, Emit, CloseLoopReport, CloseTagReport, Errors
  <1>4. QED
    BY <1>1, <1>2, <1>3, StateTyped, HandlerStep DEF HandleEof

-----------------------------------------------------------------------------
(***************************************************************************)
(* Values.                                                                 *)
(***************************************************************************)
LEMMA OpenContainerStep ==
    ASSUME IInv, NEW t \in Tokens, NEW x, NEW frame \in Frame, frame.at # "Colon",
           NEW call \in Call, OpenContainer(t, x, frame, call)
    PROVE  IInv'
  <1>1. Handle(t)
    BY DEF OpenContainer
  <1>2. StackOK(ParentTold) /\ (ParentTold # <<>> => ParentTold[Len(ParentTold)].at # "Colon")
    <2>1. CASE InTable
      <3>1. stack # <<>> /\ StackOK(stack)
        BY <2>1, StateTyped DEF InTable
      <3>2. Table("Value", NoKey) \in Frame /\ Table("Value", NoKey).at = "Value"
        BY FramesAreTyped
      <3>3. QED
        BY <2>1, <3>1, <3>2, StackSetTop DEF ParentTold, SetTop
    <2>2. CASE ~InTable
      BY <2>2, StateTyped DEF ParentTold, InTable, Top
    <2>3. QED
      BY <2>1, <2>2
  <1>3. StackOK(stack')
    BY <1>2, StackPush DEF OpenContainer
  <1>4. ParentCalls \in Seq(Call)
    BY TopTyped, CallsAreTyped, ShortSequences DEF ParentCalls, InTable
  <1>5. (IF Orphan THEN <<AddTag(ErrorTag)>> ELSE <<>>) \in Seq(Call)
    BY CallsAreTyped, ShortSequences DEF AllTags
  <1>6. calls' \in Seq(Call)
    BY <1>4, <1>5, ShortSequences DEF OpenContainer, Emit
  <1>7. report' \subseteq Errors
    BY DEF OpenContainer, Emit, ParentReport, Errors
  <1>8. QED
    BY <1>1, <1>3, <1>6, <1>7, StateTyped, HandlerStep DEF OpenContainer, Orphan, AllTags

LEMMA CloseContainerStep ==
    ASSUME IInv, NEW t \in Tokens, stack # <<>>, CloseContainer(t)
    PROVE  IInv'
  <1>1. Handle(t) /\ StackOK(Rest)
    BY StackPop, StateTyped DEF CloseContainer, Rest
  <1>2. StackOK(stack')
    <2>1. CASE Rest # <<>> /\ Rest[Len(Rest)].at = "Value"
      <3>1. Table("Key", NoKey) \in Frame /\ Table("Key", NoKey).at = "Key"
        BY FramesAreTyped
      <3>2. QED
        BY <1>1, <2>1, <3>1, StackSetTop DEF CloseContainer, AfterClose
    <2>2. CASE ~(Rest # <<>> /\ Rest[Len(Rest)].at = "Value")
      BY <1>1, <2>2 DEF CloseContainer, AfterClose
    <2>3. QED
      BY <2>1, <2>2
  <1>3. calls' \in Seq(Call) /\ report' \subseteq Errors
    BY TopTyped, EndCallsTyped DEF CloseContainer, Emit, Errors
  <1>4. QED
    BY <1>1, <1>2, <1>3, StateTyped, HandlerStep DEF CloseContainer

LEMMA IgnoreStep ==
    ASSUME IInv, NEW t \in Tokens, NEW why \in Errors, Ignore(t, why)
    PROVE  IInv'
  BY StateTyped, HandlerStep, ShortSequences DEF Ignore, Emit, ctrl

\* A handler that only changes the state of the innermost table.
LEMMA SetTopStep ==
    ASSUME IInv, NEW t \in Tokens, Handle(t), stack # <<>>,
           NEW f \in Frame, f.at = "Colon" => f.key \in Texts,
           stack' = SetTop(f),
           calls' \in Seq(Call), report' \subseteq Errors, UNCHANGED ctrl
    PROVE  IInv'
  <1>1. StackOK(stack')
    BY StackSetTop, StateTyped DEF SetTop
  <1>2. QED
    BY <1>1, StateTyped, HandlerStep DEF ctrl

LEMMA InTableStep ==
    ASSUME IInv, NEW t \in Tokens, HandleColon(t) \/ ScalarAsKey(t) \/ ScalarInTable(t)
    PROVE  IInv'
  <1>1. CASE HandleColon(t)
    <2>1. stack # <<>> /\ calls' \in Seq(Call) /\ report' \subseteq Errors
      BY <1>1, TopTyped, CallsAreTyped, ShortSequences DEF HandleColon, IsColon, InTable, Emit, Errors
    <2>2. QED
      BY <1>1, <2>1, FramesAreTyped, SetTopStep DEF HandleColon
  <1>2. CASE ScalarAsKey(t)
    <2>1. /\ stack # <<>> /\ calls' \in Seq(Call) /\ report' \subseteq Errors
          /\ t.arg \in Texts /\ Handle(t) /\ stack' = SetTop(Table("Colon", t.arg))
      BY <1>2, TokensAreTyped, ShortSequences DEF ScalarAsKey, IsScalar, InTable, Emit, Errors
    <2>2. /\ Table("Colon", t.arg) \in Frame
          /\ Table("Colon", t.arg).at = "Colon" => Table("Colon", t.arg).key \in Texts
      BY <2>1, FramesAreTyped
    <2>3. UNCHANGED ctrl
      BY <1>2 DEF ScalarAsKey
    <2>4. QED
      BY <2>1, <2>2, <2>3, SetTopStep
  <1>3. CASE ScalarInTable(t)
    <2>1. stack # <<>> /\ AddValue(t.arg, t.form) \in Call
      BY <1>3, TokensAreTyped, CallsAreTyped DEF ScalarInTable, IsScalar, InTable
    <2>2. (IF Top.at = "Colon" THEN <<OnTableKey(Top.key)>> ELSE <<>>) \in Seq(Call)
      BY <2>1, TopTyped, CallsAreTyped, ShortSequences
    <2>3. calls' \in Seq(Call) /\ report' \subseteq Errors
      BY <1>3, <2>1, <2>2, ShortSequences DEF ScalarInTable, Emit, Errors
    <2>4. QED
      BY <1>3, <2>1, <2>3, FramesAreTyped, SetTopStep DEF ScalarInTable
  <1>4. QED
    BY <1>1, <1>2, <1>3

LEMMA ScalarStep ==
    ASSUME IInv, NEW t \in Tokens,
           ScalarInList(t) \/ ScalarInLoop(t) \/ ScalarOfTag(t) \/ OrphanScalar(t)
    PROVE  IInv'
  <1>1. Handle(t) /\ AddValue(t.arg, t.form) \in Call /\ AddTag(ErrorTag) \in Call
    BY TokensAreTyped, CallsAreTyped
    DEF ScalarInList, ScalarInLoop, ScalarOfTag, OrphanScalar, IsScalar, AllTags
  <1>2. calls' \in Seq(Call) /\ report' \subseteq Errors
    BY <1>1, ShortSequences DEF ScalarInList, ScalarInLoop, ScalarOfTag, OrphanScalar, Emit, Errors
  <1>3. CASE ScalarInList(t) \/ OrphanScalar(t)
    <2>1. UNCHANGED stack /\ UNCHANGED ctrl
      BY <1>3 DEF ScalarInList, OrphanScalar
    <2>2. QED
      BY <1>1, <1>2, <2>1, StateTyped, HandlerStep DEF ctrl
  <1>4. CASE ScalarInLoop(t) \/ ScalarOfTag(t)
    BY <1>1, <1>2, <1>4, StateTyped, HandlerStep DEF ScalarInLoop, ScalarOfTag
  <1>5. QED
    BY <1>3, <1>4

LEMMA HandleValueStep ==
    ASSUME IInv, NEW t \in Tokens, HandleValue(t)
    PROVE  IInv'
  <1>1. CASE OpenList(t)
    BY <1>1, OpenContainerStep, FramesAreTyped, CallsAreTyped DEF OpenList
  <1>2. CASE OpenTable(t)
    BY <1>2, OpenContainerStep, FramesAreTyped, CallsAreTyped DEF OpenTable
  <1>3. CASE CloseList(t) \/ CloseTable(t)
    BY <1>3, CloseContainerStep DEF CloseList, CloseTable, InList, InTable
  <1>4. CASE UnexpectedClose(t) \/ UnexpectedColon(t)
    BY <1>4, IgnoreStep DEF UnexpectedClose, UnexpectedColon, Errors
  <1>5. QED
    BY <1>1, <1>2, <1>3, <1>4, InTableStep, ScalarStep DEF HandleValue

-----------------------------------------------------------------------------
(***************************************************************************)
(* The theorems.                                                           *)
(***************************************************************************)
LEMMA ParseStep ==
    ASSUME IInv, Parse
    PROVE  IInv'
  <1>1. ASSUME NEW t \in Tokens, HandleKeyword(t)
        PROVE  IInv'
    BY <1>1, HandleDataStep, HandleSaveStartStep, HandleSaveEndStep, HandleLoopStep,
       HandleStopStep, HandleGlobalStep DEF HandleKeyword
  <1>2. QED
    BY <1>1, HandleTagStep, HandleValueStep, UnwindStep, HandleEofStep DEF Parse, ParseFrom

\* A delivered callback leaves the parser alone but for the queue.
LEMMA DeliverStep ==
    ASSUME IInv, Deliver
    PROVE  IInv'
  <1>1. calls' \in Seq(Call)
    BY HeadTailProperties DEF Deliver, IInv, TypeOK
  <1>2. QED
    BY <1>1 DEF Deliver, IInv, TypeOK, ControlInvariant, ctrl, source

LEMMA InitIInv == StreamInit => IInv
  <1> SUFFICES ASSUME StreamInit PROVE IInv
    OBVIOUS
  <1>1. StackOK(stack) /\ stack \in Seq(Frame) /\ calls \in Seq(Call)
    BY EmptySeq DEF StreamInit, Init, StackOK
  <1>2. tok \in {NoToken} /\ left \in 0..MaxTokens
    BY ConstantsAssumption DEF StreamInit, Init
  <1>3. TypeOK
    BY <1>1, <1>2 DEF StreamInit, Init, TypeOK
  <1>4. ControlInvariant
    BY <1>1, <1>2, NoTokenIsNoToken DEF StreamInit, Init, ControlInvariant
  <1>5. QED
    BY <1>3, <1>4 DEF IInv

LEMMA NextIInv == IInv /\ [Next]_vars => IInv'
  <1> SUFFICES ASSUME IInv, [Next]_vars PROVE IInv'
    OBVIOUS
  <1>1. CASE UNCHANGED vars
    BY <1>1 DEF vars, parserVars, ctrl, source, IInv, TypeOK, ControlInvariant
  <1>2. CASE Next
    BY <1>1, <1>2, ParseStep, DeliverStep DEF Next, Done
  <1>3. QED
    BY <1>1, <1>2

\* The invariant holds whatever the file.
THEOREM ParserInvariant == Spec => []IInv
  BY InitIInv, NextIInv, PTL DEF Spec

\* Every variable of the parser keeps its type: every callback in the queue is one
\* of the EventSink trait with an argument of its kind (parser.rs).
THEOREM TypeCorrect == Spec => []TypeOK
  BY ParserInvariant, PTL DEF IInv

\* What the handlers rely on without testing it holds: the key of a pending table
\* entry, tag_base_depth, and the exclusion of tags and loops (parser.rs).
THEOREM ControlCorrect == Spec => []ControlInvariant
  BY ParserInvariant, PTL DEF IInv

-----------------------------------------------------------------------------
(***************************************************************************)
(* A key that is held back.  Only the innermost container can hold one, so *)
(* a step either leaves the stack as it is, or finds the key on top, and   *)
(* then its first callback is on_table_key.                                *)
(***************************************************************************)
LEMMA KeyKept ==
    ASSUME IInv, UNCHANGED stack
    PROVE  KeyEmitted
  BY LenProperties DEF KeyEmitted, IInv, ControlInvariant, StackOK

\* The first of the calls is on_table_key with key k, and no other is an on_table_key.
BeginsWithKey(cs, k) ==
    /\ 1 \in 1..Len(cs) /\ cs[1] = OnTableKey(k)
    /\ \A i \in 2..Len(cs) : cs[i].op # "on_table_key"

LEMMA KeyFirst ==
    ASSUME IInv,
           stack # <<>> /\ Top.at = "Colon" => BeginsWithKey(calls', Top.key)
    PROVE  KeyEmitted
  <1> SUFFICES ASSUME NEW i \in 1..Len(stack), stack[i].at = "Colon"
               PROVE  \E j \in 1..Len(calls') :
                        /\ calls'[j] = OnTableKey(stack[i].key)
                        /\ \A k \in 1..Len(calls') \ {j} : calls'[k].op # "on_table_key"
    BY DEF KeyEmitted
  <1>1. i = Len(stack) /\ stack # <<>>
    BY EmptySeq DEF IInv, ControlInvariant, StackOK
  <1>2. QED
    BY <1>1 DEF Top, BeginsWithKey

\* The callbacks that close a container begin with its key.
LEMMA EndCallsBeginWithKey ==
    ASSUME NEW f \in Frame, f.at = "Colon", f.key \in Texts
    PROVE  BeginsWithKey(EndCalls(f), f.key)
  <1>1. EndCalls(f) = Append(<<OnTableKey(f.key)>> \o <<Placeholder>>, OnTableEnd)
    BY DEF EndCalls, CleanupCalls
  <1>2. OnTableKey(f.key) \in Call /\ Placeholder \in Call /\ OnTableEnd \in Call
    BY CallsAreTyped
  <1>3. Placeholder.op # "on_table_key" /\ OnTableEnd.op # "on_table_key"
    BY DEF Placeholder, OnTableEnd, Plain
  <1>4. QED
    BY <1>1, <1>2, <1>3 DEF BeginsWithKey

LEMMA UnwindEmitsKey ==
    ASSUME IInv, NEW t \in Tokens \cup {EofToken}, Unwind(t)
    PROVE  KeyEmitted
  BY TopTyped, EndCallsBeginWithKey, KeyFirst DEF Unwind, Emit

LEMMA OpenContainerEmitsKey ==
    ASSUME IInv, NEW t \in Tokens, NEW x, NEW frame, NEW call \in Call,
           call.op # "on_table_key", OpenContainer(t, x, frame, call)
    PROVE  KeyEmitted
  <1> SUFFICES ASSUME stack # <<>>, Top.at = "Colon"
               PROVE  BeginsWithKey(calls', Top.key)
    BY KeyFirst
  <1>1. ~Orphan /\ InTable
    BY DEF Orphan, InTable
  <1>2. calls' = (<<>> \o <<OnTableKey(Top.key)>>) \o <<call>>
    BY <1>1 DEF OpenContainer, Emit, ParentCalls
  <1>3. OnTableKey(Top.key) \in Call
    BY TopTyped, CallsAreTyped
  <1>4. QED
    BY <1>2, <1>3 DEF BeginsWithKey

LEMMA CloseContainerEmitsKey ==
    ASSUME IInv, NEW t \in Tokens, stack # <<>>, CloseContainer(t)
    PROVE  KeyEmitted
  BY TopTyped, EndCallsBeginWithKey, KeyFirst DEF CloseContainer, Emit

LEMMA InTableEmitsKey ==
    ASSUME IInv, NEW t \in Tokens, HandleColon(t) \/ ScalarAsKey(t) \/ ScalarInTable(t)
    PROVE  KeyEmitted
  <1>1. CASE HandleColon(t)
    BY <1>1, KeyFirst DEF HandleColon, Emit, BeginsWithKey
  <1>2. CASE ScalarAsKey(t)
    BY <1>2, KeyFirst DEF ScalarAsKey
  <1>3. CASE ScalarInTable(t)
    <2> SUFFICES ASSUME stack # <<>>, Top.at = "Colon"
                 PROVE  BeginsWithKey(calls', Top.key)
      BY KeyFirst
    <2>1. calls' = <<OnTableKey(Top.key)>> \o <<AddValue(t.arg, t.form)>>
      BY <1>3 DEF ScalarInTable, Emit
    <2>2. /\ OnTableKey(Top.key).op = "on_table_key"
          /\ AddValue(t.arg, t.form).op # "on_table_key"
      BY DEF OnTableKey, AddValue, Plain
    <2>3. QED
      BY <2>1, <2>2 DEF BeginsWithKey
  <1>4. QED
    BY <1>1, <1>2, <1>3

LEMMA ParseEmitsKey ==
    ASSUME IInv, Parse
    PROVE  KeyEmitted
  <1>1. ASSUME NEW t \in Tokens, HandleKeyword(t) \/ HandleTag(t)
        PROVE  KeyEmitted
    BY <1>1, KeyKept DEF HandleKeyword, HandleTag, HandleData, HandleSaveStart,
       HandleSaveEnd, HandleLoop, HandleStop, HandleGlobal
  <1>2. ASSUME NEW t \in Tokens, OpenList(t) \/ OpenTable(t)
        PROVE  KeyEmitted
    <2>1. OnListStart.op # "on_table_key" /\ OnTableStart.op # "on_table_key"
      BY DEF OnListStart, OnTableStart, Plain
    <2>2. QED
      BY <1>2, <2>1, OpenContainerEmitsKey, CallsAreTyped DEF OpenList, OpenTable
  <1>3. ASSUME NEW t \in Tokens, CloseList(t) \/ CloseTable(t)
        PROVE  KeyEmitted
    BY <1>3, CloseContainerEmitsKey DEF CloseList, CloseTable, InList, InTable
  <1>4. ASSUME NEW t \in Tokens,
               \/ UnexpectedClose(t) \/ UnexpectedColon(t) \/ ScalarInList(t)
               \/ ScalarInLoop(t) \/ ScalarOfTag(t) \/ OrphanScalar(t)
        PROVE  KeyEmitted
    BY <1>4, KeyKept DEF UnexpectedClose, UnexpectedColon, Ignore, ScalarInList,
       ScalarInLoop, ScalarOfTag, OrphanScalar
  <1>5. ASSUME NEW t \in Tokens, HandleValue(t)
        PROVE  KeyEmitted
    BY <1>2, <1>3, <1>4, <1>5, InTableEmitsKey DEF HandleValue
  <1>6. ASSUME HandleEof
        PROVE  KeyEmitted
    BY <1>6, KeyKept DEF HandleEof
  <1>7. QED
    BY <1>1, <1>5, <1>6, UnwindEmitsKey DEF Parse, ParseFrom

LEMMA NextEmitsKey ==
    ASSUME IInv, [Next]_vars
    PROVE  [KeyEmitted]_vars
  <1>1. CASE Parse
    BY <1>1, ParseEmitsKey
  <1>2. CASE Deliver \/ Done
    BY <1>2, KeyKept DEF Deliver, Done, vars, parserVars
  <1>3. QED
    BY <1>1, <1>2 DEF Next

\* Whatever the file holds, a table key the parser holds back is never dropped:
\* the step that stops holding it calls on_table_key with it
\* (cleanup_table_frame, notify_parent_table_of_container_open, handle_table_colon,
\* dispatch_scalar_in_table).
THEOREM PendingKeyCorrect == Spec => PendingKeyIsEmitted
  BY ParserInvariant, NextEmitsKey, PTL DEF Spec, PendingKeyIsEmitted

-----------------------------------------------------------------------------
(***************************************************************************)
(* The parser keeps the grammar of its callbacks, for every file: the      *)
(* context a sink has built up is a function of the parser's fields, but   *)
(* for the callbacks that are still in the queue.                          *)
(***************************************************************************)
Kinds == {"list", "key", "val"}

\* cs are legal one after the other, and lead from one context to another.
Leads(c, cs, d) ==
    \E run \in Seq(ES!Context) :
        /\ Len(run) = Len(cs) + 1 /\ run[1] = c /\ run[Len(cs) + 1] = d
        /\ \A i \in 1..Len(cs) : ES!Legal(run[i], cs[i]) /\ run[i + 1] = ES!After(run[i], cs[i])

\* What a container expects next; inside an unwinding, or below another
\* container, a table that waits for a value has had it.
Expects(f, live) ==
    IF f.at = "list" THEN "list" ELSE IF f.at = "Value" /\ live THEN "val" ELSE "key"

NestOf(s, live) == [i \in 1..Len(s) |-> Expects(s[i], live /\ i = Len(s))]

\* The context as the parser sees it.
Mirror ==
    [frame |-> inSaveFrame, loop |-> inLoop,
     tag   |-> activeTag # NoTag /\ stack = <<>> /\ tok # EofToken,
     nest  |-> NestOf(stack, tok = NoToken)]

\* Only a token that closes containers unwinds; a parse that is over left nothing open.
PhaseInv ==
    /\ tok # NoToken => ClosesContainers(tok)
    /\ phase # "running" => Mirror = ES!Idle

StreamInv == IInv /\ PhaseInv /\ Leads(ctx, calls, Mirror)

-----------------------------------------------------------------------------
(***************************************************************************)
(* Runs of callbacks.                                                      *)
(***************************************************************************)
LEMMA NoCalls ==
    ASSUME NEW c \in ES!Context
    PROVE  Leads(c, <<>>, c)
  <1> DEFINE run == <<c>>
             none == <<>>
  <1>1. run \in Seq(ES!Context) /\ Len(run) = 1 /\ run[1] = c
    OBVIOUS
  <1>2. Len(none) = 0
    OBVIOUS
  <1> HIDE DEF run, none
  <1>3. Leads(c, none, c)
    BY <1>1, <1>2 DEF Leads
  <1>4. QED
    BY <1>3 DEF none

LEMMA NoCallsInverse ==
    ASSUME NEW c, NEW d, Leads(c, <<>>, d)
    PROVE  c = d /\ c \in ES!Context
  <1>1. PICK run \in Seq(ES!Context) : Len(run) = 1 /\ run[1] = c /\ run[1] = d
    BY DEF Leads
  <1>2. QED
    BY <1>1, ElementOfSeq

LEMMA OneCall ==
    ASSUME NEW c \in ES!Context, NEW d \in ES!Context, NEW x, ES!Legal(c, x), ES!After(c, x) = d
    PROVE  Leads(c, <<x>>, d)
  <1> DEFINE run == <<c, d>>
             one == <<x>>
  <1>1. run \in Seq(ES!Context) /\ Len(run) = 2 /\ run[1] = c /\ run[2] = d
    OBVIOUS
  <1>2. Len(one) = 1 /\ one[1] = x /\ 1..1 = {1}
    OBVIOUS
  <1> HIDE DEF run, one
  <1>3. Leads(c, one, d)
    BY <1>1, <1>2 DEF Leads
  <1>4. QED
    BY <1>3 DEF one

LEMMA MoreCalls ==
    ASSUME NEW c, NEW d, NEW e, NEW cs \in Seq(Call), NEW ds \in Seq(Call),
           Leads(c, cs, d), Leads(d, ds, e)
    PROVE  Leads(c, cs \o ds, e)
  <1>1. PICK r \in Seq(ES!Context) :
            /\ Len(r) = Len(cs) + 1 /\ r[1] = c /\ r[Len(cs) + 1] = d
            /\ \A i \in 1..Len(cs) : ES!Legal(r[i], cs[i]) /\ r[i + 1] = ES!After(r[i], cs[i])
    BY DEF Leads
  <1>2. PICK q \in Seq(ES!Context) :
            /\ Len(q) = Len(ds) + 1 /\ q[1] = d /\ q[Len(ds) + 1] = e
            /\ \A i \in 1..Len(ds) : ES!Legal(q[i], ds[i]) /\ q[i + 1] = ES!After(q[i], ds[i])
    BY DEF Leads
  <1> DEFINE m == Len(cs)
             n == Len(ds)
             run == [i \in 1..m + n + 1 |-> IF i <= m THEN r[i] ELSE q[i - m]]
             all == cs \o ds
  <1>3. m \in Nat /\ n \in Nat
    OBVIOUS
  <1>4. Len(all) = m + n /\ \A i \in 1..m + n : all[i] = IF i <= m THEN cs[i] ELSE ds[i - m]
    OBVIOUS
  <1>5. \A i \in 1..m + n + 1 : run[i] \in ES!Context
    BY <1>1, <1>2, <1>3, ElementOfSeq
  <1>6. run \in Seq(ES!Context) /\ Len(run) = m + n + 1
    BY <1>3, <1>5
  <1>7. run[1] = c /\ run[m + n + 1] = e
    BY <1>1, <1>2, <1>3
  <1>8. ASSUME NEW i \in 1..m + n
        PROVE  ES!Legal(run[i], all[i]) /\ run[i + 1] = ES!After(run[i], all[i])
    <2>1. CASE i < m
      <3>1. run[i] = r[i] /\ run[i + 1] = r[i + 1] /\ all[i] = cs[i] /\ i \in 1..m
        BY <1>3, <1>4, <2>1
      <3>2. QED
        BY <1>1, <3>1
    <2>2. CASE i = m
      <3>1. run[i] = r[i] /\ run[i + 1] = q[1] /\ all[i] = cs[i] /\ i \in 1..m /\ q[1] = r[i + 1]
        BY <1>1, <1>2, <1>3, <1>4, <2>2
      <3>2. QED
        BY <1>1, <3>1
    <2>3. CASE i > m
      <3>1. /\ run[i] = q[i - m] /\ run[i + 1] = q[(i - m) + 1]
            /\ all[i] = ds[i - m] /\ i - m \in 1..n
        BY <1>3, <1>4, <2>3
      <3>2. QED
        BY <1>2, <3>1
    <2>4. QED
      BY SMTT(30), <1>3, <2>1, <2>2, <2>3
  <1> HIDE DEF run, all, m, n
  <1>9. QED
    BY <1>4, <1>6, <1>7, <1>8 DEF Leads, all

LEMMA FirstCall ==
    ASSUME NEW c, NEW d, NEW cs \in Seq(Call), cs # <<>>, Leads(c, cs, d)
    PROVE  /\ c \in ES!Context /\ ES!Legal(c, Head(cs))
           /\ Leads(ES!After(c, Head(cs)), Tail(cs), d)
  <1>1. PICK r \in Seq(ES!Context) :
            /\ Len(r) = Len(cs) + 1 /\ r[1] = c /\ r[Len(cs) + 1] = d
            /\ \A i \in 1..Len(cs) : ES!Legal(r[i], cs[i]) /\ r[i + 1] = ES!After(r[i], cs[i])
    BY DEF Leads
  <1>2. Len(cs) \in Nat \ {0} /\ Head(cs) = cs[1]
    BY EmptySeq, HeadTailProperties
  <1>3. c \in ES!Context /\ ES!Legal(c, Head(cs)) /\ r[2] = ES!After(c, Head(cs))
    BY <1>1, <1>2, ElementOfSeq
  <1>4. /\ Len(Tail(cs)) = Len(cs) - 1
        /\ \A i \in 1..Len(cs) - 1 : Tail(cs)[i] = cs[i + 1]
        /\ Tail(r) \in Seq(ES!Context) /\ Len(Tail(r)) = Len(cs)
        /\ \A i \in 1..Len(cs) : Tail(r)[i] = r[i + 1]
    BY <1>1, <1>2
  <1>5. \A i \in 1..Len(Tail(cs)) : /\ ES!Legal(Tail(r)[i], Tail(cs)[i])
                                    /\ Tail(r)[i + 1] = ES!After(Tail(r)[i], Tail(cs)[i])
    BY <1>1, <1>2, <1>4
  <1>6. Tail(r)[1] = ES!After(c, Head(cs)) /\ Tail(r)[Len(Tail(cs)) + 1] = d
    BY <1>1, <1>2, <1>3, <1>4
  <1> DEFINE rest == Tail(cs)
             run == Tail(r)
  <1>7. /\ run \in Seq(ES!Context) /\ Len(run) = Len(rest) + 1
        /\ run[1] = ES!After(c, Head(cs)) /\ run[Len(rest) + 1] = d
        /\ \A i \in 1..Len(rest) : /\ ES!Legal(run[i], rest[i])
                                  /\ run[i + 1] = ES!After(run[i], rest[i])
    BY <1>2, <1>4, <1>5, <1>6
  <1> HIDE DEF run, rest
  <1>8. Leads(ES!After(c, Head(cs)), rest, d)
    BY <1>7 DEF Leads
  <1>9. QED
    BY <1>3, <1>8 DEF rest

-----------------------------------------------------------------------------
(***************************************************************************)
(* What each callback makes of a context.                                  *)
(***************************************************************************)
LEMMA NestsAreTyped ==
    ASSUME NEW c \in ES!Context
    PROVE  /\ c.frame \in BOOLEAN /\ c.loop \in BOOLEAN /\ c.tag \in BOOLEAN
           /\ c.nest \in Seq(Kinds)
           /\ \A b \in BOOLEAN : /\ [c EXCEPT !.frame = b] \in ES!Context
                                /\ [c EXCEPT !.loop = b] \in ES!Context
                                /\ [c EXCEPT !.tag = b] \in ES!Context
           /\ \A s \in Seq(Kinds) : [c EXCEPT !.nest = s] \in ES!Context
  BY DEF ES!Context, Kinds

\* A context is its four fields.
LEMMA SameContext ==
    ASSUME NEW c \in ES!Context, NEW d \in ES!Context,
           c.frame = d.frame, c.loop = d.loop, c.tag = d.tag, c.nest = d.nest
    PROVE  c = d
  BY DEF ES!Context

LEMMA FrameChanges ==
    ASSUME NEW c \in ES!Context, NEW d \in ES!Context,
           d.loop = c.loop, d.tag = c.tag, d.nest = c.nest
    PROVE  /\ d.frame = FALSE => [c EXCEPT !.frame = FALSE] = d
           /\ d.frame = TRUE => [c EXCEPT !.frame = TRUE] = d
  <1> DEFINE same(e) == e.frame = d.frame /\ e.loop = d.loop /\ e.tag = d.tag /\ e.nest = d.nest
  <1>1. ASSUME d.frame = FALSE PROVE [c EXCEPT !.frame = FALSE] = d
    <2>1. [c EXCEPT !.frame = FALSE] \in ES!Context /\ same([c EXCEPT !.frame = FALSE])
      BY <1>1 DEF ES!Context
    <2>2. QED
      BY <2>1, SameContext
  <1>2. ASSUME d.frame = TRUE PROVE [c EXCEPT !.frame = TRUE] = d
    <2>1. [c EXCEPT !.frame = TRUE] \in ES!Context /\ same([c EXCEPT !.frame = TRUE])
      BY <1>2 DEF ES!Context
    <2>2. QED
      BY <2>1, SameContext
  <1>3. QED
    BY <1>1, <1>2

LEMMA LoopChanges ==
    ASSUME NEW c \in ES!Context, NEW d \in ES!Context,
           d.frame = c.frame, d.tag = c.tag, d.nest = c.nest
    PROVE  /\ d.loop = FALSE => [c EXCEPT !.loop = FALSE] = d
           /\ d.loop = TRUE => [c EXCEPT !.loop = TRUE] = d
  <1> DEFINE same(e) == e.frame = d.frame /\ e.loop = d.loop /\ e.tag = d.tag /\ e.nest = d.nest
  <1>1. ASSUME d.loop = FALSE PROVE [c EXCEPT !.loop = FALSE] = d
    <2>1. [c EXCEPT !.loop = FALSE] \in ES!Context /\ same([c EXCEPT !.loop = FALSE])
      BY <1>1 DEF ES!Context
    <2>2. QED
      BY <2>1, SameContext
  <1>2. ASSUME d.loop = TRUE PROVE [c EXCEPT !.loop = TRUE] = d
    <2>1. [c EXCEPT !.loop = TRUE] \in ES!Context /\ same([c EXCEPT !.loop = TRUE])
      BY <1>2 DEF ES!Context
    <2>2. QED
      BY <2>1, SameContext
  <1>3. QED
    BY <1>1, <1>2

LEMMA TagChanges ==
    ASSUME NEW c \in ES!Context, NEW d \in ES!Context,
           d.frame = c.frame, d.loop = c.loop, d.nest = c.nest
    PROVE  /\ d.tag = FALSE => [c EXCEPT !.tag = FALSE] = d
           /\ d.tag = TRUE => [c EXCEPT !.tag = TRUE] = d
  <1> DEFINE same(e) == e.frame = d.frame /\ e.loop = d.loop /\ e.tag = d.tag /\ e.nest = d.nest
  <1>1. ASSUME d.tag = FALSE PROVE [c EXCEPT !.tag = FALSE] = d
    <2>1. [c EXCEPT !.tag = FALSE] \in ES!Context /\ same([c EXCEPT !.tag = FALSE])
      BY <1>1 DEF ES!Context
    <2>2. QED
      BY <2>1, SameContext
  <1>2. ASSUME d.tag = TRUE PROVE [c EXCEPT !.tag = TRUE] = d
    <2>1. [c EXCEPT !.tag = TRUE] \in ES!Context /\ same([c EXCEPT !.tag = TRUE])
      BY <1>2 DEF ES!Context
    <2>2. QED
      BY <2>1, SameContext
  <1>3. QED
    BY <1>1, <1>2

LEMMA NestChanges ==
    ASSUME NEW c \in ES!Context, NEW d \in ES!Context,
           d.frame = c.frame, d.loop = c.loop, d.tag = c.tag
    PROVE  [c EXCEPT !.nest = d.nest] = d
  BY DEF ES!Context

\* Between items.
LEMMA LoopEnds ==
    ASSUME NEW c \in ES!Context, c.loop, c.nest = <<>>
    PROVE  Leads(c, <<OnLoopEnd>>, [c EXCEPT !.loop = FALSE])
  <1> DEFINE d == [c EXCEPT !.loop = FALSE]
  <1>1. d \in ES!Context
    BY NestsAreTyped
  <1>2. ES!Legal(c, OnLoopEnd) /\ ES!After(c, OnLoopEnd) = d
    BY DEF ES!Legal, ES!After, OnLoopEnd, Plain
  <1>3. QED
    BY <1>1, <1>2, OneCall

\* A '?' for a tag, whether or not the sink still waits for it.
LEMMA TagEnds ==
    ASSUME NEW c \in ES!Context, ~c.loop, c.nest = <<>>
    PROVE  Leads(c, <<Placeholder>>, [c EXCEPT !.tag = FALSE])
  <1> DEFINE d == [c EXCEPT !.tag = FALSE]
  <1>1. d \in ES!Context
    BY NestsAreTyped
  <1>2. ~c.tag => d = c
    BY DEF ES!Context
  <1>3. ES!Room(c) = c.tag
    BY NestsAreTyped DEF ES!Room
  <1>4. ES!Legal(c, Placeholder) /\ ES!After(c, Placeholder) = d
    BY <1>2, <1>3 DEF ES!Legal, ES!After, ES!Filled, Placeholder, Plain
  <1>5. QED
    BY <1>1, <1>4, OneCall

LEMMA FrameEnds ==
    ASSUME NEW c \in ES!Context, ES!Quiet(c), c.frame
    PROVE  Leads(c, <<OnSaveFrameEnd>>, [c EXCEPT !.frame = FALSE])
  <1> DEFINE d == [c EXCEPT !.frame = FALSE]
  <1>1. d \in ES!Context
    BY NestsAreTyped
  <1>2. ES!Legal(c, OnSaveFrameEnd) /\ ES!After(c, OnSaveFrameEnd) = d
    BY DEF ES!Legal, ES!After, OnSaveFrameEnd, Plain
  <1>3. QED
    BY <1>1, <1>2, OneCall

LEMMA BlockBegins ==
    ASSUME NEW c \in ES!Context, ES!Quiet(c), ~c.frame, NEW n
    PROVE  Leads(c, <<OnDataBlock(n)>>, c)
  <1>1. ES!Legal(c, OnDataBlock(n)) /\ ES!After(c, OnDataBlock(n)) = c
    BY DEF ES!Legal, ES!After, OnDataBlock, Plain
  <1>2. QED
    BY <1>1, OneCall

LEMMA FrameBegins ==
    ASSUME NEW c \in ES!Context, ES!Quiet(c), ~c.frame, NEW n
    PROVE  Leads(c, <<OnSaveFrameStart(n)>>, [c EXCEPT !.frame = TRUE])
  <1> DEFINE d == [c EXCEPT !.frame = TRUE]
  <1>1. d \in ES!Context
    BY NestsAreTyped
  <1>2. ES!Legal(c, OnSaveFrameStart(n)) /\ ES!After(c, OnSaveFrameStart(n)) = d
    BY DEF ES!Legal, ES!After, OnSaveFrameStart, Plain
  <1>3. QED
    BY <1>1, <1>2, OneCall

LEMMA LoopBegins ==
    ASSUME NEW c \in ES!Context, ES!Quiet(c), NEW h, h # <<>>
    PROVE  Leads(c, <<OnLoopStart(h)>>, [c EXCEPT !.loop = TRUE])
  <1> DEFINE d == [c EXCEPT !.loop = TRUE]
  <1>1. d \in ES!Context
    BY NestsAreTyped
  <1>2. ES!Legal(c, OnLoopStart(h)) /\ ES!After(c, OnLoopStart(h)) = d
    BY DEF ES!Legal, ES!After, OnLoopStart, Plain
  <1>3. QED
    BY <1>1, <1>2, OneCall

LEMMA TagBegins ==
    ASSUME NEW c \in ES!Context, ES!Quiet(c), NEW t
    PROVE  Leads(c, <<AddTag(t)>>, [c EXCEPT !.tag = TRUE])
  <1> DEFINE d == [c EXCEPT !.tag = TRUE]
  <1>1. d \in ES!Context
    BY NestsAreTyped
  <1>2. ES!Legal(c, AddTag(t)) /\ ES!After(c, AddTag(t)) = d
    BY DEF ES!Legal, ES!After, AddTag, Plain
  <1>3. QED
    BY <1>1, <1>2, OneCall

\* A value that has a place, and a container that has one.
LEMMA FilledIsTyped ==
    ASSUME NEW c \in ES!Context
    PROVE  ES!Filled(c) \in ES!Context
  <1>1. CASE c.nest = <<>>
    BY <1>1, NestsAreTyped DEF ES!Filled
  <1>2. CASE c.nest # <<>> /\ ES!Innermost(c, "val")
    <2>1. Len(c.nest) \in 1..Len(c.nest) /\ c.nest \in Seq(Kinds)
      BY <1>2, NestsAreTyped, EmptySeq
    <2>2. [c.nest EXCEPT ![Len(c.nest)] = "key"] \in Seq(Kinds)
      BY <2>1, ExceptSeq DEF Kinds
    <2>3. ES!Filled(c) = [c EXCEPT !.nest = [c.nest EXCEPT ![Len(c.nest)] = "key"]]
      BY <1>2 DEF ES!Filled, ES!Turn
    <2>4. QED
      BY ZenonT(30), <2>2, <2>3, NestsAreTyped
  <1>3. CASE c.nest # <<>> /\ ~ES!Innermost(c, "val")
    BY <1>3 DEF ES!Filled
  <1>4. QED
    BY <1>1, <1>2, <1>3

LEMMA ValueFills ==
    ASSUME NEW c \in ES!Context, ES!Room(c), NEW x, NEW form
    PROVE  Leads(c, <<AddValue(x, form)>>, ES!Filled(c))
  <1>1. ES!Legal(c, AddValue(x, form)) /\ ES!After(c, AddValue(x, form)) = ES!Filled(c)
    BY DEF ES!Legal, ES!After, AddValue, Plain
  <1>2. QED
    BY <1>1, FilledIsTyped, OneCall

\* Inside containers: the innermost one turns, or is closed.
TopIs(c, kind) == [c EXCEPT !.nest = [c.nest EXCEPT ![Len(c.nest)] = kind]]
Popped(c)      == [c EXCEPT !.nest = SubSeq(c.nest, 1, Len(c.nest) - 1)]

LEMMA TurnsAreTyped ==
    ASSUME NEW c \in ES!Context, c.nest # <<>>
    PROVE  /\ Len(c.nest) \in Nat \ {0}
           /\ \A kind \in Kinds : TopIs(c, kind) \in ES!Context /\ ES!Turn(c, kind) = TopIs(c, kind)
           /\ Popped(c) \in ES!Context /\ ES!Drop(c) = Popped(c)
  <1>1. c.nest \in Seq(Kinds) /\ Len(c.nest) \in Nat \ {0}
    BY NestsAreTyped, EmptySeq
  <1>2. \A kind \in Kinds : [c.nest EXCEPT ![Len(c.nest)] = kind] \in Seq(Kinds)
    BY <1>1, ExceptSeq
  <1>3. SubSeq(c.nest, 1, Len(c.nest) - 1) \in Seq(Kinds)
    BY <1>1
  <1>4. \A kind \in Kinds : TopIs(c, kind) \in ES!Context /\ ES!Turn(c, kind) = TopIs(c, kind)
    BY <1>2, NestsAreTyped DEF TopIs, ES!Turn
  <1>5. Popped(c) \in ES!Context /\ ES!Drop(c) = Popped(c)
    BY <1>3, NestsAreTyped DEF Popped, ES!Drop
  <1>6. QED
    BY <1>1, <1>4, <1>5

LEMMA ValueHasRoom ==
    ASSUME NEW c \in ES!Context, ES!Innermost(c, "val")
    PROVE  ES!Room(c) /\ ES!Filled(c) = TopIs(c, "key")
  BY TurnsAreTyped DEF ES!Room, ES!Filled, ES!Innermost, Kinds

LEMMA KeyIsGiven ==
    ASSUME NEW c \in ES!Context, ES!Innermost(c, "key"), NEW k
    PROVE  Leads(c, <<OnTableKey(k)>>, TopIs(c, "val"))
  <1>1. TopIs(c, "val") \in ES!Context /\ ES!Turn(c, "val") = TopIs(c, "val")
    BY TurnsAreTyped DEF ES!Innermost, Kinds
  <1>2. ES!Legal(c, OnTableKey(k)) /\ ES!After(c, OnTableKey(k)) = TopIs(c, "val")
    BY <1>1 DEF ES!Legal, ES!After, OnTableKey, Plain
  <1>3. QED
    BY <1>1, <1>2, OneCall

\* The parser's own '?' in a table: the value of the last key, or ignored.
LEMMA PlaceholderFills ==
    ASSUME NEW c \in ES!Context, ES!Innermost(c, "val") \/ ES!Innermost(c, "key")
    PROVE  Leads(c, <<Placeholder>>, TopIs(c, "key"))
  <1>1. /\ TopIs(c, "key") \in ES!Context /\ ES!Turn(c, "key") = TopIs(c, "key")
        /\ c.nest # <<>> /\ Len(c.nest) \in Nat \ {0} /\ c.nest \in Seq(Kinds)
    BY TurnsAreTyped, NestsAreTyped DEF ES!Innermost, Kinds
  <1>2. CASE ES!Innermost(c, "val")
    <2>1. ES!Room(c) /\ ES!Filled(c) = TopIs(c, "key")
      BY <1>1, <1>2 DEF ES!Room, ES!Filled
    <2>2. ES!Legal(c, Placeholder) /\ ES!After(c, Placeholder) = TopIs(c, "key")
      BY <2>1 DEF ES!Legal, ES!After, Placeholder, Plain
    <2>3. QED
      BY <1>1, <2>2, OneCall
  <1>3. CASE ES!Innermost(c, "key")
    <2>1. ~ES!Room(c)
      BY <1>1, <1>3 DEF ES!Room, ES!Innermost
    <2>2. [c.nest EXCEPT ![Len(c.nest)] = "key"] = c.nest
      BY <1>1, <1>3 DEF ES!Innermost
    <2>3. TopIs(c, "key") = c
      BY <2>2 DEF TopIs, ES!Context
    <2>4. ES!Legal(c, Placeholder) /\ ES!After(c, Placeholder) = c
      BY <2>1 DEF ES!Legal, ES!After, Placeholder, Plain
    <2>5. QED
      BY <1>1, <2>3, <2>4, OneCall
  <1>4. QED
    BY <1>2, <1>3

LEMMA ContainerEnds ==
    ASSUME NEW c \in ES!Context
    PROVE  /\ ES!Innermost(c, "list") => Leads(c, <<OnListEnd>>, Popped(c))
           /\ ES!Innermost(c, "key") => Leads(c, <<OnTableEnd>>, Popped(c))
  <1>1. CASE ES!Innermost(c, "list")
    <2>1. /\ Popped(c) \in ES!Context
          /\ ES!Legal(c, OnListEnd) /\ ES!After(c, OnListEnd) = Popped(c)
          /\ ~ES!Innermost(c, "key")
      BY <1>1, TurnsAreTyped DEF ES!Legal, ES!After, ES!Innermost, OnListEnd, Plain
    <2>2. QED
      BY <2>1, OneCall
  <1>2. CASE ES!Innermost(c, "key")
    <2>1. /\ Popped(c) \in ES!Context
          /\ ES!Legal(c, OnTableEnd) /\ ES!After(c, OnTableEnd) = Popped(c)
          /\ ~ES!Innermost(c, "list")
      BY <1>2, TurnsAreTyped DEF ES!Legal, ES!After, ES!Innermost, OnTableEnd, Plain
    <2>2. QED
      BY <2>1, OneCall
  <1>3. QED
    BY <1>1, <1>2

\* A container begins: it takes its place as a value does, if there is one, and
\* is ignored in the place of a key.
LEMMA ContainerBegins ==
    ASSUME NEW c \in ES!Context, ES!Room(c) \/ ES!Innermost(c, "key"),
           NEW d, d = IF ES!Room(c) THEN ES!Filled(c) ELSE c
    PROVE  /\ Leads(c, <<OnListStart>>, [d EXCEPT !.nest = Append(d.nest, "list")])
           /\ Leads(c, <<OnTableStart>>, [d EXCEPT !.nest = Append(d.nest, "key")])
  <1>1. d \in ES!Context
    BY FilledIsTyped
  <1>2. \A kind \in Kinds : [d EXCEPT !.nest = Append(d.nest, kind)] \in ES!Context
    <2>1. \A kind \in Kinds : Append(d.nest, kind) \in Seq(Kinds)
      BY <1>1, NestsAreTyped, AppendProperties
    <2>2. QED
      BY <1>1, <2>1, NestsAreTyped
  <1>3. \A kind \in Kinds : ES!Push(d, kind) = [d EXCEPT !.nest = Append(d.nest, kind)]
    BY DEF ES!Push
  <1>4. /\ ES!Legal(c, OnListStart)
        /\ ES!After(c, OnListStart) = [d EXCEPT !.nest = Append(d.nest, "list")]
    BY <1>3 DEF ES!Legal, ES!After, OnListStart, Plain, Kinds
  <1>5. /\ ES!Legal(c, OnTableStart)
        /\ ES!After(c, OnTableStart) = [d EXCEPT !.nest = Append(d.nest, "key")]
    BY <1>3 DEF ES!Legal, ES!After, OnTableStart, Plain, Kinds
  <1>6. QED
    BY <1>2, <1>4, <1>5, OneCall DEF Kinds

-----------------------------------------------------------------------------
(***************************************************************************)
(* The nesting as the parser sees it.                                      *)
(***************************************************************************)
LEMMA NestTyped ==
    ASSUME NEW s \in Seq(Frame), NEW live \in BOOLEAN
    PROVE  /\ NestOf(s, live) \in Seq(Kinds) /\ Len(NestOf(s, live)) = Len(s)
           /\ \A i \in 1..Len(s) : NestOf(s, live)[i] = Expects(s[i], live /\ i = Len(s))
           /\ NestOf(s, live) = <<>> <=> s = <<>>
  <1>1. \A i \in 1..Len(s) : Expects(s[i], live /\ i = Len(s)) \in Kinds
    BY DEF Expects, Kinds
  <1>2. NestOf(s, live) \in Seq(Kinds) /\ Len(NestOf(s, live)) = Len(s)
    BY <1>1 DEF NestOf
  <1>3. NestOf(s, live) = <<>> <=> s = <<>>
    BY <1>2, EmptySeq
  <1>4. QED
    BY <1>2, <1>3 DEF NestOf

\* All but the last element.
LEMMA ButLast ==
    ASSUME NEW S, NEW s \in Seq(S), s # <<>>
    PROVE  LET r == SubSeq(s, 1, Len(s) - 1) IN
           /\ r \in Seq(S) /\ Len(r) = Len(s) - 1 /\ Len(s) \in Nat \ {0}
           /\ \A i \in 1..Len(s) - 1 : r[i] = s[i]
  <1> DEFINE r == SubSeq(s, 1, Len(s) - 1)
  <1>1. Len(s) \in Nat \ {0}
    BY EmptySeq
  <1>2. r \in Seq(S) /\ \A i \in 1..Len(s) - 1 : r[i] = s[i]
    BY <1>1
  <1>3. Len(r) = Len(s) - 1
    <2>1. CASE Len(s) = 1
      BY <2>1
    <2>2. CASE Len(s) > 1
      BY <1>1, <2>2
    <2>3. QED
      BY SMTT(30), <1>1, <2>1, <2>2
  <1>4. QED
    BY <1>1, <1>2, <1>3

\* Two sequences with the same elements are one.
LEMMA SameNest ==
    ASSUME NEW a \in Seq(Kinds), NEW b \in Seq(Kinds), Len(a) = Len(b),
           \A i \in 1..Len(a) : a[i] = b[i]
    PROVE  a = b
  BY SeqEqual

LEMMA NestTop ==
    ASSUME NEW s \in Seq(Frame), s # <<>>, NEW f \in Frame,
           NEW live \in BOOLEAN, NEW after \in BOOLEAN
    PROVE  [NestOf(s, live) EXCEPT ![Len(s)] = Expects(f, after)]
                = NestOf([s EXCEPT ![Len(s)] = f], after)
  <1> DEFINE r == [s EXCEPT ![Len(s)] = f]
             a == [NestOf(s, live) EXCEPT ![Len(s)] = Expects(f, after)]
             b == NestOf(r, after)
  <1>1. Len(s) \in Nat \ {0}
    BY EmptySeq
  <1>2. r \in Seq(Frame) /\ Len(r) = Len(s) /\ r[Len(s)] = f
        /\ \A i \in 1..Len(s) - 1 : r[i] = s[i]
    BY <1>1, ExceptSeq
  <1>3. Expects(f, after) \in Kinds
    BY DEF Expects, Kinds
  <1>4. NestOf(s, live) \in Seq(Kinds) /\ Len(NestOf(s, live)) = Len(s)
    BY NestTyped
  <1>5. a \in Seq(Kinds) /\ Len(a) = Len(s) /\ a[Len(s)] = Expects(f, after)
        /\ \A i \in 1..Len(s) - 1 : a[i] = NestOf(s, live)[i]
    BY <1>1, <1>3, <1>4, ExceptSeq
  <1> HIDE DEF r
  <1>6. b \in Seq(Kinds) /\ Len(b) = Len(s)
        /\ \A i \in 1..Len(s) : b[i] = Expects(r[i], after /\ i = Len(s))
    BY <1>2, NestTyped
  <1> HIDE DEF a, b
  <1>7. ASSUME NEW i \in 1..Len(s) PROVE a[i] = b[i]
    <2>1. CASE i = Len(s)
      BY <1>1, <1>2, <1>5, <1>6, <2>1 DEF Expects
    <2>2. CASE i # Len(s)
      <3>1. i \in 1..Len(s) - 1
        BY <1>1, <2>2
      <3>2. NestOf(s, live)[i] = Expects(s[i], FALSE)
        BY <1>1, <2>2, NestTyped DEF Expects
      <3>3. b[i] = Expects(s[i], FALSE)
        BY <1>2, <1>6, <2>2, <3>1 DEF Expects
      <3>4. QED
        BY <1>5, <3>1, <3>2, <3>3
    <2>3. QED
      BY <2>1, <2>2
  <1>8. a = b
    BY <1>5, <1>6, <1>7, SameNest
  <1>9. QED
    BY <1>8 DEF a, b, r

\* The containers below the innermost one expect what they expect when it is closed.
LEMMA NestPop ==
    ASSUME NEW s \in Seq(Frame), s # <<>>, NEW live \in BOOLEAN
    PROVE  SubSeq(NestOf(s, live), 1, Len(s) - 1) = NestOf(SubSeq(s, 1, Len(s) - 1), FALSE)
  <1> DEFINE r == SubSeq(s, 1, Len(s) - 1)
             n == NestOf(s, live)
             a == SubSeq(n, 1, Len(s) - 1)
             b == NestOf(r, FALSE)
  <1>1. Len(s) \in Nat \ {0}
    BY EmptySeq
  <1>2. r \in Seq(Frame) /\ Len(r) = Len(s) - 1 /\ \A i \in 1..Len(s) - 1 : r[i] = s[i]
    BY ButLast
  <1>3. /\ n \in Seq(Kinds) /\ Len(n) = Len(s)
        /\ \A i \in 1..Len(s) : n[i] = Expects(s[i], live /\ i = Len(s))
    BY NestTyped
  <1> HIDE DEF n, r
  <1>4. a \in Seq(Kinds) /\ Len(a) = Len(s) - 1 /\ \A i \in 1..Len(s) - 1 : a[i] = n[i]
    BY <1>1, <1>3, EmptySeq, ButLast
  <1>5. /\ b \in Seq(Kinds) /\ Len(b) = Len(r)
        /\ \A i \in 1..Len(r) : b[i] = Expects(r[i], FALSE /\ i = Len(r))
    BY <1>2, NestTyped
  <1> HIDE DEF a, b
  <1>6. ASSUME NEW i \in 1..Len(a) PROVE a[i] = b[i]
    <2>1. i \in 1..Len(s) - 1 /\ i \in 1..Len(s) /\ i # Len(s) /\ i \in 1..Len(r)
      BY <1>1, <1>2, <1>4
    <2>2. a[i] = Expects(s[i], FALSE)
      BY <1>3, <1>4, <2>1 DEF Expects
    <2>3. b[i] = Expects(s[i], FALSE)
      BY <1>2, <1>5, <2>1 DEF Expects
    <2>4. QED
      BY <2>2, <2>3
  <1>7. a = b
    BY <1>2, <1>4, <1>5, <1>6, SameNest
  <1>8. QED
    BY <1>7 DEF a, b, n, r

LEMMA NestPush ==
    ASSUME NEW s \in Seq(Frame), NEW f \in Frame
    PROVE  Append(NestOf(s, FALSE), Expects(f, TRUE)) = NestOf(Append(s, f), TRUE)
  <1> DEFINE r == Append(s, f)
             n == NestOf(s, FALSE)
             x == Expects(f, TRUE)
             a == Append(n, x)
             b == NestOf(r, TRUE)
  <1>1. Len(s) \in Nat /\ x \in Kinds
    BY DEF Expects, Kinds
  <1>2. /\ r \in Seq(Frame) /\ Len(r) = Len(s) + 1 /\ r[Len(s) + 1] = f
        /\ \A i \in 1..Len(s) : r[i] = s[i]
    BY <1>1, AppendProperties
  <1>3. /\ n \in Seq(Kinds) /\ Len(n) = Len(s)
        /\ \A i \in 1..Len(s) : n[i] = Expects(s[i], FALSE /\ i = Len(s))
    BY NestTyped
  <1> HIDE DEF n, r, x
  <1>4. /\ a \in Seq(Kinds) /\ Len(a) = Len(s) + 1 /\ a[Len(s) + 1] = x
        /\ \A i \in 1..Len(s) : a[i] = n[i]
    BY <1>1, <1>3, AppendProperties
  <1>5. /\ b \in Seq(Kinds) /\ Len(b) = Len(r)
        /\ \A i \in 1..Len(r) : b[i] = Expects(r[i], TRUE /\ i = Len(r))
    BY <1>2, NestTyped
  <1> HIDE DEF a, b
  <1>6. ASSUME NEW i \in 1..Len(a) PROVE a[i] = b[i]
    <2>1. CASE i = Len(s) + 1
      BY <1>1, <1>2, <1>4, <1>5, <2>1 DEF Expects, x
    <2>2. CASE i # Len(s) + 1
      <3>1. i \in 1..Len(s) /\ i \in 1..Len(r) /\ i # Len(r)
        BY <1>1, <1>2, <1>4, <2>2
      <3>2. a[i] = Expects(s[i], FALSE)
        BY <1>3, <1>4, <3>1 DEF Expects
      <3>3. b[i] = Expects(s[i], FALSE)
        BY <1>2, <1>5, <3>1 DEF Expects
      <3>4. QED
        BY <3>2, <3>3
    <2>3. QED
      BY <2>1, <2>2
  <1>7. a = b
    BY <1>2, <1>4, <1>5, <1>6, SameNest
  <1>8. QED
    BY <1>7 DEF a, b, n, r, x

\* A nesting whose innermost container is no table with its value to come is the
\* same inside and outside an unwinding.
LEMMA NestLive ==
    ASSUME NEW s \in Seq(Frame), s # <<>> => s[Len(s)].at # "Value",
           NEW live \in BOOLEAN, NEW after \in BOOLEAN
    PROVE  NestOf(s, live) = NestOf(s, after)
  <1>1. \A i \in 1..Len(s) :
            Expects(s[i], live /\ i = Len(s)) = Expects(s[i], after /\ i = Len(s))
    BY EmptySeq DEF Expects
  <1>2. QED
    BY <1>1 DEF NestOf

\* after_close_container: the container was the value of the table below it.
LEMMA NestAfterClose ==
    ASSUME NEW s \in Seq(Frame)
    PROVE  AfterClose(s) \in Seq(Frame) /\ NestOf(AfterClose(s), TRUE) = NestOf(s, FALSE)
  <1>1. CASE s # <<>> /\ s[Len(s)].at = "Value"
    <2> DEFINE f == Table("Key", NoKey)
    <2>1. f \in Frame /\ Expects(f, TRUE) = "key" /\ Len(s) \in Nat \ {0}
      BY <1>1, FramesAreTyped, EmptySeq DEF Expects
    <2> HIDE DEF f
    <2>2. NestOf([s EXCEPT ![Len(s)] = f], TRUE) = [NestOf(s, FALSE) EXCEPT ![Len(s)] = "key"]
      BY ZenonT(30), <1>1, <2>1, NestTop
    <2> DEFINE n == NestOf(s, FALSE)
    <2>3. n \in Seq(Kinds) /\ Len(n) = Len(s) /\ n[Len(s)] = "key"
      <3>1. n[Len(s)] = Expects(s[Len(s)], FALSE)
        BY <2>1 DEF NestOf, Expects
      <3>2. QED
        BY <1>1, <3>1, NestTyped DEF Expects
    <2> HIDE DEF n
    <2>4. [n EXCEPT ![Len(s)] = "key"] = n
      BY <2>1, <2>3
    <2>5. [s EXCEPT ![Len(s)] = f] \in Seq(Frame)
      BY <2>1, ExceptSeq
    <2>6. QED
      BY <1>1, <2>2, <2>4, <2>5 DEF AfterClose, f, n
  <1>2. CASE ~(s # <<>> /\ s[Len(s)].at = "Value")
    <2>1. AfterClose(s) = s
      BY <1>2 DEF AfterClose
    <2>2. NestOf(s, TRUE) = NestOf(s, FALSE)
      BY <1>2, NestLive
    <2>3. QED
      BY <2>1, <2>2
  <1>3. QED
    BY <1>1, <1>2

LEMMA NoNest ==
    ASSUME NEW live \in BOOLEAN
    PROVE  NestOf(<<>>, live) = <<>>
  BY DEF NestOf

\* What the innermost container of the parser expects.
LEMMA NestInnermost ==
    ASSUME NEW s \in Seq(Frame), s # <<>>, NEW live \in BOOLEAN,
           NEW c \in ES!Context, c.nest = NestOf(s, live)
    PROVE  /\ c.nest # <<>> /\ Len(c.nest) = Len(s) /\ Len(s) \in Nat \ {0}
           /\ c.nest[Len(s)] = Expects(s[Len(s)], live)
           /\ \A kind \in Kinds : ES!Innermost(c, kind) <=> Expects(s[Len(s)], live) = kind
  <1>1. Len(s) \in Nat \ {0}
    BY EmptySeq
  <1>2. c.nest # <<>> /\ Len(c.nest) = Len(s)
    BY NestTyped
  <1>3. c.nest[Len(s)] = Expects(s[Len(s)], live)
    BY <1>1, NestTyped DEF Expects
  <1>4. QED
    BY <1>1, <1>2, <1>3 DEF ES!Innermost

-----------------------------------------------------------------------------
(***************************************************************************)
(* Closing a container.                                                    *)
(***************************************************************************)

\* What is left of the nesting when the innermost container is popped.
LEMMA NestPopped ==
    ASSUME NEW s \in Seq(Frame), s # <<>>, NEW live \in BOOLEAN,
           NEW c \in ES!Context, c.nest = NestOf(s, live)
    PROVE  Popped(c) = [c EXCEPT !.nest = NestOf(SubSeq(s, 1, Len(s) - 1), FALSE)]
  <1>1. Len(c.nest) = Len(s)
    BY NestTyped
  <1>2. SubSeq(NestOf(s, live), 1, Len(s) - 1) = NestOf(SubSeq(s, 1, Len(s) - 1), FALSE)
    BY NestPop
  <1>3. QED
    BY <1>1, <1>2 DEF Popped

\* It is all one what the innermost container expected.
LEMMA TopPopped ==
    ASSUME NEW c \in ES!Context, c.nest # <<>>, NEW kind \in Kinds
    PROVE  Popped(TopIs(c, kind)) = Popped(c)
  <1> DEFINE n == c.nest
             m == [n EXCEPT ![Len(n)] = kind]
  <1>1. n \in Seq(Kinds) /\ Len(n) \in Nat \ {0} /\ n # <<>>
    BY TurnsAreTyped, NestsAreTyped
  <1>2. m \in Seq(Kinds) /\ Len(m) = Len(n) /\ \A i \in 1..Len(n) - 1 : m[i] = n[i]
    BY <1>1, ExceptSeq
  <1>3. TopIs(c, kind) = [c EXCEPT !.nest = m]
    BY DEF TopIs
  <1> HIDE DEF n, m
  <1> DEFINE a == SubSeq(m, 1, Len(m) - 1)
             b == SubSeq(n, 1, Len(n) - 1)
  <1>4. /\ a \in Seq(Kinds) /\ Len(a) = Len(n) - 1
        /\ \A i \in 1..Len(n) - 1 : a[i] = m[i]
    BY <1>1, <1>2, EmptySeq, ButLast
  <1>5. b \in Seq(Kinds) /\ Len(b) = Len(n) - 1 /\ \A i \in 1..Len(n) - 1 : b[i] = n[i]
    BY <1>1, ButLast
  <1> HIDE DEF a, b
  <1>6. a = b
    BY <1>2, <1>4, <1>5, SameNest
  <1>7. TopIs(c, kind).nest = m
    BY <1>3 DEF ES!Context
  <1>8. Popped(TopIs(c, kind)) = [TopIs(c, kind) EXCEPT !.nest = a]
    BY <1>7 DEF Popped, a
  <1>9. Popped(c) = [c EXCEPT !.nest = b]
    BY DEF Popped, b, n
  <1>10. [[c EXCEPT !.nest = m] EXCEPT !.nest = a] = [c EXCEPT !.nest = a]
    BY DEF ES!Context
  <1>11. QED
    BY <1>3, <1>6, <1>8, <1>9, <1>10

\* The innermost container turns twice.
LEMMA TopTwice ==
    ASSUME NEW c \in ES!Context, c.nest # <<>>, NEW kind \in Kinds
    PROVE  /\ TopIs(c, kind) \in ES!Context
           /\ ES!Innermost(TopIs(c, kind), kind)
           /\ TopIs(TopIs(c, kind), "key") = TopIs(c, "key")
  <1>1. TopIs(c, kind) \in ES!Context
    BY TurnsAreTyped
  <1> DEFINE n == c.nest
             m == [n EXCEPT ![Len(n)] = kind]
  <1>2. n \in Seq(Kinds) /\ Len(n) \in Nat \ {0}
    BY NestsAreTyped, TurnsAreTyped
  <1>3. m \in Seq(Kinds) /\ Len(m) = Len(n) /\ m[Len(n)] = kind
    BY <1>2, ExceptSeq
  <1>4. TopIs(c, kind) = [c EXCEPT !.nest = m]
    BY DEF TopIs
  <1>5. [m EXCEPT ![Len(m)] = "key"] = [n EXCEPT ![Len(n)] = "key"]
    BY <1>2, <1>3
  <1> HIDE DEF m
  <1>6. TopIs(c, kind).nest = m
    BY <1>4 DEF ES!Context
  <1>7. ES!Innermost(TopIs(c, kind), kind)
    BY <1>2, <1>3, <1>6, EmptySeq DEF ES!Innermost
  <1>8. TopIs(TopIs(c, kind), "key") = TopIs(c, "key")
    BY <1>4, <1>5, <1>6 DEF TopIs, ES!Context
  <1>9. QED
    BY <1>1, <1>7, <1>8

\* cleanup_table_frame and the end of the container: whatever state a table is in,
\* its last key gets its value and it is closed.
LEMMA EndCallsLead ==
    ASSUME NEW s \in Seq(Frame), s # <<>>, s[Len(s)].at = "Colon" => s[Len(s)].key \in Texts,
           NEW live \in BOOLEAN, NEW c \in ES!Context, c.nest = NestOf(s, live)
    PROVE  Leads(c, EndCalls(s[Len(s)]),
                 [c EXCEPT !.nest = NestOf(SubSeq(s, 1, Len(s) - 1), FALSE)])
  <1> DEFINE f == s[Len(s)]
  <1>0. f \in Frame
    BY EmptySeq, ElementOfSeq
  <1>1. SUFFICES Leads(c, EndCalls(f), Popped(c))
    BY NestPopped
  <1>2. f.at \in {"list", "Key", "Colon", "Value"}
    BY <1>0 DEF Frame
  <1>3. \A kind \in Kinds : ES!Innermost(c, kind) <=> Expects(f, live) = kind
    BY NestInnermost
  <1>4. c.nest # <<>>
    BY NestInnermost
  <1>5. \A kind \in Kinds : /\ TopIs(c, kind) \in ES!Context
                            /\ ES!Innermost(TopIs(c, kind), kind)
                            /\ TopIs(TopIs(c, kind), "key") = TopIs(c, "key")
    BY <1>4, TopTwice
  <1>6. \A kind \in Kinds : Popped(TopIs(c, kind)) = Popped(c)
    BY <1>4, TopPopped
  <1>7. /\ Placeholder \in Call /\ OnTableEnd \in Call
        /\ f.at = "Colon" => OnTableKey(f.key) \in Call
    BY CallsAreTyped
  <1> HIDE DEF f
  <1>8. CASE f.at = "list"
    <2>1. EndCalls(f) = <<OnListEnd>> /\ ES!Innermost(c, "list")
      BY <1>3, <1>8 DEF EndCalls, Expects, Kinds
    <2>2. QED
      BY <2>1, ContainerEnds
  <1>9. CASE f.at = "Key"
    <2>1. EndCalls(f) = <<OnTableEnd>> /\ ES!Innermost(c, "key")
      BY <1>3, <1>9 DEF EndCalls, CleanupCalls, Expects, Kinds
    <2>2. QED
      BY <2>1, ContainerEnds
  <1>10. CASE f.at = "Value"
    <2>1. EndCalls(f) = <<Placeholder>> \o <<OnTableEnd>>
      BY <1>7, <1>10 DEF EndCalls, CleanupCalls
    <2>2. ES!Innermost(c, "val") \/ ES!Innermost(c, "key")
      BY <1>3, <1>10 DEF Expects, Kinds
    <2>3. Leads(c, <<Placeholder>>, TopIs(c, "key"))
      BY <2>2, PlaceholderFills
    <2>4. Leads(TopIs(c, "key"), <<OnTableEnd>>, Popped(c))
      BY <1>5, <1>6, ContainerEnds DEF Kinds
    <2>5. <<Placeholder>> \in Seq(Call) /\ <<OnTableEnd>> \in Seq(Call)
      BY <1>7
    <2>6. Leads(c, <<Placeholder>> \o <<OnTableEnd>>, Popped(c))
      BY <2>3, <2>4, <2>5, MoreCalls, Zenon
    <2>7. QED
      BY <2>1, <2>6, Zenon
  <1>11. CASE f.at = "Colon"
    <2>1. EndCalls(f) = <<OnTableKey(f.key)>> \o (<<Placeholder>> \o <<OnTableEnd>>)
      BY <1>7, <1>11 DEF EndCalls, CleanupCalls
    <2>2. Leads(c, <<OnTableKey(f.key)>>, TopIs(c, "val"))
      <3>1. ES!Innermost(c, "key")
        BY <1>3, <1>11 DEF Expects, Kinds
      <3>2. QED
        BY <3>1, KeyIsGiven
    <2>3. Leads(TopIs(c, "val"), <<Placeholder>>, TopIs(c, "key"))
      <3>1. TopIs(c, "val") \in ES!Context /\ ES!Innermost(TopIs(c, "val"), "val")
            /\ TopIs(TopIs(c, "val"), "key") = TopIs(c, "key")
        BY <1>5 DEF Kinds
      <3>2. QED
        BY <3>1, PlaceholderFills
    <2>4. Leads(TopIs(c, "key"), <<OnTableEnd>>, Popped(c))
      BY <1>5, <1>6, ContainerEnds DEF Kinds
    <2>5. /\ <<Placeholder>> \in Seq(Call) /\ <<OnTableEnd>> \in Seq(Call)
          /\ <<OnTableKey(f.key)>> \in Seq(Call)
          /\ <<Placeholder>> \o <<OnTableEnd>> \in Seq(Call)
      BY <1>7, <1>11
    <2>6. Leads(TopIs(c, "val"), <<Placeholder>> \o <<OnTableEnd>>, Popped(c))
      BY <2>3, <2>4, <2>5, MoreCalls, Zenon
    <2>7. Leads(c, <<OnTableKey(f.key)>> \o (<<Placeholder>> \o <<OnTableEnd>>), Popped(c))
      BY <2>2, <2>5, <2>6, MoreCalls, Zenon
    <2>8. QED
      BY <2>1, <2>7, Zenon
  <1>12. QED
    BY <1>2, <1>8, <1>9, <1>10, <1>11

-----------------------------------------------------------------------------
(***************************************************************************)
(* The handlers: each leads from the context before it to the one after.   *)
(***************************************************************************)
LEMMA MirrorTyped ==
    ASSUME IInv
    PROVE  /\ Mirror \in ES!Context
           /\ Mirror.frame = inSaveFrame /\ Mirror.loop = inLoop
           /\ Mirror.tag = (activeTag # NoTag /\ stack = <<>> /\ tok # EofToken)
           /\ Mirror.nest = NestOf(stack, tok = NoToken)
  <1>1. NestOf(stack, tok = NoToken) \in Seq(Kinds)
    BY StateTyped, NestTyped DEF StackOK
  <1>2. QED
    BY <1>1, StateTyped DEF Mirror, ES!Context, Kinds

LEMMA NextMirrorTyped ==
    ASSUME IInv'
    PROVE  /\ Mirror' \in ES!Context
           /\ Mirror'.frame = inSaveFrame' /\ Mirror'.loop = inLoop'
           /\ Mirror'.tag = (activeTag' # NoTag /\ stack' = <<>> /\ tok' # EofToken)
           /\ Mirror'.nest = NestOf(stack', tok' = NoToken)
  <1>1. stack' \in Seq(Frame) /\ inSaveFrame' \in BOOLEAN /\ inLoop' \in BOOLEAN
    BY DEF IInv, TypeOK
  <1>2. NestOf(stack', tok' = NoToken) \in Seq(Kinds)
    BY <1>1, NestTyped
  <1>3. QED
    BY <1>1, <1>2 DEF Mirror, ES!Context, Kinds

\* A value is handled without unwinding.
LEMMA NothingWaits ==
    ASSUME PhaseInv, NEW t, Handle(t), ~ClosesContainers(t)
    PROVE  tok = NoToken /\ tok # EofToken /\ tok' = NoToken /\ phase = "running"
  BY DEF PhaseInv, Handle, Current, Consume, NoToken, EofToken, Tok

\* The end of a handler.
LEMMA HandlerEnds ==
    ASSUME NEW t, Handle(t), phase' = "running" \/ Mirror' = ES!Idle
    PROVE  PhaseInv'
  BY DEF PhaseInv, Handle, Consume

LEMMA UnwindLeads ==
    ASSUME IInv, PhaseInv, NEW t \in Tokens \cup {EofToken}, Unwind(t)
    PROVE  PhaseInv' /\ Leads(Mirror, calls', Mirror')
  <1>1. /\ stack # <<>> /\ stack \in Seq(Frame) /\ stack' = Rest
        /\ Top.at = "Colon" => Top.key \in Texts
    BY TopTyped, StateTyped DEF Unwind, StackOK
  <1>2. t # NoToken
    BY TokensAreTyped DEF EofToken, NoToken, Tok
  <1>3. phase' = "running" /\ tok' = t /\ ClosesContainers(t)'
    BY DEF Unwind, Current, ClosesContainers
  <1>4. Mirror' = [Mirror EXCEPT !.nest = NestOf(Rest, FALSE)]
    <2>1. Mirror.tag = FALSE
      BY <1>1, MirrorTyped
    <2>2. Mirror'.tag = FALSE
      <3>1. ~(activeTag' # NoTag /\ stack' = <<>> /\ tok' # EofToken)
        BY <1>3, StateTyped DEF Unwind
      <3>2. QED
        BY <3>1, UnwindStep, NextMirrorTyped
    <2>3. inSaveFrame' = inSaveFrame /\ inLoop' = inLoop /\ (tok' = NoToken) = FALSE
      BY <1>2, <1>3 DEF Unwind
    <2>4. Mirror' \in ES!Context /\ Mirror'.frame = Mirror.frame /\ Mirror'.loop = Mirror.loop
          /\ Mirror'.nest = NestOf(Rest, FALSE)
      BY <1>1, <2>3, UnwindStep, MirrorTyped, NextMirrorTyped
    <2>5. NestOf(Rest, FALSE) \in Seq(Kinds)
      BY <1>1, ButLast, NestTyped DEF Rest
    <2>6. [Mirror EXCEPT !.nest = Mirror'.nest] = Mirror'
      <3>1. Mirror'.tag = Mirror.tag
        BY <2>1, <2>2
      <3>2. QED
        BY <2>4, <3>1, MirrorTyped, NestChanges, Zenon
    <2>7. QED
      BY <2>4, <2>6, Zenon
  <1>5. Leads(Mirror, EndCalls(Top), [Mirror EXCEPT !.nest = NestOf(Rest, FALSE)])
    <2>1. Mirror \in ES!Context /\ Mirror.nest = NestOf(stack, tok = NoToken)
          /\ (tok = NoToken) \in BOOLEAN
      BY MirrorTyped
    <2>2. QED
      BY <1>1, <2>1, EndCallsLead DEF Top, Rest
  <1>6. QED
    BY <1>2, <1>3, <1>4, <1>5 DEF Unwind, Emit, PhaseInv

-----------------------------------------------------------------------------
\* The context between two items.
Between(f) == [frame |-> f, loop |-> FALSE, tag |-> FALSE, nest |-> <<>>]

LEMMA BetweenIsQuiet ==
    ASSUME NEW f \in BOOLEAN
    PROVE  /\ Between(f) \in ES!Context /\ ES!Quiet(Between(f))
           /\ Between(f).frame = f /\ Between(f).loop = FALSE
           /\ Between(f).tag = FALSE /\ Between(f).nest = <<>>
           /\ Between(FALSE) = ES!Idle
  <1>1. <<>> \in Seq(Kinds)
    OBVIOUS
  <1>2. QED
    BY <1>1 DEF Between, ES!Context, ES!Quiet, ES!Idle, Kinds

\* close_loop and close_active_tag, in the three ways the handlers call them.
LEMMA ItemEnds ==
    ASSUME IInv, stack = <<>>
    PROVE  /\ Leads(Mirror, EndItemCalls, Between(inSaveFrame))
           /\ CloseLoopCalls \o CloseTagCalls = EndItemCalls
  <1>1. /\ Mirror \in ES!Context /\ Mirror.frame = inSaveFrame /\ Mirror.loop = inLoop
        /\ Mirror.nest = <<>> /\ Mirror.tag \in BOOLEAN
        /\ activeTag = NoTag => Mirror.tag = FALSE
    BY MirrorTyped, NoNest
  <1> DEFINE b == Between(inSaveFrame)
  <1>0. /\ b \in ES!Context /\ b.frame = inSaveFrame /\ b.loop = FALSE
        /\ b.tag = FALSE /\ b.nest = <<>>
    BY StateTyped, BetweenIsQuiet, Zenon
  <1> HIDE DEF b
  <1>2. CASE inLoop
    <2>1. activeTag = NoTag
      BY <1>2, StateTyped
    <2>2. EndItemCalls = <<OnLoopEnd>> /\ CloseTagCalls = <<>> /\ CloseLoopCalls = <<OnLoopEnd>>
      BY <1>2, <2>1 DEF EndItemCalls, CloseLoopCalls, CloseTagCalls
    <2>3. [Mirror EXCEPT !.loop = FALSE] = b
      <3>1. b.frame = Mirror.frame /\ b.tag = Mirror.tag /\ b.nest = Mirror.nest
        BY <1>0, <1>1, <2>1
      <3>2. QED
        BY <1>0, <1>1, <3>1, LoopChanges, Zenon
    <2>4. Leads(Mirror, <<OnLoopEnd>>, b)
      BY <1>1, <1>2, <2>3, LoopEnds
    <2>5. <<OnLoopEnd>> \o <<>> = <<OnLoopEnd>>
      BY CallsAreTyped
    <2>6. QED
      BY <2>2, <2>4, <2>5 DEF b
  <1>3. CASE ~inLoop /\ activeTag # NoTag
    <2>1. EndItemCalls = <<Placeholder>> /\ CloseTagCalls = <<Placeholder>> /\ CloseLoopCalls = <<>>
      BY <1>3 DEF EndItemCalls, CloseLoopCalls, CloseTagCalls
    <2>2. [Mirror EXCEPT !.tag = FALSE] = b
      <3>1. b.frame = Mirror.frame /\ b.loop = Mirror.loop /\ b.nest = Mirror.nest
        BY <1>0, <1>1, <1>3, StateTyped
      <3>2. QED
        BY <1>0, <1>1, <3>1, TagChanges, Zenon
    <2>3. Leads(Mirror, <<Placeholder>>, b)
      BY <1>1, <1>3, <2>2, TagEnds
    <2>4. <<>> \o <<Placeholder>> = <<Placeholder>>
      BY CallsAreTyped
    <2>5. QED
      BY <2>1, <2>3, <2>4 DEF b
  <1>4. CASE ~inLoop /\ activeTag = NoTag
    <2>1. EndItemCalls = <<>> /\ CloseTagCalls = <<>> /\ CloseLoopCalls = <<>>
      BY <1>4 DEF EndItemCalls, CloseLoopCalls, CloseTagCalls
    <2>2. Mirror = b
      <3>1. Mirror.loop = FALSE
        BY <1>1, <1>4, StateTyped
      <3>2. QED
        BY <1>0, <1>1, <1>4, <3>1, SameContext
    <2>3. QED
      BY <1>1, <2>1, <2>2, NoCalls DEF b
  <1>5. QED
    BY <1>2, <1>3, <1>4

\* The frame, once the items in it are closed.
LEMMA ItemAndFrameEnd ==
    ASSUME IInv, stack = <<>>
    PROVE  /\ Leads(Mirror, EndItemCalls \o EndFrameCalls, ES!Idle)
           /\ EndItemCalls \in Seq(Call) /\ EndFrameCalls \in Seq(Call)
           /\ EndItemCalls \o EndFrameCalls \in Seq(Call)
  <1>1. Between(inSaveFrame) \in ES!Context /\ ES!Quiet(Between(inSaveFrame))
        /\ Between(inSaveFrame).frame = inSaveFrame /\ Between(FALSE) = ES!Idle
    BY StateTyped, BetweenIsQuiet
  <1>2. Leads(Between(inSaveFrame), EndFrameCalls, ES!Idle)
    <2>1. CASE inSaveFrame
      <3>1. EndFrameCalls = <<OnSaveFrameEnd>>
        BY <2>1 DEF EndFrameCalls
      <3>2. [Between(inSaveFrame) EXCEPT !.frame = FALSE] = Between(FALSE)
        <4>1. /\ Between(FALSE) \in ES!Context
              /\ Between(FALSE).frame = FALSE
              /\ Between(FALSE).loop = Between(inSaveFrame).loop
              /\ Between(FALSE).tag = Between(inSaveFrame).tag
              /\ Between(FALSE).nest = Between(inSaveFrame).nest
          BY StateTyped, BetweenIsQuiet
        <4>2. QED
          BY <1>1, <4>1, FrameChanges, Zenon
      <3>3. QED
        BY <1>1, <2>1, <3>1, <3>2, FrameEnds
    <2>2. CASE ~inSaveFrame
      <3>1. EndFrameCalls = <<>> /\ inSaveFrame = FALSE
        BY <2>2, StateTyped DEF EndFrameCalls
      <3>2. QED
        BY <1>1, <3>1, NoCalls
    <2>3. QED
      BY <2>1, <2>2
  <1>3. EndItemCalls \in Seq(Call) /\ EndFrameCalls \in Seq(Call)
    BY EndItemTyped DEF IInv
  <1>4. QED
    BY <1>2, <1>3, ItemEnds, MoreCalls, ShortSequences

\* After a keyword or a tag.
LEMMA MirrorAfterItem ==
    ASSUME IInv', stack' = <<>>, tok' = NoToken
    PROVE  /\ Mirror' \in ES!Context
           /\ Mirror'.frame = inSaveFrame' /\ Mirror'.loop = inLoop'
           /\ Mirror'.tag = (activeTag' # NoTag) /\ Mirror'.nest = <<>>
           /\ ~inLoop' /\ activeTag' = NoTag => Mirror' = Between(inSaveFrame')
  <1>1. /\ Mirror' \in ES!Context
        /\ Mirror'.frame = inSaveFrame' /\ Mirror'.loop = inLoop'
        /\ Mirror'.tag = (activeTag' # NoTag) /\ Mirror'.nest = <<>>
    BY NextMirrorTyped, NoNest DEF NoToken, EofToken, Tok
  <1>2. ASSUME ~inLoop', activeTag' = NoTag
        PROVE  Mirror' = Between(inSaveFrame')
    <2>1. inSaveFrame' \in BOOLEAN /\ inLoop' \in BOOLEAN
      BY DEF IInv, TypeOK
    <2> DEFINE b == Between(inSaveFrame')
    <2>2. /\ b \in ES!Context /\ b.frame = inSaveFrame' /\ b.loop = FALSE
          /\ b.tag = FALSE /\ b.nest = <<>>
      BY <2>1, BetweenIsQuiet, Zenon
    <2> HIDE DEF b
    <2>3. /\ Mirror'.frame = b.frame /\ Mirror'.loop = b.loop
          /\ Mirror'.tag = b.tag /\ Mirror'.nest = b.nest
      BY <1>1, <1>2, <2>1, <2>2
    <2>4. QED
      BY <1>1, <2>2, <2>3, SameContext, Zenon DEF b
  <1>3. QED
    BY <1>1, <1>2

\* A keyword or tag, whether it finds its containers open or not.
LEMMA HandleClosed ==
    ASSUME IInv, NEW t, Handle(t), ClosesContainers(t)
    PROVE  stack = <<>> /\ tok' = NoToken /\ phase = "running"
  BY DEF Handle, Consume, Current

LEMMA HandleDataLeads ==
    ASSUME IInv, NEW t \in Tokens, HandleData(t)
    PROVE  PhaseInv' /\ Leads(Mirror, calls', Mirror')
  <1>1. /\ Handle(t) /\ ClosesContainers(t) /\ t.arg \in Names
        /\ inSaveFrame' = FALSE /\ inLoop' = FALSE /\ activeTag' = NoTag
        /\ UNCHANGED <<stack, phase>>
        /\ calls' = EndItemCalls \o EndFrameCalls \o <<OnDataBlock(t.arg)>>
    BY TokensAreTyped, StateTyped DEF HandleData, EndItem, ClosesContainers, Emit
  <1>2. stack = <<>> /\ tok' = NoToken /\ phase = "running"
    BY <1>1, HandleClosed
  <1>3. Mirror' = ES!Idle
    BY <1>1, <1>2, HandleDataStep, MirrorAfterItem, BetweenIsQuiet
  <1>4. Leads(ES!Idle, <<OnDataBlock(t.arg)>>, ES!Idle)
    BY BetweenIsQuiet, BlockBegins
  <1>5. <<OnDataBlock(t.arg)>> \in Seq(Call)
    BY <1>1, CallsAreTyped
  <1>6. Leads(Mirror, EndItemCalls \o EndFrameCalls \o <<OnDataBlock(t.arg)>>, ES!Idle)
    BY <1>2, <1>4, <1>5, ItemAndFrameEnd, MoreCalls, Zenon
  <1>7. QED
    BY <1>1, <1>2, <1>3, <1>6, HandlerEnds

LEMMA HandleSaveStartLeads ==
    ASSUME IInv, NEW t \in Tokens, HandleSaveStart(t)
    PROVE  PhaseInv' /\ Leads(Mirror, calls', Mirror')
  <1>1. /\ Handle(t) /\ ClosesContainers(t) /\ t.arg \in Names
        /\ inSaveFrame' = TRUE /\ inLoop' = FALSE /\ activeTag' = NoTag
        /\ UNCHANGED <<stack, phase>>
        /\ calls' = EndItemCalls \o EndFrameCalls \o <<OnSaveFrameStart(t.arg)>>
    BY TokensAreTyped, StateTyped DEF HandleSaveStart, EndItem, ClosesContainers, Emit
  <1>2. stack = <<>> /\ tok' = NoToken /\ phase = "running"
    BY <1>1, HandleClosed
  <1>3. Mirror' = Between(TRUE)
    BY <1>1, <1>2, HandleSaveStartStep, MirrorAfterItem
  <1>4. Leads(ES!Idle, <<OnSaveFrameStart(t.arg)>>, Between(TRUE))
    <2>1. /\ Between(FALSE) \in ES!Context /\ ES!Quiet(Between(FALSE)) /\ ~Between(FALSE).frame
          /\ Between(FALSE) = ES!Idle
      BY BetweenIsQuiet
    <2>2. /\ Between(TRUE) \in ES!Context /\ Between(TRUE).frame = TRUE
          /\ Between(TRUE).loop = Between(FALSE).loop /\ Between(TRUE).tag = Between(FALSE).tag
          /\ Between(TRUE).nest = Between(FALSE).nest
      BY BetweenIsQuiet
    <2>3. [Between(FALSE) EXCEPT !.frame = TRUE] = Between(TRUE)
      BY <2>1, <2>2, FrameChanges, Zenon
    <2>4. QED
      BY <2>1, <2>3, FrameBegins
  <1>5. <<OnSaveFrameStart(t.arg)>> \in Seq(Call)
    BY <1>1, CallsAreTyped
  <1>6. Leads(Mirror, EndItemCalls \o EndFrameCalls \o <<OnSaveFrameStart(t.arg)>>, Between(TRUE))
    BY <1>2, <1>4, <1>5, ItemAndFrameEnd, MoreCalls, Zenon
  <1>7. QED
    BY <1>1, <1>2, <1>3, <1>6, HandlerEnds

LEMMA HandleSaveEndLeads ==
    ASSUME IInv, NEW t \in Tokens, HandleSaveEnd(t)
    PROVE  PhaseInv' /\ Leads(Mirror, calls', Mirror')
  <1>1. /\ Handle(t) /\ ClosesContainers(t)
        /\ inSaveFrame' = FALSE /\ inLoop' = FALSE /\ activeTag' = NoTag
        /\ UNCHANGED <<stack, phase>> /\ calls' = EndItemCalls \o EndFrameCalls
    BY StateTyped DEF HandleSaveEnd, EndItem, ClosesContainers, Emit
  <1>2. stack = <<>> /\ tok' = NoToken /\ phase = "running"
    BY <1>1, HandleClosed
  <1>3. Mirror' = ES!Idle
    BY <1>1, <1>2, HandleSaveEndStep, MirrorAfterItem, BetweenIsQuiet
  <1>4. QED
    BY <1>1, <1>2, <1>3, ItemAndFrameEnd, HandlerEnds

\* global_ leaves nothing open behind it.
LEMMA HandleGlobalLeads ==
    ASSUME IInv, NEW t \in Tokens, HandleGlobal(t)
    PROVE  PhaseInv' /\ Leads(Mirror, calls', Mirror')
  <1>1. /\ Handle(t) /\ ClosesContainers(t)
        /\ inSaveFrame' = FALSE /\ inLoop' = FALSE /\ activeTag' = NoTag
        /\ UNCHANGED stack /\ calls' = EndItemCalls \o EndFrameCalls
    BY StateTyped DEF HandleGlobal, EndItem, ClosesContainers, Emit
  <1>2. stack = <<>> /\ tok' = NoToken
    BY <1>1, HandleClosed
  <1>3. Mirror' = ES!Idle
    BY <1>1, <1>2, HandleGlobalStep, MirrorAfterItem, BetweenIsQuiet
  <1>4. QED
    BY <1>1, <1>2, <1>3, ItemAndFrameEnd, HandlerEnds

\* Nor does EOF.
LEMMA HandleEofLeads ==
    ASSUME IInv, HandleEof
    PROVE  PhaseInv' /\ Leads(Mirror, calls', Mirror')
  <1>1. /\ Handle(EofToken) /\ ClosesContainers(EofToken)
        /\ inSaveFrame' = FALSE /\ inLoop' = FALSE /\ activeTag' = NoTag
        /\ UNCHANGED stack /\ calls' = CloseLoopCalls \o CloseTagCalls \o EndFrameCalls
    BY DEF HandleEof, ClosesContainers, EofToken, Tok, Emit
  <1>2. stack = <<>> /\ tok' = NoToken
    BY <1>1, HandleClosed
  <1>3. Mirror' = ES!Idle
    BY <1>1, <1>2, HandleEofStep, MirrorAfterItem, BetweenIsQuiet
  <1>4. calls' = EndItemCalls \o EndFrameCalls
    BY <1>1, <1>2, ItemEnds
  <1>5. QED
    BY <1>1, <1>2, <1>3, <1>4, ItemAndFrameEnd, HandlerEnds

LEMMA HandleLoopLeads ==
    ASSUME IInv, NEW t \in Tokens, HandleLoop(t)
    PROVE  PhaseInv' /\ Leads(Mirror, calls', Mirror')
  <1> DEFINE b == Between(inSaveFrame)
  <1>1. /\ Handle(t) /\ ClosesContainers(t) /\ t.tags \in Headers
        /\ inSaveFrame' = inSaveFrame /\ inLoop' = (t.tags # <<>>) /\ activeTag' = NoTag
        /\ UNCHANGED <<stack, phase>>
        /\ calls' = EndItemCalls \o (IF t.tags # <<>> THEN <<OnLoopStart(t.tags)>> ELSE <<>>)
    BY TokensAreTyped, StateTyped DEF HandleLoop, ClosesContainers, Emit
  <1>2. stack = <<>> /\ tok' = NoToken /\ phase = "running"
    BY <1>1, HandleClosed
  <1>3. Leads(Mirror, EndItemCalls, b) /\ EndItemCalls \in Seq(Call)
    BY <1>2, ItemEnds, ItemAndFrameEnd
  <1>4. CASE t.tags = <<>>
    <2>1. Mirror' = b
      BY <1>1, <1>2, <1>4, HandleLoopStep, MirrorAfterItem
    <2>2. calls' = EndItemCalls
      BY <1>1, <1>3, <1>4
    <2>3. QED
      BY <1>1, <1>2, <1>3, <2>1, <2>2, HandlerEnds
  <1>5. CASE t.tags # <<>>
    <2>1. /\ b \in ES!Context /\ ES!Quiet(b) /\ b.frame = inSaveFrame /\ b.loop = FALSE
          /\ b.tag = FALSE /\ b.nest = <<>>
      BY StateTyped, BetweenIsQuiet, Zenon
    <2>2. Mirror' \in ES!Context /\ Mirror'.frame = inSaveFrame /\ Mirror'.loop = TRUE
          /\ Mirror'.tag = FALSE /\ Mirror'.nest = <<>>
      BY <1>1, <1>2, <1>5, HandleLoopStep, MirrorAfterItem
    <2> HIDE DEF b
    <2>3. Mirror'.frame = b.frame /\ Mirror'.tag = b.tag /\ Mirror'.nest = b.nest
      BY <2>1, <2>2
    <2>4. [b EXCEPT !.loop = TRUE] = Mirror'
      BY <2>1, <2>2, <2>3, LoopChanges, Zenon
    <2>5. Leads(b, <<OnLoopStart(t.tags)>>, Mirror')
      BY <1>5, <2>1, <2>4, LoopBegins
    <2>6. <<OnLoopStart(t.tags)>> \in Seq(Call)
      BY <1>1, CallsAreTyped
    <2>7. Leads(Mirror, EndItemCalls \o <<OnLoopStart(t.tags)>>, Mirror')
      BY <1>3, <2>5, <2>6, MoreCalls, Zenon
    <2>8. QED
      BY <1>1, <1>2, <1>5, <2>7, HandlerEnds
  <1>6. QED
    BY <1>4, <1>5

\* stop_ ends a loop, and is no more than reported outside one.
LEMMA HandleStopLeads ==
    ASSUME IInv, PhaseInv, NEW t \in Tokens, HandleStop(t)
    PROVE  PhaseInv' /\ Leads(Mirror, calls', Mirror')
  <1>1. /\ Handle(t) /\ (ClosesContainers(t) <=> inLoop)
        /\ inLoop' = FALSE /\ UNCHANGED <<inSaveFrame, activeTag, stack, phase>>
        /\ calls' = CloseLoopCalls
    BY DEF HandleStop, ClosesContainers, Emit
  <1>2. CASE inLoop
    <2>1. stack = <<>> /\ tok' = NoToken /\ phase = "running"
      BY <1>1, <1>2, HandleClosed
    <2>2. Mirror' = Between(inSaveFrame)
      BY <1>1, <1>2, <2>1, StateTyped, HandleStopStep, MirrorAfterItem
    <2>3. calls' = EndItemCalls
      BY <1>1, <1>2 DEF EndItemCalls
    <2>4. QED
      BY <1>1, <2>1, <2>2, <2>3, ItemEnds, HandlerEnds
  <1>3. CASE ~inLoop
    <2>1. tok = NoToken /\ tok' = NoToken /\ phase = "running"
      BY <1>1, <1>3, NothingWaits
    <2>2. calls' = <<>> /\ Mirror' = Mirror
      BY <1>1, <1>3, <2>1, StateTyped DEF CloseLoopCalls, Mirror
    <2>3. QED
      BY <1>1, <2>1, <2>2, MirrorTyped, NoCalls, HandlerEnds
  <1>4. QED
    BY <1>2, <1>3

LEMMA HandleTagLeads ==
    ASSUME IInv, NEW t \in Tokens, HandleTag(t)
    PROVE  PhaseInv' /\ Leads(Mirror, calls', Mirror')
  <1> DEFINE b == Between(inSaveFrame)
  <1>1. /\ Handle(t) /\ ClosesContainers(t) /\ t.arg \in AllTags
        /\ inSaveFrame' = inSaveFrame /\ inLoop' = FALSE /\ activeTag' = t.arg
        /\ UNCHANGED <<stack, phase>>
        /\ calls' = CloseLoopCalls \o CloseTagCalls \o <<AddTag(t.arg)>>
    BY TokensAreTyped DEF HandleTag, ClosesContainers, Emit
  <1>2. stack = <<>> /\ tok' = NoToken /\ phase = "running"
    BY <1>1, HandleClosed
  <1>3. Leads(Mirror, EndItemCalls, b) /\ EndItemCalls \in Seq(Call)
        /\ calls' = EndItemCalls \o <<AddTag(t.arg)>>
    BY <1>1, <1>2, ItemEnds, ItemAndFrameEnd
  <1>4. /\ b \in ES!Context /\ ES!Quiet(b) /\ b.frame = inSaveFrame /\ b.loop = FALSE
        /\ b.tag = FALSE /\ b.nest = <<>>
    BY StateTyped, BetweenIsQuiet, Zenon
  <1>5. Mirror' \in ES!Context /\ Mirror'.frame = inSaveFrame /\ Mirror'.loop = FALSE
        /\ Mirror'.tag = TRUE /\ Mirror'.nest = <<>>
    BY <1>1, <1>2, ConstantsAssumption, HandleTagStep, MirrorAfterItem
  <1> HIDE DEF b
  <1>6. Mirror'.frame = b.frame /\ Mirror'.loop = b.loop /\ Mirror'.nest = b.nest
    BY <1>4, <1>5
  <1>7. [b EXCEPT !.tag = TRUE] = Mirror'
    BY <1>4, <1>5, <1>6, TagChanges, Zenon
  <1>8. Leads(b, <<AddTag(t.arg)>>, Mirror')
    BY <1>4, <1>7, TagBegins
  <1>9. <<AddTag(t.arg)>> \in Seq(Call)
    BY <1>1, CallsAreTyped
  <1>10. Leads(Mirror, EndItemCalls \o <<AddTag(t.arg)>>, Mirror')
    BY <1>3, <1>8, <1>9, MoreCalls, Zenon
  <1>11. QED
    BY <1>1, <1>2, <1>3, <1>10, HandlerEnds

-----------------------------------------------------------------------------
(***************************************************************************)
(* Values.                                                                 *)
(***************************************************************************)

\* The context a value of the file is handled in.
LEMMA MirrorOfValue ==
    ASSUME IInv, PhaseInv, NEW t, t.kind = "value", Handle(t)
    PROVE  /\ tok = NoToken /\ tok' = NoToken /\ phase = "running"
           /\ Mirror \in ES!Context /\ Mirror.frame = inSaveFrame /\ Mirror.loop = inLoop
           /\ Mirror.tag = (activeTag # NoTag /\ stack = <<>>)
           /\ Mirror.nest = NestOf(stack, TRUE)
  <1>1. ~ClosesContainers(t)
    BY DEF ClosesContainers
  <1>2. /\ tok = NoToken /\ tok # EofToken /\ tok' = NoToken /\ phase = "running"
        /\ (tok = NoToken) = TRUE
    BY <1>1, NothingWaits
  <1>3. NestOf(stack, tok = NoToken) = NestOf(stack, TRUE)
    BY <1>2
  <1>4. QED
    BY <1>2, <1>3, MirrorTyped

\* The context it leaves behind.
LEMMA MirrorAfterValue ==
    ASSUME IInv', tok' = NoToken
    PROVE  /\ Mirror' \in ES!Context /\ Mirror'.frame = inSaveFrame' /\ Mirror'.loop = inLoop'
           /\ Mirror'.tag = (activeTag' # NoTag /\ stack' = <<>>)
           /\ Mirror'.nest = NestOf(stack', TRUE)
  <1>1. tok' # EofToken /\ (tok' = NoToken) = TRUE
    BY DEF NoToken, EofToken, Tok
  <1>2. NestOf(stack', tok' = NoToken) = NestOf(stack', TRUE)
    BY <1>1
  <1>3. QED
    BY <1>1, <1>2, NextMirrorTyped

\* A token that is only reported.
LEMMA IgnoreLeads ==
    ASSUME IInv, PhaseInv, NEW t \in Tokens, NEW why, t.kind = "value", Ignore(t, why)
    PROVE  PhaseInv' /\ Leads(Mirror, calls', Mirror')
  <1>1. Handle(t) /\ UNCHANGED <<ctrl, stack>> /\ calls' = <<>>
    BY DEF Ignore, Emit
  <1>2. tok = NoToken /\ tok' = NoToken /\ phase = "running"
    BY <1>1, MirrorOfValue
  <1>3. Mirror' = Mirror /\ phase' = "running"
    BY <1>1, <1>2 DEF Mirror, ctrl
  <1>4. QED
    BY <1>1, <1>3, MirrorTyped, NoCalls, HandlerEnds

\* after_close_container: the container was the value of what is around it.
LEMMA CloseContainerLeads ==
    ASSUME IInv, PhaseInv, NEW t \in Tokens, t.kind = "value", stack # <<>>, CloseContainer(t)
    PROVE  PhaseInv' /\ Leads(Mirror, calls', Mirror')
  <1>1. /\ Handle(t) /\ UNCHANGED <<inSaveFrame, inLoop, phase>> /\ calls' = EndCalls(Top)
        /\ stack' = AfterClose(Rest)
        /\ activeTag' = IF Len(Rest) = tagBase THEN NoTag ELSE activeTag
    BY DEF CloseContainer, Emit
  <1>2. stack \in Seq(Frame) /\ (Top.at = "Colon" => Top.key \in Texts) /\ tagBase = 0
    BY StateTyped, TopTyped DEF StackOK
  <1>3. Rest \in Seq(Frame) /\ NestOf(Rest, FALSE) = NestOf(AfterClose(Rest), TRUE)
    BY <1>2, ButLast, NestAfterClose DEF Rest
  <1>4. Mirror.tag = FALSE
    BY <1>1, MirrorOfValue
  <1>5. Mirror'.tag = FALSE
    <2>1. AfterClose(Rest) = <<>> => Rest = <<>>
      BY <1>3, NoNest, NestTyped
    <2>2. Rest = <<>> => activeTag' = NoTag
      BY <1>1, <1>2
    <2>3. ~(activeTag' # NoTag /\ stack' = <<>>)
      BY <1>1, <2>1, <2>2
    <2>4. QED
      BY <1>1, <2>3, CloseContainerStep, MirrorOfValue, MirrorAfterValue
  <1>6. /\ Mirror' \in ES!Context /\ Mirror'.frame = Mirror.frame /\ Mirror'.loop = Mirror.loop
        /\ Mirror'.nest = NestOf(Rest, FALSE) /\ Mirror'.tag = Mirror.tag
    BY <1>1, <1>3, <1>4, <1>5, CloseContainerStep, MirrorOfValue, MirrorAfterValue
  <1>7. Mirror \in ES!Context /\ Mirror.nest = NestOf(stack, TRUE) /\ phase = "running"
    BY <1>1, MirrorOfValue
  <1>8. [Mirror EXCEPT !.nest = NestOf(Rest, FALSE)] = Mirror'
    <2>1. [Mirror EXCEPT !.nest = Mirror'.nest] = Mirror'
      BY <1>6, <1>7, NestChanges, Zenon
    <2>2. QED
      BY <1>6, <2>1, Zenon
  <1>9. Leads(Mirror, EndCalls(Top), [Mirror EXCEPT !.nest = NestOf(Rest, FALSE)])
    BY <1>2, <1>7, EndCallsLead DEF Top, Rest
  <1>10. QED
    BY <1>1, <1>7, <1>8, <1>9, HandlerEnds

-----------------------------------------------------------------------------
\* A handler that changes the innermost table and nothing else.
LEMMA MirrorAfterTop ==
    ASSUME IInv, IInv', PhaseInv, NEW t, t.kind = "value", Handle(t), stack # <<>>,
           NEW f \in Frame, stack' = SetTop(f), UNCHANGED ctrl
    PROVE  PhaseInv' /\ Mirror' = TopIs(Mirror, Expects(f, TRUE))
  <1>1. stack \in Seq(Frame) /\ Len(stack) \in Nat \ {0}
    BY StateTyped, EmptySeq DEF StackOK
  <1>2. /\ Mirror \in ES!Context /\ Mirror.nest = NestOf(stack, TRUE) /\ tok' = NoToken
        /\ Mirror.frame = inSaveFrame /\ Mirror.loop = inLoop /\ Mirror.tag = FALSE
        /\ phase = "running"
    BY MirrorOfValue
  <1>3. stack' # <<>>
    <2>1. Len(stack') = Len(stack)
      BY <1>1 DEF SetTop
    <2>2. QED
      BY <1>1, <2>1
  <1>4. /\ Mirror' \in ES!Context /\ Mirror'.nest = NestOf(stack', TRUE)
        /\ Mirror'.frame = inSaveFrame /\ Mirror'.loop = inLoop /\ Mirror'.tag = FALSE
    BY <1>2, <1>3, MirrorAfterValue DEF ctrl
  <1>5. NestOf(stack', TRUE) = [NestOf(stack, TRUE) EXCEPT ![Len(stack)] = Expects(f, TRUE)]
    BY <1>1, NestTop DEF SetTop
  <1>6. Len(Mirror.nest) = Len(stack)
    BY <1>1, <1>2, NestTyped
  <1>7. TopIs(Mirror, Expects(f, TRUE)) = [Mirror EXCEPT !.nest = Mirror'.nest]
    BY <1>2, <1>4, <1>5, <1>6 DEF TopIs
  <1>8. Mirror'.frame = Mirror.frame /\ Mirror'.loop = Mirror.loop /\ Mirror'.tag = Mirror.tag
    BY <1>2, <1>4
  <1>9. [Mirror EXCEPT !.nest = Mirror'.nest] = Mirror'
    BY <1>2, <1>4, <1>8, NestChanges, Zenon
  <1>10. PhaseInv'
    BY <1>2, HandlerEnds DEF ctrl
  <1>11. QED
    BY <1>7, <1>9, <1>10

\* What the innermost container of the parser expects of a value.
LEMMA MirrorInnermost ==
    ASSUME IInv, PhaseInv, NEW t, t.kind = "value", Handle(t), stack # <<>>
    PROVE  /\ Mirror \in ES!Context /\ Mirror.nest # <<>>
           /\ Top.at = "list" => ES!Innermost(Mirror, "list")
           /\ Top.at \in {"Key", "Colon"} => ES!Innermost(Mirror, "key")
           /\ Top.at = "Value" => ES!Innermost(Mirror, "val")
           /\ Top.at \in {"list", "Key", "Colon", "Value"}
  <1>1. stack \in Seq(Frame)
    BY StateTyped DEF StackOK
  <1>2. Mirror \in ES!Context /\ Mirror.nest = NestOf(stack, TRUE)
    BY MirrorOfValue
  <1>3. Mirror.nest # <<>> /\ \A kind \in Kinds :
            ES!Innermost(Mirror, kind) <=> Expects(Top, TRUE) = kind
    BY <1>1, <1>2, NestInnermost DEF Top
  <1>4. Top \in Frame
    BY TopTyped
  <1>5. QED
    BY <1>2, <1>3, <1>4 DEF Expects, Kinds, Frame

\* A table whose top is set to a state in which it expects the same.
LEMMA TopAgain ==
    ASSUME NEW c \in ES!Context, NEW kind \in Kinds, ES!Innermost(c, kind)
    PROVE  TopIs(c, kind) = c
  <1>1. c.nest \in Seq(Kinds) /\ Len(c.nest) \in Nat \ {0}
    BY NestsAreTyped, TurnsAreTyped DEF ES!Innermost
  <1>2. [c.nest EXCEPT ![Len(c.nest)] = kind] = c.nest
    BY <1>1 DEF ES!Innermost
  <1>3. QED
    BY <1>2 DEF TopIs, ES!Context

\* handle_table_colon: the key is sent, and its value expected.
LEMMA HandleColonLeads ==
    ASSUME IInv, PhaseInv, NEW t \in Tokens, HandleColon(t)
    PROVE  PhaseInv' /\ Leads(Mirror, calls', Mirror')
  <1> DEFINE f == Table("Value", NoKey)
  <1>1. /\ Handle(t) /\ t.kind = "value" /\ stack # <<>> /\ Top.at = "Colon"
        /\ stack' = SetTop(f) /\ calls' = <<OnTableKey(Top.key)>> /\ UNCHANGED ctrl
    BY DEF HandleColon, IsColon, Is, InTable, Emit
  <1>2. f \in Frame /\ Expects(f, TRUE) = "val"
    BY FramesAreTyped DEF Expects
  <1> HIDE DEF f
  <1>3. PhaseInv' /\ Mirror' = TopIs(Mirror, "val")
    BY <1>1, <1>2, InTableStep, MirrorAfterTop
  <1>4. QED
    BY <1>1, <1>3, MirrorInnermost, KeyIsGiven

\* A key is held back.
LEMMA ScalarAsKeyLeads ==
    ASSUME IInv, PhaseInv, NEW t \in Tokens, ScalarAsKey(t)
    PROVE  PhaseInv' /\ Leads(Mirror, calls', Mirror')
  <1> DEFINE f == Table("Colon", t.arg)
  <1>1. /\ Handle(t) /\ t.kind = "value" /\ stack # <<>> /\ Top.at = "Key"
        /\ stack' = SetTop(f) /\ calls' = <<>> /\ UNCHANGED ctrl
    BY DEF ScalarAsKey, IsScalar, InTable, Emit
  <1>2. f \in Frame /\ Expects(f, TRUE) = "key"
    BY <1>1, FramesAreTyped, TokensAreTyped DEF Expects
  <1> HIDE DEF f
  <1>3. PhaseInv' /\ Mirror' = TopIs(Mirror, "key")
    BY <1>1, <1>2, InTableStep, MirrorAfterTop
  <1>4. Mirror' = Mirror /\ Mirror \in ES!Context
    BY <1>1, <1>3, MirrorInnermost, TopAgain DEF Kinds
  <1>5. QED
    BY <1>1, <1>3, <1>4, NoCalls

\* A table's value, whether or not its key has had its colon.
LEMMA ScalarInTableLeads ==
    ASSUME IInv, PhaseInv, NEW t \in Tokens, ScalarInTable(t)
    PROVE  PhaseInv' /\ Leads(Mirror, calls', Mirror')
  <1> DEFINE f == Table("Key", NoKey)
             v == AddValue(t.arg, t.form)
  <1>1. /\ Handle(t) /\ t.kind = "value" /\ stack # <<>> /\ Top.at \notin {"Key", "list"}
        /\ stack' = SetTop(f) /\ UNCHANGED ctrl
        /\ calls' = (IF Top.at = "Colon" THEN <<OnTableKey(Top.key)>> ELSE <<>>) \o <<v>>
    BY DEF ScalarInTable, IsScalar, InTable, Emit
  <1>2. f \in Frame /\ Expects(f, TRUE) = "key"
    BY FramesAreTyped DEF Expects
  <1>3. v \in Call
    BY <1>1, TokensAreTyped, CallsAreTyped
  <1> HIDE DEF f
  <1>4. PhaseInv' /\ Mirror' = TopIs(Mirror, "key")
    BY <1>1, <1>2, InTableStep, MirrorAfterTop
  <1>5. Mirror \in ES!Context /\ Mirror.nest # <<>>
    BY <1>1, MirrorInnermost
  <1>6. ASSUME NEW c \in ES!Context, ES!Innermost(c, "val")
        PROVE  Leads(c, <<v>>, TopIs(c, "key"))
    <2>1. ES!Room(c) /\ ES!Filled(c) = TopIs(c, "key")
      BY <1>6, ValueHasRoom
    <2>2. QED
      BY <2>1, ValueFills
  <1> HIDE DEF v
  <1>7. CASE Top.at = "Value"
    <2>1. calls' = <<v>>
      BY <1>1, <1>3, <1>7
    <2>2. QED
      BY <1>1, <1>4, <1>6, <1>7, <2>1, MirrorInnermost
  <1>8. CASE Top.at = "Colon"
    <2>1. calls' = <<OnTableKey(Top.key)>> \o <<v>>
      BY <1>1, <1>8
    <2>2. <<OnTableKey(Top.key)>> \in Seq(Call) /\ <<v>> \in Seq(Call)
      BY <1>1, <1>3, <1>8, TopTyped, CallsAreTyped
    <2>3. Leads(Mirror, <<OnTableKey(Top.key)>>, TopIs(Mirror, "val"))
      BY <1>1, <1>8, MirrorInnermost, KeyIsGiven
    <2>4. /\ TopIs(Mirror, "val") \in ES!Context
          /\ ES!Innermost(TopIs(Mirror, "val"), "val")
          /\ TopIs(TopIs(Mirror, "val"), "key") = TopIs(Mirror, "key")
      BY <1>5, TopTwice DEF Kinds
    <2>5. Leads(TopIs(Mirror, "val"), <<v>>, TopIs(Mirror, "key"))
      BY <1>6, <2>4
    <2>6. Leads(Mirror, <<OnTableKey(Top.key)>> \o <<v>>, TopIs(Mirror, "key"))
      BY <2>2, <2>3, <2>5, MoreCalls, Zenon
    <2>7. QED
      BY <1>4, <2>1, <2>6
  <1>9. QED
    BY <1>1, <1>7, <1>8, MirrorInnermost

-----------------------------------------------------------------------------
\* Outside containers a value takes the place of the tag, if one waits.
LEMMA FilledOutside ==
    ASSUME NEW c \in ES!Context, NEW d \in ES!Context, c.nest = <<>>, d.nest = <<>>,
           d.frame = c.frame, d.loop = c.loop, d.tag = FALSE
    PROVE  ES!Filled(c) = d
  <1> DEFINE e == ES!Filled(c)
  <1>1. e = [c EXCEPT !.tag = FALSE]
    BY DEF ES!Filled
  <1>2. /\ e \in ES!Context /\ e.frame = d.frame /\ e.loop = d.loop /\ e.tag = d.tag
        /\ e.nest = d.nest
    BY <1>1 DEF ES!Context
  <1>3. QED
    BY <1>2, SameContext

\* A tag of the parser's own, where a value has no other place.
LEMMA ErrorTagLeads ==
    ASSUME NEW c \in ES!Context, ES!Quiet(c)
    PROVE  LET d == [c EXCEPT !.tag = TRUE] IN
           /\ d \in ES!Context /\ d.nest = <<>> /\ ES!Room(d) /\ ES!Filled(d) = c
           /\ Leads(c, <<AddTag(ErrorTag)>>, d)
           /\ <<AddTag(ErrorTag)>> \in Seq(Call)
  <1> DEFINE d == [c EXCEPT !.tag = TRUE]
  <1>1. /\ c.loop \in BOOLEAN /\ c.tag \in BOOLEAN
        /\ ~c.loop /\ ~c.tag /\ c.nest = <<>>
    BY NestsAreTyped DEF ES!Quiet
  <1>2. /\ d \in ES!Context /\ d.frame = c.frame /\ d.loop = c.loop /\ d.tag = TRUE
        /\ d.nest = c.nest
    BY <1>1 DEF ES!Context
  <1>3. Leads(c, <<AddTag(ErrorTag)>>, d)
    BY TagBegins
  <1> HIDE DEF d
  <1>4. ES!Room(d)
    BY <1>1, <1>2 DEF ES!Room
  <1>5. c.tag = FALSE
    BY <1>1
  <1>6. ES!Filled(d) = c
    <2>1. d.nest = <<>> /\ c.frame = d.frame /\ c.loop = d.loop
      BY <1>1, <1>2
    <2>2. QED
      BY <1>1, <1>2, <1>5, <2>1, FilledOutside, Zenon
  <1>7. <<AddTag(ErrorTag)>> \in Seq(Call)
    BY CallsAreTyped DEF AllTags
  <1>8. QED
    BY <1>1, <1>2, <1>3, <1>4, <1>6, <1>7 DEF d

LEMMA ScalarInListLeads ==
    ASSUME IInv, PhaseInv, NEW t \in Tokens, ScalarInList(t)
    PROVE  PhaseInv' /\ Leads(Mirror, calls', Mirror')
  <1>1. /\ Handle(t) /\ t.kind = "value" /\ stack # <<>> /\ Top.at = "list"
        /\ UNCHANGED <<ctrl, stack>> /\ calls' = <<AddValue(t.arg, t.form)>>
    BY DEF ScalarInList, IsScalar, InList, Emit
  <1>2. tok = NoToken /\ tok' = NoToken /\ phase = "running"
    BY <1>1, MirrorOfValue
  <1>3. Mirror' = Mirror /\ phase' = "running"
    BY <1>1, <1>2 DEF Mirror, ctrl
  <1>4. Mirror \in ES!Context /\ ES!Room(Mirror) /\ ES!Filled(Mirror) = Mirror
    BY <1>1, MirrorInnermost DEF ES!Room, ES!Filled, ES!Innermost
  <1>5. Leads(Mirror, <<AddValue(t.arg, t.form)>>, Mirror)
    BY <1>4, ValueFills
  <1>6. QED
    BY <1>1, <1>3, <1>5, HandlerEnds

LEMMA ScalarInLoopLeads ==
    ASSUME IInv, PhaseInv, NEW t \in Tokens, ScalarInLoop(t)
    PROVE  PhaseInv' /\ Leads(Mirror, calls', Mirror')
  <1>1. /\ Handle(t) /\ t.kind = "value" /\ stack = <<>> /\ inLoop
        /\ UNCHANGED <<inSaveFrame, inLoop, activeTag, phase, stack>>
        /\ calls' = <<AddValue(t.arg, t.form)>>
    BY DEF ScalarInLoop, IsScalar, Emit
  <1>2. tok = NoToken /\ tok' = NoToken /\ phase = "running"
    BY <1>1, MirrorOfValue
  <1>3. Mirror' = Mirror /\ phase' = "running"
    BY <1>1, <1>2 DEF Mirror
  <1>4. Mirror \in ES!Context /\ Mirror.nest = <<>> /\ Mirror.loop /\ Mirror.tag = FALSE
    BY <1>1, StateTyped, MirrorOfValue, NoNest
  <1>5. ES!Room(Mirror) /\ ES!Filled(Mirror) = Mirror
    <2>1. ES!Room(Mirror)
      BY <1>4 DEF ES!Room
    <2>2. QED
      BY <1>4, <2>1, FilledOutside, Zenon
  <1>6. Leads(Mirror, <<AddValue(t.arg, t.form)>>, Mirror)
    BY <1>4, <1>5, ValueFills
  <1>7. QED
    BY <1>1, <1>3, <1>6, HandlerEnds

LEMMA ScalarOfTagLeads ==
    ASSUME IInv, PhaseInv, NEW t \in Tokens, ScalarOfTag(t)
    PROVE  PhaseInv' /\ Leads(Mirror, calls', Mirror')
  <1>1. /\ Handle(t) /\ t.kind = "value" /\ stack = <<>> /\ ~inLoop /\ activeTag # NoTag
        /\ UNCHANGED <<inSaveFrame, inLoop, phase, stack>> /\ activeTag' = NoTag
        /\ calls' = <<AddValue(t.arg, t.form)>>
    BY DEF ScalarOfTag, IsScalar, Emit
  <1>2. Mirror \in ES!Context /\ Mirror.nest = <<>> /\ Mirror.tag
        /\ Mirror.frame = inSaveFrame /\ Mirror.loop = inLoop
        /\ tok' = NoToken /\ phase = "running"
    BY <1>1, MirrorOfValue, NoNest
  <1>3. Mirror' \in ES!Context /\ Mirror'.nest = <<>> /\ Mirror'.tag = FALSE
        /\ Mirror'.frame = Mirror.frame /\ Mirror'.loop = Mirror.loop
    BY <1>1, <1>2, ScalarStep, MirrorAfterValue, NoNest
  <1>4. ES!Room(Mirror) /\ ES!Filled(Mirror) = Mirror'
    <2>1. ES!Room(Mirror)
      BY <1>2 DEF ES!Room
    <2>2. QED
      BY <1>2, <1>3, <2>1, FilledOutside, Zenon
  <1>5. Leads(Mirror, <<AddValue(t.arg, t.form)>>, Mirror')
    BY <1>2, <1>4, ValueFills
  <1>6. QED
    BY <1>1, <1>2, <1>5, HandlerEnds

\* A value of nothing gets a tag made up for it.
LEMMA OrphanScalarLeads ==
    ASSUME IInv, PhaseInv, NEW t \in Tokens, OrphanScalar(t)
    PROVE  PhaseInv' /\ Leads(Mirror, calls', Mirror')
  <1> DEFINE v == AddValue(t.arg, t.form)
             d == [Mirror EXCEPT !.tag = TRUE]
  <1>1. /\ Handle(t) /\ t.kind = "value" /\ Orphan /\ UNCHANGED <<ctrl, stack>>
        /\ calls' = <<AddTag(ErrorTag), v>>
    BY DEF OrphanScalar, IsScalar, Emit
  <1>2. tok = NoToken /\ tok' = NoToken /\ phase = "running"
    BY <1>1, MirrorOfValue
  <1>3. Mirror' = Mirror /\ phase' = "running"
    BY <1>1, <1>2 DEF Mirror, ctrl
  <1>4. Mirror \in ES!Context /\ ES!Quiet(Mirror)
    BY <1>1, MirrorOfValue, NoNest DEF Orphan, ES!Quiet
  <1>5. /\ d \in ES!Context /\ ES!Room(d) /\ ES!Filled(d) = Mirror
        /\ Leads(Mirror, <<AddTag(ErrorTag)>>, d) /\ <<AddTag(ErrorTag)>> \in Seq(Call)
    BY <1>4, ErrorTagLeads
  <1>6. v \in Call
    BY <1>1, TokensAreTyped, CallsAreTyped
  <1> HIDE DEF d
  <1>7. Leads(d, <<v>>, Mirror)
    BY <1>5, ValueFills
  <1> HIDE DEF v
  <1>8. <<v>> \in Seq(Call) /\ calls' = <<AddTag(ErrorTag)>> \o <<v>>
    BY <1>1, <1>6, CallsAreTyped DEF AllTags
  <1>9. Leads(Mirror, <<AddTag(ErrorTag)>> \o <<v>>, Mirror)
    BY <1>5, <1>7, <1>8, MoreCalls, Zenon
  <1>10. QED
    BY <1>1, <1>3, <1>8, <1>9, HandlerEnds

\* What a container that begins does to the one around it, or to the tag it is the
\* value of (ensure_value_context, notify_parent_table_of_container_open): r is the
\* context with its place taken.
LEMMA PlaceIsTaken ==
    ASSUME IInv, PhaseInv, NEW t, t.kind = "value", Handle(t),
           NEW r \in ES!Context, r.frame = inSaveFrame, r.loop = inLoop, r.tag = FALSE,
           r.nest = NestOf(ParentTold, FALSE)
    PROVE  LET before == (IF Orphan THEN <<AddTag(ErrorTag)>> ELSE <<>>) \o ParentCalls IN
           /\ before \in Seq(Call)
           /\ \E c \in ES!Context :
                /\ Leads(Mirror, before, c)
                /\ ES!Room(c) \/ ES!Innermost(c, "key")
                /\ r = IF ES!Room(c) THEN ES!Filled(c) ELSE c
  <1> DEFINE before == (IF Orphan THEN <<AddTag(ErrorTag)>> ELSE <<>>) \o ParentCalls
  <1>1. /\ Mirror \in ES!Context /\ Mirror.frame = inSaveFrame /\ Mirror.loop = inLoop
        /\ Mirror.tag = (activeTag # NoTag /\ stack = <<>>)
        /\ Mirror.nest = NestOf(stack, TRUE) /\ stack \in Seq(Frame)
    BY MirrorOfValue, StateTyped DEF StackOK
  <1>2. <<>> \in Seq(Call) /\ <<>> \o <<>> = <<>>
    OBVIOUS
  <1>3. CASE Orphan
    <2> DEFINE d == [Mirror EXCEPT !.tag = TRUE]
    <2>1. ~InTable /\ stack = <<>> /\ ParentTold = <<>> /\ ParentCalls = <<>>
      BY <1>3 DEF Orphan, InTable, ParentTold, ParentCalls
    <2>2. ES!Quiet(Mirror) /\ Mirror.nest = <<>> /\ Mirror.tag = FALSE
      BY <1>1, <1>3, <2>1, NoNest DEF Orphan, ES!Quiet
    <2>3. /\ d \in ES!Context /\ ES!Room(d) /\ ES!Filled(d) = Mirror
          /\ Leads(Mirror, <<AddTag(ErrorTag)>>, d) /\ <<AddTag(ErrorTag)>> \in Seq(Call)
      BY <1>1, <2>2, ErrorTagLeads
    <2> HIDE DEF d
    <2>4. before = <<AddTag(ErrorTag)>>
      BY <1>3, <2>1, <2>3
    <2>5. r = Mirror
      <3>1. /\ r.frame = Mirror.frame /\ r.loop = Mirror.loop /\ r.tag = Mirror.tag
            /\ r.nest = Mirror.nest
        BY <1>1, <2>1, <2>2, NoNest
      <3>2. QED
        BY <1>1, <3>1, SameContext, Zenon
    <2>6. QED
      BY <2>3, <2>4, <2>5
  <1>4. CASE ~Orphan /\ stack = <<>>
    <2>1. before = <<>> /\ ParentTold = <<>>
      BY <1>2, <1>4 DEF InTable, ParentTold, ParentCalls
    <2>2. Mirror.nest = <<>> /\ r.nest = <<>>
      BY <1>1, <1>4, <2>1, NoNest
    <2>3. ES!Room(Mirror)
      BY <1>1, <1>4, <2>2, StateTyped DEF Orphan, ES!Room
    <2>4. r.frame = Mirror.frame /\ r.loop = Mirror.loop
      BY <1>1
    <2>5. ES!Filled(Mirror) = r
      BY <1>1, <2>2, <2>4, FilledOutside, Zenon
    <2>6. QED
      BY <1>1, <1>2, <2>1, <2>3, <2>5, NoCalls
  <1>5. CASE InList
    <2>1. ~Orphan /\ stack # <<>> /\ Top.at = "list" /\ ParentTold = stack /\ before = <<>>
      BY <1>2, <1>5 DEF InList, InTable, Orphan, ParentTold, ParentCalls
    <2>2. NestOf(stack, TRUE) = NestOf(stack, FALSE)
      BY <1>1, <2>1, NestLive DEF Top
    <2>3. /\ r.frame = Mirror.frame /\ r.loop = Mirror.loop /\ r.tag = Mirror.tag
          /\ r.nest = Mirror.nest
      BY <1>1, <2>1, <2>2
    <2>4. r = Mirror
      BY <1>1, <2>3, SameContext, Zenon
    <2>5. ES!Room(Mirror) /\ ES!Filled(Mirror) = Mirror
      BY <2>1, MirrorInnermost DEF ES!Room, ES!Filled, ES!Innermost
    <2>6. QED
      BY <1>1, <1>2, <2>1, <2>4, <2>5, NoCalls
  <1>6. CASE InTable
    <2> DEFINE f == Table("Value", NoKey)
    <2>1. ~Orphan /\ stack # <<>> /\ Top.at # "list" /\ ParentTold = SetTop(f)
      BY <1>6 DEF InTable, Orphan, ParentTold
    <2>2. f \in Frame /\ Expects(f, FALSE) = "key"
      BY FramesAreTyped DEF Expects
    <2> HIDE DEF f
    <2>3. r = TopIs(Mirror, "key")
      <3>1. NestOf(ParentTold, FALSE) = [NestOf(stack, TRUE) EXCEPT ![Len(stack)] = "key"]
        BY <1>1, <2>1, <2>2, NestTop DEF SetTop
      <3>2. Len(Mirror.nest) = Len(stack)
        BY <1>1, NestTyped
      <3>3. TopIs(Mirror, "key") = [Mirror EXCEPT !.nest = r.nest]
        BY <1>1, <3>1, <3>2 DEF TopIs
      <3>4. r.frame = Mirror.frame /\ r.loop = Mirror.loop /\ r.tag = Mirror.tag
        BY <1>1, <2>1
      <3>5. [Mirror EXCEPT !.nest = r.nest] = r
        BY <1>1, <3>4, NestChanges, Zenon
      <3>6. QED
        BY <3>3, <3>5
    <2>4. CASE Top.at = "Key"
      <3>1. before = <<>> /\ ES!Innermost(Mirror, "key")
        BY <1>2, <2>1, <2>4, MirrorInnermost DEF ParentCalls
      <3>2. ~ES!Room(Mirror) /\ r = Mirror
        BY <1>1, <2>3, <3>1, TopAgain DEF ES!Room, ES!Innermost, Kinds
      <3>3. QED
        BY <1>1, <1>2, <3>1, <3>2, NoCalls
    <2>5. CASE Top.at = "Value"
      <3>1. before = <<>> /\ ES!Innermost(Mirror, "val")
        BY <1>2, <2>1, <2>5, MirrorInnermost DEF ParentCalls
      <3>2. ES!Room(Mirror) /\ ES!Filled(Mirror) = r
        BY <1>1, <2>3, <3>1, ValueHasRoom
      <3>3. QED
        BY <1>1, <1>2, <3>1, <3>2, NoCalls
    <2>6. CASE Top.at = "Colon"
      <3>1. OnTableKey(Top.key) \in Call
        BY <2>1, <2>6, TopTyped, CallsAreTyped
      <3>2. before = <<OnTableKey(Top.key)>> /\ before \in Seq(Call)
        BY <1>6, <2>1, <2>6, <3>1 DEF ParentCalls
      <3> DEFINE c == TopIs(Mirror, "val")
      <3>3. Leads(Mirror, before, c)
        BY <2>1, <2>6, <3>2, MirrorInnermost, KeyIsGiven
      <3>4. /\ c \in ES!Context /\ ES!Innermost(c, "val")
            /\ TopIs(c, "key") = TopIs(Mirror, "key")
        BY <2>1, MirrorInnermost, TopTwice DEF Kinds
      <3> HIDE DEF c, before
      <3>5. ES!Room(c) /\ ES!Filled(c) = r
        BY <2>3, <3>4, ValueHasRoom
      <3>6. QED
        BY <3>2, <3>3, <3>4, <3>5 DEF before
    <2>7. QED
      BY <2>1, <2>4, <2>5, <2>6, MirrorInnermost
  <1>7. QED
    BY <1>3, <1>4, <1>5, <1>6 DEF InList, InTable

LEMMA OpenContainerLeads ==
    ASSUME IInv, IInv', PhaseInv, NEW t \in Tokens, NEW x, NEW frame \in Frame, NEW call,
           \/ frame = List /\ call = OnListStart
           \/ frame = Table("Key", NoKey) /\ call = OnTableStart,
           OpenContainer(t, x, frame, call)
    PROVE  PhaseInv' /\ Leads(Mirror, calls', Mirror')
  <1> DEFINE before == (IF Orphan THEN <<AddTag(ErrorTag)>> ELSE <<>>) \o ParentCalls
             told == ParentTold
             kind == Expects(frame, TRUE)
             r == [frame |-> inSaveFrame, loop |-> inLoop, tag |-> FALSE,
                   nest |-> NestOf(told, FALSE)]
  <1>1. /\ Handle(t) /\ t.kind = "value" /\ UNCHANGED <<inSaveFrame, inLoop, phase>>
        /\ stack' = Append(told, frame) /\ calls' = before \o <<call>>
    BY DEF OpenContainer, Is, Emit
  <1>2. told \in Seq(Frame)
    <2>1. stack \in Seq(Frame) /\ Table("Value", NoKey) \in Frame
      BY StateTyped, FramesAreTyped DEF StackOK
    <2>2. CASE InTable
      <3>1. Len(stack) \in 1..Len(stack)
        BY <2>1, <2>2, EmptySeq DEF InTable
      <3>2. QED
        BY <2>1, <2>2, <3>1, ExceptSeq DEF ParentTold, SetTop
    <2>3. CASE ~InTable
      BY <2>1, <2>3 DEF ParentTold
    <2>4. QED
      BY <2>2, <2>3
  <1> HIDE DEF told
  <1>3. /\ r \in ES!Context /\ r.frame = inSaveFrame /\ r.loop = inLoop /\ r.tag = FALSE
        /\ r.nest = NestOf(told, FALSE)
    <2>1. NestOf(told, FALSE) \in Seq(Kinds)
      BY <1>2, NestTyped
    <2>2. QED
      BY <2>1, StateTyped DEF ES!Context, Kinds
  <1> HIDE DEF before, r, kind
  <1>4. /\ before \in Seq(Call)
        /\ \E c \in ES!Context :
            /\ Leads(Mirror, before, c)
            /\ ES!Room(c) \/ ES!Innermost(c, "key")
            /\ r = IF ES!Room(c) THEN ES!Filled(c) ELSE c
    BY <1>1, <1>3, PlaceIsTaken DEF before, told
  <1>5. PICK c \in ES!Context :
            /\ Leads(Mirror, before, c)
            /\ ES!Room(c) \/ ES!Innermost(c, "key")
            /\ r = IF ES!Room(c) THEN ES!Filled(c) ELSE c
    BY <1>4
  <1>6. /\ <<call>> \in Seq(Call)
        /\ Leads(c, <<call>>, [r EXCEPT !.nest = Append(r.nest, kind)])
    <2>1. /\ Leads(c, <<OnListStart>>, [r EXCEPT !.nest = Append(r.nest, "list")])
          /\ Leads(c, <<OnTableStart>>, [r EXCEPT !.nest = Append(r.nest, "key")])
      BY <1>3, <1>5, ContainerBegins
    <2>2. OnListStart \in Call /\ OnTableStart \in Call
      BY CallsAreTyped
    <2>3. CASE frame = List /\ call = OnListStart
      <3>1. kind = "list"
        BY <2>3 DEF kind, Expects, List
      <3>2. QED
        BY <2>1, <2>2, <2>3, <3>1
    <2>4. CASE frame = Table("Key", NoKey) /\ call = OnTableStart
      <3>1. kind = "key"
        BY <2>4 DEF kind, Expects, Table
      <3>2. QED
        BY <2>1, <2>2, <2>4, <3>1
    <2>5. QED
      BY <2>3, <2>4
  <1>7. Append(r.nest, kind) = NestOf(stack', TRUE)
    BY <1>1, <1>2, <1>3, NestPush DEF kind
  <1>8. tok' = NoToken /\ phase' = "running" /\ stack' # <<>>
    <2>1. Append(told, frame) # <<>>
      BY <1>2, AppendProperties, EmptySeq
    <2>2. tok' = NoToken /\ phase = "running"
      BY <1>1, MirrorOfValue
    <2>3. QED
      BY <1>1, <2>1, <2>2
  <1>9. /\ Mirror' \in ES!Context /\ Mirror'.frame = r.frame /\ Mirror'.loop = r.loop
        /\ Mirror'.tag = r.tag /\ Mirror'.nest = Append(r.nest, kind)
    BY <1>1, <1>3, <1>7, <1>8, MirrorAfterValue
  <1>10. [r EXCEPT !.nest = Append(r.nest, kind)] = Mirror'
    <2>1. [r EXCEPT !.nest = Mirror'.nest] = Mirror'
      BY <1>3, <1>9, NestChanges, Zenon
    <2>2. QED
      BY <1>9, <2>1, Zenon
  <1>11. Leads(Mirror, before \o <<call>>, Mirror')
    BY <1>4, <1>5, <1>6, <1>10, MoreCalls
  <1>12. QED
    BY <1>1, <1>8, <1>11, HandlerEnds

LEMMA HandleValueLeads ==
    ASSUME IInv, PhaseInv, NEW t \in Tokens, HandleValue(t)
    PROVE  PhaseInv' /\ Leads(Mirror, calls', Mirror')
  <1>1. IInv'
    BY HandleValueStep
  <1>2. CASE OpenList(t)
    BY <1>1, <1>2, OpenContainerLeads, FramesAreTyped DEF OpenList
  <1>3. CASE OpenTable(t)
    BY <1>1, <1>3, OpenContainerLeads, FramesAreTyped DEF OpenTable
  <1>4. CASE CloseList(t) \/ CloseTable(t)
    BY <1>4, CloseContainerLeads DEF CloseList, CloseTable, InList, InTable, Is
  <1>5. CASE UnexpectedClose(t) \/ UnexpectedColon(t)
    BY <1>5, IgnoreLeads DEF UnexpectedClose, UnexpectedColon, Is, IsColon
  <1>6. CASE HandleColon(t) \/ ScalarAsKey(t) \/ ScalarInTable(t)
    BY <1>6, HandleColonLeads, ScalarAsKeyLeads, ScalarInTableLeads
  <1>7. CASE ScalarInList(t) \/ ScalarInLoop(t) \/ ScalarOfTag(t) \/ OrphanScalar(t)
    BY <1>7, ScalarInListLeads, ScalarInLoopLeads, ScalarOfTagLeads, OrphanScalarLeads
  <1>8. QED
    BY <1>2, <1>3, <1>4, <1>5, <1>6, <1>7 DEF HandleValue

LEMMA ParseLeads ==
    ASSUME IInv, PhaseInv, Parse
    PROVE  calls = <<>> /\ PhaseInv' /\ Leads(Mirror, calls', Mirror')
  <1>1. ASSUME NEW t \in Tokens, HandleKeyword(t)
        PROVE  Handle(t) /\ PhaseInv' /\ Leads(Mirror, calls', Mirror')
    <2>1. Handle(t)
      BY <1>1 DEF HandleKeyword, HandleData, HandleSaveStart, HandleSaveEnd, HandleLoop,
         HandleStop, HandleGlobal
    <2>2. QED
      BY <1>1, <2>1, HandleDataLeads, HandleSaveStartLeads, HandleSaveEndLeads,
         HandleLoopLeads, HandleStopLeads, HandleGlobalLeads DEF HandleKeyword
  <1>2. ASSUME NEW t \in Tokens, HandleTag(t)
        PROVE  Handle(t) /\ PhaseInv' /\ Leads(Mirror, calls', Mirror')
    BY <1>2, HandleTagLeads DEF HandleTag
  <1>3. ASSUME NEW t \in Tokens, HandleValue(t)
        PROVE  Handle(t) /\ PhaseInv' /\ Leads(Mirror, calls', Mirror')
    <2>1. Handle(t)
      BY <1>3 DEF HandleValue, OpenList, OpenTable, OpenContainer, CloseList, CloseTable,
         CloseContainer, UnexpectedClose, UnexpectedColon, Ignore, HandleColon, ScalarAsKey,
         ScalarInTable, ScalarInList, ScalarInLoop, ScalarOfTag, OrphanScalar
    <2>2. QED
      BY <1>3, <2>1, HandleValueLeads
  <1>4. ASSUME NEW t \in Tokens \cup {EofToken}, Unwind(t)
        PROVE  Current(t) /\ PhaseInv' /\ Leads(Mirror, calls', Mirror')
    BY <1>4, UnwindLeads DEF Unwind
  <1>5. ASSUME HandleEof
        PROVE  Handle(EofToken) /\ PhaseInv' /\ Leads(Mirror, calls', Mirror')
    BY <1>5, HandleEofLeads DEF HandleEof
  <1>6. \A t : Handle(t) \/ Current(t) => calls = <<>>
    BY DEF Handle, Current
  <1>7. QED
    BY <1>1, <1>2, <1>3, <1>4, <1>5, <1>6 DEF Parse, ParseFrom

-----------------------------------------------------------------------------
(***************************************************************************)
(* The invariant of the stream.                                            *)
(***************************************************************************)
LEMMA InitStream ==
    ASSUME StreamInit
    PROVE  StreamInv
  <1>1. IInv
    BY InitIInv
  <1>2. PhaseInv
    BY DEF StreamInit, Init, PhaseInv
  <1>3. Mirror = ES!Idle /\ Mirror \in ES!Context
    <2> DEFINE b == Between(FALSE)
    <2>1. /\ b \in ES!Context /\ b.frame = FALSE /\ b.loop = FALSE /\ b.tag = FALSE
          /\ b.nest = <<>> /\ b = ES!Idle
      BY BetweenIsQuiet
    <2> HIDE DEF b
    <2>2. Mirror \in ES!Context /\ Mirror.frame = b.frame /\ Mirror.loop = b.loop
          /\ Mirror.tag = b.tag /\ Mirror.nest = b.nest
      BY <1>1, <2>1, MirrorTyped, NoNest DEF StreamInit, Init
    <2>3. QED
      BY <2>1, <2>2, SameContext, Zenon
  <1>4. Leads(ctx, calls, Mirror)
    BY <1>3, NoCalls DEF StreamInit, Init
  <1>5. QED
    BY <1>1, <1>2, <1>4 DEF StreamInv

\* What the queue leads to, before and after the sink has taken a call from it.
LEMMA DeliverLeads ==
    ASSUME StreamInv, Deliver
    PROVE  /\ StreamInv' /\ Head(calls) \in Call
           /\ ctx \in ES!Context /\ ES!Legal(ctx, Head(calls))
  <1>1. IInv /\ calls \in Seq(Call) /\ calls # <<>> /\ Leads(ctx, calls, Mirror)
    BY DEF StreamInv, IInv, TypeOK, Deliver
  <1>2. UNCHANGED <<ctrl, stack, source>>
    BY DEF Deliver
  <1>3. Mirror' = Mirror /\ PhaseInv'
    <2>1. Mirror' = Mirror
      BY <1>2 DEF Mirror, ctrl, source
    <2>2. QED
      BY <1>2, <2>1 DEF StreamInv, PhaseInv, ClosesContainers, ctrl, source
  <1>4. /\ ctx \in ES!Context /\ ES!Legal(ctx, Head(calls))
        /\ Leads(ES!After(ctx, Head(calls)), Tail(calls), Mirror)
    BY <1>1, FirstCall
  <1>5. Leads(ctx', calls', Mirror')
    BY <1>3, <1>4 DEF Deliver
  <1>6. QED
    BY <1>1, <1>3, <1>4, <1>5, DeliverStep, HeadTailProperties DEF StreamInv

LEMMA NextStream == StreamInv /\ [Next]_vars => StreamInv'
  <1> SUFFICES ASSUME StreamInv, [Next]_vars PROVE StreamInv'
    OBVIOUS
  <1>1. CASE Parse /\ UNCHANGED ctx
    <2>1. /\ IInv' /\ PhaseInv' /\ Leads(Mirror, calls', Mirror') /\ calls = <<>>
      BY <1>1, ParseStep, ParseLeads DEF StreamInv
    <2>2. ctx = Mirror
      BY <2>1, NoCallsInverse DEF StreamInv
    <2>3. QED
      BY <1>1, <2>1, <2>2 DEF StreamInv
  <1>2. CASE Deliver
    BY <1>2, DeliverLeads
  <1>3. CASE UNCHANGED vars
    <2>1. UNCHANGED <<ctrl, stack, source, calls, ctx>>
      BY <1>3 DEF vars, parserVars
    <2>2. IInv'
      BY <1>3, NextIInv DEF StreamInv
    <2>3. Mirror' = Mirror
      BY <2>1 DEF Mirror, ctrl, source
    <2>4. PhaseInv'
      BY <2>1, <2>3 DEF StreamInv, PhaseInv, ClosesContainers, ctrl, source
    <2>5. Leads(ctx', calls', Mirror')
      BY <2>1, <2>3 DEF StreamInv
    <2>6. QED
      BY <2>2, <2>4, <2>5 DEF StreamInv
  <1>4. QED
    BY <1>1, <1>2, <1>3 DEF Next, Done

\* The context of the sink is the one the parser's fields describe, but for the
\* callbacks in the queue, each of which is legal when its turn comes.
THEOREM StreamInvariant == Spec => []StreamInv
  BY InitStream, NextStream, PTL DEF Spec

LEMMA SameCalls == ES!Call = Call
  BY DEF Call, ES!Call, Ops, ES!Ops, Args, ES!Args, Forms, ES!Forms, AllTags, ES!AllTags,
         Texts, ES!Texts, Delims, ES!Delims, Unknown, ES!Unknown, NoArg, ES!NoArg,
         ErrorTag, ES!ErrorTag, ArgsOf, ES!ArgsOf

\* What the parser does to its sink: it queues well typed callbacks, and each of them
\* is a step of the grammar when it is executed.
LEMMA StepImplements == StreamInv /\ [Next]_vars => [ES!Next]_<<ctx, calls>>
  <1> SUFFICES ASSUME StreamInv, [Next]_vars PROVE [ES!Next]_<<ctx, calls>>
    OBVIOUS
  <1>1. CASE Parse /\ UNCHANGED ctx
    <2>1. calls = <<>> /\ calls' \in Seq(Call)
      BY <1>1, ParseStep, ParseLeads DEF StreamInv, IInv, TypeOK
    <2>2. calls' \in Seq(ES!Call)
      BY <2>1, SameCalls
    <2>3. QED
      BY <1>1, <2>1, <2>2 DEF ES!Next, ES!Make
  <1>2. CASE Deliver
    <2>1. ES!Legal(ctx, Head(calls))
      BY <1>2, DeliverLeads
    <2>2. ES!Execute
      BY <1>2, <2>1 DEF Deliver, ES!Execute
    <2>3. QED
      BY <2>2 DEF ES!Next
  <1>3. CASE UNCHANGED vars
    BY <1>3 DEF vars, parserVars
  <1>4. QED
    BY <1>1, <1>2, <1>3 DEF Next, Done

\* Whatever the file, each callback of the parser is legal where it is executed and
\* does what the grammar says: containers nest, items never overlap, and every value
\* of the file has a place (parser.rs, every handler).
THEOREM GrammarKept == Spec => ImplementsEventStream
  <1>1. StreamInit => ES!Init
    BY DEF StreamInit, Init, ES!Init
  <1>2. QED
    BY <1>1, StepImplements, StreamInvariant, PTL DEF Spec, ImplementsEventStream, ES!Spec

\* However the parse ends, everything the stream opened has been closed
\* (handle_eof, handle_global).
THEOREM ClosedAtEndCorrect == Spec => []ClosedAtEnd
  <1>1. StreamInv => ClosedAtEnd
    BY NoCallsInverse DEF StreamInv, PhaseInv, ClosedAtEnd
  <1>2. QED
    BY <1>1, StreamInvariant, PTL

\* Between two tokens the parser and its sink are at the same place (active_tag,
\* tag_base_depth, container_stack and the flags against the calls made).
THEOREM ContextAgreesCorrect == Spec => []ContextAgrees
  <1>1. ASSUME StreamInv, calls = <<>>, tok = NoToken
        PROVE  /\ ctx.frame = inSaveFrame
               /\ ctx.loop = inLoop
               /\ ctx.tag = (activeTag # NoTag /\ stack = <<>>)
               /\ Len(ctx.nest) = Len(stack)
               /\ \A i \in 1..Len(stack) :
                    /\ SameFrame(stack[i], ctx.nest[i])
                    /\ i = Len(stack) /\ stack[i].at = "Value" => ctx.nest[i] = "val"
    <2>1. ctx = Mirror /\ tok # EofToken /\ (tok = NoToken) = TRUE
      BY <1>1, NoCallsInverse DEF StreamInv, NoToken, EofToken, Tok
    <2>2. /\ Mirror.frame = inSaveFrame /\ Mirror.loop = inLoop
          /\ Mirror.tag = (activeTag # NoTag /\ stack = <<>>)
          /\ Mirror.nest = NestOf(stack, TRUE)
      BY <1>1, <2>1, MirrorTyped DEF StreamInv
    <2>3. stack \in Seq(Frame)
      BY <1>1, StateTyped DEF StreamInv, StackOK
    <2>4. /\ Len(NestOf(stack, TRUE)) = Len(stack)
          /\ \A i \in 1..Len(stack) :
                NestOf(stack, TRUE)[i] = Expects(stack[i], TRUE /\ i = Len(stack))
      BY <2>3, NestTyped
    <2>5. ASSUME NEW i \in 1..Len(stack)
          PROVE  /\ SameFrame(stack[i], NestOf(stack, TRUE)[i])
                 /\ i = Len(stack) /\ stack[i].at = "Value" => NestOf(stack, TRUE)[i] = "val"
      <3>1. stack[i].at \in {"list", "Key", "Colon", "Value"}
        <4>1. stack[i] \in Frame
          BY <2>3, ElementOfSeq
        <4>2. QED
          BY <4>1 DEF Frame
      <3>2. QED
        BY <2>4, <3>1 DEF SameFrame, Expects
    <2>6. QED
      BY <2>1, <2>2, <2>4, <2>5
  <1>2. StreamInv => ContextAgrees
    BY <1>1 DEF ContextAgrees
  <1>3. QED
    BY <1>2, StreamInvariant, PTL

-----------------------------------------------------------------------------
(***************************************************************************)
(* What a handler that reports nothing has sent.                           *)
(***************************************************************************)
\* The operations the constructors of calls stand for.
LEMMA OpsOfCalls ==
    /\ \A n : OnDataBlock(n).op = "on_data_block" /\ OnSaveFrameStart(n).op = "on_save_frame_start"
    /\ \A t : AddTag(t).op = "add_tag" /\ AddTag(t).arg = t
    /\ \A k : OnTableKey(k).op = "on_table_key"
    /\ \A x, f : AddValue(x, f).op = "add_value"
    /\ \A h : OnLoopStart(h).op = "on_loop_start"
    /\ Placeholder.op = "add_value" /\ OnSaveFrameEnd.op = "on_save_frame_end"
    /\ OnListStart.op = "on_list_start" /\ OnListEnd.op = "on_list_end"
    /\ OnTableStart.op = "on_table_start" /\ OnTableEnd.op = "on_table_end"
    /\ OnLoopEnd.op = "on_loop_end"
  BY DEF OnDataBlock, OnSaveFrameStart, OnSaveFrameEnd, AddTag, AddValue, Placeholder, OnListStart,
         OnListEnd, OnTableStart, OnTableKey, OnTableEnd, OnLoopStart, OnLoopEnd, Plain

\* Short sequences, joined.
LEMMA Joins ==
    /\ \A a, b : <<a>> \o <<b>> = <<a, b>> /\ Append(<<a>>, b) = <<a, b>>
    /\ \A a : <<>> \o <<a>> = <<a>> /\ <<a>> \o <<>> = <<a>> /\ Append(<<>>, a) = <<a>>
    /\ \A a, b, c : Append(<<a, b>>, c) = <<a, b, c>> /\ <<a, b>> \o <<c>> = <<a, b, c>>
    /\ <<>> \o <<>> = <<>>
  <1>1. ASSUME NEW a, NEW b
        PROVE  <<a>> \o <<b>> = <<a, b>> /\ Append(<<a>>, b) = <<a, b>>
    <2> DEFINE r == <<a>> \o <<b>>
               s == Append(<<a>>, b)
               t == <<a, b>>
    <2>1. {r, s, t} \subseteq Seq({a, b}) /\ Len(r) = Len(t) /\ Len(s) = Len(t)
      OBVIOUS
    <2>2. (\A i \in 1..Len(r) : r[i] = t[i]) /\ (\A i \in 1..Len(s) : s[i] = t[i])
      OBVIOUS
    <2> HIDE DEF r, s, t
    <2>3. r = t /\ s = t
      BY <2>1, <2>2, SeqEqual
    <2>4. QED
      BY <2>3 DEF r, s, t
  <1>2. ASSUME NEW a
        PROVE  <<>> \o <<a>> = <<a>> /\ <<a>> \o <<>> = <<a>> /\ Append(<<>>, a) = <<a>>
    <2>1. <<a>> \in Seq({a}) /\ <<>> \in Seq({a})
      OBVIOUS
    <2>2. QED
      BY <2>1
  <1>3. ASSUME NEW a, NEW b, NEW c
        PROVE  Append(<<a, b>>, c) = <<a, b, c>> /\ <<a, b>> \o <<c>> = <<a, b, c>>
    <2> DEFINE r == <<a, b>> \o <<c>>
               s == Append(<<a, b>>, c)
               t == <<a, b, c>>
    <2>1. {r, s, t} \subseteq Seq({a, b, c}) /\ Len(r) = Len(t) /\ Len(s) = Len(t)
      OBVIOUS
    <2>2. (\A i \in 1..Len(r) : r[i] = t[i]) /\ (\A i \in 1..Len(s) : s[i] = t[i])
      OBVIOUS
    <2> HIDE DEF r, s, t
    <2>3. r = t /\ s = t
      BY <2>1, <2>2, SeqEqual
    <2>4. QED
      BY <2>3 DEF r, s, t
  <1>4. <<>> \o <<>> = <<>>
    OBVIOUS
  <1>5. QED
    BY <1>1, <1>2, <1>3, <1>4

\* What NoSilentRecovery allows a handler to send: d, after ends of loops and frames.
OnlyAfterEnds(cs, d) ==
    /\ cs # <<>> /\ cs[Len(cs)] = d
    /\ \A i \in 1..Len(cs) - 1 : cs[i].op \in {"on_loop_end", "on_save_frame_end"}

LEMMA AtMostTwoEnds ==
    ASSUME NEW a, NEW b, NEW d, NEW cs, cs \in {<<d>>, <<a, d>>, <<a, b, d>>},
           {a.op, b.op} \subseteq {"on_loop_end", "on_save_frame_end"}
    PROVE  OnlyAfterEnds(cs, d)
  <1>1. CASE cs = <<d>>
    <2>1. Len(cs) = 1 /\ cs[1] = d
      BY <1>1
    <2>2. cs # <<>> /\ cs[Len(cs)] = d
      BY <2>1, EmptySeq
    <2>3. 1..Len(cs) - 1 = {}
      BY <2>1
    <2>4. QED
      BY <2>2, <2>3, Zenon DEF OnlyAfterEnds
  <1>2. CASE cs = <<a, d>>
    <2>1. Len(cs) = 2 /\ cs[1] = a /\ cs[2] = d
      BY <1>2
    <2>2. cs # <<>> /\ cs[Len(cs)] = d
      BY <2>1, EmptySeq
    <2>3. \A i \in 1..Len(cs) - 1 : i = 1
      BY <2>1
    <2>4. QED
      BY <2>1, <2>2, <2>3 DEF OnlyAfterEnds
  <1>3. CASE cs = <<a, b, d>>
    <2>1. Len(cs) = 3 /\ cs[1] = a /\ cs[2] = b /\ cs[3] = d
      BY <1>3
    <2>2. cs # <<>> /\ cs[Len(cs)] = d
      BY <2>1, EmptySeq
    <2>3. \A i \in 1..Len(cs) - 1 : i \in {1, 2}
      BY <2>1
    <2>4. QED
      BY <2>1, <2>2, <2>3 DEF OnlyAfterEnds
  <1>4. QED
    BY <1>1, <1>2, <1>3

LEMMA EndsThen ==
    ASSUME NEW p \in {<<>>, <<OnLoopEnd>>}, NEW q \in {<<>>, <<OnSaveFrameEnd>>}, NEW d
    PROVE  OnlyAfterEnds((p \o q) \o <<d>>, d) /\ OnlyAfterEnds(p \o <<d>>, d)
  <1>1. PICK a : a = OnLoopEnd
    OBVIOUS
  <1>2. PICK b : b = OnSaveFrameEnd
    OBVIOUS
  <1>3. {a.op, b.op} \subseteq {"on_loop_end", "on_save_frame_end"}
    BY <1>1, <1>2, OpsOfCalls
  <1>4. p \in {<<>>, <<a>>} /\ q \in {<<>>, <<b>>}
    BY <1>1, <1>2
  <1>5. p \o q \in {<<>>, <<a>>, <<b>>, <<a, b>>}
    <2>1. /\ <<>> \o <<>> = <<>> /\ <<a>> \o <<>> = <<a>> /\ <<>> \o <<b>> = <<b>>
          /\ <<a>> \o <<b>> = <<a, b>>
      BY Joins
    <2>2. QED
      BY <1>4, <2>1, Zenon
  <1>6. (p \o q) \o <<d>> \in {<<d>>, <<a, d>>, <<b, d>>, <<a, b, d>>}
    <2>1. PICK r : r = p \o q
      OBVIOUS
    <2>2. r \o <<d>> \in {<<d>>, <<a, d>>, <<b, d>>, <<a, b, d>>}
      <3>1. /\ <<>> \o <<d>> = <<d>>
            /\ <<a>> \o <<d>> = <<a, d>> /\ <<b>> \o <<d>> = <<b, d>>
            /\ <<a, b>> \o <<d>> = <<a, b, d>>
        BY Joins
      <3>2. r \in {<<>>, <<a>>, <<b>>, <<a, b>>}
        BY <1>5, <2>1
      <3>3. QED
        BY <3>1, <3>2, Zenon
    <2>3. QED
      BY <2>1, <2>2
  <1>7. p \o <<d>> \in {<<d>>, <<a, d>>}
    BY ZenonT(30), <1>4, Joins
  <1>8. QED
    <2>1. OnlyAfterEnds((p \o q) \o <<d>>, d)
      <3>1. CASE (p \o q) \o <<d>> = <<b, d>>
        BY <1>3, <3>1, AtMostTwoEnds
      <3>2. QED
        BY <1>3, <1>6, <3>1, AtMostTwoEnds
    <2>2. QED
      BY <1>3, <1>7, <2>1, AtMostTwoEnds

\* Items that end without an error end by a callback of theirs, or by none.
LEMMA QuietEnds ==
    /\ EndItemReport = {} => EndItemCalls \in {<<>>, <<OnLoopEnd>>}
    /\ CloseLoopReport = {} /\ CloseTagReport = {} =>
          CloseLoopCalls \o CloseTagCalls \in {<<>>, <<OnLoopEnd>>}
    /\ EndFrameCalls \in {<<>>, <<OnSaveFrameEnd>>}
  <1>1. CloseLoopCalls \in {<<>>, <<OnLoopEnd>>}
    BY DEF CloseLoopCalls
  <1>2. CloseTagReport = {} => CloseTagCalls = <<>>
    BY DEF CloseTagReport, CloseTagCalls
  <1>3. EndItemReport = {} => EndItemCalls \in {<<>>, <<OnLoopEnd>>}
    BY <1>1, <1>2 DEF EndItemReport, EndItemCalls
  <1>4. CloseTagReport = {} => CloseLoopCalls \o CloseTagCalls \in {<<>>, <<OnLoopEnd>>}
    BY <1>1, <1>2, Joins
  <1>5. QED
    BY <1>3, <1>4 DEF EndFrameCalls

LEMMA QuietKeyword ==
    ASSUME NEW t \in Tokens, HandleKeyword(t), report' = {}
    PROVE  OnlyAfterEnds(calls', Denoted(t))
  <1>1. CASE HandleData(t)
    <2>1. Denoted(t) = OnDataBlock(t.arg)
      BY <1>1 DEF HandleData, Denoted, Is, IsColon
    <2>2. EndItemReport = {} /\ calls' = (EndItemCalls \o EndFrameCalls) \o <<OnDataBlock(t.arg)>>
      BY <1>1 DEF HandleData, Emit
    <2>3. QED
      BY <2>1, <2>2, QuietEnds, EndsThen
  <1>2. CASE HandleSaveStart(t)
    <2>1. Denoted(t) = OnSaveFrameStart(t.arg)
      BY <1>2 DEF HandleSaveStart, Denoted, Is, IsColon
    <2>2. EndItemReport = {} /\ calls' = (EndItemCalls \o EndFrameCalls) \o <<OnSaveFrameStart(t.arg)>>
      BY <1>2 DEF HandleSaveStart, Emit
    <2>3. QED
      BY <2>1, <2>2, QuietEnds, EndsThen
  <1>3. CASE HandleSaveEnd(t)
    <2>1. Denoted(t) = OnSaveFrameEnd
      BY <1>3 DEF HandleSaveEnd, Denoted, Is, IsColon
    <2>2. EndItemReport = {} /\ inSaveFrame /\ calls' = EndItemCalls \o EndFrameCalls
      BY <1>3 DEF HandleSaveEnd, Emit
    <2>3. calls' = EndItemCalls \o <<OnSaveFrameEnd>>
      BY <2>2 DEF EndFrameCalls
    <2>4. QED
      BY <2>1, <2>2, <2>3, QuietEnds, EndsThen
  <1>4. CASE HandleLoop(t)
    <2>1. Denoted(t) = OnLoopStart(t.tags)
      BY <1>4 DEF HandleLoop, Denoted, Is, IsColon
    <2>2. EndItemReport = {} /\ t.tags # <<>> /\ calls' = EndItemCalls \o <<OnLoopStart(t.tags)>>
      BY <1>4 DEF HandleLoop, Emit
    <2>3. QED
      BY <2>1, <2>2, QuietEnds, EndsThen
  <1>5. CASE HandleStop(t)
    <2>1. Denoted(t) = OnLoopEnd
      BY <1>5 DEF HandleStop, Denoted, Is, IsColon
    <2>2. inLoop /\ calls' = <<OnLoopEnd>>
      BY <1>5 DEF HandleStop, Emit, CloseLoopCalls
    <2>3. <<>> \o <<OnLoopEnd>> = <<OnLoopEnd>>
      BY Joins
    <2>4. QED
      BY <2>1, <2>2, <2>3, EndsThen
  <1>6. CASE HandleGlobal(t)
    BY <1>6 DEF HandleGlobal, Emit
  <1>7. QED
    BY <1>1, <1>2, <1>3, <1>4, <1>5, <1>6 DEF HandleKeyword

LEMMA QuietTag ==
    ASSUME NEW t \in Tokens, HandleTag(t), report' = {}
    PROVE  OnlyAfterEnds(calls', Denoted(t))
  <1>1. Denoted(t) = AddTag(t.arg)
    BY DEF HandleTag, Denoted, Is, IsColon
  <1>2. /\ CloseLoopReport = {} /\ CloseTagReport = {}
        /\ calls' = (CloseLoopCalls \o CloseTagCalls) \o <<AddTag(t.arg)>>
    BY DEF HandleTag, Emit
  <1>3. QED
    BY <1>1, <1>2, QuietEnds, EndsThen

\* A value of a file that is not a delimiter denotes itself, and ':' in a table its key.
LEMMA DenotedByValue ==
    ASSUME NEW t, t.kind = "value"
    PROVE  /\ IsScalar(t) => Denoted(t) = AddValue(t.arg, t.form)
           /\ IsColon(t) => Denoted(t) = OnTableKey(Top.key)
           /\ Is(t, "[") => Denoted(t) = OnListStart
           /\ Is(t, "]") => Denoted(t) = OnListEnd
           /\ Is(t, "{") => Denoted(t) = OnTableStart
           /\ Is(t, "}") => Denoted(t) = OnTableEnd
  BY DEF Denoted, IsScalar, IsColon, Is

LEMMA QuietValue ==
    ASSUME IInv, NEW t \in Tokens, HandleValue(t), report' = {}
    PROVE  \/ /\ IsScalar(t) /\ InTable /\ Top.at = "Key"
              /\ calls' = <<>> /\ stack' = SetTop(Table("Colon", t.arg))
           \/ ~(IsScalar(t) /\ InTable /\ Top.at = "Key") /\ calls' = <<Denoted(t)>>
  <1>1. CASE OpenList(t) \/ OpenTable(t)
    <2>1. PICK d : d = Denoted(t)
      OBVIOUS
    <2>2. (Is(t, "[") /\ d = OnListStart) \/ (Is(t, "{") /\ d = OnTableStart)
      BY <1>1, <2>1, DenotedByValue DEF OpenList, OpenTable, OpenContainer, Is
    <2>3. /\ ParentReport \cup (IF Orphan THEN {"container without tag"} ELSE {}) = {}
          /\ calls' = ((IF Orphan THEN <<AddTag(ErrorTag)>> ELSE <<>>) \o ParentCalls) \o <<d>>
          /\ ~IsScalar(t)
      BY <1>1, <2>2 DEF OpenList, OpenTable, OpenContainer, Emit, Is, IsScalar
    <2>4. ~Orphan /\ ParentCalls = <<>>
      BY <2>3 DEF ParentReport, ParentCalls
    <2>5. calls' = (<<>> \o <<>>) \o <<d>>
      BY <2>3, <2>4
    <2>6. calls' = <<d>>
      BY <2>5, Joins
    <2>7. QED
      BY <2>1, <2>3, <2>6
  <1>2. CASE CloseList(t)
    <2>1. Denoted(t) = OnListEnd /\ ~IsScalar(t)
      BY <1>2, DenotedByValue DEF CloseList, Is, IsScalar
    <2>2. calls' = <<OnListEnd>>
      BY <1>2 DEF CloseList, CloseContainer, Emit, EndCalls, InList
    <2>3. QED
      BY <2>1, <2>2
  <1>3. CASE CloseTable(t)
    <2>1. Denoted(t) = OnTableEnd /\ ~IsScalar(t)
      BY <1>3, DenotedByValue DEF CloseTable, Is, IsScalar
    <2>2. stack # <<>> /\ Top.at \notin {"list", "Colon", "Value"} /\ calls' = EndCalls(Top)
      BY <1>3 DEF CloseTable, CloseContainer, Emit, InTable
    <2>3. CleanupCalls(Top) = <<>>
      BY <2>2, Joins DEF CleanupCalls
    <2>4. calls' = Append(<<>>, OnTableEnd)
      BY <2>2, <2>3 DEF EndCalls
    <2>5. QED
      BY <2>1, <2>4, Joins
  <1>4. CASE UnexpectedClose(t) \/ UnexpectedColon(t)
    BY <1>4 DEF UnexpectedClose, UnexpectedColon, Ignore, Emit
  <1>5. CASE HandleColon(t)
    BY <1>5, DenotedByValue DEF HandleColon, Emit, IsColon, Is, IsScalar
  <1>6. CASE ScalarAsKey(t)
    BY <1>6 DEF ScalarAsKey, Emit
  <1>7. CASE ScalarInTable(t)
    <2>1. PICK d : d = Denoted(t)
      OBVIOUS
    <2>2. d = AddValue(t.arg, t.form)
      BY <1>7, <2>1, DenotedByValue DEF ScalarInTable, IsScalar
    <2>3. Top.at # "Colon" /\ Top.at # "Key"
      BY <1>7 DEF ScalarInTable, Emit
    <2>4. calls' = <<>> \o <<d>>
      BY <1>7, <2>2, <2>3 DEF ScalarInTable, Emit
    <2>5. QED
      BY <2>1, <2>3, <2>4, Joins
  <1>8. CASE ScalarInList(t)
    BY <1>8, DenotedByValue DEF ScalarInList, Emit, InList, InTable, IsScalar
  <1>9. CASE ScalarInLoop(t)
    BY <1>9, DenotedByValue DEF ScalarInLoop, Emit, InTable, IsScalar
  <1>10. CASE ScalarOfTag(t)
    BY <1>10, DenotedByValue DEF ScalarOfTag, Emit, InTable, IsScalar
  <1>11. CASE OrphanScalar(t)
    BY <1>11 DEF OrphanScalar, Emit
  <1>12. QED
    BY <1>1, <1>2, <1>3, <1>4, <1>5, <1>6, <1>7, <1>8, <1>9, <1>10, <1>11 DEF HandleValue

\* No recovery is silent: a handler of parser.rs that calls on_parse_error for
\* nothing has sent the callback its token denotes, after ends of a loop or a save
\* frame only, or it holds the token back as a table key.
THEOREM NoSilentRecoveryCorrect == Spec => NoSilentRecovery
  <1>1. ASSUME IInv, report' = {}, NEW t \in Tokens, Read(t)
        PROVE  IF IsScalar(t) /\ InTable /\ Top.at = "Key"
               THEN calls' = <<>> /\ stack' = SetTop(Table("Colon", t.arg))
               ELSE OnlyAfterEnds(calls', Denoted(t))
    <2>1. CASE HandleKeyword(t) \/ HandleTag(t)
      <3>1. ~IsScalar(t)
        BY <2>1 DEF HandleKeyword, HandleTag, HandleData, HandleSaveStart, HandleSaveEnd, HandleLoop,
           HandleStop, HandleGlobal, IsScalar
      <3>2. QED
        BY <1>1, <2>1, <3>1, QuietKeyword, QuietTag
    <2>2. CASE HandleValue(t)
      <3>1. OnlyAfterEnds(<<Denoted(t)>>, Denoted(t))
        <4>1. <<>> \o <<Denoted(t)>> = <<Denoted(t)>>
          BY Joins
        <4>2. QED
          BY <4>1, EndsThen
      <3>2. QED
        BY <1>1, <2>2, <3>1, QuietValue
    <2>3. QED
      BY <1>1, <2>1, <2>2 DEF Read
  <1>2. IInv => [report' = {} =>
        \A t \in Tokens : Read(t) =>
            IF IsScalar(t) /\ InTable /\ Top.at = "Key"
            THEN calls' = <<>> /\ stack' = SetTop(Table("Colon", t.arg))
            ELSE /\ calls' # <<>> /\ calls'[Len(calls')] = Denoted(t)
                 /\ \A i \in 1..Len(calls') - 1 :
                        calls'[i].op \in {"on_loop_end", "on_save_frame_end"}]_vars
    BY <1>1 DEF OnlyAfterEnds
  <1>3. QED
    BY <1>2, ParserInvariant, PTL DEF NoSilentRecovery

=============================================================================

---------------------------- MODULE PipelineProofs ----------------------------
(***************************************************************************)
(* The Rust builder behind the parser, for every file: it is always where  *)
(* the parser is.  First the builder under every run of callbacks that the *)
(* grammar of EventStream allows: a live builder is in the context the run *)
(* has built up.  Then the parser's side of it: what its handlers leave to *)
(* be delivered never loses the tag that waits for its value.  Last, its   *)
(* document: the loops are rectangular, and the exports agree.             *)
(***************************************************************************)
EXTENDS PipelineDocuments, ParserProofs, ListProofs

-----------------------------------------------------------------------------
(***************************************************************************)
(* Where the builder is.                                                   *)
(***************************************************************************)
\* Sequences of values, containers and namespaces are sequences over their own range.
IsSequence(s) == s \in Seq({s[i] : i \in DOMAIN s})

\* The builder has a block to fill and goes on filling it.
Live == ~rStopped /\ rBlock # <<>>

Kind(k) == IF k = "list" THEN "list" ELSE "table"
IsContainer(c) == c = [is |-> c.is, items |-> c.items, key |-> c.key]

\* The containers are those of the callbacks, and the innermost holds no key unless a
\* value is to come.
Nested ==
    /\ IsSequence(rStack) /\ Len(rStack) = Len(ctx.nest)
    /\ \A i \in DOMAIN rStack : IsContainer(rStack[i]) /\ rStack[i].is = Kind(ctx.nest[i])
    /\ ES!Innermost(ctx, "key") => rStack[Len(rStack)].key = <<>>

\* A live builder is in the context its callbacks have built up.
Follows ==
    Live => /\ rInLoop = ctx.loop
            /\ (rFrame # <<>>) = ctx.frame
            /\ Nested
            /\ (ctx.nest = <<>> /\ ~ctx.tag) \/ ctx.loop => rActive = <<>>

-----------------------------------------------------------------------------
(***************************************************************************)
(* Sequences.                                                              *)
(***************************************************************************)
LEMMA OverItsRange ==
    ASSUME NEW S, NEW s \in Seq(S)
    PROVE  IsSequence(s)
  <1> DEFINE R == {s[i] : i \in DOMAIN s}
  <1>1. Len(s) \in Nat /\ s = [i \in 1..Len(s) |-> s[i]] /\ DOMAIN s = 1..Len(s)
    OBVIOUS
  <1>2. s \in [1..Len(s) -> R]
    BY <1>1
  <1>3. QED
    BY SMTT(30), <1>1, <1>2 DEF IsSequence

LEMMA SequenceBasics ==
    ASSUME NEW s, IsSequence(s)
    PROVE  /\ Len(s) \in Nat /\ DOMAIN s = 1..Len(s)
           /\ s # <<>> <=> Len(s) >= 1
           /\ s # <<>> <=> Len(s) \in DOMAIN s
  <1>1. s \in Seq({s[i] : i \in DOMAIN s})
    BY DEF IsSequence
  <1>2. QED
    BY <1>1

LEMMA EmptyIsSequence == IsSequence(<<>>)
  <1>1. <<>> \in Seq({})
    OBVIOUS
  <1>2. QED
    BY <1>1, OverItsRange

LEMMA OneIsSequence ==
    ASSUME NEW x
    PROVE  IsSequence(<<x>>)
  <1>1. <<x>> \in Seq({x})
    OBVIOUS
  <1>2. QED
    BY <1>1, OverItsRange

LEMMA AppendIsSequence ==
    ASSUME NEW s, IsSequence(s), NEW x
    PROVE  /\ IsSequence(Append(s, x)) /\ Len(Append(s, x)) = Len(s) + 1
           /\ \A i \in DOMAIN s : Append(s, x)[i] = s[i]
           /\ Append(s, x)[Len(s) + 1] = x
  <1> DEFINE S == {s[i] : i \in DOMAIN s} \cup {x}
  <1>1. s \in Seq(S)
    <2>1. s \in Seq({s[i] : i \in DOMAIN s})
      BY DEF IsSequence
    <2>2. Len(s) \in Nat /\ s \in [1..Len(s) -> S]
      BY <2>1
    <2>3. QED
      BY <2>2
  <1>2. x \in S
    OBVIOUS
  <1> HIDE DEF S
  <1>3. Append(s, x) \in Seq(S)
    BY <1>1, <1>2
  <1>4. IsSequence(Append(s, x))
    BY <1>3, OverItsRange
  <1>5. QED
    BY <1>1, <1>2, <1>4

LEMMA ExceptIsSequence ==
    ASSUME NEW s, IsSequence(s), NEW i \in DOMAIN s, NEW x
    PROVE  /\ IsSequence([s EXCEPT ![i] = x]) /\ Len([s EXCEPT ![i] = x]) = Len(s)
           /\ DOMAIN [s EXCEPT ![i] = x] = DOMAIN s
           /\ [s EXCEPT ![i] = x][i] = x
           /\ \A j \in DOMAIN s : j # i => [s EXCEPT ![i] = x][j] = s[j]
  <1> DEFINE S == {s[k] : k \in DOMAIN s} \cup {x}
             t == [s EXCEPT ![i] = x]
  <1>1. Len(s) \in Nat /\ DOMAIN s = 1..Len(s) /\ DOMAIN t = 1..Len(s)
    BY SequenceBasics
  <1>2. t[i] = x /\ \A j \in DOMAIN s : j # i => t[j] = s[j]
    OBVIOUS
  <1>3. t \in [1..Len(s) -> S]
    BY <1>1, <1>2
  <1>4. t \in Seq(S) /\ Len(t) = Len(s)
    BY <1>1, <1>3
  <1>5. IsSequence(t)
    BY <1>4, OverItsRange
  <1>6. QED
    BY <1>1, <1>2, <1>4, <1>5

LEMMA ButLastIsSequence ==
    ASSUME NEW s, IsSequence(s), s # <<>>
    PROVE  LET r == SubSeq(s, 1, Len(s) - 1)
           IN /\ IsSequence(r) /\ Len(r) = Len(s) - 1
              /\ \A i \in DOMAIN r : i \in DOMAIN s /\ r[i] = s[i]
  <1> DEFINE S == {s[i] : i \in DOMAIN s}
  <1>1. s \in Seq(S)
    BY DEF IsSequence
  <1> HIDE DEF S
  <1> DEFINE r == SubSeq(s, 1, Len(s) - 1)
  <1>2. r \in Seq(S) /\ Len(r) = Len(s) - 1 /\ \A i \in DOMAIN r : i \in DOMAIN s /\ r[i] = s[i]
    BY SMTT(30), <1>1
  <1>3. IsSequence(r)
    BY <1>2, OverItsRange
  <1>4. QED
    BY <1>2, <1>3

LEMMA JoinIsSequence ==
    ASSUME NEW s, IsSequence(s), NEW t, IsSequence(t)
    PROVE  /\ IsSequence(s \o t) /\ Len(s \o t) = Len(s) + Len(t)
           /\ \A i \in DOMAIN s : i \in DOMAIN (s \o t) /\ (s \o t)[i] = s[i]
           /\ \A i \in DOMAIN t : Len(s) + i \in DOMAIN (s \o t) /\ (s \o t)[Len(s) + i] = t[i]
           /\ \A i \in DOMAIN (s \o t) : i \in DOMAIN s \/ (i - Len(s) \in DOMAIN t /\ (s \o t)[i] = t[i - Len(s)])
  <1> DEFINE S == {s[i] : i \in DOMAIN s} \cup {t[i] : i \in DOMAIN t}
  <1>1. s \in Seq(S) /\ t \in Seq(S)
    <2>1. s \in Seq({s[i] : i \in DOMAIN s}) /\ t \in Seq({t[i] : i \in DOMAIN t})
      BY DEF IsSequence
    <2>2. Len(s) \in Nat /\ s \in [1..Len(s) -> S] /\ Len(t) \in Nat /\ t \in [1..Len(t) -> S]
      BY <2>1
    <2>3. QED
      BY <2>2
  <1> HIDE DEF S
  <1> DEFINE u == s \o t
  <1>2. u \in Seq(S) /\ Len(u) = Len(s) + Len(t)
    BY <1>1
  <1>3. IsSequence(u)
    BY <1>2, OverItsRange
  <1>4. /\ Len(s) \in Nat /\ DOMAIN s = 1..Len(s)
        /\ Len(t) \in Nat /\ DOMAIN t = 1..Len(t)
        /\ DOMAIN u = 1..Len(s) + Len(t)
    BY <1>1, <1>2
  <1>5. /\ \A i \in 1..Len(s) : u[i] = s[i]
        /\ \A i \in 1..Len(t) : u[Len(s) + i] = t[i]
    BY <1>1
  <1>6. \A i \in DOMAIN u : i \in DOMAIN s \/ (i - Len(s) \in DOMAIN t /\ u[i] = t[i - Len(s)])
    <2> SUFFICES ASSUME NEW i \in DOMAIN u, i \notin DOMAIN s
                 PROVE  i - Len(s) \in DOMAIN t /\ u[i] = t[i - Len(s)]
      OBVIOUS
    <2> HIDE DEF u
    <2>1. i - Len(s) \in 1..Len(t) /\ i = Len(s) + (i - Len(s))
      BY <1>4
    <2>2. QED
      BY <2>1, <1>4, <1>5
  <1> HIDE DEF u
  <1>7. QED
    BY <1>2, <1>3, <1>4, <1>5, <1>6 DEF u

-----------------------------------------------------------------------------
(***************************************************************************)
(* The callbacks, and where they leave the builder.                        *)
(***************************************************************************)
\* The frame and the block that are open stay open when a value is stored.
LEMMA DispatchStays ==
    ASSUME NEW s, NEW v, Raw!DispatchRaw(s, v)
    PROVE  /\ UNCHANGED <<rStopped, rErrors, rSeenBlocks, rSeenFrames, rInLoop, rHeader, rBlocks>>
           /\ (rFrame' # <<>>) = (rFrame # <<>>) /\ (rBlock' # <<>>) = (rBlock # <<>>)
           /\ s = <<>> => rStack' = s /\ rActive' = IF rInLoop THEN rActive ELSE <<>>
           /\ s # <<>> => rStack' = [s EXCEPT ![Len(s)] = Raw!Put(@, v)] /\ rActive' = rActive
  <1>1. CASE s # <<>>
    BY <1>1 DEF Raw!DispatchRaw
  <1>2. CASE s = <<>> /\ rInLoop
    BY <1>2 DEF Raw!DispatchRaw
  <1>3. CASE s = <<>> /\ ~rInLoop
    BY <1>3 DEF Raw!DispatchRaw, Raw!UpdateNamespace
  <1>4. QED
    BY <1>1, <1>2, <1>3

LEMMA LoopEndStays ==
    ASSUME Raw!OnLoopEndRaw
    PROVE  /\ rInLoop' = FALSE /\ UNCHANGED <<rSeenBlocks, rSeenFrames, rActive, rStack, rBlocks>>
           /\ (rFrame' # <<>>) = (rFrame # <<>>) /\ (rBlock' # <<>>) = (rBlock # <<>>)
  <1> DEFINE columns == Raw!TakenColumns(Raw!Padded(rColumns, rHeader, rIndex), rHeader)
  <1>1. rInLoop' = FALSE /\ UNCHANGED <<rSeenBlocks, rSeenFrames, rActive, rStack, rBlocks>>
    BY DEF Raw!OnLoopEndRaw
  <1>2. \/ UNCHANGED <<rBlock, rFrame>>
        \/ Raw!UpdateNamespace(LAMBDA d : Raw!AddLoop(d, rHeader, columns))
    BY DEF Raw!OnLoopEndRaw
  <1>3. CASE Raw!UpdateNamespace(LAMBDA d : Raw!AddLoop(d, rHeader, columns))
    BY <1>1, <1>3 DEF Raw!UpdateNamespace
  <1>4. QED
    BY <1>1, <1>2, <1>3

\* A builder without a block gets one from a data_ only, and a stopped one stays so.
LEMMA LiveOnlyByBlock ==
    ASSUME NEW c \in Call, Raw!RawCall(c), Live', c.op # "on_data_block"
    PROVE  Live
  <1>1. ~rStopped
    BY DEF Raw!RawCall, Raw!rVars, Live
  <1>2. c.op \in Ops
    BY DEF Call
  <1>3. CASE rBlock = <<>>
    <2>1. ASSUME NEW s, NEW v, Raw!DispatchRaw(s, v) PROVE FALSE
      BY <2>1, <1>3, DispatchStays DEF Live
    <2>2. CASE c.op \in {"add_value", "on_list_end", "on_table_end"}
      BY <2>1, <2>2, <1>1, <1>3 DEF Raw!RawCall, Raw!AddValueRaw, Raw!CloseRaw, Raw!rVars, Live
    <2>3. CASE c.op = "on_loop_end"
      BY <2>3, <1>1, <1>3, LoopEndStays DEF Raw!RawCall, Live
    <2>4. CASE c.op \notin {"add_value", "on_list_end", "on_table_end", "on_loop_end"}
      BY <2>4, <1>1, <1>2, <1>3 DEF Raw!RawCall, Ops, Raw!OnSaveFrameStartRaw, Raw!OnSaveFrameEndRaw,
         Raw!AddTagRaw, Raw!OpenRaw, Raw!OnTableKeyRaw, Raw!OnLoopStartRaw, Raw!rVars, Live
    <2>5. QED
      BY <2>2, <2>3, <2>4
  <1>4. QED
    BY <1>1, <1>3 DEF Live

\* What a container holds when it is given a value.
LEMMA PutKeepsShape ==
    ASSUME NEW c, IsContainer(c), NEW v
    PROVE  /\ IsContainer(Raw!Put(c, v)) /\ Raw!Put(c, v).is = c.is
           /\ c.is # "list" => Raw!Put(c, v).key = <<>>
  BY DEF IsContainer, Raw!Put

\* A value leaves the stack as it is, but for the innermost container.
LEMMA DispatchNested ==
    ASSUME NEW s, IsSequence(s), \A i \in DOMAIN s : IsContainer(s[i]), NEW v, Raw!DispatchRaw(s, v)
    PROVE  /\ IsSequence(rStack') /\ Len(rStack') = Len(s) /\ DOMAIN rStack' = DOMAIN s
           /\ \A i \in DOMAIN s : IsContainer(rStack'[i]) /\ rStack'[i].is = s[i].is
           /\ s # <<>> /\ s[Len(s)].is # "list" => rStack'[Len(s)].key = <<>>
  <1>1. CASE s = <<>>
    BY <1>1, DispatchStays, SequenceBasics
  <1>2. CASE s # <<>>
    <2> DEFINE n == Len(s)
               x == Raw!Put(s[n], v)
    <2>1. n \in DOMAIN s
      BY <1>2, SequenceBasics
    <2>2. rStack' = [s EXCEPT ![n] = x]
      BY <1>2, DispatchStays
    <2>3. IsContainer(x) /\ x.is = s[n].is /\ (s[n].is # "list" => x.key = <<>>)
      BY <2>1, PutKeepsShape
    <2> HIDE DEF n, x
    <2>4. /\ IsSequence(rStack') /\ Len(rStack') = Len(s) /\ DOMAIN rStack' = DOMAIN s
          /\ rStack'[n] = x /\ \A j \in DOMAIN s : j # n => rStack'[j] = s[j]
      BY ZenonT(30), <2>1, <2>2, ExceptIsSequence
    <2>5. \A i \in DOMAIN s : IsContainer(rStack'[i]) /\ rStack'[i].is = s[i].is
      BY <2>3, <2>4
    <2>6. QED
      BY <2>1, <2>3, <2>4, <2>5 DEF n
  <1>3. QED
    BY <1>1, <1>2

\* The stack after a value, an opening, an end and a key, when the callbacks' nest
\* changes as they say.
LEMMA NestedAfterValue ==
    ASSUME Live, Nested, ctx \in ES!Context, NEW v, Raw!DispatchRaw(rStack, v),
           ctx'.nest = ctx.nest \/ (ES!Innermost(ctx, "val") /\ ctx'.nest = [ctx.nest EXCEPT ![Len(ctx.nest)] = "key"])
    PROVE  Nested'
  <1>1. /\ IsSequence(rStack') /\ Len(rStack') = Len(rStack) /\ DOMAIN rStack' = DOMAIN rStack
        /\ \A i \in DOMAIN rStack : IsContainer(rStack'[i]) /\ rStack'[i].is = rStack[i].is
        /\ rStack # <<>> /\ rStack[Len(rStack)].is # "list" => rStack'[Len(rStack)].key = <<>>
    BY DispatchNested DEF Nested
  <1>2. /\ ctx.nest \in Seq(Kinds) /\ Len(ctx.nest) = Len(rStack) /\ DOMAIN rStack = 1..Len(rStack)
        /\ Len(rStack) \in Nat
    BY SequenceBasics DEF Nested, ES!Context, Kinds
  <1>3. Len(ctx'.nest) = Len(ctx.nest) /\ \A i \in DOMAIN rStack : Kind(ctx'.nest[i]) = Kind(ctx.nest[i])
    BY <1>2 DEF Kind, ES!Innermost
  <1>4. ES!Innermost(ctx, "key")' => rStack # <<>> /\ rStack[Len(rStack)].is # "list"
    <2> SUFFICES ASSUME ES!Innermost(ctx, "key")' PROVE rStack # <<>> /\ rStack[Len(rStack)].is # "list"
      OBVIOUS
    <2>1. Len(ctx'.nest) >= 1 /\ ctx'.nest[Len(ctx'.nest)] = "key"
      BY <1>2, <1>3 DEF ES!Innermost
    <2>2. Len(rStack) \in DOMAIN rStack /\ rStack # <<>>
      BY <2>1, <1>2, <1>3
    <2>3. rStack[Len(rStack)].is = Kind(ctx.nest[Len(rStack)])
      BY <2>2 DEF Nested
    <2>4. Kind(ctx'.nest[Len(rStack)]) = "table"
      BY <2>1, <1>2, <1>3 DEF Kind
    <2>5. QED
      BY <2>2, <2>3, <2>4, <1>3
  <1>5. QED
    BY <1>1, <1>2, <1>3, <1>4 DEF Nested

LEMMA NestedAfterOpen ==
    ASSUME Nested, ctx \in ES!Context, NEW kind \in {"list", "table"}, NEW next \in Kinds, NEW nest,
           nest = ctx.nest \/ (ES!Innermost(ctx, "val") /\ nest = [ctx.nest EXCEPT ![Len(ctx.nest)] = "key"]),
           ctx'.nest = Append(nest, next), Kind(next) = kind,
           rStack' = Append(rStack, [is |-> kind, items |-> <<>>, key |-> <<>>])
    PROVE  Nested'
  <1> DEFINE n == Len(rStack)
             new == [is |-> kind, items |-> <<>>, key |-> <<>>]
  <1>1. /\ IsSequence(rStack') /\ Len(rStack') = n + 1
        /\ \A i \in DOMAIN rStack : rStack'[i] = rStack[i]
        /\ rStack'[n + 1] = new
    BY AppendIsSequence DEF Nested
  <1>2. n \in Nat /\ DOMAIN rStack = 1..n /\ DOMAIN rStack' = 1..n + 1 /\ ctx.nest \in Seq(Kinds) /\ Len(ctx.nest) = n
    BY <1>1, SequenceBasics DEF Nested, ES!Context, Kinds
  <1>3. nest \in Seq(Kinds) /\ Len(nest) = n /\ \A i \in 1..n : Kind(nest[i]) = Kind(ctx.nest[i])
    <2>1. CASE nest = ctx.nest
      BY <1>2, <2>1
    <2>2. CASE ES!Innermost(ctx, "val") /\ nest = [ctx.nest EXCEPT ![Len(ctx.nest)] = "key"]
      <3>1. "key" \in Kinds /\ ctx.nest[n] = "val" /\ nest = [ctx.nest EXCEPT ![n] = "key"]
        BY <1>2, <2>2 DEF ES!Innermost, Kinds
      <3> HIDE DEF n
      <3>2. DOMAIN ctx.nest = 1..n /\ \A i \in 1..n : ctx.nest[i] \in Kinds
        BY <1>2, ElementOfSeq
      <3>3. nest = [i \in 1..n |-> IF i = n THEN "key" ELSE ctx.nest[i]]
        BY <3>1, <3>2
      <3>4. nest \in Seq(Kinds) /\ Len(nest) = n
        <4>1. n \in 1..Len(ctx.nest) /\ ctx.nest \in Seq(Kinds)
          BY <1>2, <2>2, EmptySeq DEF ES!Innermost
        <4>2. QED
          BY <1>2, <3>1, <4>1, ExceptSeq
      <3>5. QED
        BY <3>1, <3>3, <3>4 DEF Kind
    <2>3. QED
      BY <2>1, <2>2
  <1>4. Len(ctx'.nest) = n + 1 /\ ctx'.nest[n + 1] = next /\ \A i \in 1..n : ctx'.nest[i] = nest[i]
    BY <1>2, <1>3
  <1>5. IsContainer(new) /\ new.is = kind /\ new.key = <<>>
    BY DEF IsContainer
  <1> HIDE DEF n, new
  <1>6. \A i \in DOMAIN rStack' : IsContainer(rStack'[i]) /\ rStack'[i].is = Kind(ctx'.nest[i])
    BY <1>1, <1>2, <1>3, <1>4, <1>5 DEF Nested
  <1>7. QED
    BY <1>1, <1>2, <1>4, <1>5, <1>6 DEF Nested, n

LEMMA NestedAfterEnd ==
    ASSUME Live, Nested, ctx \in ES!Context, NEW kind \in {"list", "table"}, ctx.nest # <<>>,
           Kind(ctx.nest[Len(ctx.nest)]) = kind, Raw!CloseRaw(kind),
           ctx'.nest = SubSeq(ctx.nest, 1, Len(ctx.nest) - 1)
    PROVE  /\ Nested'
           /\ UNCHANGED <<rStopped, rErrors, rSeenBlocks, rSeenFrames, rInLoop, rHeader, rBlocks>>
           /\ (rFrame' # <<>>) = (rFrame # <<>>) /\ (rBlock' # <<>>) = (rBlock # <<>>)
           /\ rActive' = IF Len(ctx.nest) = 1 /\ ~rInLoop THEN <<>> ELSE rActive
  <1> DEFINE rest == SubSeq(rStack, 1, Len(rStack) - 1)
             top == rStack[Len(rStack)]
  <1>1. /\ ctx.nest \in Seq(Kinds) /\ Len(ctx.nest) = Len(rStack) /\ DOMAIN rStack = 1..Len(rStack)
        /\ Len(rStack) \in Nat \ {0} /\ rStack # <<>>
    BY SequenceBasics DEF Nested, ES!Context, Kinds
  <1>2. top.is = kind
    BY <1>1 DEF Nested
  <1>3. PICK v : Raw!DispatchRaw(rest, v)
    BY <1>1, <1>2 DEF Raw!CloseRaw
  <1>4. /\ IsSequence(rest) /\ Len(rest) = Len(rStack) - 1
        /\ \A i \in DOMAIN rest : i \in DOMAIN rStack /\ rest[i] = rStack[i]
    BY <1>1, ButLastIsSequence DEF Nested
  <1> HIDE DEF rest, top
  <1>5. /\ IsSequence(rStack') /\ Len(rStack') = Len(rest) /\ DOMAIN rStack' = DOMAIN rest
        /\ \A i \in DOMAIN rest : IsContainer(rStack'[i]) /\ rStack'[i].is = rest[i].is
        /\ rest # <<>> /\ rest[Len(rest)].is # "list" => rStack'[Len(rest)].key = <<>>
    BY <1>3, <1>4, DispatchNested DEF Nested
  <1>6. Len(ctx'.nest) = Len(rest) /\ \A i \in 1..Len(rest) : ctx'.nest[i] = ctx.nest[i]
    BY <1>1, <1>4
  <1>7. DOMAIN rest = 1..Len(rest) /\ Len(rest) \in Nat /\ (rest = <<>> <=> Len(rest) = 0)
    BY <1>4, SequenceBasics
  <1>8. \A i \in DOMAIN rest : rest[i].is = Kind(ctx'.nest[i])
    BY <1>4, <1>6, <1>7 DEF Nested
  <1>9. ES!Innermost(ctx, "key")' => rStack'[Len(rStack')].key = <<>>
    <2> SUFFICES ASSUME ES!Innermost(ctx, "key")' PROVE rStack'[Len(rest)].key = <<>>
      BY <1>5
    <2>1. ctx'.nest # <<>> /\ ctx'.nest[Len(rest)] = "key"
      BY SMTT(30), <1>6 DEF ES!Innermost
    <2>2. ctx'.nest \in Seq(Kinds)
      BY <1>1
    <2>3. rest # <<>>
      BY <1>6, <1>7, <2>1, <2>2
    <2>4. Len(rest) \in DOMAIN rest
      BY <1>7, <2>3
    <2>5. rest[Len(rest)].is = Kind("key")
      BY <1>8, <2>1, <2>4
    <2>6. QED
      BY <1>5, <2>3, <2>5 DEF Kind
  <1>10. Nested'
    BY <1>5, <1>6, <1>8, <1>9 DEF Nested
  <1>11. QED
    BY <1>1, <1>3, <1>4, <1>7, <1>10, DispatchStays

\* Every callback leaves the builder where the grammar of the callbacks says.
LEMMA FollowsStep ==
    ASSUME Follows, ctx \in ES!Context, NEW c \in Call, ES!Legal(ctx, c), ctx' = ES!After(ctx, c),
           Raw!RawCall(c)
    PROVE  Follows'
  <1> SUFFICES ASSUME Live' PROVE Follows'
    BY DEF Follows
  <1>1. c.op \in Ops /\ ~rStopped
    BY DEF Call, Raw!RawCall, Raw!rVars, Live
  <1>2. CASE c.op = "on_data_block"
    <2>1. ctx.loop = FALSE /\ ctx.nest = <<>> /\ ctx.frame = FALSE /\ ctx' = ctx
      BY <1>2 DEF ES!Legal, ES!Quiet, ES!After, ES!Context
    <2>2. rFrame' = <<>> /\ rActive' = <<>> /\ rInLoop' = FALSE /\ rStack' = <<>>
      BY <1>1, <1>2 DEF Raw!RawCall, Raw!OnDataBlockRaw
    <2>3. Nested'
      BY <2>1, <2>2, EmptyIsSequence DEF Nested, ES!Innermost
    <2>4. QED
      BY <2>1, <2>2, <2>3 DEF Follows
  <1> SUFFICES ASSUME c.op # "on_data_block" PROVE Follows'
    BY <1>2
  <1>3. Live
    BY LiveOnlyByBlock
  <1>4. /\ rInLoop = ctx.loop /\ (rFrame # <<>>) = ctx.frame /\ Nested
        /\ (ctx.nest = <<>> /\ ~ctx.tag) \/ ctx.loop => rActive = <<>>
    BY <1>3 DEF Follows
  <1>5. Len(ctx.nest) \in Nat /\ Len(rStack) = Len(ctx.nest) /\ (rStack = <<>> <=> ctx.nest = <<>>)
    BY <1>4, SequenceBasics DEF Nested, ES!Context
  <1>6. CASE c.op \in {"on_save_frame_start", "on_save_frame_end"}
    <2>1. /\ ES!Quiet(ctx) /\ ctx'.loop = ctx.loop /\ ctx'.tag = ctx.tag /\ ctx'.nest = ctx.nest
          /\ ctx'.frame = (c.op = "on_save_frame_start")
      BY <1>6 DEF ES!Legal, ES!After, ES!Context
    <2>2. CASE c.op = "on_save_frame_start"
      <3>1. Raw!OnSaveFrameStartRaw(c.arg) /\ rBlock # <<>>
        BY <1>1, <1>3, <2>2 DEF Raw!RawCall, Live
      <3>2. /\ UNCHANGED <<rInLoop, rActive, rStack>>
            /\ rFrame' = <<[name |-> RustFold[c.arg], data |-> Raw!NoData]>>
        BY <3>1 DEF Raw!OnSaveFrameStartRaw, Raw!rItem
      <3>3. rFrame' # <<>>
        BY <3>2
      <3>4. QED
        BY <1>4, <2>1, <2>2, <3>2, <3>3 DEF Follows, Nested, ES!Innermost
    <2>3. CASE c.op = "on_save_frame_end"
      <3>1. UNCHANGED <<rInLoop, rActive, rStack>> /\ rFrame' = <<>>
        BY <1>1, <1>3, <2>3 DEF Raw!RawCall, Raw!OnSaveFrameEndRaw, Raw!rItem, Live
      <3>2. QED
        BY <1>4, <2>1, <2>3, <3>1 DEF Follows, Nested, ES!Innermost
    <2>4. QED
      BY <1>6, <2>2, <2>3
  <1>7. CASE c.op = "add_tag"
    <2>1. ES!Quiet(ctx) /\ ctx' = [ctx EXCEPT !.tag = TRUE]
      BY <1>7 DEF ES!Legal, ES!After
    <2>2. UNCHANGED <<rInLoop, rStack, rFrame>>
      BY <1>1, <1>7 DEF Raw!RawCall, Raw!AddTagRaw
    <2>3. QED
      BY <1>4, <2>1, <2>2 DEF Follows, Nested, ES!Innermost, ES!Quiet, ES!Context
  <1>8. CASE c.op = "on_loop_start"
    <2>1. ES!Quiet(ctx) /\ ctx' = [ctx EXCEPT !.loop = TRUE]
      BY <1>8 DEF ES!Legal, ES!After
    <2>2. UNCHANGED <<rActive, rStack, rFrame>> /\ rInLoop' = TRUE
      BY <1>1, <1>8 DEF Raw!RawCall, Raw!OnLoopStartRaw
    <2>3. QED
      BY <1>4, <2>1, <2>2 DEF Follows, Nested, ES!Innermost, ES!Quiet, ES!Context
  <1>9. CASE c.op = "on_loop_end"
    <2>1. ctx.loop /\ ctx' = [ctx EXCEPT !.loop = FALSE]
      BY <1>9 DEF ES!Legal, ES!After
    <2>2. UNCHANGED <<rActive, rStack>> /\ rInLoop' = FALSE /\ (rFrame' # <<>>) = (rFrame # <<>>)
      BY <1>1, <1>9, LoopEndStays DEF Raw!RawCall
    <2>3. QED
      BY <1>4, <2>1, <2>2 DEF Follows, Nested, ES!Innermost, ES!Context
  <1>10. CASE c.op = "on_table_key"
    <2> DEFINE n == Len(rStack)
    <2>1. ES!Innermost(ctx, "key") /\ ctx' = [ctx EXCEPT !.nest[Len(ctx.nest)] = "val"]
      BY <1>10 DEF ES!Legal, ES!After, ES!Turn
    <2>2. /\ ctx.nest \in Seq(Kinds) /\ n \in DOMAIN rStack /\ DOMAIN rStack = 1..n /\ n = Len(ctx.nest)
          /\ ctx.nest[n] = "key" /\ rStack # <<>>
      BY <1>4, <2>1, SequenceBasics DEF Nested, ES!Innermost, ES!Context, Kinds
    <2>3. rStack[n].is = "table" /\ IsContainer(rStack[n])
      BY <1>4, <2>2 DEF Nested, Kind
    <2>4. /\ UNCHANGED <<rActive, rInLoop, rFrame>>
          /\ rStack' = [rStack EXCEPT ![n].key = <<c.arg>>]
      BY <1>1, <1>10, <2>2, <2>3 DEF Raw!RawCall, Raw!OnTableKeyRaw
    <2> DEFINE x == [rStack[n] EXCEPT !.key = <<c.arg>>]
    <2>5. rStack' = [rStack EXCEPT ![n] = x] /\ IsContainer(x) /\ x.is = "table"
      BY <2>3, <2>4 DEF IsContainer
    <2>6. /\ ctx'.nest \in Seq(Kinds) /\ Len(ctx'.nest) = n /\ ctx'.nest[n] = "val"
          /\ \A i \in 1..n : i # n => ctx'.nest[i] = ctx.nest[i]
          /\ ctx'.loop = ctx.loop /\ ctx'.tag = ctx.tag /\ ctx'.frame = ctx.frame
      BY <2>1, <2>2 DEF ES!Context, Kinds
    <2> HIDE DEF n, x
    <2>7. /\ IsSequence(rStack') /\ Len(rStack') = n /\ DOMAIN rStack' = DOMAIN rStack
          /\ rStack'[n] = x /\ \A j \in DOMAIN rStack : j # n => rStack'[j] = rStack[j]
      <3>1. IsSequence(rStack)
        BY <1>4 DEF Nested
      <3>2. Len(rStack) = n
        BY DEF n
      <3>3. QED
        BY <2>2, <2>5, <3>1, <3>2, ExceptIsSequence
    <2>8. \A i \in DOMAIN rStack' : IsContainer(rStack'[i]) /\ rStack'[i].is = Kind(ctx'.nest[i])
      BY <1>4, <2>2, <2>5, <2>6, <2>7 DEF Nested, Kind
    <2>9. Nested'
      BY <2>6, <2>7, <2>8 DEF Nested, ES!Innermost
    <2>10. ctx.nest # <<>> /\ ctx'.nest # <<>>
      BY <2>2, <2>6
    <2>11. QED
      BY <1>4, <2>4, <2>6, <2>9, <2>10 DEF Follows
  <1>11. CASE c.op = "add_value"
    <2>1. ctx' = IF ES!Room(ctx) THEN ES!Filled(ctx) ELSE ctx
      BY <1>11 DEF ES!After
    <2>2. PICK v : Raw!DispatchRaw(rStack, v)
      BY <1>1, <1>11 DEF Raw!RawCall, Raw!AddValueRaw
    <2>3. /\ ctx'.loop = ctx.loop /\ ctx'.frame = ctx.frame
          /\ ctx'.nest = ctx.nest \/ (ES!Innermost(ctx, "val") /\ ctx'.nest = [ctx.nest EXCEPT ![Len(ctx.nest)] = "key"])
      BY <2>1 DEF ES!Room, ES!Filled, ES!Turn, ES!Context
    <2>4. Nested'
      BY <1>3, <1>4, <2>2, <2>3, NestedAfterValue
    <2>5. ctx'.nest = <<>> <=> ctx.nest = <<>>
      BY <2>3 DEF ES!Context, ES!Innermost
    <2>6. CASE ctx.nest = <<>>
      <3>1. rActive' = IF rInLoop THEN rActive ELSE <<>>
        BY <1>5, <2>2, <2>6, DispatchStays
      <3>2. QED
        BY <1>4, <2>2, <2>3, <2>4, <3>1, DispatchStays DEF Follows
    <2>7. CASE ctx.nest # <<>>
      <3>1. rActive' = rActive
        BY <1>5, <2>2, <2>7, DispatchStays
      <3>2. QED
        BY <1>4, <2>2, <2>3, <2>4, <2>5, <2>7, <3>1, DispatchStays DEF Follows
    <2>8. QED
      BY <2>6, <2>7
  <1>12. CASE c.op \in {"on_list_start", "on_table_start"}
    <2> DEFINE kind == IF c.op = "on_list_start" THEN "list" ELSE "table"
               next == IF c.op = "on_list_start" THEN "list" ELSE "key"
               before == IF ES!Room(ctx) THEN ES!Filled(ctx) ELSE ctx
    <2>1. ctx' = [before EXCEPT !.nest = Append(before.nest, next)]
      BY <1>12 DEF ES!After, ES!Push
    <2>2. /\ before \in ES!Context /\ before.loop = ctx.loop /\ before.frame = ctx.frame
          /\ before.nest = ctx.nest \/ (ES!Innermost(ctx, "val") /\ before.nest = [ctx.nest EXCEPT ![Len(ctx.nest)] = "key"])
      BY FilledIsTyped DEF ES!Room, ES!Filled, ES!Turn, ES!Context
    <2>3. /\ rStack' = Append(rStack, [is |-> kind, items |-> <<>>, key |-> <<>>])
          /\ UNCHANGED <<rInLoop, rActive, rFrame>>
      BY <1>1, <1>12 DEF Raw!RawCall, Raw!OpenRaw
    <2>4. kind \in {"list", "table"} /\ next \in Kinds /\ Kind(next) = kind
      BY DEF Kinds, Kind
    <2> HIDE DEF kind, next, before
    <2>5. /\ ctx'.nest = Append(before.nest, next) /\ ctx'.loop = ctx.loop /\ ctx'.frame = ctx.frame
          /\ ctx'.nest # <<>>
      BY <2>1, <2>2 DEF ES!Context
    <2>6. Nested'
      BY <1>4, <2>2, <2>3, <2>4, <2>5, NestedAfterOpen
    <2>7. QED
      BY <1>4, <2>3, <2>5, <2>6 DEF Follows
  <1>13. CASE c.op \in {"on_list_end", "on_table_end"}
    <2> DEFINE kind == IF c.op = "on_list_end" THEN "list" ELSE "table"
    <2>1. kind \in {"list", "table"} /\ Raw!CloseRaw(kind)
      BY <1>1, <1>13 DEF Raw!RawCall
    <2>2. /\ ctx.nest # <<>> /\ Kind(ctx.nest[Len(ctx.nest)]) = kind
          /\ ctx' = [ctx EXCEPT !.nest = SubSeq(ctx.nest, 1, Len(ctx.nest) - 1)]
      BY <1>13 DEF ES!Legal, ES!After, ES!Innermost, ES!Drop, Kind
    <2> HIDE DEF kind
    <2>3. /\ ctx'.nest = SubSeq(ctx.nest, 1, Len(ctx.nest) - 1)
          /\ ctx'.loop = ctx.loop /\ ctx'.frame = ctx.frame /\ ctx'.tag = ctx.tag
      BY <2>2 DEF ES!Context
    <2>4. /\ Nested' /\ rInLoop' = rInLoop /\ (rFrame' # <<>>) = (rFrame # <<>>)
          /\ rActive' = IF Len(ctx.nest) = 1 /\ ~rInLoop THEN <<>> ELSE rActive
      BY <1>3, <1>4, <2>1, <2>2, <2>3, NestedAfterEnd
    <2>5. ctx'.nest = <<>> => Len(ctx.nest) = 1
      <3>1. ctx.nest \in Seq(Kinds) /\ Len(ctx.nest) \in Nat \ {0}
        BY <2>2 DEF ES!Context, Kinds
      <3>2. Len(ctx'.nest) = Len(ctx.nest) - 1
        BY <2>3, <3>1
      <3>3. QED
        BY <3>1, <3>2
    <2>6. QED
      BY <1>4, <2>3, <2>4, <2>5 DEF Follows
  <1>14. QED
    BY <1>1, <1>6, <1>7, <1>8, <1>9, <1>10, <1>11, <1>12, <1>13 DEF Ops

-----------------------------------------------------------------------------
(***************************************************************************)
(* Where the parser is.                                                    *)
(***************************************************************************)
\* Below another container a table has been told of it; outside loops a container
\* belongs to a tag; a block does not begin while a tag waits.
Outer ==
    /\ \A i \in 1..Len(stack) : i < Len(stack) => stack[i].at \in {"list", "Value"}
    /\ stack # <<>> /\ ~inLoop => activeTag # NoTag
    /\ (\E i \in DOMAIN calls : calls[i].op = "on_data_block") => activeTag = NoTag

\* What is left of the calls of a handler does not end the item of a waiting tag, with
\* n containers open.
Ends == {"on_list_end", "on_table_end"}
Keeps(cs, n) ==
    \A i \in DOMAIN cs :
        /\ cs[i].op \notin {"add_tag", "on_data_block"}
        /\ cs[i].op = "add_value" => n >= 1
        /\ cs[i].op \in Ends => i = Len(cs) /\ n >= 2
\* Or they bring the tag.
Brings(cs, t) ==
    \E i \in DOMAIN cs :
        /\ cs[i].op = "add_tag" /\ cs[i].arg = t
        /\ \A j \in DOMAIN cs : j > i => cs[j].op \in {"on_list_start", "on_table_start"}

\* The tag that waits in the parser waits in the builder.
Waits ==
    Live /\ tok # EofToken /\ activeTag # NoTag =>
        \/ rActive = <<RustFold[activeTag]>> /\ Keeps(calls, Len(ctx.nest))
        \/ Brings(calls, activeTag)

PlaceInv == alphabet \in Alphabets /\ StreamInv /\ Follows /\ Outer /\ Waits

-----------------------------------------------------------------------------
(***************************************************************************)
(* What the handlers leave to be delivered.                                *)
(***************************************************************************)
\* The calls that end a container, one by one.
LEMMA EndCallsAre ==
    ASSUME NEW f \in Frame
    PROVE  EndCalls(f) \in {<<OnListEnd>>, <<OnTableEnd>>, <<Placeholder, OnTableEnd>>,
                            <<OnTableKey(f.key), Placeholder, OnTableEnd>>}
  <1>1. CASE f.at = "list"
    BY <1>1 DEF EndCalls
  <1>2. CASE f.at = "Key"
    BY <1>2 DEF EndCalls, CleanupCalls
  <1>3. CASE f.at = "Value"
    BY <1>3, Joins DEF EndCalls, CleanupCalls
  <1>4. CASE f.at = "Colon"
    <2> DEFINE a == OnTableKey(f.key)
               b == Placeholder
    <2>1. CleanupCalls(f) = <<a>> \o <<b>>
      BY <1>4 DEF CleanupCalls
    <2>2. EndCalls(f) = Append(CleanupCalls(f), OnTableEnd)
      BY <1>4 DEF EndCalls
    <2> HIDE DEF a, b
    <2>3. CleanupCalls(f) = <<a, b>>
      BY <2>1, Joins
    <2>4. Append(<<a, b>>, OnTableEnd) = <<a, b, OnTableEnd>>
      BY Joins
    <2>5. EndCalls(f) = <<a, b, OnTableEnd>>
      BY <2>2, <2>3, <2>4
    <2>6. QED
      BY <2>5 DEF a, b
  <1>5. QED
    BY <1>1, <1>2, <1>3, <1>4 DEF Frame

\* None of them begins a block, and below another container they end no item.
LEMMA EndCallsKeep ==
    ASSUME NEW f \in Frame, NEW n \in Nat
    PROVE  /\ \A i \in DOMAIN EndCalls(f) : EndCalls(f)[i].op # "on_data_block"
           /\ n >= 2 => Keeps(EndCalls(f), n)
  <1> DEFINE cs == EndCalls(f)
  <1> SUFFICES /\ \A i \in DOMAIN cs : cs[i].op # "on_data_block"
               /\ n >= 2 => Keeps(cs, n)
    OBVIOUS
  <1>1. \/ cs = <<OnListEnd>> \/ cs = <<OnTableEnd>> \/ cs = <<Placeholder, OnTableEnd>>
        \/ cs = <<OnTableKey(f.key), Placeholder, OnTableEnd>>
    BY EndCallsAre
  <1> HIDE DEF cs
  <1>2. CASE cs = <<OnListEnd>>
    <2>1. DOMAIN cs = {1} /\ cs[1] = OnListEnd /\ Len(cs) = 1
      BY <1>2
    <2>2. QED
      BY <2>1, OpsOfCalls DEF Keeps, Ends
  <1>3. CASE cs = <<OnTableEnd>>
    <2>1. DOMAIN cs = {1} /\ cs[1] = OnTableEnd /\ Len(cs) = 1
      BY <1>3
    <2>2. QED
      BY <2>1, OpsOfCalls DEF Keeps, Ends
  <1>4. CASE cs = <<Placeholder, OnTableEnd>>
    <2>1. DOMAIN cs = {1, 2} /\ cs[1] = Placeholder /\ cs[2] = OnTableEnd /\ Len(cs) = 2
      BY <1>4
    <2>2. QED
      BY <2>1, OpsOfCalls DEF Keeps, Ends
  <1>5. CASE cs = <<OnTableKey(f.key), Placeholder, OnTableEnd>>
    <2>1. /\ DOMAIN cs = {1, 2, 3} /\ Len(cs) = 3
          /\ cs[1] = OnTableKey(f.key) /\ cs[2] = Placeholder /\ cs[3] = OnTableEnd
      BY <1>5
    <2>2. QED
      BY <2>1, OpsOfCalls DEF Keeps, Ends
  <1>6. QED
    BY <1>1, <1>2, <1>3, <1>4, <1>5

\* One or two calls that end nothing.
LEMMA FewCallsKeep ==
    ASSUME NEW n \in Nat, NEW a, NEW b,
           {a.op, b.op} \cap ({"add_tag", "on_data_block"} \cup Ends) = {},
           "add_value" \in {a.op, b.op} => n >= 1
    PROVE  /\ Keeps(<<>>, n) /\ Keeps(<<a>>, n) /\ Keeps(<<a, b>>, n)
           /\ \A cs \in {<<>>, <<a>>, <<a, b>>} : \A i \in DOMAIN cs : cs[i].op # "on_data_block"
  <1>1. ASSUME NEW cs, cs = <<>> \/ cs = <<a>> \/ cs = <<a, b>>
        PROVE  Keeps(cs, n) /\ \A i \in DOMAIN cs : cs[i].op # "on_data_block"
    <2>1. CASE cs = <<>>
      <3>1. DOMAIN cs = {}
        BY <2>1
      <3>2. QED
        BY <3>1 DEF Keeps
    <2>2. CASE cs = <<a>>
      <3>1. DOMAIN cs = {1} /\ cs[1] = a
        BY <2>2
      <3>2. QED
        BY <3>1 DEF Keeps
    <2>3. CASE cs = <<a, b>>
      <3>1. DOMAIN cs = {1, 2} /\ cs[1] = a /\ cs[2] = b
        BY <2>3
      <3>2. QED
        BY <3>1 DEF Keeps
    <2>4. QED
      BY <1>1, <2>1, <2>2, <2>3
  <1>2. QED
    BY <1>1

\* What a step of the parser does for the tag that waits.
TagKept ==
    activeTag' # NoTag /\ tok' # EofToken =>
        \/ activeTag' = activeTag /\ tok # EofToken /\ Keeps(calls', Len(ctx.nest))
        \/ Brings(calls', activeTag')

\* No call that a handler queues begins a block.
NoBlockBegins == \A i \in DOMAIN calls : calls[i].op # "on_data_block"

\* The keywords of blocks, frames and loops, and EOF, leave no tag.
LEMMA ItemEndsPlace ==
    ASSUME IInv, NEW t \in Tokens \cup {EofToken}, ClosesContainers(t), Handle(t), stack' = stack,
           activeTag' = NoTag
    PROVE  Outer' /\ TagKept
  <1>1. stack' = <<>>
    BY HandleTyped
  <1>2. Len(stack') = 0
    BY <1>1
  <1>3. QED
    BY <1>1, <1>2 DEF Outer, TagKept

LEMMA NotEof ==
    ASSUME NEW t, Current(t), t # EofToken
    PROVE  tok # EofToken
  <1>1. NoToken # EofToken
    BY DEF NoToken, EofToken, Tok
  <1>2. QED
    BY <1>1 DEF Current

LEMMA KeywordPlace ==
    ASSUME IInv, Outer, NEW t \in Tokens, HandleKeyword(t)
    PROVE  Outer' /\ TagKept
  <1>1. inLoop => activeTag = NoTag
    BY StateTyped
  <1>2. CASE HandleData(t) \/ HandleSaveStart(t) \/ HandleSaveEnd(t) \/ HandleLoop(t) \/ HandleGlobal(t)
    BY <1>1, <1>2, ItemEndsPlace DEF HandleData, HandleSaveStart, HandleSaveEnd, HandleLoop,
       HandleGlobal, EndItem, ClosesContainers
  <1>3. CASE HandleStop(t)
    <2>1. CASE inLoop
      BY <1>1, <1>3, <2>1, ItemEndsPlace DEF HandleStop, ClosesContainers
    <2>2. CASE ~inLoop
      <3>1. calls' = <<>> /\ UNCHANGED <<stack, inLoop, activeTag>> /\ tok # EofToken
        BY <1>3, <2>2, NotEof, TokensAreTyped, StateTyped DEF HandleStop, Handle, Emit, CloseLoopCalls
      <3>2. DOMAIN calls' = {}
        BY <3>1
      <3>3. QED
        BY <3>1, <3>2 DEF Outer, TagKept, Keeps
    <2>3. QED
      BY <2>1, <2>2
  <1>4. QED
    BY <1>2, <1>3 DEF HandleKeyword

LEMMA EofPlace ==
    ASSUME IInv, HandleEof
    PROVE  Outer' /\ TagKept
  BY ItemEndsPlace DEF HandleEof, ClosesContainers, EofToken, Tok

LEMMA TagPlace ==
    ASSUME IInv, NEW t \in Tokens, HandleTag(t)
    PROVE  Outer' /\ TagKept
  <1>1. stack' = <<>> /\ activeTag' = t.arg
    BY HandleTyped DEF HandleTag, ClosesContainers
  <1>2. inLoop => activeTag = NoTag
    BY StateTyped
  <1> DEFINE cs == calls'
  <1>3. cs = <<OnLoopEnd, AddTag(t.arg)>> \/ cs = <<Placeholder, AddTag(t.arg)>> \/ cs = <<AddTag(t.arg)>>
    <2> DEFINE a == AddTag(t.arg)
    <2>1. cs = (CloseLoopCalls \o CloseTagCalls) \o <<a>>
      BY DEF HandleTag, Emit
    <2> HIDE DEF a, cs
    <2>2. CASE inLoop
      <3>1. CloseLoopCalls = <<OnLoopEnd>> /\ CloseTagCalls = <<>>
        BY <1>2, <2>2 DEF CloseLoopCalls, CloseTagCalls
      <3>2. cs = <<OnLoopEnd, a>>
        BY <2>1, <3>1, Joins
      <3>3. QED
        BY <3>2 DEF a
    <2>3. CASE ~inLoop /\ activeTag # NoTag
      <3>1. CloseLoopCalls = <<>> /\ CloseTagCalls = <<Placeholder>>
        BY <2>3 DEF CloseLoopCalls, CloseTagCalls
      <3>2. cs = <<Placeholder, a>>
        BY <2>1, <3>1, Joins
      <3>3. QED
        BY <3>2 DEF a
    <2>4. CASE ~inLoop /\ activeTag = NoTag
      <3>1. CloseLoopCalls = <<>> /\ CloseTagCalls = <<>>
        BY <2>4 DEF CloseLoopCalls, CloseTagCalls
      <3>2. cs = <<a>>
        BY <2>1, <3>1, Joins
      <3>3. QED
        BY <3>2 DEF a
    <2>5. QED
      BY <2>2, <2>3, <2>4
  <1> HIDE DEF cs
  <1>4. NoBlockBegins' /\ Brings(cs, t.arg)
    <2> SUFFICES (\A i \in DOMAIN cs : cs[i].op # "on_data_block") /\ Brings(cs, t.arg)
      BY DEF NoBlockBegins, cs
    <2>1. CASE cs = <<AddTag(t.arg)>>
      <3>1. DOMAIN cs = {1} /\ cs[1] = AddTag(t.arg)
        BY <2>1
      <3>2. QED
        BY <3>1, OpsOfCalls DEF Brings
    <2>2. CASE cs # <<AddTag(t.arg)>>
      <3>1. /\ DOMAIN cs = {1, 2} /\ cs[1].op \in {"on_loop_end", "add_value"}
            /\ cs[2] = AddTag(t.arg)
        BY <1>3, <2>2, OpsOfCalls
      <3>2. QED
        BY <3>1, OpsOfCalls DEF Brings
    <2>3. QED
      BY <2>1, <2>2
  <1>5. Len(stack') = 0
    BY <1>1
  <1>6. QED
    BY <1>1, <1>4, <1>5 DEF Outer, TagKept, NoBlockBegins, cs

\* The stack that is left when a container ends, or its innermost container turns.
LEMMA OuterAfterEnd ==
    ASSUME IInv, Outer, stack # <<>>, NEW s, s = Rest \/ s = AfterClose(Rest)
    PROVE  /\ \A i \in 1..Len(s) : i < Len(s) => s[i].at \in {"list", "Value"}
           /\ Len(s) = Len(stack) - 1 /\ (s # <<>> <=> Rest # <<>>) /\ (Rest # <<>> <=> Len(stack) >= 2)
  <1>1. StackOK(Rest) /\ Len(Rest) = Len(stack) - 1 /\ \A i \in 1..Len(Rest) : Rest[i] = stack[i]
    BY StackPop DEF Rest, IInv, ControlInvariant
  <1>2. Len(stack) \in Nat \ {0} /\ Rest \in Seq(Frame) /\ (Rest # <<>> <=> Len(Rest) # 0)
    BY <1>1, TopTyped, EmptySeq DEF StackOK
  <1>3. \A i \in 1..Len(Rest) : Rest[i].at \in {"list", "Value"}
    BY <1>1, <1>2 DEF Outer
  <1>4. CASE s = Rest
    BY <1>1, <1>2, <1>3, <1>4
  <1>5. CASE s = AfterClose(Rest) /\ s # Rest
    <2>1. Rest # <<>> /\ s = [Rest EXCEPT ![Len(Rest)] = Table("Key", NoKey)]
      BY <1>5 DEF AfterClose
    <2>2. Len(s) = Len(Rest) /\ \A i \in 1..Len(Rest) - 1 : s[i] = Rest[i]
      BY <1>1, <2>1, StackSetTop, FramesAreTyped
    <2>3. Len(s) # 0 /\ s # <<>>
      BY <1>2, <2>1, <2>2
    <2>4. QED
      BY <1>1, <1>2, <1>3, <2>1, <2>2, <2>3
  <1>6. QED
    BY <1>4, <1>5

LEMMA OuterAfterTop ==
    ASSUME IInv, Outer, stack # <<>>, NEW f \in Frame, f.at = "Colon" => f.key \in Texts
    PROVE  LET s == SetTop(f) IN
           /\ \A i \in 1..Len(s) : i < Len(s) => s[i].at \in {"list", "Value"}
           /\ Len(s) = Len(stack) /\ s[Len(s)] = f
  <1> DEFINE s == SetTop(f)
  <1>1. Len(s) = Len(stack) /\ s[Len(s)] = f /\ \A i \in 1..Len(stack) - 1 : s[i] = stack[i]
    BY StackSetTop DEF SetTop, IInv, ControlInvariant
  <1>2. Len(stack) \in Nat
    BY TopTyped
  <1> HIDE DEF s
  <1>3. \A i \in 1..Len(s) : i < Len(s) => s[i].at \in {"list", "Value"}
    <2> SUFFICES ASSUME NEW i \in 1..Len(s), i < Len(s) PROVE s[i].at \in {"list", "Value"}
      OBVIOUS
    <2>1. i \in 1..Len(stack) - 1 /\ i \in 1..Len(stack) /\ i < Len(stack)
      BY <1>1, <1>2
    <2>2. QED
      BY <1>1, <2>1 DEF Outer
  <1>4. QED
    BY <1>1, <1>3 DEF s

\* The callbacks' nest is as deep as the parser's stack when all has been delivered.
LEMMA SameDepth ==
    ASSUME StreamInv, calls = <<>>
    PROVE  /\ ctx = Mirror /\ ctx \in ES!Context /\ Len(ctx.nest) = Len(stack)
           /\ Len(stack) \in Nat /\ (stack # <<>> <=> Len(stack) >= 1)
  <1>1. ctx = Mirror /\ ctx \in ES!Context
    BY NoCallsInverse DEF StreamInv
  <1>2. ctx.nest = NestOf(stack, tok = NoToken) /\ stack \in Seq(Frame)
    BY <1>1, MirrorTyped DEF StreamInv, IInv, TypeOK
  <1>3. Len(NestOf(stack, tok = NoToken)) = Len(stack)
    BY <1>2, NestTyped
  <1>4. Len(stack) \in Nat /\ (stack # <<>> <=> Len(stack) >= 1)
    BY <1>2, EmptySeq, LenProperties
  <1>5. QED
    BY <1>1, <1>2, <1>3, <1>4

LEMMA UnwindPlace ==
    ASSUME StreamInv, Outer, NEW t \in Tokens \cup {EofToken}, Unwind(t)
    PROVE  Outer' /\ TagKept
  <1>1. stack # <<>> /\ stack' = Rest /\ calls' = EndCalls(Top) /\ tok' = t /\ inLoop' = inLoop /\ calls = <<>>
    BY DEF Unwind, Emit, Current
  <1>2. IInv /\ Len(ctx.nest) = Len(stack) /\ Len(stack) \in Nat /\ Top \in Frame
    BY <1>1, SameDepth, TopTyped DEF StreamInv
  <1>3. /\ \A i \in 1..Len(stack') : i < Len(stack') => stack'[i].at \in {"list", "Value"}
        /\ Rest # <<>> <=> Len(stack) >= 2
    BY <1>1, <1>2, OuterAfterEnd
  <1>4. NoBlockBegins' /\ (Rest # <<>> => Keeps(calls', Len(ctx.nest)))
    BY <1>1, <1>2, <1>3, EndCallsKeep DEF NoBlockBegins
  <1>5. Rest # <<>> => activeTag' = activeTag
    BY DEF Unwind
  <1>6. Outer'
    BY <1>1, <1>3, <1>4, <1>5 DEF Outer, NoBlockBegins
  <1>7. TagKept
    <2> SUFFICES ASSUME activeTag' # NoTag, tok' # EofToken
                 PROVE  activeTag' = activeTag /\ tok # EofToken /\ Keeps(calls', Len(ctx.nest))
      BY DEF TagKept
    <2>1. t # EofToken /\ Rest # <<>>
      BY <1>1 DEF Unwind
    <2>2. tok # EofToken
      BY <2>1, NotEof DEF Unwind
    <2>3. QED
      BY <1>4, <1>5, <2>1, <2>2
  <1>8. QED
    BY <1>6, <1>7

LEMMA CloseContainerPlace ==
    ASSUME StreamInv, Outer, NEW t \in Tokens, CloseContainer(t), stack # <<>>
    PROVE  Outer' /\ TagKept
  <1>1. stack' = AfterClose(Rest) /\ calls' = EndCalls(Top) /\ inLoop' = inLoop /\ calls = <<>> /\ tok # EofToken
    BY NotEof, TokensAreTyped DEF CloseContainer, Emit, Handle, Current
  <1>2. IInv /\ Len(ctx.nest) = Len(stack) /\ Len(stack) \in Nat /\ Top \in Frame /\ tagBase = 0
    BY <1>1, SameDepth, TopTyped, StateTyped DEF StreamInv
  <1>3. /\ \A i \in 1..Len(stack') : i < Len(stack') => stack'[i].at \in {"list", "Value"}
        /\ Rest # <<>> <=> Len(stack) >= 2
        /\ stack' # <<>> <=> Rest # <<>>
    BY <1>1, <1>2, OuterAfterEnd
  <1>4. NoBlockBegins' /\ (Rest # <<>> => Keeps(calls', Len(ctx.nest)))
    BY <1>1, <1>2, <1>3, EndCallsKeep DEF NoBlockBegins
  <1>5. activeTag' = IF Rest # <<>> THEN activeTag ELSE NoTag
    <2>1. Len(Rest) = Len(stack) - 1
      BY <1>2, OuterAfterEnd
    <2>2. activeTag' = IF Len(Rest) = 0 THEN NoTag ELSE activeTag
      BY <1>2 DEF CloseContainer
    <2>3. QED
      BY <1>2, <1>3, <2>1, <2>2
  <1>6. QED
    BY <1>1, <1>3, <1>4, <1>5 DEF Outer, NoBlockBegins, TagKept

\* A container: it tells the table it is in, and brings a tag if it has none.
LEMMA OpenContainerPlace ==
    ASSUME StreamInv, Outer, NEW t \in Tokens, NEW x, NEW f \in Frame, NEW call \in {OnListStart, OnTableStart},
           f.at # "Colon", OpenContainer(t, x, f, call)
    PROVE  Outer' /\ TagKept
  <1>1. /\ stack' = Append(ParentTold, f) /\ inLoop' = inLoop /\ calls = <<>> /\ tok # EofToken
        /\ activeTag' = IF Orphan THEN ErrorTag ELSE activeTag
        /\ calls' = ((IF Orphan THEN <<AddTag(ErrorTag)>> ELSE <<>>) \o ParentCalls) \o <<call>>
    BY NotEof, TokensAreTyped DEF OpenContainer, Emit, Handle, Current
  <1>2. IInv /\ Len(ctx.nest) = Len(stack) /\ Len(stack) \in Nat /\ stack \in Seq(Frame)
    BY <1>1, SameDepth, StateTyped DEF StreamInv, IInv, TypeOK
  <1>3. /\ ParentTold \in Seq(Frame) /\ Len(ParentTold) = Len(stack)
        /\ \A i \in 1..Len(ParentTold) : ParentTold[i].at \in {"list", "Value"}
    <2>1. CASE InTable
      <3>1. ParentTold = SetTop(Table("Value", NoKey)) /\ stack # <<>>
        BY <2>1 DEF ParentTold, InTable
      <3>2. Table("Value", NoKey) \in Frame /\ Table("Value", NoKey).at = "Value"
        BY FramesAreTyped
      <3>3. StackOK(ParentTold)
        BY <1>2, <3>1, <3>2, StackSetTop DEF SetTop, IInv, ControlInvariant
      <3>4. QED
        BY <1>2, <3>1, <3>2, <3>3, OuterAfterTop DEF StackOK
    <2>2. CASE ~InTable
      <3>1. ParentTold = stack /\ (stack # <<>> => stack[Len(stack)].at = "list")
        BY <2>2 DEF ParentTold, InTable, Top
      <3>2. QED
        BY <1>2, <3>1, EmptySeq DEF Outer
    <2>3. QED
      BY <2>1, <2>2
  <1>4. /\ Len(stack') = Len(stack) + 1
        /\ \A i \in 1..Len(stack') : i < Len(stack') => stack'[i].at \in {"list", "Value"}
    BY <1>1, <1>2, <1>3, AppendProperties
  <1>5. CASE Orphan
    <2>1. ParentCalls = <<>>
      BY <1>5 DEF Orphan, ParentCalls, InTable
    <2> DEFINE a == AddTag(ErrorTag)
               cs == calls'
    <2>2. cs = (<<a>> \o <<>>) \o <<call>>
      BY <1>1, <1>5, <2>1
    <2> HIDE DEF a, cs
    <2>3. cs = <<a, call>>
      BY <2>2, Joins
    <2>4. DOMAIN cs = {1, 2} /\ cs[1] = a /\ cs[2] = call
      BY <2>3
    <2>5. a.op = "add_tag" /\ a.arg = ErrorTag /\ call.op \in {"on_list_start", "on_table_start"}
      BY OpsOfCalls DEF a
    <2>6. NoBlockBegins' /\ Brings(cs, ErrorTag)
      BY <2>4, <2>5 DEF NoBlockBegins, Brings, cs
    <2>7. activeTag' = ErrorTag /\ ErrorTag # NoTag
      BY <1>1, <1>5, ConstantsAssumption DEF AllTags
    <2>8. QED
      BY <1>4, <2>6, <2>7 DEF Outer, NoBlockBegins, TagKept, cs
  <1>6. CASE ~Orphan
    <2> DEFINE a == OnTableKey(Top.key)
               cs == calls'
    <2>1. ParentCalls = <<>> \/ ParentCalls = <<a>>
      BY DEF ParentCalls
    <2>2. cs = (<<>> \o ParentCalls) \o <<call>>
      BY <1>1, <1>6
    <2>3. a.op = "on_table_key" /\ call.op \in {"on_list_start", "on_table_start"}
      BY OpsOfCalls
    <2> HIDE DEF a, cs
    <2>4. cs = <<call>> \/ cs = <<a, call>>
      BY ZenonT(30), <2>1, <2>2, Joins
    <2>5. Keeps(cs, Len(ctx.nest)) /\ \A i \in DOMAIN cs : cs[i].op # "on_data_block"
      <3>1. CASE cs = <<call>>
        BY <1>2, <2>3, <3>1, FewCallsKeep DEF Ends
      <3>2. CASE cs = <<a, call>>
        BY <1>2, <2>3, <3>2, FewCallsKeep DEF Ends
      <3>3. QED
        BY <2>4, <3>1, <3>2
    <2>6. ~inLoop => activeTag # NoTag
      BY <1>6 DEF Orphan, Outer
    <2>7. QED
      BY <1>1, <1>4, <1>6, <2>5, <2>6 DEF Outer, TagKept, cs
  <1>7. QED
    BY <1>5, <1>6

\* A token that leaves the stack and the tag as they are, or only the innermost table.
LEMMA InPlace ==
    ASSUME StreamInv, Outer, NEW t \in Tokens, Handle(t), UNCHANGED <<inLoop, activeTag>>,
           stack' = stack \/ (stack # <<>> /\ \E f \in Frame : (f.at = "Colon" => f.key \in Texts) /\ stack' = SetTop(f)),
           NoBlockBegins', activeTag # NoTag => Keeps(calls', Len(ctx.nest))
    PROVE  Outer' /\ TagKept
  <1>1. tok # EofToken /\ IInv /\ stack \in Seq(Frame)
    BY NotEof, TokensAreTyped DEF Handle, StreamInv, IInv, TypeOK
  <1>2. TagKept
    BY <1>1 DEF TagKept
  <1>3. CASE stack' = stack
    BY <1>2, <1>3 DEF Outer, NoBlockBegins
  <1>4. CASE stack # <<>> /\ stack' # stack
    <2>1. PICK f \in Frame : (f.at = "Colon" => f.key \in Texts) /\ stack' = SetTop(f)
      BY <1>4
    <2>2. \A i \in 1..Len(stack') : i < Len(stack') => stack'[i].at \in {"list", "Value"}
      BY <1>1, <1>4, <2>1, OuterAfterTop
    <2>3. QED
      BY <1>2, <1>4, <2>2 DEF Outer, NoBlockBegins
  <1>5. QED
    BY <1>3, <1>4

\* At most two calls that are neither tags nor ends.
LEMMA FewCallsInPlace ==
    ASSUME StreamInv, Outer, NEW t \in Tokens, Handle(t), UNCHANGED <<inLoop, activeTag>>,
           stack' = stack \/ (stack # <<>> /\ \E f \in Frame : (f.at = "Colon" => f.key \in Texts) /\ stack' = SetTop(f)),
           NEW a, NEW b, {a.op, b.op} \subseteq {"on_table_key", "add_value"},
           calls' \in {<<>>, <<a>>, <<a, b>>},
           calls' = <<>> \/ (calls' = <<a>> /\ a.op = "on_table_key") \/ stack # <<>> \/ activeTag = NoTag
    PROVE  Outer' /\ TagKept
  <1>1. Len(ctx.nest) \in Nat /\ (stack # <<>> => Len(ctx.nest) >= 1)
    BY SameDepth DEF Handle, Current
  <1>2. NoBlockBegins'
    <2>1. {a.op, b.op} \cap ({"add_tag", "on_data_block"} \cup Ends) = {}
      BY DEF Ends
    <2>2. \A cs \in {<<>>, <<a>>, <<a, b>>} : \A i \in DOMAIN cs : cs[i].op # "on_data_block"
      <3>1. 1 \in Nat /\ 1 >= 1
        OBVIOUS
      <3>2. QED
        BY <2>1, <3>1, FewCallsKeep
    <2>3. QED
      BY <2>2 DEF NoBlockBegins
  <1>3. activeTag # NoTag => Keeps(calls', Len(ctx.nest))
    <2> SUFFICES ASSUME activeTag # NoTag PROVE Keeps(calls', Len(ctx.nest))
      OBVIOUS
    <2> DEFINE cs == calls'
    <2>1. cs \in {<<>>, <<a>>, <<a, b>>}
      OBVIOUS
    <2>2. cs = <<>> \/ (cs = <<a>> /\ a.op = "on_table_key") \/ Len(ctx.nest) >= 1
      BY <1>1
    <2> HIDE DEF cs
    <2>3. CASE cs = <<>>
      <3>1. DOMAIN cs = {}
        BY <2>3
      <3>2. Keeps(cs, Len(ctx.nest))
        BY <3>1 DEF Keeps
      <3>3. QED
        BY <3>2 DEF cs
    <2>4. CASE cs = <<a>> /\ a.op = "on_table_key"
      <3>1. {a.op, a.op} \cap ({"add_tag", "on_data_block"} \cup Ends) = {}
        BY <2>4 DEF Ends
      <3>2. Keeps(<<a>>, Len(ctx.nest))
        BY <1>1, <2>4, <3>1, FewCallsKeep
      <3>3. QED
        BY <2>4, <3>2 DEF cs
    <2>5. CASE Len(ctx.nest) >= 1
      <3>1. {a.op, b.op} \cap ({"add_tag", "on_data_block"} \cup Ends) = {}
        BY DEF Ends
      <3>2. Keeps(<<>>, Len(ctx.nest)) /\ Keeps(<<a>>, Len(ctx.nest)) /\ Keeps(<<a, b>>, Len(ctx.nest))
        BY <1>1, <2>5, <3>1, FewCallsKeep
      <3>3. QED
        BY <2>1, <3>2 DEF cs
    <2>6. QED
      BY <2>2, <2>3, <2>4, <2>5
  <1>4. QED
    BY <1>2, <1>3, InPlace

LEMMA ValuePlace ==
    ASSUME StreamInv, Outer, NEW t \in Tokens, HandleValue(t)
    PROVE  Outer' /\ TagKept
  <1>0. IInv /\ (inLoop => activeTag = NoTag) /\ (t.kind = "value" => t.arg \in Texts)
    BY StateTyped, TokensAreTyped DEF StreamInv
  <1> DEFINE key == OnTableKey(Top.key)
             val == AddValue(t.arg, t.form)
  <1>1. key.op = "on_table_key" /\ val.op = "add_value"
    BY OpsOfCalls
  <1> HIDE DEF key, val
  <1>2. CASE OpenList(t)
    BY <1>2, OpenContainerPlace, FramesAreTyped DEF OpenList
  <1>3. CASE OpenTable(t)
    <2>1. Table("Key", NoKey) \in Frame /\ Table("Key", NoKey).at = "Key"
      BY FramesAreTyped
    <2>2. QED
      BY <1>3, <2>1, OpenContainerPlace DEF OpenTable
  <1>4. CASE CloseList(t) \/ CloseTable(t)
    BY <1>4, CloseContainerPlace DEF CloseList, CloseTable, InList, InTable
  <1>5. CASE UnexpectedClose(t) \/ UnexpectedColon(t)
    <2>1. Handle(t) /\ UNCHANGED <<inLoop, activeTag, stack>> /\ calls' = <<>>
      BY <1>5 DEF UnexpectedClose, UnexpectedColon, Ignore, Emit, ctrl
    <2>2. QED
      BY <1>1, <2>1, FewCallsInPlace
  <1>6. CASE HandleColon(t)
    <2>1. Handle(t) /\ UNCHANGED <<inLoop, activeTag>> /\ calls' = <<key>> /\ stack # <<>>
      BY <1>6 DEF HandleColon, IsColon, InTable, Emit, ctrl, key
    <2>2. stack' = SetTop(Table("Value", NoKey))
      BY <1>6 DEF HandleColon
    <2>3. Table("Value", NoKey) \in Frame /\ Table("Value", NoKey).at = "Value"
      BY FramesAreTyped
    <2>4. \E f \in Frame : (f.at = "Colon" => f.key \in Texts) /\ stack' = SetTop(f)
      BY <2>2, <2>3
    <2>5. QED
      BY <1>1, <2>1, <2>4, FewCallsInPlace
  <1>7. CASE ScalarAsKey(t)
    <2>1. Handle(t) /\ UNCHANGED <<inLoop, activeTag>> /\ calls' = <<>> /\ stack # <<>>
      BY <1>7 DEF ScalarAsKey, InTable, Emit, ctrl
    <2>2. stack' = SetTop(Table("Colon", t.arg)) /\ t.arg \in Texts
      BY <1>0, <1>7 DEF ScalarAsKey, IsScalar
    <2>3. Table("Colon", t.arg) \in Frame /\ Table("Colon", t.arg).key = t.arg
      BY <2>2, FramesAreTyped
    <2>4. \E f \in Frame : (f.at = "Colon" => f.key \in Texts) /\ stack' = SetTop(f)
      BY <2>2, <2>3
    <2>5. QED
      BY <1>1, <2>1, <2>4, FewCallsInPlace
  <1>8. CASE ScalarInTable(t)
    <2>1. /\ Handle(t) /\ UNCHANGED <<inLoop, activeTag>> /\ stack # <<>>
          /\ calls' = (IF Top.at = "Colon" THEN <<key>> ELSE <<>>) \o <<val>>
      BY <1>8 DEF ScalarInTable, InTable, Emit, ctrl, key, val
    <2>2. stack' = SetTop(Table("Key", NoKey))
      BY <1>8 DEF ScalarInTable
    <2>3. Table("Key", NoKey) \in Frame /\ Table("Key", NoKey).at = "Key"
      BY FramesAreTyped
    <2>4. \E f \in Frame : (f.at = "Colon" => f.key \in Texts) /\ stack' = SetTop(f)
      BY <2>2, <2>3
    <2>5. CASE Top.at = "Colon"
      <3>1. calls' = <<key, val>>
        BY <2>1, <2>5, Joins
      <3>2. QED
        BY <1>1, <2>1, <2>4, <3>1, FewCallsInPlace
    <2>6. CASE Top.at # "Colon"
      <3>1. calls' = <<val>>
        BY <2>1, <2>6, Joins
      <3>2. QED
        BY <1>1, <2>1, <2>4, <3>1, FewCallsInPlace
    <2>7. QED
      BY <2>5, <2>6
  <1>9. CASE ScalarInList(t) \/ ScalarInLoop(t)
    <2>1. /\ Handle(t) /\ UNCHANGED <<inLoop, activeTag, stack>> /\ calls' = <<val>>
          /\ stack # <<>> \/ activeTag = NoTag
      BY <1>0, <1>9 DEF ScalarInList, ScalarInLoop, InList, Emit, ctrl, val
    <2>2. QED
      BY <1>1, <2>1, FewCallsInPlace
  <1>10. CASE ScalarOfTag(t) \/ OrphanScalar(t)
    <2>1. stack' = <<>> /\ activeTag' = NoTag
      BY <1>10 DEF ScalarOfTag, OrphanScalar, Orphan, ctrl
    <2>2. Len(stack') = 0
      BY <2>1
    <2>3. QED
      BY <2>1, <2>2 DEF Outer, TagKept
  <1>11. QED
    BY <1>2, <1>3, <1>4, <1>5, <1>6, <1>7, <1>8, <1>9, <1>10 DEF HandleValue

LEMMA ParsePlace ==
    ASSUME StreamInv, Outer, Parse
    PROVE  Outer' /\ TagKept
  <1>1. IInv
    BY DEF StreamInv
  <1>2. ASSUME NEW t \in Tokens, HandleKeyword(t) \/ HandleTag(t) \/ HandleValue(t)
        PROVE  Outer' /\ TagKept
    BY <1>1, <1>2, KeywordPlace, TagPlace, ValuePlace
  <1>3. CASE HandleEof
    BY <1>1, <1>3, EofPlace
  <1>4. QED
    BY <1>2, <1>3, UnwindPlace DEF Parse, ParseFrom

-----------------------------------------------------------------------------
(***************************************************************************)
(* The pipeline takes the steps of ParserStream.                           *)
(***************************************************************************)
LEMMA ReadFileParses ==
    ASSUME alphabet \in Alphabets, ReadFile
    PROVE  Parse /\ UNCHANGED <<ctx, alphabet, builders, sent, misplaced>>
  <1>1. alphabet \subseteq Tokens
    BY AlphabetsAssumption
  <1>2. QED
    BY <1>1 DEF ReadFile, Parse, ParseFrom

LEMMA PipelineSteps ==
    ASSUME alphabet \in Alphabets, [PipelineNext]_pipelineVars
    PROVE  [Next]_vars /\ alphabet' = alphabet
  <1>1. CASE ReadFile
    BY <1>1, ReadFileParses DEF Next
  <1>2. CASE Build
    BY <1>2 DEF Build, Next
  <1>3. CASE PipelineDone \/ UNCHANGED pipelineVars
    BY <1>3 DEF PipelineDone, pipelineVars
  <1>4. QED
    BY <1>1, <1>2, <1>3 DEF PipelineNext

\* What the pipeline does to the parser and the context of its callbacks is what
\* ParserStream allows, so that all its theorems hold here.
THEOREM RefinesStream == PipelineSpec => Spec
  <1>1. PipelineInit => StreamInit /\ alphabet \in Alphabets
    BY DEF PipelineInit
  <1>2. alphabet \in Alphabets /\ [PipelineNext]_pipelineVars => (alphabet \in Alphabets)'
    BY PipelineSteps
  <1>3. alphabet \in Alphabets /\ [PipelineNext]_pipelineVars => [Next]_vars
    BY PipelineSteps
  <1>4. QED
    BY <1>1, <1>2, <1>3, PTL DEF PipelineSpec, Spec

-----------------------------------------------------------------------------
(***************************************************************************)
(* The tag that waits.                                                     *)
(***************************************************************************)
LEMMA ReadPlace ==
    ASSUME alphabet \in Alphabets, StreamInv, Outer, Follows, Waits, ReadFile
    PROVE  Outer' /\ Follows' /\ Waits'
  <1>1. Parse /\ UNCHANGED <<ctx, rStopped, rBlock, rFrame, rInLoop, rActive, rStack>>
    BY ReadFileParses DEF builders
  <1>2. Outer' /\ TagKept
    BY <1>1, ParsePlace
  <1>3. Follows'
    BY <1>1 DEF Follows, Live, Nested, ES!Innermost
  <1>4. calls = <<>>
    BY <1>1, ParseLeads DEF StreamInv
  <1>5. ~Brings(calls, activeTag)
    <2>1. DOMAIN calls = {}
      BY <1>4
    <2>2. QED
      BY <2>1 DEF Brings
  <1>6. Waits'
    BY <1>1, <1>2, <1>5 DEF Waits, TagKept, Live
  <1>7. QED
    BY <1>2, <1>3, <1>6

\* A call that neither ends a container nor brings a tag leaves the tag that waits, and
\* takes no container away.
LEMMA ActiveStays ==
    ASSUME Live, Nested, NEW c \in Call, Raw!RawCall(c), c.op \notin {"add_tag", "on_data_block"} \cup Ends,
           c.op = "add_value" => rStack # <<>>
    PROVE  rActive' = rActive /\ IsSequence(rStack') /\ Len(rStack') >= Len(rStack)
  <1>1. c.op \in Ops /\ ~rStopped /\ IsSequence(rStack) /\ Len(rStack) \in Nat
    BY SequenceBasics DEF Call, Live, Nested
  <1>2. CASE c.op = "add_value"
    <2>1. PICK v : Raw!DispatchRaw(rStack, v)
      BY <1>1, <1>2 DEF Raw!RawCall, Raw!AddValueRaw
    <2>2. IsSequence(rStack') /\ Len(rStack') = Len(rStack)
      BY <1>1, <2>1, DispatchNested DEF Nested
    <2>3. QED
      BY <1>1, <1>2, <2>1, <2>2, DispatchStays
  <1>3. CASE c.op \in {"on_list_start", "on_table_start"}
    <2>1. PICK kind : Raw!OpenRaw(kind)
      BY <1>1, <1>3 DEF Raw!RawCall
    <2>2. QED
      BY <1>1, <2>1, AppendIsSequence DEF Raw!OpenRaw
  <1>4. CASE c.op = "on_table_key"
    <2>1. rActive' = rActive
      BY <1>1, <1>4 DEF Raw!RawCall, Raw!OnTableKeyRaw
    <2>2. CASE rStack # <<>> /\ rStack[Len(rStack)].is = "table"
      <3> DEFINE n == Len(rStack)
                 x == [rStack[n] EXCEPT !.key = <<c.arg>>]
      <3>1. n \in DOMAIN rStack /\ rStack' = [rStack EXCEPT ![n] = x]
        BY <1>1, <1>4, <2>2, SequenceBasics DEF Raw!RawCall, Raw!OnTableKeyRaw
      <3> HIDE DEF n, x
      <3>2. IsSequence(rStack') /\ Len(rStack') = Len(rStack)
        BY <1>1, <3>1, ExceptIsSequence
      <3>3. QED
        BY <1>1, <2>1, <3>2
    <2>3. CASE ~(rStack # <<>> /\ rStack[Len(rStack)].is = "table")
      BY <1>1, <1>4, <2>1, <2>3 DEF Raw!RawCall, Raw!OnTableKeyRaw
    <2>4. QED
      BY <2>2, <2>3
  <1>5. CASE c.op = "on_save_frame_start"
    <2>1. Raw!OnSaveFrameStartRaw(c.arg)
      BY <1>1, <1>5 DEF Raw!RawCall
    <2>2. UNCHANGED <<rActive, rStack>>
      BY <2>1 DEF Raw!OnSaveFrameStartRaw, Raw!rItem, Raw!rVars
    <2>3. QED
      BY <1>1, <2>2
  <1>6. CASE c.op = "on_save_frame_end"
    BY <1>1, <1>6 DEF Raw!RawCall, Raw!OnSaveFrameEndRaw, Raw!rItem
  <1>7. CASE c.op = "on_loop_start"
    BY <1>1, <1>7 DEF Raw!RawCall, Raw!OnLoopStartRaw
  <1>8. CASE c.op = "on_loop_end"
    BY <1>1, <1>8, LoopEndStays DEF Raw!RawCall
  <1>9. QED
    BY <1>1, <1>2, <1>3, <1>4, <1>5, <1>6, <1>7, <1>8 DEF Ops, Ends

\* The rest of a queue that keeps a tag keeps it, and so does what follows the tag.
LEMMA RestKeeps ==
    ASSUME calls \in Seq(Call), calls # <<>>, NEW n \in Nat, NEW m \in Nat, Keeps(calls, n),
           m >= n \/ Head(calls).op \in Ends
    PROVE  Keeps(Tail(calls), m)
  <1>1. /\ Len(calls) \in Nat \ {0} /\ Len(Tail(calls)) = Len(calls) - 1 /\ Head(calls) = calls[1]
        /\ DOMAIN calls = 1..Len(calls) /\ DOMAIN Tail(calls) = 1..Len(calls) - 1
        /\ \A i \in 1..Len(calls) - 1 : Tail(calls)[i] = calls[i + 1]
    BY EmptySeq, HeadTailProperties
  <1>2. SUFFICES ASSUME NEW i \in DOMAIN Tail(calls)
                 PROVE  /\ Tail(calls)[i].op \notin {"add_tag", "on_data_block"}
                        /\ Tail(calls)[i].op = "add_value" => m >= 1
                        /\ Tail(calls)[i].op \in Ends => i = Len(Tail(calls)) /\ m >= 2
    BY DEF Keeps
  <1>3. i + 1 \in DOMAIN calls /\ 1 \in DOMAIN calls /\ Tail(calls)[i] = calls[i + 1] /\ i \in Nat
    BY <1>1
  <1>4. m >= n
    <2>1. Head(calls).op \in Ends => 1 = Len(calls)
      BY <1>1, <1>3 DEF Keeps
    <2>2. QED
      BY <1>1, <2>1
  <1>5. /\ calls[i + 1].op \notin {"add_tag", "on_data_block"}
        /\ calls[i + 1].op = "add_value" => n >= 1
        /\ calls[i + 1].op \in Ends => i + 1 = Len(calls) /\ n >= 2
    BY <1>3 DEF Keeps
  <1>6. (n >= 1 => m >= 1) /\ (n >= 2 => m >= 2) /\ (i + 1 = Len(calls) => i = Len(Tail(calls)))
    <2>1. (n >= 1 => m >= 1) /\ (n >= 2 => m >= 2)
      BY <1>4
    <2>2. Len(Tail(calls)) = Len(calls) - 1 /\ Len(calls) \in Nat
      BY <1>1
    <2> DEFINE k == Len(calls)
               l == Len(Tail(calls))
    <2>3. l = k - 1 /\ k \in Nat /\ i \in Nat
      BY <1>3, <2>2
    <2> HIDE DEF k, l
    <2>4. i + 1 = k => i = l
      BY <2>3
    <2>5. QED
      BY <2>1, <2>4 DEF k, l
  <1>7. QED
    BY <1>3, <1>5, <1>6

LEMMA RestBrings ==
    ASSUME calls \in Seq(Call), calls # <<>>, NEW t, Brings(calls, t)
    PROVE  \/ Brings(Tail(calls), t)
           \/ Head(calls).op = "add_tag" /\ Head(calls).arg = t /\ \A m \in Nat : Keeps(Tail(calls), m)
  <1>1. /\ Len(calls) \in Nat \ {0} /\ Len(Tail(calls)) = Len(calls) - 1 /\ Head(calls) = calls[1]
        /\ DOMAIN calls = 1..Len(calls) /\ DOMAIN Tail(calls) = 1..Len(calls) - 1
        /\ \A i \in 1..Len(calls) - 1 : Tail(calls)[i] = calls[i + 1]
    BY EmptySeq, HeadTailProperties
  <1>2. PICK i \in DOMAIN calls :
            /\ calls[i].op = "add_tag" /\ calls[i].arg = t
            /\ \A j \in DOMAIN calls : j > i => calls[j].op \in {"on_list_start", "on_table_start"}
    BY DEF Brings
  <1> DEFINE cs == Tail(calls)
  <1>3. CASE i = 1
    <2>1. \A j \in DOMAIN cs : cs[j].op \in {"on_list_start", "on_table_start"}
      <3> SUFFICES ASSUME NEW j \in DOMAIN cs PROVE cs[j].op \in {"on_list_start", "on_table_start"}
        OBVIOUS
      <3>1. j + 1 \in DOMAIN calls /\ j + 1 > i /\ cs[j] = calls[j + 1]
        BY <1>1, <1>3
      <3>2. QED
        BY <1>2, <3>1
    <2>2. \A m \in Nat : Keeps(cs, m)
      BY <2>1 DEF Keeps, Ends
    <2>3. QED
      BY <1>1, <1>2, <1>3, <2>2
  <1>4. CASE i # 1
    <2>1. i - 1 \in DOMAIN cs /\ cs[i - 1] = calls[i]
      BY <1>1, <1>4
    <2>2. \A j \in DOMAIN cs : j > i - 1 => cs[j].op \in {"on_list_start", "on_table_start"}
      <3> SUFFICES ASSUME NEW j \in DOMAIN cs, j > i - 1 PROVE cs[j].op \in {"on_list_start", "on_table_start"}
        OBVIOUS
      <3>1. j + 1 \in DOMAIN calls /\ j + 1 > i /\ cs[j] = calls[j + 1]
        BY <1>1
      <3>2. QED
        BY <1>2, <3>1
    <2> HIDE DEF cs
    <2>3. Brings(cs, t)
      BY <1>2, <2>1, <2>2 DEF Brings
    <2>4. QED
      BY <2>3 DEF cs
  <1>5. QED
    BY <1>3, <1>4

LEMMA BuildPlace ==
    ASSUME StreamInv, Outer, Follows, Waits, Build
    PROVE  Outer' /\ Follows' /\ Waits'
  <1> DEFINE c == Head(calls)
  <1>1. /\ StreamInv' /\ c \in Call /\ ctx \in ES!Context /\ ES!Legal(ctx, c)
        /\ ctx' = ES!After(ctx, c) /\ calls # <<>> /\ calls' = Tail(calls) /\ Raw!RawCall(c)
        /\ UNCHANGED <<activeTag, tok, stack, inLoop>> /\ calls \in Seq(Call)
    BY DeliverLeads DEF Build, Deliver, ctrl, source, StreamInv, IInv, TypeOK
  <1>2. /\ Len(calls) \in Nat \ {0} /\ c = calls[1] /\ DOMAIN calls = 1..Len(calls)
        /\ DOMAIN Tail(calls) = 1..Len(calls) - 1
        /\ \A i \in 1..Len(calls) - 1 : Tail(calls)[i] = calls[i + 1]
    BY <1>1, EmptySeq, HeadTailProperties
  <1> HIDE DEF c
  <1>3. Follows'
    BY <1>1, FollowsStep
  <1>4. Outer'
    <2>1. (\E i \in DOMAIN calls' : calls'[i].op = "on_data_block")
              => \E i \in DOMAIN calls : calls[i].op = "on_data_block"
      <3> SUFFICES ASSUME NEW i \in DOMAIN calls', calls'[i].op = "on_data_block"
                   PROVE  \E j \in DOMAIN calls : calls[j].op = "on_data_block"
        OBVIOUS
      <3>1. i + 1 \in DOMAIN calls /\ calls[i + 1].op = "on_data_block"
        BY <1>1, <1>2
      <3>2. QED
        BY <3>1
    <2>2. QED
      BY <1>1, <2>1 DEF Outer
  <1>5. Waits'
    <2> SUFFICES ASSUME Live', tok # EofToken, activeTag # NoTag
                 PROVE  \/ rActive' = <<RustFold[activeTag]>> /\ Keeps(calls', Len(ctx'.nest))
                        \/ Brings(calls', activeTag)
      BY <1>1 DEF Waits
    <2>1. c.op # "on_data_block" /\ 1 \in DOMAIN calls
      BY <1>2 DEF Outer
    <2>2. Live
      BY <1>1, <2>1, LiveOnlyByBlock
    <2>3. /\ Nested /\ Nested' /\ Len(rStack) = Len(ctx.nest) /\ Len(rStack') = Len(ctx'.nest)
          /\ Len(rStack) \in Nat /\ Len(rStack') \in Nat /\ (rStack # <<>> <=> Len(rStack) >= 1)
          /\ rInLoop = ctx.loop
      BY <1>3, <2>2, SequenceBasics DEF Follows, Nested
    <2>4. CASE rActive = <<RustFold[activeTag]>> /\ Keeps(calls, Len(ctx.nest))
      <3>1. /\ c.op \notin {"add_tag", "on_data_block"}
            /\ c.op = "add_value" => rStack # <<>>
            /\ c.op \in Ends => Len(rStack) >= 2
        BY <1>2, <2>1, <2>3, <2>4 DEF Keeps
      <3>2. rActive' = rActive /\ (Len(ctx'.nest) >= Len(ctx.nest) \/ c.op \in Ends)
        <4>1. CASE c.op \notin Ends
          BY <1>1, <2>2, <2>3, <3>1, <4>1, ActiveStays
        <4>2. CASE c.op \in Ends
          <5> DEFINE kind == IF c.op = "on_list_end" THEN "list" ELSE "table"
          <5>1. kind \in {"list", "table"} /\ Raw!CloseRaw(kind)
            BY <1>1, <2>2, <4>2 DEF Raw!RawCall, Live, Ends
          <5>2. /\ ctx.nest # <<>> /\ Kind(ctx.nest[Len(ctx.nest)]) = kind
                /\ ctx' = [ctx EXCEPT !.nest = SubSeq(ctx.nest, 1, Len(ctx.nest) - 1)]
            BY <1>1, <4>2 DEF ES!Legal, ES!After, ES!Innermost, ES!Drop, Kind, Ends
          <5> HIDE DEF kind
          <5>3. ctx'.nest = SubSeq(ctx.nest, 1, Len(ctx.nest) - 1)
            BY <1>1, <5>2 DEF ES!Context
          <5>4. rActive' = IF Len(ctx.nest) = 1 /\ ~rInLoop THEN <<>> ELSE rActive
            BY <1>1, <2>2, <2>3, <5>1, <5>2, <5>3, NestedAfterEnd
          <5>5. Len(ctx.nest) # 1
            <6>1. Len(rStack) >= 2 /\ Len(rStack) = Len(ctx.nest) /\ Len(rStack) \in Nat
              BY <2>3, <3>1, <4>2
            <6>2. \A k \in Nat : k >= 2 => k # 1
              OBVIOUS
            <6>3. QED
              BY <6>1, <6>2, Zenon
          <5>6. QED
            BY <4>2, <5>4, <5>5
        <4>3. QED
          BY <4>1, <4>2
      <3>3. Keeps(calls', Len(ctx'.nest))
        BY <1>1, <2>3, <2>4, <3>2, RestKeeps DEF c
      <3>4. QED
        BY <2>4, <3>2, <3>3
    <2>5. CASE Brings(calls, activeTag)
      <3>1. CASE Brings(Tail(calls), activeTag)
        BY <1>1, <3>1
      <3>2. CASE c.op = "add_tag" /\ c.arg = activeTag /\ \A m \in Nat : Keeps(Tail(calls), m)
        <4>1. rActive' = <<RustFold[activeTag]>>
          BY <1>1, <2>2, <3>2 DEF Raw!RawCall, Raw!AddTagRaw, Live
        <4>2. QED
          BY <1>1, <2>3, <3>2, <4>1
      <3>3. QED
        BY <1>1, <2>5, <3>1, <3>2, RestBrings DEF c
    <2>6. QED
      BY <2>2, <2>4, <2>5 DEF Waits
  <1>6. QED
    BY <1>3, <1>4, <1>5

-----------------------------------------------------------------------------
(***************************************************************************)
(* Where the builder is, in every state.                                   *)
(***************************************************************************)
LEMMA InitPlace ==
    ASSUME PipelineInit
    PROVE  PlaceInv
  <1>1. alphabet \in Alphabets /\ StreamInv /\ stack = <<>> /\ calls = <<>> /\ activeTag = NoTag
    BY InitStream DEF PipelineInit, StreamInit, Init
  <1>2. ~Live
    BY DEF PipelineInit, Raw!RawInit, Live
  <1>3. Len(stack) = 0
    BY <1>1
  <1>4. QED
    BY <1>1, <1>2, <1>3 DEF PlaceInv, Follows, Waits, Outer

LEMMA NextPlace == PlaceInv /\ [PipelineNext]_pipelineVars => PlaceInv'
  <1> SUFFICES ASSUME PlaceInv, [PipelineNext]_pipelineVars PROVE PlaceInv'
    OBVIOUS
  <1>1. alphabet' \in Alphabets /\ StreamInv'
    BY PipelineSteps, NextStream DEF PlaceInv
  <1>2. CASE ReadFile
    BY <1>1, <1>2, ReadPlace DEF PlaceInv
  <1>3. CASE Build
    BY <1>1, <1>3, BuildPlace DEF PlaceInv
  <1>4. CASE UNCHANGED pipelineVars
    <2>1. UNCHANGED <<stack, inLoop, activeTag, calls, tok, ctx, rStopped, rBlock, rFrame, rInLoop, rActive, rStack>>
      BY <1>4 DEF pipelineVars, vars, parserVars, ctrl, source, builders
    <2>2. QED
      BY <1>1, <2>1 DEF PlaceInv, Follows, Live, Nested, ES!Innermost, Outer, Waits
  <1>5. QED
    BY <1>2, <1>3, <1>4 DEF PipelineNext, PipelineDone

\* A live builder follows its callbacks, and the tag that waits in the parser waits in it
\* or is on its way, in every state of every file.
THEOREM PlaceInvariant == PipelineSpec => []PlaceInv
  BY InitPlace, NextPlace, PTL DEF PipelineSpec

LEMMA PlaceMirrors ==
    ASSUME PlaceInv
    PROVE  MirrorsParser
  <1> SUFFICES ASSUME BetweenTokens, Live
               PROVE  /\ rInLoop = inLoop
                      /\ (rFrame # <<>>) = inSaveFrame
                      /\ rActive = IF activeTag = NoTag THEN <<>> ELSE <<RustFold[activeTag]>>
                      /\ Len(rStack) = Len(stack)
                      /\ \A i \in DOMAIN stack :
                          /\ (rStack[i].is = "list") = (stack[i].at = "list")
                          /\ stack[i].at \in {"Key", "Colon"} => rStack[i].key = <<>>
    BY DEF MirrorsParser, Live
  <1>1. calls = <<>> /\ tok = NoToken /\ tok # EofToken /\ IInv
    BY DEF BetweenTokens, NoToken, EofToken, Tok, PlaceInv, StreamInv
  <1>2. ctx = Mirror /\ Len(ctx.nest) = Len(stack) /\ Len(stack) \in Nat /\ (stack # <<>> <=> Len(stack) >= 1)
    BY <1>1, SameDepth DEF PlaceInv
  <1>3. /\ ctx.loop = inLoop /\ ctx.frame = inSaveFrame /\ ctx.tag = (activeTag # NoTag /\ stack = <<>>)
        /\ ctx.nest = NestOf(stack, TRUE) /\ stack \in Seq(Frame)
    BY <1>1, <1>2, MirrorTyped DEF IInv, TypeOK
  <1>4. /\ rInLoop = ctx.loop /\ (rFrame # <<>>) = ctx.frame /\ Nested
        /\ (ctx.nest = <<>> /\ ~ctx.tag) \/ ctx.loop => rActive = <<>>
    BY DEF PlaceInv, Follows
  <1>5. rActive = IF activeTag = NoTag THEN <<>> ELSE <<RustFold[activeTag]>>
    <2>1. CASE activeTag = NoTag
      <3>1. CASE stack = <<>>
        <4>1. ctx.nest = <<>> /\ ~ctx.tag
          BY <1>3, <2>1, <3>1, NestTyped
        <4>2. QED
          BY <1>4, <2>1, <4>1
      <3>2. CASE stack # <<>>
        BY <1>3, <1>4, <2>1, <3>2 DEF PlaceInv, Outer
      <3>3. QED
        BY <3>1, <3>2
    <2>2. CASE activeTag # NoTag
      <3>1. DOMAIN calls = {}
        BY <1>1
      <3>2. ~Brings(calls, activeTag)
        BY <3>1 DEF Brings
      <3>3. QED
        BY <1>1, <2>2, <3>2 DEF PlaceInv, Waits
    <2>3. QED
      BY <2>1, <2>2
  <1>6. ASSUME NEW i \in DOMAIN stack
        PROVE  /\ (rStack[i].is = "list") = (stack[i].at = "list")
               /\ stack[i].at \in {"Key", "Colon"} => rStack[i].key = <<>>
    <2>1. i \in 1..Len(stack) /\ DOMAIN rStack = 1..Len(stack) /\ Len(rStack) = Len(stack)
      <3>1. DOMAIN stack = 1..Len(stack)
        BY <1>3
      <3>2. IsSequence(rStack) /\ Len(rStack) = Len(stack)
        BY <1>2, <1>4 DEF Nested
      <3>3. DOMAIN rStack = 1..Len(rStack)
        BY <3>2, SequenceBasics
      <3>4. QED
        BY <3>1, <3>2, <3>3
    <2>2. ctx.nest[i] = Expects(stack[i], TRUE /\ i = Len(stack))
      BY ZenonT(30), <1>3, <2>1, NestTyped
    <2>3. rStack[i].is = Kind(ctx.nest[i])
      BY <1>4, <2>1 DEF Nested
    <2>4. (rStack[i].is = "list") = (stack[i].at = "list")
      BY <2>2, <2>3 DEF Kind, Expects
    <2>5. ASSUME stack[i].at \in {"Key", "Colon"} PROVE rStack[i].key = <<>>
      <3>1. i = Len(stack)
        <4>1. i < Len(stack) => stack[i].at \in {"list", "Value"}
          BY <2>1 DEF PlaceInv, Outer
        <4>2. QED
          BY <1>2, <2>1, <2>5, <4>1
      <3>2. ctx.nest[Len(ctx.nest)] = "key"
        BY <1>2, <2>2, <2>5, <3>1 DEF Expects
      <3>3. ctx.nest # <<>>
        <4>1. stack # <<>>
          BY <1>2, <2>1
        <4>2. QED
          BY <1>3, <4>1, NestTyped
      <3>4. QED
        BY <1>4, <2>1, <3>1, <3>2, <3>3 DEF Nested, ES!Innermost
    <2>6. QED
      BY <2>4, <2>5
  <1>7. QED
    BY <1>2, <1>3, <1>4, <1>5, <1>6 DEF Nested

\* Between tokens the builder is where the parser is, however the file has gone
\* wrong: same loop, same frame, same nesting, the same tag waiting.
THEOREM MirrorsParserCorrect == PipelineSpec => []MirrorsParser
  BY PlaceInvariant, PlaceMirrors, PTL

-----------------------------------------------------------------------------
(***************************************************************************)
(* The loops of the Rust builder's document, for every file: the columns   *)
(* of a loop have one length.                                              *)
(***************************************************************************)
-----------------------------------------------------------------------------
(***************************************************************************)
(* The inductive invariant.                                                *)
(***************************************************************************)
\* A namespace whose order lists tags it has, whose values and headers are lists.
Listed(d) ==
    /\ IsSequence(d.order) /\ \A k \in DOMAIN d.order : d.order[k] \in DOMAIN d.tags
    /\ \A t \in DOMAIN d.tags : IsSequence(d.tags[t])
    /\ \A i \in DOMAIN d.loops : IsSequence(d.loops[i])

\* A namespace that has a column for every tag of its loops, all of one length.
Rectangular(d) ==
    /\ Listed(d)
    /\ d = [order |-> d.order, tags |-> d.tags, loops |-> d.loops]
    /\ d.tags = [t \in DOMAIN d.tags |-> d.tags[t]]
    /\ IsSequence(d.loops)
    /\ \A i \in DOMAIN d.loops :
           /\ \A k \in DOMAIN d.loops[i] : d.loops[i][k] \in DOMAIN d.tags
           /\ \A k, l \in DOMAIN d.loops[i] : Len(d.tags[d.loops[i][k]]) = Len(d.tags[d.loops[i][l]])

FrameIsGood(f) == f = [name |-> f.name, data |-> f.data] /\ Rectangular(f.data)
BlockIsGood(b) ==
    /\ b = [name |-> b.name, data |-> b.data, frames |-> b.frames]
    /\ Rectangular(b.data)
    /\ IsSequence(b.frames) /\ \A i \in DOMAIN b.frames : FrameIsGood(b.frames[i])

AtMostOne(s) == s = <<>> \/ s = <<s[1]>>
Document ==
    /\ IsSequence(rBlocks) /\ \A i \in DOMAIN rBlocks : BlockIsGood(rBlocks[i])
    /\ AtMostOne(rBlock) /\ (rBlock # <<>> => BlockIsGood(rBlock[1]))
    /\ AtMostOne(rFrame) /\ (rFrame # <<>> => FrameIsGood(rFrame[1]) /\ rBlock # <<>>)

TagsOf(h) == {h[i] : i \in DOMAIN h}

\* The columns of the open loop: whole rows, and one value more in the first ones.
Rows(q) ==
    \A i \in DOMAIN rHeader :
        /\ IsSequence(rColumns[rHeader[i]])
        /\ Len(rColumns[rHeader[i]]) = IF i <= rIndex % Len(rHeader) THEN q + 1 ELSE q
OpenLoop ==
    /\ IsSequence(rHeader) /\ rHeader # <<>>
    /\ \A i, j \in DOMAIN rHeader : rHeader[i] = rHeader[j] => i = j
    /\ rColumns = [t \in TagsOf(rHeader) |-> rColumns[t]]
    /\ rIndex \in Nat
    /\ \E q \in Nat : Rows(q)
    /\ \A i \in DOMAIN rHeader : rHeader[i] \notin DOMAIN OpenData.tags

\* The tag whose value is to come is in no loop.
FreeTag ==
    rActive # <<>> =>
        /\ rActive = <<rActive[1]>>
        /\ \A i \in DOMAIN OpenData.loops : \A k \in DOMAIN OpenData.loops[i] :
               OpenData.loops[i][k] # rActive[1]

ShapeInv ==
    ~misplaced => /\ Document
                  /\ Live => FreeTag /\ (rInLoop => OpenLoop)

-----------------------------------------------------------------------------
(***************************************************************************)
(* Counting the values of a loop.                                          *)
(***************************************************************************)
LEMMA Remainder ==
    ASSUME NEW k \in Nat, NEW n \in Nat \ {0}, NEW q \in Int, NEW r \in Int,
           k = n * q + r, 0 <= r, r < n
    PROVE  k % n = r
  OBVIOUS

LEMMA NextRemainder ==
    ASSUME NEW k \in Nat, NEW n \in Nat \ {0}
    PROVE  /\ k % n \in 0..n - 1
           /\ (k + 1) % n = IF k % n = n - 1 THEN 0 ELSE (k % n) + 1
  <1> DEFINE q == k \div n
             r == k % n
             m == k + 1
             p == q + 1
  <1>1. k = q * n + r
    BY SMT
  <1>2. r \in 0..n - 1 /\ q \in Int /\ m \in Nat /\ p \in Int
    BY SMT
  <1>3. r = n - 1 => m = n * p + 0
    BY <1>1, <1>2
  <1>4. r # n - 1 => m = n * q + (r + 1) /\ r + 1 < n /\ 0 <= r + 1 /\ r + 1 \in Int
    BY <1>1, <1>2
  <1> HIDE DEF q, r, m, p
  <1>5. r = n - 1 => m % n = 0
    BY <1>2, <1>3, Remainder
  <1>6. r # n - 1 => m % n = r + 1
    BY <1>2, <1>4, Remainder
  <1>7. QED
    BY <1>2, <1>5, <1>6, Zenon DEF r, m

-----------------------------------------------------------------------------
(***************************************************************************)
(* What enters a namespace.                                                *)
(***************************************************************************)
\* As many numbers as the set has, each of them from it.
Lists(o, S) ==
    /\ Cardinality(S) \in Nat /\ DOMAIN o = 1 .. Cardinality(S)
    /\ \A m \in DOMAIN o : o[m] \in S

LEMMA RawInOrder ==
    ASSUME NEW n \in Nat, NEW S, S \subseteq 1 .. n
    PROVE  Lists(Raw!InOrder(S), S)
  <1> DEFINE nth(m) == CHOOSE k \in S : Raw!Sets!Cardinality({j \in S : j <= k}) = m
  <1>1. PICK o : o = Raw!InOrder(S)
    OBVIOUS
  <1>2. \A T : Raw!Sets!Cardinality(T) = Cardinality(T)
    BY DEF Raw!Sets!Cardinality, Cardinality
  <1>3. o = [m \in 1 .. Raw!Sets!Cardinality(S) |-> nth(m)]
    BY <1>1 DEF Raw!InOrder
  <1> HIDE DEF nth
  <1>4. DOMAIN o = 1 .. Cardinality(S) /\ \A m \in DOMAIN o : o[m] = nth(m)
    BY <1>2, <1>3
  <1>5. Cardinality(S) \in Nat
    BY CountedPlaces
  <1>6. ASSUME NEW m \in 1 .. Cardinality(S)
        PROVE  nth(m) \in S
    <2>1. PICK k \in S : Cardinality(UpTo(S, k)) = m
      BY CountsReach
    <2>2. Raw!Sets!Cardinality({j \in S : j <= k}) = m
      BY <1>2, <2>1 DEF UpTo
    <2>3. QED
      BY <2>2 DEF nth
  <1>7. QED
    BY <1>1, <1>4, <1>5, <1>6 DEF Lists

LEMMA ArrowInOrder ==
    ASSUME NEW n \in Nat, NEW S, S \subseteq 1 .. n
    PROVE  Lists(Arrow!InOrder(S), S)
  <1> DEFINE nth(m) == CHOOSE k \in S : Arrow!Sets!Cardinality({j \in S : j <= k}) = m
  <1>1. PICK o : o = Arrow!InOrder(S)
    OBVIOUS
  <1>2. \A T : Arrow!Sets!Cardinality(T) = Cardinality(T)
    BY DEF Arrow!Sets!Cardinality, Cardinality
  <1>3. o = [m \in 1 .. Arrow!Sets!Cardinality(S) |-> nth(m)]
    BY <1>1 DEF Arrow!InOrder
  <1> HIDE DEF nth
  <1>4. DOMAIN o = 1 .. Cardinality(S) /\ \A m \in DOMAIN o : o[m] = nth(m)
    BY <1>2, <1>3
  <1>5. Cardinality(S) \in Nat
    BY CountedPlaces
  <1>6. ASSUME NEW m \in 1 .. Cardinality(S)
        PROVE  nth(m) \in S
    <2>1. PICK k \in S : Cardinality(UpTo(S, k)) = m
      BY CountsReach
    <2>2. Arrow!Sets!Cardinality({j \in S : j <= k}) = m
      BY <1>2, <2>1 DEF UpTo
    <2>3. QED
      BY <2>2 DEF nth
  <1>7. QED
    BY <1>1, <1>4, <1>5, <1>6 DEF Lists

\* The elements of a list at the places of a set.
LEMMA TakenInOrder ==
    ASSUME NEW s, NEW S, S \subseteq DOMAIN s, NEW o, Lists(o, S), NEW r, r = [m \in DOMAIN o |-> s[o[m]]]
    PROVE  IsSequence(r) /\ \A m \in DOMAIN r : o[m] \in S /\ r[m] = s[o[m]]
  <1>1. PICK c \in Nat : c = Cardinality(S)
    BY DEF Lists
  <1>2. DOMAIN r = 1 .. c /\ r = [m \in DOMAIN r |-> r[m]] /\ \A m \in 1 .. c : o[m] \in S /\ r[m] = s[o[m]]
    BY <1>1 DEF Lists
  <1>3. r \in Seq({r[m] : m \in DOMAIN r})
    BY <1>1, <1>2
  <1>4. QED
    BY <1>2, <1>3 DEF IsSequence

LEMMA AppendIsListed ==
    ASSUME NEW d, Rectangular(d), NEW t, NEW v
    PROVE  Listed(Raw!AppendValue(d, t, v))
  <1> DEFINE e == Raw!AppendValue(d, t, v)
  <1>1. /\ d = [order |-> d.order, tags |-> d.tags, loops |-> d.loops]
        /\ d.tags = [s \in DOMAIN d.tags |-> d.tags[s]]
        /\ Listed(d)
    BY DEF Rectangular
  <1>2. CASE t \in DOMAIN d.tags
    <2>1. PICK column : column = Append(d.tags[t], v)
      OBVIOUS
    <2>2. PICK new : new = [d.tags EXCEPT ![t] = column]
      OBVIOUS
    <2>3. IsSequence(column)
      BY <1>1, <1>2, <2>1, AppendIsSequence DEF Listed
    <2>4. e.order = d.order /\ e.tags = new /\ e.loops = d.loops
      <3>1. e = [order |-> d.order, tags |-> new, loops |-> d.loops]
        BY <1>1, <1>2, <2>1, <2>2 DEF Raw!AppendValue
      <3> HIDE DEF e
      <3>2. QED
        BY <3>1
    <2>5. DOMAIN new = DOMAIN d.tags /\ \A s \in DOMAIN d.tags : new[s] = IF s = t THEN column ELSE d.tags[s]
      BY <1>1, <1>2, <2>2
    <2> HIDE DEF e
    <2>6. \A s \in DOMAIN new : IsSequence(new[s])
      BY <1>1, <2>3, <2>5 DEF Listed
    <2>7. Listed(e)
      BY <1>1, <2>4, <2>5, <2>6 DEF Listed
    <2>8. QED
      BY <2>7 DEF e
  <1>3. CASE t \notin DOMAIN d.tags
    <2>1. PICK new : new = [s \in DOMAIN d.tags \cup {t} |-> IF s = t THEN <<v>> ELSE d.tags[s]]
      OBVIOUS
    <2>2. PICK order : order = Append(d.order, t)
      OBVIOUS
    <2>3. e.order = order /\ e.tags = new /\ e.loops = d.loops
      <3>1. e = [order |-> order, tags |-> new, loops |-> d.loops]
        BY <1>1, <1>3, <2>1, <2>2 DEF Raw!AppendValue
      <3> HIDE DEF e
      <3>2. QED
        BY <3>1
    <2>4. /\ DOMAIN new = DOMAIN d.tags \cup {t} /\ new[t] = <<v>>
          /\ \A s \in DOMAIN d.tags : new[s] = d.tags[s]
      BY <1>3, <2>1
    <2> HIDE DEF e
    <2>5. \A s \in DOMAIN new : IsSequence(new[s])
      BY <1>1, <2>4, OneIsSequence DEF Listed
    <2>6. IsSequence(order) /\ \A k \in DOMAIN order : order[k] \in DOMAIN new
      <3>1. IsSequence(d.order)
        BY <1>1 DEF Listed
      <3>2. /\ IsSequence(order) /\ Len(order) = Len(d.order) + 1
            /\ \A k \in DOMAIN d.order : order[k] = d.order[k]
            /\ order[Len(d.order) + 1] = t
        BY <2>2, <3>1, AppendIsSequence
      <3>3. Len(d.order) \in Nat /\ DOMAIN d.order = 1 .. Len(d.order) /\ DOMAIN order = 1 .. Len(order)
        BY <3>1, <3>2, SequenceBasics
      <3>4. \A k \in DOMAIN order : k \in DOMAIN d.order \/ k = Len(d.order) + 1
        BY <3>2, <3>3
      <3>5. QED
        BY <1>1, <2>4, <3>2, <3>4 DEF Listed
    <2>7. Listed(e)
      BY <1>1, <2>3, <2>5, <2>6 DEF Listed
    <2>8. QED
      BY <2>7 DEF e
  <1>4. QED
    BY <1>2, <1>3

\* The tags of a header that a namespace does not have.
LEMMA NewTagsListed ==
    ASSUME NEW d, NEW h, IsSequence(h)
    PROVE  LET new == Raw!NewTags(d, h)
           IN  IsSequence(new) /\ \A n \in DOMAIN new : \E k \in DOMAIN h : new[n] = h[k]
  <1>1. PICK S : S = {k \in DOMAIN h : /\ h[k] \notin DOMAIN d.tags
                                       /\ \A j \in 1 .. k - 1 : h[j] # h[k]}
    OBVIOUS
  <1>2. PICK o : o = Raw!InOrder(S)
    OBVIOUS
  <1>3. Raw!NewTags(d, h) = [n \in DOMAIN o |-> h[o[n]]]
    BY <1>1, <1>2 DEF Raw!NewTags
  <1>4. S \subseteq DOMAIN h
    BY <1>1
  <1>5. Lists(o, S)
    BY <1>2, <1>4, SequenceBasics, RawInOrder
  <1>6. PICK new : new = [n \in DOMAIN o |-> h[o[n]]]
    OBVIOUS
  <1>7. IsSequence(new) /\ \A n \in DOMAIN new : o[n] \in S /\ new[n] = h[o[n]]
    BY <1>4, <1>5, <1>6, TakenInOrder
  <1>8. QED
    BY <1>3, <1>4, <1>6, <1>7

LEMMA LoopIsListed ==
    ASSUME NEW d, Rectangular(d), NEW h, IsSequence(h), NEW columns,
           \A k \in DOMAIN h : IsSequence(columns[h[k]])
    PROVE  Listed(Raw!AddLoop(d, h, columns))
  <1>1. PICK new : new = Raw!NewTags(d, h)
    OBVIOUS
  <1>2. PICK order : order = d.order \o new
    OBVIOUS
  <1>3. PICK own : own = {h[k] : k \in DOMAIN h}
    OBVIOUS
  <1>4. PICK tags : tags = [t \in DOMAIN d.tags \cup own |-> IF t \in own THEN columns[t] ELSE d.tags[t]]
    OBVIOUS
  <1>5. PICK e, loops : e = Raw!AddLoop(d, h, columns) /\ loops = Append(d.loops, h)
    OBVIOUS
  <1>6. e.order = order /\ e.tags = tags /\ e.loops = loops
    <2>1. e = [order |-> order, tags |-> tags, loops |-> loops]
      BY <1>1, <1>2, <1>3, <1>4, <1>5 DEF Raw!AddLoop
    <2>2. QED
      BY <2>1
  <1>7. Listed(d)
    BY DEF Rectangular
  <1>8. \A t \in DOMAIN tags : IsSequence(tags[t])
    BY <1>3, <1>4, <1>7 DEF Listed
  <1>9. IsSequence(new) /\ \A n \in DOMAIN new : new[n] \in own
    BY <1>1, <1>3, NewTagsListed
  <1>10. IsSequence(order) /\ \A k \in DOMAIN order : order[k] \in DOMAIN tags
    <2>1. IsSequence(d.order)
      BY <1>7 DEF Listed
    <2>2. PICK old, n : old = d.order /\ n = Len(old) /\ IsSequence(old) /\ order = old \o new
      BY <1>2, <2>1
    <2>3. /\ IsSequence(order)
          /\ \A k \in DOMAIN old : order[k] = old[k]
          /\ \A k \in DOMAIN order :
                 k \in DOMAIN old \/ (k - n \in DOMAIN new /\ order[k] = new[k - n])
      <3>1. IsSequence(old \o new)
        BY <1>9, <2>2, JoinIsSequence
      <3>2. \A k \in DOMAIN old : (old \o new)[k] = old[k]
        BY <1>9, <2>2, JoinIsSequence
      <3>3. \A k \in DOMAIN (old \o new) :
                k \in DOMAIN old \/ (k - Len(old) \in DOMAIN new /\ (old \o new)[k] = new[k - Len(old)])
        <4>1. IsSequence(old) /\ IsSequence(new)
          BY <1>9, <2>2
        <4>2. QED
          BY <4>1, JoinIsSequence, SMTT(30)
      <3>4. QED
        BY <2>2, <3>1, <3>2, <3>3, Zenon
    <2>4. DOMAIN tags = DOMAIN d.tags \cup own
      BY <1>4
    <2>5. \A k \in DOMAIN old : old[k] \in DOMAIN tags
      BY <1>7, <2>2, <2>4 DEF Listed
    <2>6. QED
      BY <1>9, <2>3, <2>4, <2>5
  <1>11. \A i \in DOMAIN loops : IsSequence(loops[i])
    <2>1. IsSequence(d.loops) /\ \A i \in DOMAIN d.loops : IsSequence(d.loops[i])
      BY <1>7 DEF Rectangular, Listed
    <2>2. /\ IsSequence(loops) /\ Len(loops) = Len(d.loops) + 1
          /\ \A i \in DOMAIN d.loops : loops[i] = d.loops[i]
          /\ loops[Len(d.loops) + 1] = h
      BY <1>5, <2>1, AppendIsSequence
    <2>3. Len(d.loops) \in Nat /\ DOMAIN d.loops = 1 .. Len(d.loops) /\ DOMAIN loops = 1 .. Len(loops)
      BY <2>1, <2>2, SequenceBasics
    <2>4. \A i \in DOMAIN loops : i \in DOMAIN d.loops \/ i = Len(d.loops) + 1
      BY <2>2, <2>3
    <2>5. QED
      BY <2>1, <2>2, <2>4
  <1>12. Listed(e)
    BY <1>6, <1>8, <1>10, <1>11 DEF Listed
  <1>13. QED
    BY <1>5, <1>12

\* A value of a tag that is in no loop.
LEMMA AppendIsRectangular ==
    ASSUME NEW d, Rectangular(d), NEW t, NEW v,
           \A i \in DOMAIN d.loops : \A k \in DOMAIN d.loops[i] : d.loops[i][k] # t
    PROVE  Rectangular(Raw!AppendValue(d, t, v))
  <1> DEFINE e == Raw!AppendValue(d, t, v)
  <1>1. /\ d = [order |-> d.order, tags |-> d.tags, loops |-> d.loops]
        /\ d.tags = [s \in DOMAIN d.tags |-> d.tags[s]]
    BY DEF Rectangular
  <1>2. /\ e = [order |-> e.order, tags |-> e.tags, loops |-> e.loops]
        /\ e.loops = d.loops
        /\ e.tags = [s \in DOMAIN e.tags |-> e.tags[s]]
        /\ DOMAIN d.tags \subseteq DOMAIN e.tags
        /\ \A s \in DOMAIN d.tags : s # t => e.tags[s] = d.tags[s]
    <2>1. CASE t \in DOMAIN d.tags
      <3> DEFINE new == [d.tags EXCEPT ![t] = Append(@, v)]
      <3>1. e = [order |-> d.order, tags |-> new, loops |-> d.loops]
        BY <1>1, <2>1 DEF Raw!AppendValue
      <3>2. /\ new = [s \in DOMAIN new |-> new[s]] /\ DOMAIN new = DOMAIN d.tags
            /\ \A s \in DOMAIN d.tags : s # t => new[s] = d.tags[s]
        BY SMTT(30), <1>1
      <3> HIDE DEF e, new
      <3>3. QED
        BY <3>1, <3>2
    <2>2. CASE t \notin DOMAIN d.tags
      <3> DEFINE new == [s \in DOMAIN d.tags \cup {t} |-> IF s = t THEN <<v>> ELSE d.tags[s]]
      <3>1. e = [order |-> Append(d.order, t), tags |-> new, loops |-> d.loops]
        BY <1>1, <2>2 DEF Raw!AppendValue
      <3>2. /\ new = [s \in DOMAIN new |-> new[s]] /\ DOMAIN new = DOMAIN d.tags \cup {t}
            /\ \A s \in DOMAIN d.tags : s # t => new[s] = d.tags[s]
        OBVIOUS
      <3> HIDE DEF e, new
      <3>3. QED
        BY <3>1, <3>2
    <2>3. QED
      BY <2>1, <2>2
  <1> HIDE DEF e
  <1>3. ASSUME NEW i \in DOMAIN d.loops
        PROVE  \A k \in DOMAIN d.loops[i] :
                   d.loops[i][k] \in DOMAIN e.tags /\ e.tags[d.loops[i][k]] = d.tags[d.loops[i][k]]
    BY <1>2 DEF Rectangular
  <1>l. Listed(e)
    BY AppendIsListed DEF e
  <1>4. Rectangular(e)
    BY <1>2, <1>3, <1>l DEF Rectangular
  <1>5. QED
    BY <1>4 DEF e

\* A loop over new tags, whose columns have one length.
LEMMA LoopIsRectangular ==
    ASSUME NEW d, Rectangular(d), NEW h, IsSequence(h), NEW columns, NEW n,
           \A k \in DOMAIN h : /\ h[k] \notin DOMAIN d.tags
                               /\ IsSequence(columns[h[k]]) /\ Len(columns[h[k]]) = n
    PROVE  Rectangular(Raw!AddLoop(d, h, columns))
  <1> DEFINE e == Raw!AddLoop(d, h, columns)
             new == [t \in DOMAIN d.tags \cup {h[k] : k \in DOMAIN h} |->
                        IF t \in {h[k] : k \in DOMAIN h} THEN columns[t] ELSE d.tags[t]]
  <1>1. e = [order |-> e.order, tags |-> new, loops |-> Append(d.loops, h)]
    <2> DEFINE order == d.order \o Raw!NewTags(d, h)
               loops == Append(d.loops, h)
    <2>1. e = [order |-> order, tags |-> new, loops |-> loops]
      BY DEF Raw!AddLoop
    <2> HIDE DEF order, new, e, loops
    <2>2. e.order = order
      BY <2>1
    <2>3. QED
      BY <2>1, <2>2 DEF loops
  <1>2. /\ new = [t \in DOMAIN new |-> new[t]] /\ DOMAIN new = DOMAIN d.tags \cup {h[k] : k \in DOMAIN h}
        /\ \A k \in DOMAIN h : new[h[k]] = columns[h[k]]
        /\ \A t \in DOMAIN d.tags : new[t] = d.tags[t]
    OBVIOUS
  <1> HIDE DEF e, new
  <1>3. /\ IsSequence(Append(d.loops, h)) /\ Len(Append(d.loops, h)) = Len(d.loops) + 1
        /\ \A i \in DOMAIN d.loops : Append(d.loops, h)[i] = d.loops[i]
        /\ Append(d.loops, h)[Len(d.loops) + 1] = h
    BY AppendIsSequence DEF Rectangular
  <1>4. DOMAIN Append(d.loops, h) = 1..Len(d.loops) + 1 /\ DOMAIN d.loops = 1..Len(d.loops) /\ Len(d.loops) \in Nat
    BY <1>3, SequenceBasics DEF Rectangular
  <1>5. ASSUME NEW i \in DOMAIN Append(d.loops, h)
        PROVE  LET g == Append(d.loops, h)[i] IN
               /\ \A k \in DOMAIN g : g[k] \in DOMAIN new
               /\ \A k, l \in DOMAIN g : Len(new[g[k]]) = Len(new[g[l]])
    <2>1. CASE i \in DOMAIN d.loops
      BY <1>2, <1>3, <2>1 DEF Rectangular
    <2>2. CASE i = Len(d.loops) + 1
      BY <1>2, <1>3, <2>2
    <2>3. QED
      BY SMTT(30), <1>4, <2>1, <2>2
  <1> DEFINE loops == Append(d.loops, h)
  <1> HIDE DEF loops
  <1>6. e = [order |-> e.order, tags |-> e.tags, loops |-> e.loops] /\ e.tags = new /\ e.loops = loops
    BY SMTT(30), <1>1 DEF loops
  <1>l. Listed(e)
    BY LoopIsListed DEF e
  <1>7. Rectangular(e)
    BY SMTT(30), <1>2, <1>3, <1>5, <1>6, <1>l DEF Rectangular, loops
  <1>8. QED
    BY <1>7 DEF e

LEMMA NothingIsRectangular == Rectangular(Raw!NoData)
  <1>1. Raw!NoData.loops = <<>> /\ Raw!NoData.tags = <<>> /\ DOMAIN Raw!NoData.loops = {} /\ DOMAIN Raw!NoData.tags = {}
    BY DEF Raw!NoData
  <1>2. Raw!NoData = [order |-> Raw!NoData.order, tags |-> Raw!NoData.tags, loops |-> Raw!NoData.loops]
    BY DEF Raw!NoData
  <1>3. Raw!NoData.tags = [t \in DOMAIN Raw!NoData.tags |-> Raw!NoData.tags[t]]
    BY <1>1
  <1>4. Listed(Raw!NoData)
    <2>1. Raw!NoData.order = <<>> /\ DOMAIN Raw!NoData.order = {}
      BY DEF Raw!NoData
    <2>2. QED
      BY <1>1, <2>1, EmptyIsSequence, Zenon DEF Listed
  <1>5. QED
    BY <1>1, <1>2, <1>3, <1>4, EmptyIsSequence DEF Rectangular

-----------------------------------------------------------------------------
(***************************************************************************)
(* What becomes of the document.                                           *)
(***************************************************************************)
LEMMA OneOfIt ==
    ASSUME NEW x
    PROVE  AtMostOne(<<x>>) /\ <<x>> # <<>> /\ <<x>>[1] = x
  BY DEF AtMostOne

\* The namespace that is open, in a document with a block.
LEMMA OpenIsRectangular ==
    ASSUME Document, rBlock # <<>>
    PROVE  Rectangular(OpenData)
  BY DEF Document, OpenData, FrameIsGood, BlockIsGood

\* Another namespace in its place.
LEMMA OpenIsReplaced ==
    ASSUME Document, rBlock # <<>>, NEW e, Rectangular(e), UNCHANGED rBlocks,
           IF rFrame # <<>> THEN rFrame' = <<[rFrame[1] EXCEPT !.data = e]>> /\ UNCHANGED rBlock
           ELSE rBlock' = <<[rBlock[1] EXCEPT !.data = e]>> /\ UNCHANGED rFrame
    PROVE  Document' /\ OpenData' = e
  <1>1. CASE rFrame # <<>>
    <2> DEFINE f == [rFrame[1] EXCEPT !.data = e]
    <2>1. rFrame' = <<f>> /\ rBlock' = rBlock
      BY <1>1
    <2>2. FrameIsGood(f) /\ f.data = e
      BY <1>1 DEF Document, FrameIsGood
    <2> HIDE DEF f
    <2>3. rFrame' # <<>> /\ rFrame'[1] = f /\ AtMostOne(rFrame)'
      BY <2>1, OneOfIt DEF AtMostOne
    <2>4. QED
      BY <2>1, <2>2, <2>3 DEF Document, OpenData, AtMostOne
  <1>2. CASE rFrame = <<>>
    <2> DEFINE b == [rBlock[1] EXCEPT !.data = e]
    <2>1. rBlock' = <<b>> /\ rFrame' = <<>>
      BY <1>2
    <2>2. BlockIsGood(b) /\ b.data = e
      BY DEF Document, BlockIsGood
    <2> HIDE DEF b
    <2>3. rBlock' # <<>> /\ rBlock'[1] = b /\ AtMostOne(rBlock)'
      BY <2>1, OneOfIt DEF AtMostOne
    <2>4. QED
      BY <1>2, <2>1, <2>2, <2>3 DEF Document, OpenData, AtMostOne
  <1>3. QED
    BY <1>1, <1>2

\* Nothing happens to it without a block.
LEMMA NothingWithoutBlock ==
    ASSUME NEW c \in Call, Raw!RawCall(c), ~rStopped, Document, rBlock = <<>>, c.op # "on_data_block"
    PROVE  UNCHANGED <<rBlocks, rBlock, rFrame>>
  <1>1. c.op \in Ops /\ rFrame = <<>>
    BY DEF Call, Document
  <1>2. ASSUME NEW s, NEW v, Raw!DispatchRaw(s, v)
        PROVE  UNCHANGED <<rBlocks, rBlock, rFrame>>
    BY <1>1, <1>2 DEF Raw!DispatchRaw, Raw!UpdateNamespace
  <1>3. CASE c.op \in {"add_value", "on_list_end", "on_table_end"}
    BY <1>2, <1>3 DEF Raw!RawCall, Raw!AddValueRaw, Raw!CloseRaw, Raw!rVars
  <1>4. CASE c.op = "on_loop_end"
    <2> DEFINE columns == Raw!TakenColumns(Raw!Padded(rColumns, rHeader, rIndex), rHeader)
    <2>1. rBlocks' = rBlocks
      BY <1>4 DEF Raw!RawCall, Raw!OnLoopEndRaw
    <2>2. \/ UNCHANGED <<rBlock, rFrame>>
          \/ Raw!UpdateNamespace(LAMBDA d : Raw!AddLoop(d, rHeader, columns))
      BY <1>4 DEF Raw!RawCall, Raw!OnLoopEndRaw
    <2>3. QED
      BY <1>1, <2>1, <2>2 DEF Raw!UpdateNamespace
  <1>5. CASE c.op \notin {"add_value", "on_list_end", "on_table_end", "on_loop_end"}
    BY <1>1, <1>5 DEF Raw!RawCall, Ops, Raw!OnSaveFrameStartRaw, Raw!OnSaveFrameEndRaw,
       Raw!AddTagRaw, Raw!OpenRaw, Raw!OnTableKeyRaw, Raw!OnLoopStartRaw, Raw!rVars
  <1>6. QED
    BY <1>3, <1>4, <1>5

LEMMA BlockIsOne ==
    ASSUME Document
    PROVE  IsSequence(rBlock) /\ \A i \in DOMAIN rBlock : BlockIsGood(rBlock[i])
  <1>1. CASE rBlock = <<>>
    BY <1>1, EmptyIsSequence
  <1>2. CASE rBlock # <<>>
    <2>1. rBlock = <<rBlock[1]>> /\ BlockIsGood(rBlock[1])
      BY <1>2 DEF Document, AtMostOne
    <2>2. IsSequence(rBlock)
      BY <2>1, OneIsSequence
    <2>3. Len(rBlock) = 1
      BY <2>1
    <2>4. DOMAIN rBlock = {1}
      BY <2>2, <2>3, SequenceBasics
    <2>5. QED
      BY <2>1, <2>2, <2>4
  <1>3. QED
    BY <1>1, <1>2

-----------------------------------------------------------------------------
(***************************************************************************)
(* The callbacks.                                                          *)
(***************************************************************************)
LEMMA BlockShape ==
    ASSUME Document, NEW n, Raw!OnDataBlockRaw(n)
    PROVE  Document' /\ rActive' = <<>> /\ rInLoop' = FALSE
  <1> DEFINE b == [name |-> RustFold[n], data |-> Raw!NoData, frames |-> <<>>]
  <1>1. /\ rBlocks' = rBlocks \o rBlock /\ rBlock' = <<b>> /\ rFrame' = <<>>
        /\ rActive' = <<>> /\ rInLoop' = FALSE
    BY DEF Raw!OnDataBlockRaw
  <1>2. BlockIsGood(b)
    <2>1. b.frames = <<>> /\ DOMAIN b.frames = {} /\ b.data = Raw!NoData
      OBVIOUS
    <2>2. b = [name |-> b.name, data |-> b.data, frames |-> b.frames]
      OBVIOUS
    <2> HIDE DEF b
    <2>3. QED
      BY <2>1, <2>2, EmptyIsSequence, NothingIsRectangular DEF BlockIsGood
  <1> HIDE DEF b
  <1>3. IsSequence(rBlocks') /\ \A i \in DOMAIN rBlocks' : BlockIsGood(rBlocks'[i])
    <2>1. IsSequence(rBlock) /\ \A i \in DOMAIN rBlock : BlockIsGood(rBlock[i])
      BY BlockIsOne
    <2>2. QED
      BY <1>1, <2>1, JoinIsSequence DEF Document
  <1>4. rBlock' # <<>> /\ rBlock'[1] = b /\ AtMostOne(rBlock)' /\ AtMostOne(rFrame)'
    BY <1>1, OneOfIt DEF AtMostOne
  <1>5. QED
    BY <1>1, <1>2, <1>3, <1>4 DEF Document

LEMMA FrameStartShape ==
    ASSUME Document, rBlock # <<>>, NEW n, Raw!OnSaveFrameStartRaw(n)
    PROVE  Document' /\ UNCHANGED <<rActive, rInLoop>>
  <1> DEFINE f == [name |-> RustFold[n], data |-> Raw!NoData]
  <1>1. rFrame' = <<f>> /\ UNCHANGED <<rBlock, rBlocks, rActive, rInLoop>>
    BY DEF Raw!OnSaveFrameStartRaw, Raw!rItem
  <1>2. FrameIsGood(f)
    BY NothingIsRectangular DEF FrameIsGood
  <1> HIDE DEF f
  <1>3. rFrame' # <<>> /\ rFrame'[1] = f /\ AtMostOne(rFrame)'
    BY <1>1, OneOfIt DEF AtMostOne
  <1>4. QED
    BY <1>1, <1>2, <1>3 DEF Document, AtMostOne

LEMMA FrameEndShape ==
    ASSUME Document, rBlock # <<>>, Raw!OnSaveFrameEndRaw
    PROVE  Document' /\ UNCHANGED <<rActive, rInLoop>>
  <1> DEFINE fs == rBlock[1].frames \o rFrame
             b == [rBlock[1] EXCEPT !.frames = fs]
  <1>1. rFrame' = <<>> /\ rBlock' = <<b>> /\ UNCHANGED <<rBlocks, rActive, rInLoop>>
    BY DEF Raw!OnSaveFrameEndRaw, Raw!rItem, Document, BlockIsGood
  <1>2. IsSequence(rFrame) /\ \A i \in DOMAIN rFrame : FrameIsGood(rFrame[i])
    <2>1. CASE rFrame = <<>>
      BY <2>1, EmptyIsSequence
    <2>2. CASE rFrame # <<>>
      <3>1. rFrame = <<rFrame[1]>> /\ FrameIsGood(rFrame[1])
        BY <2>2 DEF Document, AtMostOne
      <3>2. IsSequence(rFrame)
        BY <3>1, OneIsSequence
      <3>3. Len(rFrame) = 1
        BY <3>1
      <3>4. DOMAIN rFrame = {1}
        BY <3>2, <3>3, SequenceBasics
      <3>5. QED
        BY <3>1, <3>2, <3>4
    <2>3. QED
      BY <2>1, <2>2
  <1>3. IsSequence(fs) /\ \A i \in DOMAIN fs : FrameIsGood(fs[i])
    <2> DEFINE gs == rBlock[1].frames
    <2>1. IsSequence(gs) /\ \A i \in DOMAIN gs : FrameIsGood(gs[i])
      BY DEF Document, BlockIsGood
    <2> HIDE DEF gs
    <2>2. fs = gs \o rFrame
      BY DEF gs
    <2> HIDE DEF fs
    <2>3. /\ IsSequence(fs)
          /\ \A i \in DOMAIN fs : \/ i \in DOMAIN gs /\ fs[i] = gs[i]
                                  \/ i - Len(gs) \in DOMAIN rFrame /\ fs[i] = rFrame[i - Len(gs)]
      BY <1>2, <2>1, <2>2, JoinIsSequence
    <2>4. QED
      BY <1>2, <2>1, <2>3
  <1>4. BlockIsGood(b)
    <2> HIDE DEF fs
    <2>1. b.frames = fs /\ b.data = rBlock[1].data /\ b = [name |-> b.name, data |-> b.data, frames |-> b.frames]
      BY DEF Document, BlockIsGood
    <2> HIDE DEF b
    <2>2. QED
      BY <1>3, <2>1 DEF Document, BlockIsGood
  <1> HIDE DEF fs, b
  <1>5. rBlock' # <<>> /\ rBlock'[1] = b /\ AtMostOne(rBlock)' /\ AtMostOne(rFrame)'
    BY <1>1, OneOfIt DEF AtMostOne
  <1>6. QED
    BY <1>1, <1>4, <1>5 DEF Document

LEMMA TagShape ==
    ASSUME Document, NEW c, c.op = "add_tag", ~Misplaces(c), rInLoop = FALSE, Raw!AddTagRaw(c.arg)
    PROVE  Document' /\ FreeTag' /\ rInLoop' = FALSE
  <1>1. rActive' = <<RustFold[c.arg]>> /\ UNCHANGED <<rBlocks, rBlock, rFrame>> /\ rInLoop' = rInLoop
    BY DEF Raw!AddTagRaw
  <1>2. Document' /\ OpenData' = OpenData
    BY <1>1 DEF Document, OpenData, AtMostOne
  <1>3. \A i \in DOMAIN OpenData.loops : \A k \in DOMAIN OpenData.loops[i] :
            OpenData.loops[i][k] # RustFold[c.arg]
    <2>1. RustFold[c.arg] \notin IR!LoopTags(OpenData)
      BY DEF Misplaces
    <2>2. QED
      BY <2>1 DEF IR!LoopTags
  <1>4. rActive'[1] = RustFold[c.arg] /\ rActive' = <<rActive'[1]>>
    BY <1>1
  <1>5. FreeTag'
    BY <1>2, <1>3, <1>4 DEF FreeTag
  <1>6. QED
    BY <1>1, <1>2, <1>5, Zenon

\* One more value in the column of the next tag.
LEMMA RowsGrow ==
    ASSUME OpenLoop, NEW v, rHeader' = rHeader, rIndex' = rIndex + 1,
           LET tag == rHeader[(rIndex % Len(rHeader)) + 1] IN
           rColumns' = [rColumns EXCEPT ![tag] = Append(@, v)]
    PROVE  /\ rColumns' = [t \in TagsOf(rHeader) |-> rColumns'[t]]
           /\ rIndex' \in Nat
           /\ \E q \in Nat : Rows(q)'
  <1> DEFINE n == Len(rHeader)
             r == rIndex % n
             k == r + 1
             tag == rHeader[k]
  <1>1. /\ n \in Nat \ {0} /\ DOMAIN rHeader = 1..n /\ rIndex \in Nat
        /\ rColumns = [t \in TagsOf(rHeader) |-> rColumns[t]]
        /\ \A i, j \in DOMAIN rHeader : rHeader[i] = rHeader[j] => i = j
    BY SequenceBasics DEF OpenLoop
  <1>2. r \in 0..n - 1 /\ (rIndex + 1) % n = IF r = n - 1 THEN 0 ELSE r + 1
    BY <1>1, NextRemainder
  <1>3. k \in DOMAIN rHeader /\ k \in 1..n
    BY <1>1, <1>2
  <1>4. rColumns' = [rColumns EXCEPT ![tag] = Append(rColumns[tag], v)]
    OBVIOUS
  <1>5. PICK q \in Nat : Rows(q)
    BY DEF OpenLoop
  <1> HIDE DEF n
  <1>6. r' = IF r = n - 1 THEN 0 ELSE r + 1
    BY <1>2 DEF n
  <1>7. \A i \in 1..n : rHeader[i] \in TagsOf(rHeader)
    BY <1>1 DEF TagsOf
  <1>q. \A i \in 1..n : /\ IsSequence(rColumns[rHeader[i]])
                       /\ Len(rColumns[rHeader[i]]) = IF i <= r THEN q + 1 ELSE q
    BY <1>1, <1>5, ZenonT(30) DEF Rows, n
  <1> HIDE DEF r, k, tag
  <1>8. /\ rColumns' = [t \in TagsOf(rHeader) |-> rColumns'[t]]
        /\ rColumns'[tag] = Append(rColumns[tag], v)
        /\ \A t \in TagsOf(rHeader) : t # tag => rColumns'[t] = rColumns[t]
    BY ZenonT(30), <1>1, <1>3, <1>4, <1>7 DEF tag
  <1>9. /\ IsSequence(rColumns[tag]) /\ Len(rColumns[tag]) = q
        /\ IsSequence(rColumns'[tag]) /\ Len(rColumns'[tag]) = q + 1
    <2>1. IsSequence(rColumns[tag]) /\ Len(rColumns[tag]) = IF k <= r THEN q + 1 ELSE q
      BY <1>3, <1>q, Zenon DEF tag
    <2>2. ~(k <= r)
      BY SMTT(30), <1>2 DEF k
    <2>3. PICK column : column = rColumns[tag]
      OBVIOUS
    <2>4. IsSequence(column) /\ Len(column) = q
      BY <2>1, <2>2, <2>3
    <2>5. IsSequence(Append(column, v)) /\ Len(Append(column, v)) = Len(column) + 1
      BY SMTT(30), <2>4, AppendIsSequence
    <2>6. QED
      BY <1>8, <2>3, <2>4, <2>5
  <1>10. ASSUME NEW i \in 1..n, i # k
         PROVE  /\ rHeader[i] # tag /\ rColumns'[rHeader[i]] = rColumns[rHeader[i]]
                /\ IsSequence(rColumns[rHeader[i]])
                /\ Len(rColumns[rHeader[i]]) = IF i <= r THEN q + 1 ELSE q
    <2>1. rHeader[i] # tag
      BY <1>1, <1>3, <1>10 DEF tag
    <2>2. QED
      BY <1>7, <1>8, <1>q, <2>1
  <1>p. PICK p \in Nat : p = IF r = n - 1 THEN q + 1 ELSE q
    OBVIOUS
  <1> DEFINE s == IF r = n - 1 THEN 0 ELSE r + 1
  <1>11. ASSUME NEW i \in 1..n
         PROVE  /\ IsSequence(rColumns'[rHeader[i]])
                /\ Len(rColumns'[rHeader[i]]) = IF i <= s THEN p + 1 ELSE p
    <2>1. CASE i = k
      <3>1. IsSequence(rColumns'[rHeader[i]]) /\ Len(rColumns'[rHeader[i]]) = q + 1
        BY <1>9, <2>1 DEF tag
      <3>2. q + 1 = IF i <= s THEN p + 1 ELSE p
        BY <1>1, <1>2, <1>p, <2>1 DEF k
      <3>3. QED
        BY <3>1, <3>2
    <2>2. CASE i # k
      <3>1. IsSequence(rColumns'[rHeader[i]]) /\ Len(rColumns'[rHeader[i]]) = IF i <= r THEN q + 1 ELSE q
        BY <1>10, <2>2
      <3>2. (IF i <= r THEN q + 1 ELSE q) = IF i <= s THEN p + 1 ELSE p
        BY <1>1, <1>2, <1>p, <2>2 DEF k
      <3>3. QED
        BY <3>1, <3>2
    <2>3. QED
      BY <2>1, <2>2
  <1>12. s = rIndex' % Len(rHeader')
    BY <1>2 DEF n
  <1> HIDE DEF s
  <1>13. Rows(p)'
    BY <1>1, <1>11, <1>12 DEF Rows, n
  <1>14. rIndex' \in Nat
    BY <1>1
  <1>15. \E m \in Nat : Rows(m)'
    BY <1>13, Zenon
  <1>16. QED
    BY <1>8, <1>14, <1>15, Zenon

\* A value: in a container, in the loop, or in the namespace.
LEMMA DispatchShape ==
    ASSUME Document, rBlock # <<>>, FreeTag, rInLoop => OpenLoop, NEW s, NEW v, Raw!DispatchRaw(s, v)
    PROVE  Document' /\ FreeTag' /\ (rInLoop' => OpenLoop')
  <1>1. UNCHANGED <<rInLoop, rHeader, rBlocks>>
    BY DEF Raw!DispatchRaw
  <1>2. CASE s # <<>>
    <2>1. UNCHANGED <<rBlock, rFrame, rActive, rIndex, rColumns>>
      BY <1>2 DEF Raw!DispatchRaw
    <2>2. QED
      BY <1>1, <2>1 DEF Document, AtMostOne, FreeTag, OpenLoop, OpenData, Rows
  <1>3. CASE s = <<>> /\ rInLoop
    <2>1. /\ UNCHANGED <<rBlock, rFrame, rActive>> /\ rIndex' = rIndex + 1
          /\ LET tag == rHeader[(rIndex % Len(rHeader)) + 1] IN
             rColumns' = [rColumns EXCEPT ![tag] = Append(@, v)]
      BY <1>3 DEF Raw!DispatchRaw
    <2>2. /\ rColumns' = [t \in TagsOf(rHeader) |-> rColumns'[t]]
          /\ rIndex' \in Nat
          /\ \E q \in Nat : Rows(q)'
      BY <1>1, <1>3, <2>1, RowsGrow
    <2>3. OpenData' = OpenData /\ Document' /\ FreeTag'
      BY <1>1, <2>1 DEF Document, AtMostOne, FreeTag, OpenData
    <2>4. OpenLoop'
      BY <1>1, <1>3, <2>2, <2>3 DEF OpenLoop
    <2>5. QED
      BY <2>3, <2>4
  <1>4. CASE s = <<>> /\ ~rInLoop
    <2>1. rActive' = <<>>
      BY <1>4 DEF Raw!DispatchRaw
    <2>2. CASE rActive = <<>>
      <3>1. UNCHANGED <<rBlock, rFrame>>
        BY <1>4, <2>2 DEF Raw!DispatchRaw
      <3>2. QED
        BY <1>1, <1>4, <2>1, <3>1 DEF Document, AtMostOne, FreeTag
    <2>3. CASE rActive # <<>>
      <3> DEFINE e == Raw!AppendValue(OpenData, rActive[1], v)
      <3>1. Rectangular(e)
        BY <2>3, OpenIsRectangular, AppendIsRectangular DEF FreeTag
      <3>2. IF rFrame # <<>> THEN rFrame' = <<[rFrame[1] EXCEPT !.data = e]>> /\ UNCHANGED rBlock
            ELSE rBlock' = <<[rBlock[1] EXCEPT !.data = e]>> /\ UNCHANGED rFrame
        <4>1. Raw!UpdateNamespace(LAMBDA d : Raw!AppendValue(d, rActive[1], v))
          BY <1>4, <2>3 DEF Raw!DispatchRaw
        <4>2. QED
          BY <4>1 DEF Raw!UpdateNamespace, OpenData, Document, FrameIsGood, BlockIsGood
      <3> HIDE DEF e
      <3>3. Document'
        BY <1>1, <3>1, <3>2, OpenIsReplaced
      <3>4. QED
        BY <1>1, <1>4, <2>1, <3>3 DEF FreeTag
    <2>4. QED
      BY <2>2, <2>3
  <1>5. QED
    BY <1>2, <1>3, <1>4

\* A loop begins: its tags are its own, and new in the namespace.
LEMMA LoopStartShape ==
    ASSUME Document, NEW c, c.op = "on_loop_start", ~Misplaces(c), NEW S, c.tags \in Seq(S), c.tags # <<>>,
           Raw!OnLoopStartRaw(c.tags)
    PROVE  Document' /\ OpenLoop' /\ UNCHANGED rActive
  <1> DEFINE h == [i \in DOMAIN c.tags |-> RustFold[c.tags[i]]]
  <1>1. /\ rHeader' = h /\ rIndex' = 0 /\ UNCHANGED <<rBlock, rFrame, rBlocks, rActive>>
        /\ rColumns' = [t \in {h[i] : i \in DOMAIN c.tags} |-> <<>>]
    BY DEF Raw!OnLoopStartRaw
  <1>2. IsSequence(h) /\ h # <<>> /\ DOMAIN h = DOMAIN c.tags
    <2>1. Len(c.tags) \in Nat \ {0} /\ DOMAIN c.tags = 1..Len(c.tags)
      BY EmptySeq
    <2>2. h \in Seq({h[i] : i \in DOMAIN c.tags}) /\ Len(h) = Len(c.tags)
      BY <2>1
    <2> HIDE DEF h
    <2>3. h # <<>>
      BY <2>1, <2>2
    <2>4. IsSequence(h)
      BY <2>2, OverItsRange
    <2>5. QED
      BY <2>3, <2>4 DEF h
  <1>3. /\ ~Repeats(h)
        /\ ~\E i \in DOMAIN h : h[i] \in DOMAIN OpenData.tags
    BY DEF Misplaces
  <1> HIDE DEF h
  <1>4. Document' /\ OpenData' = OpenData
    BY <1>1 DEF Document, OpenData, AtMostOne
  <1>5. \A i, j \in DOMAIN h : h[i] = h[j] => i = j
    BY <1>3 DEF Repeats
  <1>6. \A i \in DOMAIN h : h[i] \notin DOMAIN OpenData.tags
    BY <1>3
  <1>7. rColumns' = [t \in TagsOf(h) |-> rColumns'[t]] /\ \A i \in DOMAIN h : rColumns'[h[i]] = <<>>
    BY <1>1, <1>2 DEF TagsOf
  <1>8. Len(h) \in Nat \ {0} /\ DOMAIN h = 1..Len(h)
    BY <1>2, SequenceBasics
  <1>9. Rows(0)'
    <2>1. rIndex' % Len(rHeader') = 0
      BY <1>1, <1>8
    <2>2. ASSUME NEW i \in DOMAIN h
          PROVE  IsSequence(rColumns'[h[i]]) /\ Len(rColumns'[h[i]]) = 0 /\ ~(i <= 0)
      BY <1>7, <1>8, EmptyIsSequence
    <2>3. QED
      BY <1>1, <2>1, <2>2 DEF Rows
  <1>10. \E q \in Nat : Rows(q)'
    BY <1>9
  <1>11. OpenLoop'
    BY <1>1, <1>2, <1>4, <1>5, <1>6, <1>7, <1>10 DEF OpenLoop
  <1>12. QED
    BY <1>1, <1>4, <1>11

\* Padding completes the last row: one value more where there was one too few.
LEMMA PaddedRows ==
    ASSUME OpenLoop, NEW i \in DOMAIN rHeader, NEW q \in Nat, Rows(q)
    PROVE  LET columns == Raw!TakenColumns(Raw!Padded(rColumns, rHeader, rIndex), rHeader) IN
           /\ IsSequence(columns[rHeader[i]])
           /\ Len(columns[rHeader[i]]) = IF rIndex % Len(rHeader) = 0 THEN q ELSE q + 1
  <1> DEFINE n == Len(rHeader)
             r == rIndex % n
             t == rHeader[i]
             padded == Raw!Padded(rColumns, rHeader, rIndex)
             columns == Raw!TakenColumns(padded, rHeader)
             missing == {j \in Raw!Occurrences(t, rHeader) : r # 0 /\ j > r}
             padding == [j \in 1..Raw!Cardinality(missing) |-> Raw!Str(Raw!Unknown, "bare")]
  <1>1. /\ n \in Nat \ {0} /\ DOMAIN rHeader = 1..n /\ r \in Nat /\ i \in Nat
        /\ rColumns = [u \in TagsOf(rHeader) |-> rColumns[u]]
        /\ \A j, k \in DOMAIN rHeader : rHeader[j] = rHeader[k] => j = k
        /\ t \in TagsOf(rHeader)
    BY SequenceBasics DEF OpenLoop, TagsOf
  <1>2. padded = [u \in DOMAIN rColumns |-> padded[u]] /\ padded[t] = rColumns[t] \o padding /\ DOMAIN rColumns = TagsOf(rHeader)
    <2>1. DOMAIN rColumns = TagsOf(rHeader)
      BY <1>1
    <2>2. t \in DOMAIN rColumns
      BY <1>1, <2>1
    <2>3. padded = [u \in DOMAIN rColumns |->
              rColumns[u] \o [j \in 1..Raw!Cardinality({k \in Raw!Occurrences(u, rHeader) :
                                   rIndex % Len(rHeader) # 0 /\ k > rIndex % Len(rHeader)}) |-> Raw!Str(Raw!Unknown, "bare")]]
      BY DEF Raw!Padded
    <2> HIDE DEF padded
    <2>4. QED
      BY <2>1, <2>2, <2>3
  <1>3. columns[t] = padded[t]
    <2>1. t \in DOMAIN padded
      BY <1>1, <1>2
    <2>2. ~\E j, k \in DOMAIN rHeader : j # k /\ rHeader[j] = t /\ rHeader[k] = t
      BY <1>1
    <2> HIDE DEF padded, t
    <2>3. QED
      BY <2>1, <2>2 DEF Raw!TakenColumns
  <1>4. Raw!Cardinality(missing) = IF r # 0 /\ i > r THEN 1 ELSE 0
    <2>1. Raw!Cardinality(missing) = Cardinality(missing)
      BY DEF Raw!Cardinality, Cardinality
    <2>2. Raw!Occurrences(t, rHeader) = {i}
      BY <1>1 DEF Raw!Occurrences
    <2>3. missing = IF r # 0 /\ i > r THEN {i} ELSE {}
      BY <2>2
    <2> HIDE DEF missing, r
    <2>4. CASE r # 0 /\ i > r
      <3>1. missing = {i}
        BY <2>3, <2>4
      <3>2. Cardinality({i}) = 1
        BY FS_Singleton
      <3>3. QED
        BY <2>1, <2>4, <3>1, <3>2
    <2>5. CASE ~(r # 0 /\ i > r)
      <3>1. missing = {}
        BY <2>3, <2>5
      <3>2. QED
        BY <2>1, <2>5, <3>1, FS_EmptySet
    <2>6. QED
      BY <2>4, <2>5
  <1>5. IsSequence(rColumns[t]) /\ Len(rColumns[t]) = IF i <= r THEN q + 1 ELSE q
    BY DEF Rows
  <1> HIDE DEF missing
  <1>6. IsSequence(padding) /\ Len(padding) = Raw!Cardinality(missing)
    <2> DEFINE m == Raw!Cardinality(missing)
               x == Raw!Str(Raw!Unknown, "bare")
    <2>1. m \in Nat
      BY <1>4
    <2>2. padding = [j \in 1..m |-> x]
      OBVIOUS
    <2> HIDE DEF m, x, padding
    <2>3. padding \in Seq({x}) /\ Len(padding) = m
      BY <2>1, <2>2
    <2>4. QED
      BY <2>3, OverItsRange DEF m
  <1> HIDE DEF padding, padded, columns
  <1>7. IsSequence(columns[t]) /\ Len(columns[t]) = Len(rColumns[t]) + Len(padding)
    <2> DEFINE column == rColumns[t]
    <2>1. columns[t] = column \o padding /\ IsSequence(column)
      BY <1>2, <1>3, <1>5
    <2> HIDE DEF column
    <2>2. IsSequence(column \o padding) /\ Len(column \o padding) = Len(column) + Len(padding)
      BY <1>6, <2>1, JoinIsSequence
    <2>3. QED
      BY <2>1, <2>2 DEF column
  <1>8. Len(columns[t]) = IF r = 0 THEN q ELSE q + 1
    <2> HIDE DEF r, t, n
    <2>1. Len(columns[t]) = (IF i <= r THEN q + 1 ELSE q) + (IF r # 0 /\ i > r THEN 1 ELSE 0)
      BY <1>4, <1>5, <1>6, <1>7
    <2>2. i >= 1
      BY <1>1
    <2>3. QED
      BY <1>1, <2>1, <2>2
  <1>9. QED
    BY <1>7, <1>8 DEF columns, padded

LEMMA LoopEndShape ==
    ASSUME Document, rBlock # <<>>, OpenLoop, Raw!OnLoopEndRaw
    PROVE  Document' /\ rInLoop' = FALSE /\ UNCHANGED rActive
  <1> DEFINE columns == Raw!TakenColumns(Raw!Padded(rColumns, rHeader, rIndex), rHeader)
             e == Raw!AddLoop(OpenData, rHeader, columns)
  <1>1. rInLoop' = FALSE /\ UNCHANGED <<rActive, rBlocks>>
    BY DEF Raw!OnLoopEndRaw
  <1>2. \/ UNCHANGED <<rBlock, rFrame>>
        \/ Raw!UpdateNamespace(LAMBDA d : Raw!AddLoop(d, rHeader, columns))
    BY DEF Raw!OnLoopEndRaw
  <1>3. CASE UNCHANGED <<rBlock, rFrame>>
    BY <1>1, <1>3 DEF Document, AtMostOne
  <1>4. CASE Raw!UpdateNamespace(LAMBDA d : Raw!AddLoop(d, rHeader, columns))
    <2>1. Rectangular(e)
      <3>1. PICK q \in Nat : Rows(q)
        BY DEF OpenLoop
      <3>2. \A k \in DOMAIN rHeader :
                /\ IsSequence(columns[rHeader[k]])
                /\ Len(columns[rHeader[k]]) = IF rIndex % Len(rHeader) = 0 THEN q ELSE q + 1
        BY <3>1, PaddedRows
      <3> HIDE DEF columns
      <3>3. \A k \in DOMAIN rHeader : rHeader[k] \notin DOMAIN OpenData.tags
        BY DEF OpenLoop
      <3>4. IsSequence(rHeader)
        BY DEF OpenLoop
      <3>5. QED
        BY <3>2, <3>3, <3>4, OpenIsRectangular, LoopIsRectangular
    <2> HIDE DEF columns
    <2>2. IF rFrame # <<>> THEN rFrame' = <<[rFrame[1] EXCEPT !.data = e]>> /\ UNCHANGED rBlock
          ELSE rBlock' = <<[rBlock[1] EXCEPT !.data = e]>> /\ UNCHANGED rFrame
      BY <1>4 DEF Raw!UpdateNamespace, OpenData, Document, FrameIsGood, BlockIsGood
    <2> HIDE DEF e
    <2>3. QED
      BY <1>1, <2>1, <2>2, OpenIsReplaced
  <1>5. QED
    BY <1>2, <1>3, <1>4

-----------------------------------------------------------------------------
(***************************************************************************)
(* The invariant.                                                          *)
(***************************************************************************)
LEMMA InitShape ==
    ASSUME PipelineInit
    PROVE  ShapeInv
  <1>1. rBlocks = <<>> /\ rBlock = <<>> /\ rFrame = <<>> /\ DOMAIN rBlocks = {}
    BY DEF PipelineInit, Raw!RawInit
  <1>2. QED
    BY <1>1, EmptyIsSequence DEF ShapeInv, Document, AtMostOne, Live

LEMMA BuildShape ==
    ASSUME PlaceInv, ShapeInv, Build
    PROVE  ShapeInv'
  <1> SUFFICES ASSUME ~misplaced' PROVE Document' /\ (Live' => FreeTag' /\ (rInLoop' => OpenLoop'))
    BY DEF ShapeInv
  <1> DEFINE c == Head(calls)
  <1>1. c \in Call /\ ctx \in ES!Context /\ ES!Legal(ctx, c) /\ Raw!RawCall(c)
    BY DeliverLeads DEF Build, Deliver, PlaceInv, StreamInv, IInv, TypeOK
  <1>2. ~misplaced /\ ~Misplaces(c)
    BY DEF Build
  <1>3. Document /\ (Live => FreeTag /\ (rInLoop => OpenLoop))
    BY <1>2 DEF ShapeInv
  <1>4. c.op \in Ops
    BY <1>1 DEF Call
  <1> HIDE DEF c
  <1>5. CASE rStopped
    BY <1>1, <1>3, <1>5 DEF Raw!RawCall, Raw!rVars, Document, AtMostOne, Live
  <1>6. CASE ~rStopped /\ c.op = "on_data_block"
    <2>1. Raw!OnDataBlockRaw(c.arg)
      BY <1>1, <1>6 DEF Raw!RawCall
    <2>2. Document' /\ rActive' = <<>> /\ rInLoop' = FALSE
      BY <1>3, <2>1, BlockShape
    <2>3. QED
      BY <2>2 DEF FreeTag
  <1>7. CASE ~rStopped /\ rBlock = <<>> /\ c.op # "on_data_block"
    <2>1. UNCHANGED <<rBlocks, rBlock, rFrame>>
      BY <1>1, <1>3, <1>7, NothingWithoutBlock
    <2>2. QED
      BY <1>3, <1>7, <2>1 DEF Document, AtMostOne, Live
  <1>8. CASE Live /\ c.op # "on_data_block"
    <2>1. /\ FreeTag /\ (rInLoop => OpenLoop) /\ rBlock # <<>> /\ ~rStopped
          /\ rInLoop = ctx.loop
          /\ (ctx.nest = <<>> /\ ~ctx.tag) \/ ctx.loop => rActive = <<>>
      BY <1>3, <1>8 DEF Live, PlaceInv, Follows
    <2>2. ctx.loop \in BOOLEAN
      BY <1>1 DEF ES!Context
    <2>3. CASE c.op \in {"on_save_frame_start", "on_save_frame_end", "add_tag", "on_loop_start"}
      <3>1. rInLoop = FALSE /\ rActive = <<>>
        BY <1>1, <2>1, <2>2, <2>3 DEF ES!Legal, ES!Quiet
      <3>2. CASE c.op \in {"on_save_frame_start", "on_save_frame_end"}
        <4>1. Document' /\ UNCHANGED <<rActive, rInLoop>>
          BY <1>1, <1>3, <2>1, <3>2, FrameStartShape, FrameEndShape DEF Raw!RawCall
        <4>2. QED
          BY <3>1, <4>1 DEF FreeTag
      <3>3. CASE c.op = "add_tag"
        <4>1. Raw!AddTagRaw(c.arg)
          BY <1>1, <2>1, <3>3 DEF Raw!RawCall
        <4>2. QED
          BY <1>2, <1>3, <3>1, <3>3, <4>1, TagShape
      <3>4. CASE c.op = "on_loop_start"
        <4>1. Raw!OnLoopStartRaw(c.tags) /\ c.tags # <<>>
          BY <1>1, <2>1, <3>4 DEF Raw!RawCall, ES!Legal
        <4>2. c.tags \in Seq(Tags)
          BY <1>1, HeadersAssumption DEF Call
        <4>3. Document' /\ OpenLoop' /\ UNCHANGED rActive
          BY <1>2, <1>3, <3>4, <4>1, <4>2, LoopStartShape
        <4>4. QED
          BY <3>1, <4>3 DEF FreeTag
      <3>5. QED
        BY <2>3, <3>2, <3>3, <3>4
    <2>4. CASE c.op = "on_loop_end"
      <3>1. rInLoop /\ rActive = <<>>
        BY <1>1, <2>1, <2>4 DEF ES!Legal
      <3>2. Document' /\ rInLoop' = FALSE /\ UNCHANGED rActive
        BY <1>1, <1>3, <2>1, <2>4, <3>1, LoopEndShape DEF Raw!RawCall
      <3>3. QED
        BY <3>1, <3>2 DEF FreeTag
    <2>5. CASE c.op \in {"add_value", "on_list_end", "on_table_end"}
      <3>1. CASE \E s, v : Raw!DispatchRaw(s, v)
        BY <1>3, <2>1, <3>1, DispatchShape
      <3>2. CASE UNCHANGED <<rBlock, rFrame, rBlocks, rActive, rInLoop, rHeader, rIndex, rColumns>>
        BY <1>3, <2>1, <3>2 DEF Document, AtMostOne, FreeTag, OpenLoop, OpenData, Rows
      <3>3. QED
        BY <1>1, <2>1, <2>5, <3>1, <3>2 DEF Raw!RawCall, Raw!AddValueRaw, Raw!CloseRaw, Raw!rVars, Raw!rItem
    <2>6. CASE c.op \in {"on_list_start", "on_table_start", "on_table_key"}
      <3>1. UNCHANGED <<rBlock, rFrame, rBlocks, rActive, rInLoop, rHeader, rIndex, rColumns>>
        BY <1>1, <2>1, <2>6 DEF Raw!RawCall, Raw!OpenRaw, Raw!OnTableKeyRaw
      <3>2. QED
        BY <1>3, <2>1, <3>1 DEF Document, AtMostOne, FreeTag, OpenLoop, OpenData, Rows
    <2>7. QED
      BY <1>4, <1>8, <2>3, <2>4, <2>5, <2>6 DEF Ops
  <1>9. QED
    BY <1>5, <1>6, <1>7, <1>8 DEF Live

LEMMA NextShape == PlaceInv /\ ShapeInv /\ [PipelineNext]_pipelineVars => ShapeInv'
  <1> SUFFICES ASSUME PlaceInv, ShapeInv, [PipelineNext]_pipelineVars PROVE ShapeInv'
    OBVIOUS
  <1>1. CASE Build
    BY <1>1, BuildShape
  <1>2. CASE ReadFile \/ UNCHANGED pipelineVars
    <2>1. UNCHANGED <<rStopped, rBlock, rFrame, rBlocks, rActive, rInLoop, rHeader, rIndex, rColumns, misplaced>>
      BY <1>2 DEF ReadFile, builders, pipelineVars
    <2>2. QED
      BY <2>1 DEF ShapeInv, Live, Document, AtMostOne, FreeTag, OpenLoop, OpenData, Rows
  <1>3. QED
    BY <1>1, <1>2 DEF PipelineNext, PipelineDone

\* Document, FreeTag and OpenLoop hold in every state of every file in which
\* nothing has been misplaced.
THEOREM ShapeInvariant == PipelineSpec => []ShapeInv
  <1>1. PipelineInit => ShapeInv
    BY InitShape
  <1>2. QED
    BY <1>1, NextShape, PlaceInvariant, PTL DEF PipelineSpec

LEMMA DocumentIsGood ==
    ASSUME ShapeInv, ~misplaced
    PROVE  /\ IsSequence(Raw!RawDocument)
           /\ \A i \in DOMAIN Raw!RawDocument : BlockIsGood(Raw!RawDocument[i])
  <1>1. Document
    BY DEF ShapeInv
  <1>2. IsSequence(rBlock) /\ \A j \in DOMAIN rBlock : BlockIsGood(rBlock[j])
    BY <1>1, BlockIsOne
  <1>3. QED
    BY <1>1, <1>2, JoinIsSequence DEF Document, Raw!RawDocument

LEMMA ShapeIsRectangular ==
    ASSUME ShapeInv
    PROVE  LoopsAreRectangular
  <1> SUFFICES ASSUME ~misplaced, NEW d \in Namespaces(Raw!RawDocument), NEW i \in DOMAIN d.loops,
                      NEW k \in DOMAIN d.loops[i], NEW l \in DOMAIN d.loops[i]
               PROVE  Len(d.tags[d.loops[i][k]]) = Len(d.tags[d.loops[i][l]])
    BY DEF LoopsAreRectangular
  <1>1. \A j \in DOMAIN Raw!RawDocument : BlockIsGood(Raw!RawDocument[j])
    BY DocumentIsGood
  <1>2. Rectangular(d)
    <2>1. CASE \E j \in DOMAIN Raw!RawDocument : d = Raw!RawDocument[j].data
      BY <1>1, <2>1 DEF BlockIsGood
    <2>2. CASE \E j \in DOMAIN Raw!RawDocument : \E m \in DOMAIN Raw!RawDocument[j].frames :
                   d = Raw!RawDocument[j].frames[m].data
      BY <1>1, <2>2 DEF BlockIsGood, FrameIsGood
    <2>3. QED
      BY <2>1, <2>2 DEF Namespaces
  <1>3. QED
    BY <1>2 DEF Rectangular

\* In the document of any file, read at any moment, the columns of a loop have one
\* length, unless the file gave something no place of its own (Misplaces).
THEOREM LoopsAreRectangularCorrect == PipelineSpec => []LoopsAreRectangular
  BY ShapeInvariant, ShapeIsRectangular, PTL

-----------------------------------------------------------------------------
(***************************************************************************)
(* Names.  Of a document built without an error no two blocks have a name  *)
(* in common, and no two frames of a block: a second one of a name is      *)
(* reported when it starts.  So a look-up by name finds what was meant.    *)
(***************************************************************************)
Distinct(s) == \A i, j \in DOMAIN s : s[i].name = s[j].name => i = j

NamesApart ==
    /\ Distinct(rBlocks)
    /\ \A i \in DOMAIN rBlocks : rBlocks[i].name \in rSeenBlocks /\ Distinct(rBlocks[i].frames)
    /\ rBlock # <<>> =>
        /\ rBlock[1].name \in rSeenBlocks
        /\ \A i \in DOMAIN rBlocks : rBlocks[i].name # rBlock[1].name
        /\ Distinct(rBlock[1].frames)
        /\ \A i \in DOMAIN rBlock[1].frames : rBlock[1].frames[i].name \in rSeenFrames
        /\ rFrame # <<>> =>
            /\ rFrame[1].name \in rSeenFrames
            /\ \A i \in DOMAIN rBlock[1].frames : rBlock[1].frames[i].name # rFrame[1].name

NamesInv == IsSequence(rErrors) /\ (~misplaced /\ rErrors = <<>> => NamesApart)

\* What was open is still open under its name, with the frames it had.
SameNames ==
    /\ UNCHANGED <<rBlocks, rSeenBlocks, rSeenFrames>>
    /\ rBlock' # <<>> <=> rBlock # <<>>
    /\ rBlock # <<>> => rBlock'[1].name = rBlock[1].name /\ rBlock'[1].frames = rBlock[1].frames
    /\ rFrame' # <<>> <=> rFrame # <<>>
    /\ rFrame # <<>> => rFrame'[1].name = rFrame[1].name

LEMMA SameNamesKeep ==
    ASSUME NamesApart, SameNames
    PROVE  NamesApart'
  <1>1. /\ rBlocks' = rBlocks /\ rSeenBlocks' = rSeenBlocks /\ rSeenFrames' = rSeenFrames
        /\ Distinct(rBlocks)'
    BY DEF SameNames, NamesApart, Distinct
  <1>2. CASE rBlock' = <<>>
    BY <1>1, <1>2 DEF SameNames, NamesApart, Distinct
  <1>3. CASE rBlock' # <<>>
    <2>1. rBlock # <<>> /\ rBlock'[1].name = rBlock[1].name /\ rBlock'[1].frames = rBlock[1].frames
      BY <1>3 DEF SameNames
    <2>2. rFrame' # <<>> => rFrame # <<>> /\ rFrame'[1].name = rFrame[1].name
      BY DEF SameNames
    <2>3. QED
      BY <1>1, <2>1, <2>2 DEF NamesApart, Distinct
  <1>4. QED
    BY <1>2, <1>3

\* The open namespace has become e.
Stored(e) ==
    IF rFrame # <<>> THEN rFrame' = <<[rFrame[1] EXCEPT !.data = e]>> /\ UNCHANGED rBlock
    ELSE /\ rBlock' = IF rBlock = <<>> THEN <<>> ELSE <<[rBlock[1] EXCEPT !.data = e]>>
         /\ UNCHANGED rFrame

LEMMA StoringKeepsNames ==
    ASSUME Document, NEW e, Stored(e), UNCHANGED <<rBlocks, rSeenBlocks, rSeenFrames>>
    PROVE  SameNames
  <1>1. CASE rFrame # <<>>
    <2> DEFINE f == [rFrame[1] EXCEPT !.data = e]
    <2>1. rFrame' = <<f>> /\ rBlock' = rBlock
      BY <1>1 DEF Stored
    <2>2. f.name = rFrame[1].name
      BY <1>1 DEF Document, FrameIsGood
    <2> HIDE DEF f
    <2>3. rFrame'[1] = f /\ rFrame' # <<>>
      BY <2>1
    <2>4. QED
      BY <1>1, <2>1, <2>2, <2>3 DEF SameNames
  <1>2. CASE rFrame = <<>> /\ rBlock # <<>>
    <2> DEFINE b == [rBlock[1] EXCEPT !.data = e]
    <2>1. rBlock' = <<b>> /\ rFrame' = rFrame
      BY <1>2 DEF Stored
    <2>2. b.name = rBlock[1].name /\ b.frames = rBlock[1].frames
      BY <1>2 DEF Document, BlockIsGood
    <2> HIDE DEF b
    <2>3. rBlock'[1] = b /\ rBlock' # <<>>
      BY <2>1
    <2>4. QED
      BY <1>2, <2>1, <2>2, <2>3 DEF SameNames
  <1>3. CASE rFrame = <<>> /\ rBlock = <<>>
    BY <1>3 DEF Stored, SameNames
  <1>4. QED
    BY <1>1, <1>2, <1>3

\* Every callback but those that start or end something that has a name.
LEMMA OthersKeepNames ==
    ASSUME Document, NEW c \in Call, Raw!RawCall(c), ~rStopped,
           c.op \notin {"on_data_block", "on_save_frame_start", "on_save_frame_end"}
    PROVE  SameNames
  <1>1. c.op \in Ops
    BY DEF Call
  <1>2. ASSUME UNCHANGED <<rBlocks, rBlock, rFrame, rSeenBlocks, rSeenFrames>>
        PROVE  SameNames
    BY <1>2 DEF SameNames
  <1>3. ASSUME NEW s, NEW v, Raw!DispatchRaw(s, v)
        PROVE  SameNames
    <2>1. UNCHANGED <<rBlocks, rSeenBlocks, rSeenFrames>>
      BY <1>3 DEF Raw!DispatchRaw
    <2>2. CASE UNCHANGED <<rBlock, rFrame>>
      BY <1>2, <2>1, <2>2
    <2>3. CASE Raw!UpdateNamespace(LAMBDA d : Raw!AppendValue(d, rActive[1], v))
      <3>1. Stored(Raw!AppendValue(OpenData, rActive[1], v))
        BY <2>3 DEF Raw!UpdateNamespace, Stored, OpenData, Document, FrameIsGood, BlockIsGood
      <3>2. QED
        BY <2>1, <3>1, StoringKeepsNames
    <2>4. QED
      BY <1>3, <2>2, <2>3 DEF Raw!DispatchRaw
  <1>4. CASE c.op \in {"add_value", "on_list_end", "on_table_end"}
    <2>1. \/ \E s, v : Raw!DispatchRaw(s, v)
          \/ UNCHANGED <<rBlocks, rBlock, rFrame, rSeenBlocks, rSeenFrames>>
      BY <1>4 DEF Raw!RawCall, Raw!AddValueRaw, Raw!CloseRaw, Raw!rVars
    <2>2. QED
      BY <1>2, <1>3, <2>1
  <1>5. CASE c.op = "on_loop_end"
    <2> DEFINE columns == Raw!TakenColumns(Raw!Padded(rColumns, rHeader, rIndex), rHeader)
    <2>1. UNCHANGED <<rBlocks, rSeenBlocks, rSeenFrames>>
      BY <1>5 DEF Raw!RawCall, Raw!OnLoopEndRaw
    <2>2. CASE UNCHANGED <<rBlock, rFrame>>
      BY <1>2, <2>1, <2>2
    <2>3. CASE Raw!UpdateNamespace(LAMBDA d : Raw!AddLoop(d, rHeader, columns))
      <3> HIDE DEF columns
      <3>1. Stored(Raw!AddLoop(OpenData, rHeader, columns))
        BY <2>3 DEF Raw!UpdateNamespace, Stored, OpenData, Document, FrameIsGood, BlockIsGood
      <3>2. QED
        BY <2>1, <3>1, StoringKeepsNames
    <2>4. QED
      BY <1>5, <2>2, <2>3 DEF Raw!RawCall, Raw!OnLoopEndRaw
  <1>6. CASE c.op \in {"add_tag", "on_list_start", "on_table_start", "on_table_key", "on_loop_start"}
    BY <1>2, <1>6 DEF Raw!RawCall, Raw!AddTagRaw, Raw!OpenRaw, Raw!OnTableKeyRaw, Raw!OnLoopStartRaw
  <1>7. QED
    BY <1>1, <1>4, <1>5, <1>6 DEF Ops

\* An error leaves the list of errors with something in it.
LEMMA ErrorsStay ==
    ASSUME IsSequence(rErrors), NEW cond \in BOOLEAN, NEW what, Raw!SemanticErrorIf(cond, what)
    PROVE  IsSequence(rErrors') /\ (rErrors' = <<>> => rErrors = <<>> /\ ~cond)
  <1>1. CASE cond
    <2>1. rErrors' = Append(rErrors, what)
      BY <1>1 DEF Raw!SemanticErrorIf
    <2>2. IsSequence(rErrors') /\ Len(rErrors') = Len(rErrors) + 1 /\ Len(rErrors) \in Nat
      BY <2>1, AppendIsSequence, SequenceBasics
    <2>3. rErrors' # <<>>
      BY <2>2, SequenceBasics
    <2>4. QED
      BY <2>2, <2>3
  <1>2. CASE ~cond
    BY <1>2 DEF Raw!SemanticErrorIf
  <1>3. QED
    BY <1>1, <1>2

LEMMA CallKeepsErrors ==
    ASSUME NEW c \in Call, Raw!RawCall(c), IsSequence(rErrors)
    PROVE  IsSequence(rErrors') /\ (rErrors' = <<>> => rErrors = <<>>)
  <1>1. c.op \in Ops
    BY DEF Call
  <1>2. CASE UNCHANGED rErrors
    BY <1>2
  <1>3. CASE ~rStopped /\ c.op = "on_data_block"
    <2>1. Raw!SemanticErrorIf(RustFold[c.arg] \in rSeenBlocks, "duplicate block")
      BY <1>3 DEF Raw!RawCall, Raw!OnDataBlockRaw
    <2>2. (RustFold[c.arg] \in rSeenBlocks) \in BOOLEAN
      OBVIOUS
    <2>3. QED
      BY <2>1, <2>2, ErrorsStay, Zenon
  <1>4. CASE ~rStopped /\ c.op = "on_save_frame_start"
    <2>1. Raw!OnSaveFrameStartRaw(c.arg)
      BY <1>4 DEF Raw!RawCall
    <2>2. \/ UNCHANGED rErrors
          \/ Raw!SemanticErrorIf(RustFold[c.arg] \in rSeenFrames, "duplicate save frame")
      BY <2>1 DEF Raw!OnSaveFrameStartRaw, Raw!rVars
    <2>3. (RustFold[c.arg] \in rSeenFrames) \in BOOLEAN
      OBVIOUS
    <2>4. QED
      BY <1>2, <2>2, <2>3, ErrorsStay, Zenon
  <1>5. CASE ~rStopped /\ c.op = "on_loop_end"
    <2>1. Raw!SemanticErrorIf(rHeader # <<>> /\ rIndex % Len(rHeader) # 0, "incomplete loop row")
      BY <1>5 DEF Raw!RawCall, Raw!OnLoopEndRaw
    <2>2. (rHeader # <<>> /\ rIndex % Len(rHeader) # 0) \in BOOLEAN
      OBVIOUS
    <2>3. QED
      BY <2>1, <2>2, ErrorsStay, Zenon
  <1>6. CASE rStopped
    BY <1>2, <1>6 DEF Raw!RawCall, Raw!rVars
  <1>7. CASE ~rStopped /\ c.op \notin {"on_data_block", "on_save_frame_start", "on_loop_end"}
    <2>1. UNCHANGED rErrors
      BY <1>1, <1>7 DEF Ops, Raw!RawCall, Raw!OnSaveFrameEndRaw, Raw!AddTagRaw, Raw!OpenRaw, Raw!OnTableKeyRaw,
         Raw!OnLoopStartRaw, Raw!AddValueRaw, Raw!CloseRaw, Raw!DispatchRaw, Raw!rVars
    <2>2. QED
      BY <1>2, <2>1
  <1>8. QED
    BY <1>3, <1>4, <1>5, <1>6, <1>7

LEMMA JoinedNames ==
    ASSUME Document, NamesApart
    PROVE  /\ Distinct(rBlocks \o rBlock)
           /\ \A i \in DOMAIN (rBlocks \o rBlock) :
                  (rBlocks \o rBlock)[i].name \in rSeenBlocks /\ Distinct((rBlocks \o rBlock)[i].frames)
  <1>1. IsSequence(rBlocks) /\ IsSequence(rBlock) /\ (rBlock # <<>> => DOMAIN rBlock = {1})
    <2>1. IsSequence(rBlocks) /\ IsSequence(rBlock)
      BY BlockIsOne DEF Document
    <2>2. CASE rBlock # <<>>
      <3>1. rBlock = <<rBlock[1]>>
        BY <2>2 DEF Document, AtMostOne
      <3>2. Len(rBlock) = 1
        BY <3>1
      <3>3. QED
        BY <2>1, <3>2, SequenceBasics
    <2>3. QED
      BY <2>1, <2>2
  <1> DEFINE all == rBlocks \o rBlock
  <1>2. Len(rBlocks) \in Nat /\ DOMAIN rBlocks = 1..Len(rBlocks)
    BY <1>1, SequenceBasics
  <1>3. \A i \in DOMAIN all :
           \/ i \in DOMAIN rBlocks /\ all[i] = rBlocks[i]
           \/ i = Len(rBlocks) + 1 /\ rBlock # <<>> /\ all[i] = rBlock[1]
    <2> TAKE i \in DOMAIN all
    <2>1. CASE i \in DOMAIN rBlocks
      BY <1>1, <2>1, JoinIsSequence
    <2>2. CASE i \notin DOMAIN rBlocks
      <3>1. i - Len(rBlocks) \in DOMAIN rBlock /\ all[i] = rBlock[i - Len(rBlocks)]
        BY <1>1, <2>2, JoinIsSequence
      <3>2. rBlock # <<>>
        BY <3>1
      <3>3. i - Len(rBlocks) = 1
        BY <1>1, <3>1, <3>2
      <3>4. i \in Nat
        BY <1>1, <1>2, JoinIsSequence, SequenceBasics
      <3>5. QED
        BY <1>2, <3>1, <3>2, <3>3, <3>4
    <2>3. QED
      BY <2>1, <2>2
  <1> HIDE DEF all
  <1>4. Distinct(all)
    <2> SUFFICES ASSUME NEW i \in DOMAIN all, NEW j \in DOMAIN all, all[i].name = all[j].name
                 PROVE  i = j
      BY DEF Distinct
    <2>1. QED
      BY <1>3 DEF NamesApart, Distinct
  <1>5. \A i \in DOMAIN all : all[i].name \in rSeenBlocks /\ Distinct(all[i].frames)
    BY <1>3 DEF NamesApart
  <1>6. QED
    BY <1>4, <1>5 DEF all

LEMMA DataBlockNames ==
    ASSUME Document, IsSequence(rErrors), rErrors = <<>> => NamesApart, NEW n, Raw!OnDataBlockRaw(n),
           rErrors' = <<>>
    PROVE  NamesApart'
  <1> DEFINE m == RustFold[n]
             b == [name |-> m, data |-> Raw!NoData, frames |-> <<>>]
  <1>1. /\ Raw!SemanticErrorIf(m \in rSeenBlocks, "duplicate block")
        /\ rBlocks' = rBlocks \o rBlock /\ rBlock' = <<b>> /\ rFrame' = <<>>
        /\ rSeenBlocks' = rSeenBlocks \cup {m} /\ rSeenFrames' = {}
    BY DEF Raw!OnDataBlockRaw
  <1>2. b.name = m /\ b.frames = <<>> /\ DOMAIN b.frames = {}
    OBVIOUS
  <1> HIDE DEF b, m
  <1>3. (m \in rSeenBlocks) \in BOOLEAN
    OBVIOUS
  <1>4. rErrors = <<>> /\ m \notin rSeenBlocks
    BY <1>1, <1>3, ErrorsStay, Zenon
  <1>5. NamesApart
    BY <1>4
  <1> DEFINE all == rBlocks \o rBlock
  <1>10. Distinct(all) /\ \A i \in DOMAIN all : all[i].name \in rSeenBlocks /\ Distinct(all[i].frames)
    BY <1>5, JoinedNames
  <1> HIDE DEF all
  <1>11. rBlocks' = all /\ rBlock'[1] = b
    BY <1>1 DEF all
  <1>12. Distinct(rBlocks)' /\ \A i \in DOMAIN all : all[i].name # m
    BY <1>4, <1>10, <1>11 DEF Distinct
  <1>13. Distinct(b.frames)
    BY <1>2 DEF Distinct
  <1>14. QED
    BY <1>1, <1>2, <1>10, <1>11, <1>12, <1>13 DEF NamesApart, Distinct

LEMMA FrameStartNames ==
    ASSUME Document, IsSequence(rErrors), rErrors = <<>> => NamesApart, rBlock # <<>>,
           NEW n, Raw!OnSaveFrameStartRaw(n), rErrors' = <<>>
    PROVE  NamesApart'
  <1> DEFINE m == RustFold[n]
             f == [name |-> m, data |-> Raw!NoData]
  <1>1. /\ Raw!SemanticErrorIf(m \in rSeenFrames, "duplicate save frame")
        /\ rFrame' = <<f>> /\ rSeenFrames' = rSeenFrames \cup {m}
        /\ UNCHANGED <<rBlock, rBlocks, rSeenBlocks>>
    BY DEF Raw!OnSaveFrameStartRaw
  <1>2. f.name = m
    OBVIOUS
  <1> HIDE DEF f, m
  <1>3. (m \in rSeenFrames) \in BOOLEAN
    OBVIOUS
  <1>4. rErrors = <<>> /\ m \notin rSeenFrames
    BY <1>1, <1>3, ErrorsStay, Zenon
  <1>5. rFrame'[1] = f
    BY <1>1
  <1>6. NamesApart
    BY <1>4
  <1>7. /\ Distinct(rBlocks')
        /\ \A i \in DOMAIN rBlocks' : rBlocks'[i].name \in rSeenBlocks' /\ Distinct(rBlocks'[i].frames)
    BY <1>1, <1>6 DEF NamesApart
  <1>8. \A i \in DOMAIN rBlock[1].frames : rBlock[1].frames[i].name \in rSeenFrames
    BY <1>6 DEF NamesApart
  <1>9. f.name \in rSeenFrames' /\ \A i \in DOMAIN rBlock[1].frames : rBlock[1].frames[i].name # f.name
    BY <1>1, <1>2, <1>4, <1>8
  <1>10. /\ rBlock[1].name \in rSeenBlocks /\ Distinct(rBlock[1].frames)
         /\ \A i \in DOMAIN rBlocks : rBlocks[i].name # rBlock[1].name
    BY <1>6 DEF NamesApart
  <1>11. Distinct(rBlocks)'
    BY <1>1, <1>7 DEF Distinct
  <1>12. QED
    BY <1>1, <1>5, <1>7, <1>8, <1>9, <1>10, <1>11 DEF NamesApart, Distinct

LEMMA FrameEndNames ==
    ASSUME Document, NamesApart, rBlock # <<>>, Raw!OnSaveFrameEndRaw
    PROVE  NamesApart'
  <1> DEFINE b == [rBlock[1] EXCEPT !.frames = @ \o rFrame]
             old == rBlock[1].frames
             new == old \o rFrame
  <1>1. /\ rBlock' = <<b>> /\ rFrame' = <<>> /\ UNCHANGED <<rBlocks, rSeenBlocks, rSeenFrames>>
    BY DEF Raw!OnSaveFrameEndRaw
  <1>2. b.name = rBlock[1].name /\ b.frames = new
    BY DEF Document, BlockIsGood
  <1> HIDE DEF b
  <1>3. rBlock'[1] = b /\ rBlock' # <<>>
    BY <1>1
  <1>4. Distinct(new) /\ \A i \in DOMAIN new : new[i].name \in rSeenFrames
    <2>1. CASE rFrame = <<>>
      <3>1. IsSequence(old)
        BY DEF Document, BlockIsGood
      <3>2. old \in Seq({old[i] : i \in DOMAIN old})
        BY <3>1 DEF IsSequence
      <3>3. new = old
        BY <2>1, <3>2
      <3>4. QED
        BY <3>3 DEF NamesApart
    <2>2. CASE rFrame # <<>>
      <3> DEFINE f == rFrame[1]
      <3>1. rFrame = <<f>> /\ IsSequence(old)
        BY <2>2 DEF Document, AtMostOne, BlockIsGood
      <3>2. IsSequence(rFrame) /\ DOMAIN rFrame = {1}
        <4>1. IsSequence(rFrame)
          BY <3>1, OneIsSequence
        <4>2. Len(rFrame) = 1
          BY <3>1
        <4>3. QED
          BY <4>1, <4>2, SequenceBasics
      <3>3. Len(old) \in Nat /\ DOMAIN old = 1..Len(old)
        BY <3>1, SequenceBasics
      <3> HIDE DEF f
      <3>4. \A i \in DOMAIN new : \/ i \in DOMAIN old /\ new[i] = old[i]
                                  \/ i = Len(old) + 1 /\ new[i] = f
        <4> HIDE DEF old
        <4> TAKE i \in DOMAIN new
        <4>1. CASE i \in DOMAIN old
          BY <3>1, <3>2, <4>1, JoinIsSequence
        <4>2. CASE i \notin DOMAIN old
          <5>1. i - Len(old) \in DOMAIN rFrame /\ new[i] = rFrame[i - Len(old)]
            BY <3>1, <3>2, <4>2, JoinIsSequence
          <5>2. i - Len(old) = 1
            BY <3>2, <5>1
          <5>3. i \in Nat
            BY <3>1, <3>2, <3>3, JoinIsSequence, SequenceBasics
          <5>4. QED
            BY <3>3, <5>1, <5>2, <5>3 DEF f
        <4>3. QED
          BY <4>1, <4>2
      <3>5. /\ Distinct(old) /\ \A i \in DOMAIN old : old[i].name \in rSeenFrames
            /\ f.name \in rSeenFrames /\ \A i \in DOMAIN old : old[i].name # f.name
        BY <2>2 DEF NamesApart, f
      <3> HIDE DEF new, old
      <3>6. \A i \in DOMAIN new : new[i].name \in rSeenFrames
        BY <3>4, <3>5
      <3>7. Distinct(new)
        <4> SUFFICES ASSUME NEW i \in DOMAIN new, NEW j \in DOMAIN new, new[i].name = new[j].name
                     PROVE  i = j
          BY DEF Distinct
        <4>1. QED
          BY <3>4, <3>5 DEF Distinct
      <3>8. QED
        BY <3>6, <3>7
    <2>3. QED
      BY <2>1, <2>2
  <1> HIDE DEF new, old
  <1>5. Distinct(rBlocks)'
    BY <1>1 DEF NamesApart, Distinct
  <1>6. \A i \in DOMAIN rBlocks : rBlocks[i].name \in rSeenBlocks /\ Distinct(rBlocks[i].frames)
    BY DEF NamesApart
  <1>7. b.name \in rSeenBlocks /\ \A i \in DOMAIN rBlocks : rBlocks[i].name # b.name
    BY <1>2 DEF NamesApart
  <1>8. Distinct(b.frames) /\ \A i \in DOMAIN b.frames : b.frames[i].name \in rSeenFrames
    BY <1>2, <1>4
  <1>9. QED
    BY <1>1, <1>3, <1>5, <1>6, <1>7, <1>8 DEF NamesApart

LEMMA BuildNames ==
    ASSUME PlaceInv, ShapeInv, NamesInv, Build
    PROVE  NamesInv'
  <1> DEFINE c == Head(calls)
  <1>1. c \in Call /\ Raw!RawCall(c)
    BY DeliverLeads DEF Build, Deliver, PlaceInv, StreamInv, IInv, TypeOK
  <1>2. misplaced' = (misplaced \/ Misplaces(c))
    BY DEF Build
  <1> HIDE DEF c
  <1>3. IsSequence(rErrors') /\ (rErrors' = <<>> => rErrors = <<>>)
    BY <1>1, CallKeepsErrors DEF NamesInv
  <1> SUFFICES ASSUME ~misplaced', rErrors' = <<>> PROVE NamesApart'
    BY <1>3 DEF NamesInv
  <1>4. Document /\ NamesApart
    <2>1. ~misplaced
      BY <1>2
    <2>2. QED
      BY <2>1, <1>3 DEF ShapeInv, NamesInv
  <1>5. CASE rStopped \/ (rBlock = <<>> /\ c.op \in {"on_save_frame_start", "on_save_frame_end"})
    <2>1. SameNames
      BY <1>1, <1>4, <1>5 DEF Raw!RawCall, Raw!OnSaveFrameStartRaw, Raw!OnSaveFrameEndRaw, Raw!rVars, SameNames, Document
    <2>2. QED
      BY <1>4, <2>1, SameNamesKeep
  <1>6. CASE ~rStopped /\ c.op = "on_data_block"
    BY <1>1, <1>4, <1>6, DataBlockNames DEF Raw!RawCall, NamesInv
  <1>7. CASE ~rStopped /\ rBlock # <<>> /\ c.op = "on_save_frame_start"
    BY <1>1, <1>4, <1>7, FrameStartNames DEF Raw!RawCall, NamesInv
  <1>8. CASE ~rStopped /\ rBlock # <<>> /\ c.op = "on_save_frame_end"
    BY <1>1, <1>4, <1>8, FrameEndNames DEF Raw!RawCall
  <1>9. CASE ~rStopped /\ c.op \notin {"on_data_block", "on_save_frame_start", "on_save_frame_end"}
    BY <1>1, <1>4, <1>9, OthersKeepNames, SameNamesKeep
  <1>10. QED
    BY <1>5, <1>6, <1>7, <1>8, <1>9

LEMMA InitNames == PipelineInit => NamesInv
  <1> SUFFICES ASSUME PipelineInit PROVE NamesInv
    OBVIOUS
  <1>1. rBlocks = <<>> /\ rBlock = <<>> /\ rErrors = <<>> /\ DOMAIN rBlocks = {}
    BY DEF PipelineInit, Raw!RawInit
  <1>2. QED
    BY <1>1, EmptyIsSequence DEF NamesInv, NamesApart, Distinct

LEMMA NextNames == PlaceInv /\ ShapeInv /\ NamesInv /\ [PipelineNext]_pipelineVars => NamesInv'
  <1> SUFFICES ASSUME PlaceInv, ShapeInv, NamesInv, [PipelineNext]_pipelineVars PROVE NamesInv'
    OBVIOUS
  <1>1. CASE Build
    BY <1>1, BuildNames
  <1>2. CASE ReadFile \/ UNCHANGED pipelineVars
    <2>1. UNCHANGED <<rErrors, rBlock, rFrame, rBlocks, rSeenBlocks, rSeenFrames, misplaced>>
      BY <1>2 DEF ReadFile, builders, pipelineVars
    <2>2. QED
      BY <2>1 DEF NamesInv, NamesApart, Distinct
  <1>3. QED
    BY <1>1, <1>2 DEF PipelineNext, PipelineDone

\* While nothing has been misplaced and no semantic error reported, the blocks of a
\* document have names of their own, and the frames of each block have.
THEOREM NamesInvariant == PipelineSpec => []NamesInv
  BY InitNames, NextNames, PlaceInvariant, ShapeInvariant, PTL DEF PipelineSpec

-----------------------------------------------------------------------------
(***************************************************************************)
(* The exports.                                                            *)
(***************************************************************************)
\* Where names are distinct, looking one up finds its own place.
LEMMA PlaceOfItsName ==
    ASSUME NEW s, IsSequence(s), Distinct(s), NEW i \in DOMAIN s
    PROVE  Arrow!PlaceOfName(s, s[i].name) = i
  <1> DEFINE P(k) == s[k].name = s[i].name /\ \A j \in 1..k - 1 : s[j].name # s[i].name
  <1>1. DOMAIN s = 1..Len(s) /\ Len(s) \in Nat
    BY SequenceBasics
  <1>2. P(i)
    BY <1>1 DEF Distinct
  <1>3. \A k \in DOMAIN s : P(k) => k = i
    BY DEF Distinct
  <1> HIDE DEF P
  <1>4. (CHOOSE k \in DOMAIN s : P(k)) = i
    BY <1>2, <1>3
  <1>5. QED
    BY <1>4 DEF Arrow!PlaceOfName, P

LEMMA ArrowCardinality == \A S : Arrow!Sets!Cardinality(S) = Cardinality(S)
  BY DEF Arrow!Sets!Cardinality, Cardinality

LEMMA DistinctByName ==
    ASSUME NEW s, IsSequence(s), Distinct(s)
    PROVE  Arrow!ByName(s) = s
  <1> DEFINE before(i) == {j \in DOMAIN s : Arrow!Earlier(s, j, i)}
             at(k) == CHOOSE i \in DOMAIN s : Arrow!Sets!Cardinality(before(i)) = k - 1
  <1>1. DOMAIN s = 1..Len(s) /\ Len(s) \in Nat
    BY SequenceBasics
  <1>2. \A i \in DOMAIN s : before(i) = 1..i - 1
    <2> TAKE i \in DOMAIN s
    <2>1. \A j \in DOMAIN s : Arrow!Earlier(s, j, i) <=> j < i
      BY <1>1, PlaceOfItsName DEF Arrow!Earlier
    <2>2. QED
      BY <1>1, <2>1
  <1> HIDE DEF before
  <1>3. \A i \in DOMAIN s : Arrow!Sets!Cardinality(before(i)) = i - 1
    <2> TAKE i \in DOMAIN s
    <2>1. i - 1 \in Nat
      BY <1>1
    <2>2. Cardinality(1..i - 1) = i - 1
      BY <1>1, <2>1, FS_Interval
    <2>3. QED
      BY <1>2, <2>2, ArrowCardinality
  <1>4. \A k \in DOMAIN s : at(k) = k
    BY <1>1, <1>3
  <1>5. Arrow!ByName(s) = [k \in DOMAIN s |-> s[at(k)]]
    BY DEF Arrow!ByName, before
  <1> HIDE DEF at
  <1>6. s = [k \in DOMAIN s |-> s[k]]
    <2>1. s \in Seq({s[i] : i \in DOMAIN s})
      BY DEF IsSequence
    <2>2. QED
      BY <2>1
  <1>7. QED
    BY <1>4, <1>5, <1>6

\* A sequence with the same names at the same places.
LEMMA SamePlaces ==
    ASSUME NEW s, IsSequence(s), NEW t, t = [i \in DOMAIN s |-> t[i]], \A i \in DOMAIN s : t[i].name = s[i].name,
           Distinct(s)
    PROVE  IsSequence(t) /\ Distinct(t)
  <1>1. DOMAIN t = DOMAIN s
    OBVIOUS
  <1>2. DOMAIN s = 1..Len(s) /\ Len(s) \in Nat
    BY SequenceBasics
  <1> DEFINE R == {t[i] : i \in DOMAIN s}
  <1>3. t \in [1..Len(s) -> R]
    BY <1>2
  <1>4. t \in Seq(R)
    BY <1>2, <1>3
  <1>5. IsSequence(t)
    BY <1>4, OverItsRange
  <1>6. Distinct(t)
    BY <1>1 DEF Distinct
  <1>7. QED
    BY <1>5, <1>6

\* The document as Python sees it has the names that the Rust builder gave it.
LEMMA BuiltNames ==
    ASSUME Document, NamesApart
    PROVE  /\ IsSequence(Built) /\ Distinct(Built)
           /\ \A i \in DOMAIN Built : IsSequence(Built[i].frames) /\ Distinct(Built[i].frames)
  <1> DEFINE all == Raw!RawDocument
  <1>1. IsSequence(all) /\ \A i \in DOMAIN all : BlockIsGood(all[i])
    BY BlockIsOne, JoinIsSequence DEF Document, Raw!RawDocument
  <1>2. Distinct(all) /\ \A i \in DOMAIN all : Distinct(all[i].frames)
    BY JoinedNames DEF Raw!RawDocument
  <1> HIDE DEF all
  <1>3. \A i \in DOMAIN all :
            /\ BlockToPython(all[i]).name = all[i].name
            /\ BlockToPython(all[i]).frames = [j \in DOMAIN all[i].frames |-> FrameToPython(all[i].frames[j])]
    BY <1>1 DEF BlockToPython, BlockIsGood
  <1>4. \A i \in DOMAIN all : \A j \in DOMAIN all[i].frames :
            FrameToPython(all[i].frames[j]).name = all[i].frames[j].name
    BY <1>1 DEF FrameToPython, BlockIsGood, FrameIsGood
  <1>5. Built = [i \in DOMAIN all |-> BlockToPython(all[i])]
    BY DEF Built, all
  <1>6. IsSequence(Built) /\ Distinct(Built)
    <2>1. Built = [i \in DOMAIN all |-> Built[i]] /\ \A i \in DOMAIN all : Built[i].name = all[i].name
      BY <1>3, <1>5
    <2>2. QED
      BY <1>1, <1>2, <2>1, SamePlaces
  <1>7. ASSUME NEW i \in DOMAIN all
        PROVE  IsSequence(Built[i].frames) /\ Distinct(Built[i].frames)
    <2> DEFINE frames == all[i].frames
    <2>1. Built[i].frames = [j \in DOMAIN frames |-> FrameToPython(frames[j])]
      BY <1>3, <1>5
    <2>2. IsSequence(frames) /\ Distinct(frames) /\ \A j \in DOMAIN frames : FrameToPython(frames[j]).name = frames[j].name
      BY <1>1, <1>2, <1>4 DEF BlockIsGood
    <2> HIDE DEF frames
    <2>3. Built[i].frames = [j \in DOMAIN frames |-> Built[i].frames[j]] /\ \A j \in DOMAIN frames : Built[i].frames[j].name = frames[j].name
      BY <2>1, <2>2
    <2>4. QED
      BY <2>2, <2>3, SamePlaces
  <1>8. QED
    BY <1>5, <1>6, <1>7

\* cif_to_arrow, which looks each block up again by its name and takes the frames
\* of a block by theirs, finds the one it is at (cifmodel/builder.py).
LooksUpItself ==
    ~misplaced /\ rErrors = <<>> =>
        \A i \in DOMAIN Built :
            /\ Arrow!FirstOfName(Built, Built[i].name) = Built[i]
            /\ Arrow!ByName(Built[i].frames) = Built[i].frames

LEMMA NamesAreFound ==
    ASSUME ShapeInv, NamesInv
    PROVE  LooksUpItself
  <1> SUFFICES ASSUME ~misplaced, rErrors = <<>>, NEW i \in DOMAIN Built
               PROVE  /\ Arrow!FirstOfName(Built, Built[i].name) = Built[i]
                      /\ Arrow!ByName(Built[i].frames) = Built[i].frames
    BY DEF LooksUpItself
  <1> DEFINE doc == Built
  <1>1. /\ IsSequence(doc) /\ Distinct(doc)
        /\ \A k \in DOMAIN doc : IsSequence(doc[k].frames) /\ Distinct(doc[k].frames)
    BY BuiltNames DEF ShapeInv, NamesInv
  <1> HIDE DEF doc
  <1>2. \A k \in DOMAIN doc : Arrow!FirstOfName(doc, doc[k].name) = doc[k]
    BY <1>1, PlaceOfItsName DEF Arrow!FirstOfName
  <1>3. \A k \in DOMAIN doc : Arrow!ByName(doc[k].frames) = doc[k].frames
    BY <1>1, DistinctByName
  <1>4. QED
    BY <1>2, <1>3 DEF doc

-----------------------------------------------------------------------------
(***************************************************************************)
(* The exports of one namespace, raw and converted.                        *)
(***************************************************************************)
\* Each value of the namespace gives one cell, raw or converted.
Alike(d) ==
    \A t \in DOMAIN d.tags : \A i \in DOMAIN d.tags[t] :
        RawToStr(d.tags[t][i]) = Enc(ToPython(d.tags[t][i]))

\* What the conversion of a namespace keeps.
Converted(d, p) ==
    /\ p.order = d.order /\ p.loops = d.loops /\ DOMAIN p.tags = DOMAIN d.tags
    /\ \A t \in DOMAIN d.tags : p.tags[t] = [i \in DOMAIN d.tags[t] |-> ToPython(d.tags[t][i])]

LEMMA DataIsConverted ==
    ASSUME NEW d, Rectangular(d)
    PROVE  Converted(d, DataToPython(d))
  <1>1. d = [order |-> d.order, tags |-> d.tags, loops |-> d.loops]
    BY DEF Rectangular
  <1>2. PICK tags : tags = [t \in DOMAIN d.tags |-> [i \in DOMAIN d.tags[t] |-> ToPython(d.tags[t][i])]]
    OBVIOUS
  <1>3. PICK p : p = DataToPython(d)
    OBVIOUS
  <1>4. p = [order |-> d.order, tags |-> tags, loops |-> d.loops]
    BY <1>1, <1>2, <1>3 DEF DataToPython
  <1>5. p.order = d.order /\ p.loops = d.loops /\ p.tags = tags
    BY <1>4
  <1>6. QED
    BY <1>2, <1>3, <1>5 DEF Converted

\* The values of a tag, raw and converted.
LEMMA ValuesAreConverted ==
    ASSUME NEW d, Listed(d), NEW p, Converted(d, p), NEW t \in DOMAIN d.tags
    PROVE  /\ IsSequence(d.tags[t]) /\ DOMAIN p.tags[t] = DOMAIN d.tags[t]
           /\ IsSequence(p.tags[t]) /\ Len(p.tags[t]) = Len(d.tags[t])
           /\ \A i \in DOMAIN d.tags[t] : p.tags[t][i] = ToPython(d.tags[t][i])
  <1>1. PICK s, q : s = d.tags[t] /\ q = p.tags[t]
    OBVIOUS
  <1>2. IsSequence(s) /\ q = [i \in DOMAIN s |-> ToPython(s[i])]
    BY <1>1 DEF Listed, Converted
  <1>3. PICK n \in Nat : n = Len(s) /\ DOMAIN s = 1 .. n
    BY <1>2, SequenceBasics
  <1>4. DOMAIN q = 1 .. n /\ q = [i \in DOMAIN q |-> q[i]] /\ \A i \in 1 .. n : q[i] = ToPython(s[i])
    BY <1>2, <1>3
  <1>5. q \in Seq({q[i] : i \in DOMAIN q}) /\ Len(q) = n
    BY <1>3, <1>4
  <1>6. QED
    BY <1>1, <1>2, <1>3, <1>4, <1>5 DEF IsSequence

\* The longest of some columns of a namespace.
LEMMA LongestIs ==
    ASSUME NEW d, Listed(d), NEW tags, IsSequence(tags), \A k \in DOMAIN tags : tags[k] \in DOMAIN d.tags
    PROVE  /\ Arrow!Longest(d, tags) \in Nat
           /\ \A k \in DOMAIN tags : Len(d.tags[tags[k]]) <= Arrow!Longest(d, tags)
           /\ tags = <<>> => Arrow!Longest(d, tags) = 0
  <1>1. PICK lengths : lengths = {0} \cup {Len(d.tags[tags[i]]) : i \in DOMAIN tags}
    OBVIOUS
  <1>2. \A k \in DOMAIN tags : Len(d.tags[tags[k]]) \in Nat
    BY SequenceBasics DEF Listed
  <1>3. lengths \subseteq Nat /\ 0 \in lengths
    BY <1>1, <1>2
  <1>4. \E n \in lengths : \A m \in lengths : m <= n
    <2>1. PICK count \in Nat : count = Len(tags) /\ DOMAIN tags = 1 .. count
      BY SequenceBasics
    <2>2. PICK f : f = [k \in 1 .. count |-> Len(d.tags[tags[k]])]
      OBVIOUS
    <2>3. \A k \in 1 .. count : f[k] = Len(d.tags[tags[k]]) /\ f[k] \in Nat
      BY <1>2, <2>1, <2>2
    <2>4. PICK b \in Nat : \A k \in 1 .. count : f[k] <= b
      BY <2>3, ListHasBound
    <2>5. lengths \subseteq 0 .. b
      BY <1>1, <2>1, <2>3, <2>4
    <2>6. QED
      BY <1>3, <2>4, <2>5, HasGreatest
  <1>5. PICK n : n = Arrow!Longest(d, tags)
    OBVIOUS
  <1>6. n = CHOOSE x \in lengths : \A m \in lengths : m <= x
    BY <1>1, <1>5 DEF Arrow!Longest
  <1>7. n \in lengths /\ \A m \in lengths : m <= n
    BY <1>4, <1>6
  <1>8. tags = <<>> => lengths = {0}
    BY <1>1
  <1>9. \A k \in DOMAIN tags : Len(d.tags[tags[k]]) \in lengths
    BY <1>1
  <1>10. QED
    BY <1>3, <1>5, <1>7, <1>8, <1>9

\* One column of scalars.
LEMMA ScalarColumnsAgree ==
    ASSUME NEW s, IsSequence(s), NEW q, IsSequence(q), DOMAIN q = DOMAIN s,
           \A i \in DOMAIN s : RawToStr(s[i]) = Enc(q[i]),
           NEW rows \in Nat, Len(s) <= rows
    PROVE  Arrow!RustScalarColumn(s, rows) = Arrow!PyScalarColumn(q, rows)
  <1>1. PICK n \in Nat : n = Len(s) /\ DOMAIN s = 1 .. n /\ n = Len(q)
    <2>1. Len(s) \in Nat /\ DOMAIN s = 1 .. Len(s) /\ Len(q) \in Nat /\ DOMAIN q = 1 .. Len(q)
      BY SequenceBasics
    <2>2. Len(s) = Len(q)
      BY <2>1
    <2>3. QED
      BY <2>1, <2>2
  <1>2. PICK m \in Nat : m = rows - n
    BY <1>1
  <1>3. PICK a, b : a = [i \in 1 .. n |-> <<Enc(q[i])>>] /\ b = [k \in 1 .. m |-> Arrow!None]
    OBVIOUS
  <1>4. PICK S : S = {a[i] : i \in 1 .. n} \cup {b[k] : k \in 1 .. m}
    OBVIOUS
  <1>5. a \in Seq(S) /\ Len(a) = n /\ b \in Seq(S) /\ Len(b) = m
    BY <1>3, <1>4
  <1>6. PICK c : c = a \o b
    OBVIOUS
  <1>7. /\ c = [i \in 1 .. rows |-> c[i]]
        /\ \A i \in 1 .. rows : c[i] = IF i <= n THEN a[i] ELSE b[i - n]
    <2>1. c \in Seq(S) /\ Len(c) = n + m /\ \A i \in 1 .. n + m : c[i] = IF i <= n THEN a[i] ELSE b[i - n]
      BY <1>5, <1>6, ConcatProperties
    <2>2. n + m = rows
      BY <1>2
    <2>3. QED
      BY <2>1, <2>2
  <1>8. PICK r : r = Arrow!RustScalarColumn(s, rows)
    OBVIOUS
  <1>9. r = [i \in 1 .. rows |-> r[i]] /\ \A i \in 1 .. rows : r[i] = IF i \in 1 .. n THEN <<RawToStr(s[i])>> ELSE Arrow!None
    BY <1>1, <1>8 DEF Arrow!RustScalarColumn
  <1>10. ASSUME NEW i \in 1 .. rows
         PROVE  r[i] = c[i]
    <2>1. CASE i <= n
      <3>1. i \in 1 .. n /\ a[i] = <<Enc(q[i])>>
        BY <1>3, <2>1
      <3>2. r[i] = <<RawToStr(s[i])>> /\ c[i] = a[i]
        BY <1>7, <1>9, <2>1, <3>1
      <3>3. QED
        BY <1>1, <3>1, <3>2
    <2>2. CASE ~(i <= n)
      <3>1. i - n \in 1 .. m /\ i \notin 1 .. n
        BY <1>2, <2>2
      <3>2. b[i - n] = Arrow!None
        BY <1>3, <3>1
      <3>3. QED
        BY <1>7, <1>9, <2>2, <3>1, <3>2
    <2>3. QED
      BY <2>1, <2>2
  <1>11. r = c
    BY <1>7, <1>9, <1>10
  <1>12. Arrow!PyScalarColumn(q, rows) = c
    BY <1>1, <1>2, <1>3, <1>6 DEF Arrow!PyScalarColumn
  <1>13. QED
    BY <1>8, <1>11, <1>12

LEMMA BatchesAgree ==
    ASSUME NEW block, NEW frame, NEW loop, NEW rows, NEW tags, NEW c, NEW e,
           \A i \in DOMAIN tags : c[tags[i]] = e[tags[i]]
    PROVE  Arrow!Batch(block, frame, loop, rows, tags, c) = Arrow!Batch(block, frame, loop, rows, tags, e)
  <1>1. [i \in DOMAIN tags |-> <<tags[i], c[tags[i]]>>] = [i \in DOMAIN tags |-> <<tags[i], e[tags[i]]>>]
    OBVIOUS
  <1>2. QED
    BY <1>1, Zenon DEF Arrow!Batch

\* The tags that are in no loop, of both.
LEMMA ScalarTagsAre ==
    ASSUME NEW d, Listed(d), NEW p, Converted(d, p)
    PROVE  LET tags == Arrow!ScalarTags(d)
           IN  /\ Arrow!ScalarTags(p) = tags
               /\ IsSequence(tags) /\ \A k \in DOMAIN tags : tags[k] \in DOMAIN d.tags
  <1>1. PICK S : S = {k \in DOMAIN d.order : d.order[k] \notin Arrow!LoopTags(d)}
    OBVIOUS
  <1>2. PICK o : o = Arrow!InOrder(S)
    OBVIOUS
  <1>3. PICK tags : tags = [n \in DOMAIN o |-> d.order[o[n]]]
    OBVIOUS
  <1>4. Arrow!ScalarTags(d) = tags
    BY <1>1, <1>2, <1>3 DEF Arrow!ScalarTags
  <1>5. Arrow!ScalarTags(p) = tags
    <2>1. p.order = d.order /\ p.loops = d.loops
      BY DEF Converted
    <2>2. Arrow!LoopTags(p) = Arrow!LoopTags(d)
      BY <2>1 DEF Arrow!LoopTags
    <2>3. QED
      BY <1>1, <1>2, <1>3, <2>1, <2>2 DEF Arrow!ScalarTags
  <1>6. S \subseteq DOMAIN d.order
    BY <1>1
  <1>7. Lists(o, S)
    BY <1>2, <1>6, SequenceBasics, ArrowInOrder DEF Listed
  <1>8. IsSequence(tags) /\ \A m \in DOMAIN tags : o[m] \in S /\ tags[m] = d.order[o[m]]
    BY <1>3, <1>6, <1>7, TakenInOrder
  <1>9. QED
    BY <1>4, <1>5, <1>6, <1>8 DEF Listed

\* The batch of the scalars of a namespace.
LEMMA ScalarsAgree ==
    ASSUME NEW d, Listed(d), Alike(d), NEW p, Converted(d, p), NEW block, NEW frame, NEW tags, NEW rows,
           tags = Arrow!ScalarTags(d), rows = Arrow!Longest(d, tags)
    PROVE  /\ tags = Arrow!ScalarTags(p) /\ rows = Arrow!Longest(p, tags)
           /\ rows \in Nat /\ (tags = <<>> => rows = 0)
           /\ Arrow!Batch(block, frame, 0, rows, tags,
                          [t \in DOMAIN d.tags |-> Arrow!RustScalarColumn(d.tags[t], rows)])
                = Arrow!Batch(block, frame, 0, rows, tags,
                              [t \in DOMAIN p.tags |-> Arrow!PyScalarColumn(p.tags[t], rows)])
  <1>1. /\ Arrow!ScalarTags(p) = tags
        /\ IsSequence(tags) /\ \A k \in DOMAIN tags : tags[k] \in DOMAIN d.tags
    BY ScalarTagsAre
  <1>2. /\ rows \in Nat /\ \A k \in DOMAIN tags : Len(d.tags[tags[k]]) <= rows
        /\ tags = <<>> => rows = 0
    BY <1>1, LongestIs
  <1>3. rows = Arrow!Longest(p, tags)
    <2>1. \A k \in DOMAIN tags : Len(p.tags[tags[k]]) = Len(d.tags[tags[k]])
      BY <1>1, ValuesAreConverted
    <2>2. {Len(p.tags[tags[i]]) : i \in DOMAIN tags} = {Len(d.tags[tags[i]]) : i \in DOMAIN tags}
      BY <2>1
    <2>3. QED
      BY <2>2, Zenon DEF Arrow!Longest
  <1>4. PICK c, e : /\ c = [t \in DOMAIN d.tags |-> Arrow!RustScalarColumn(d.tags[t], rows)]
                    /\ e = [t \in DOMAIN p.tags |-> Arrow!PyScalarColumn(p.tags[t], rows)]
    OBVIOUS
  <1>5. ASSUME NEW k \in DOMAIN tags
        PROVE  c[tags[k]] = e[tags[k]]
    <2>1. PICK t : t = tags[k] /\ t \in DOMAIN d.tags /\ t \in DOMAIN p.tags
      BY <1>1 DEF Converted
    <2>2. PICK s, q : s = d.tags[t] /\ q = p.tags[t]
      OBVIOUS
    <2>3. /\ IsSequence(s) /\ IsSequence(q) /\ DOMAIN q = DOMAIN s
          /\ \A i \in DOMAIN s : q[i] = ToPython(s[i])
      BY <2>1, <2>2, ValuesAreConverted
    <2>4. \A i \in DOMAIN s : RawToStr(s[i]) = Enc(q[i])
      BY <2>1, <2>2, <2>3 DEF Alike
    <2>5. Len(s) <= rows
      BY <1>2, <2>1, <2>2
    <2>6. Arrow!RustScalarColumn(s, rows) = Arrow!PyScalarColumn(q, rows)
      BY <1>2, <2>3, <2>4, <2>5, ScalarColumnsAgree
    <2>7. QED
      BY <1>4, <2>1, <2>2, <2>6
  <1>6. Arrow!Batch(block, frame, 0, rows, tags, c) = Arrow!Batch(block, frame, 0, rows, tags, e)
    BY <1>5, BatchesAgree
  <1>7. QED
    BY <1>1, <1>2, <1>3, <1>4, <1>6

\* The rows of the loops, and which have any.
LEMMA FullLoopsAre ==
    ASSUME NEW d, Rectangular(d), NEW p, Converted(d, p), NEW full, full = Arrow!FullLoops(d)
    PROVE  /\ full = Arrow!FullLoops(p)
           /\ \A k \in DOMAIN full : full[k] \in DOMAIN d.loops
           /\ \A i \in DOMAIN d.loops : Arrow!LoopRows(d, i) = Arrow!LoopRows(p, i)
  <1>1. p.loops = d.loops
    BY DEF Converted
  <1>2. ASSUME NEW i \in DOMAIN d.loops
        PROVE  Arrow!LoopRows(d, i) = Arrow!LoopRows(p, i)
    <2>1. PICK h : h = d.loops[i] /\ h = p.loops[i] /\ IsSequence(h)
      BY <1>1 DEF Rectangular, Listed
    <2>2. CASE h = <<>>
      BY <2>1, <2>2 DEF Arrow!LoopRows
    <2>3. CASE h # <<>>
      <3>1. 1 \in DOMAIN h
        BY <2>1, <2>3, SequenceBasics
      <3>2. h[1] \in DOMAIN d.tags
        BY <2>1, <3>1 DEF Rectangular
      <3>3. Len(p.tags[h[1]]) = Len(d.tags[h[1]])
        BY <3>2, ValuesAreConverted DEF Rectangular
      <3>4. QED
        BY <2>1, <2>3, <3>3 DEF Arrow!LoopRows
    <2>4. QED
      BY <2>2, <2>3
  <1>3. PICK S : S = {i \in DOMAIN d.loops : Arrow!LoopRows(d, i) > 0}
    OBVIOUS
  <1>4. S = {i \in DOMAIN p.loops : Arrow!LoopRows(p, i) > 0}
    BY <1>1, <1>2, <1>3
  <1>5. full = Arrow!InOrder(S) /\ Arrow!FullLoops(p) = Arrow!InOrder(S)
    BY <1>3, <1>4, Zenon DEF Arrow!FullLoops
  <1>6. IsSequence(d.loops) /\ S \subseteq DOMAIN d.loops
    BY <1>3 DEF Rectangular
  <1>7. Lists(full, S)
    BY <1>5, <1>6, SequenceBasics, ArrowInOrder
  <1>8. QED
    BY <1>2, <1>5, <1>6, <1>7 DEF Lists

\* The cells of the loops of a namespace, by tag.
LoopCells(d, p, c, e) ==
    /\ \A t \in DOMAIN d.tags : c[t] = Arrow!RustLoopColumn(d.tags[t])
    /\ \A t \in DOMAIN p.tags : e[t] = [m \in DOMAIN p.tags[t] |-> <<Enc(p.tags[t][m])>>]

\* The batches of the loops of a namespace.
LEMMA LoopsAgree ==
    ASSUME NEW d, Rectangular(d), Alike(d), NEW p, Converted(d, p), NEW block, NEW frame,
           NEW i \in DOMAIN d.loops, NEW c, NEW e, LoopCells(d, p, c, e)
    PROVE  Arrow!Batch(block, frame, i, Arrow!LoopRows(d, i), d.loops[i], c)
             = Arrow!Batch(block, frame, i, Arrow!LoopRows(p, i), p.loops[i], e)
  <1>1. PICK h, rows : h = d.loops[i] /\ rows = Arrow!LoopRows(d, i)
    OBVIOUS
  <1>2. h = p.loops[i] /\ rows = Arrow!LoopRows(p, i)
    BY <1>1, FullLoopsAre DEF Converted
  <1>3. ASSUME NEW k \in DOMAIN h
        PROVE  c[h[k]] = e[h[k]]
    <2>1. PICK t : t = h[k] /\ t \in DOMAIN d.tags /\ t \in DOMAIN p.tags
      BY <1>1, <1>3 DEF Rectangular, Converted
    <2>2. PICK s, q : s = d.tags[t] /\ q = p.tags[t]
      OBVIOUS
    <2>3. DOMAIN q = DOMAIN s /\ \A m \in DOMAIN s : q[m] = ToPython(s[m])
      BY <2>1, <2>2, ValuesAreConverted DEF Rectangular
    <2>4. \A m \in DOMAIN s : RawToStr(s[m]) = Enc(q[m])
      BY <2>1, <2>2, <2>3 DEF Alike
    <2>5. Arrow!RustLoopColumn(s) = [m \in DOMAIN q |-> <<Enc(q[m])>>]
      BY <2>3, <2>4 DEF Arrow!RustLoopColumn
    <2>6. c[t] = Arrow!RustLoopColumn(s) /\ e[t] = [m \in DOMAIN q |-> <<Enc(q[m])>>]
      BY <2>1, <2>2 DEF LoopCells
    <2>7. QED
      BY <2>1, <2>5, <2>6
  <1>4. Arrow!Batch(block, frame, i, rows, h, c) = Arrow!Batch(block, frame, i, rows, h, e)
    BY <1>3, BatchesAgree
  <1>5. QED
    BY <1>1, <1>2, <1>4

\* frame_to_batches of the raw namespace, _ns_batches of the converted one.
LEMMA NamespacesAgree ==
    ASSUME NEW d, Rectangular(d), Alike(d), NEW p, Converted(d, p), NEW block, NEW frame
    PROVE  Arrow!RustNamespace(d, block, frame) = Arrow!PyNamespace(p, block, frame)
  <1>2. Listed(d)
    BY DEF Rectangular
  <1>3. PICK tags, rows : tags = Arrow!ScalarTags(d) /\ rows = Arrow!Longest(d, tags)
    OBVIOUS
  <1>4. PICK a, b : /\ a = [t \in DOMAIN d.tags |-> Arrow!RustScalarColumn(d.tags[t], rows)]
                    /\ b = [t \in DOMAIN p.tags |-> Arrow!PyScalarColumn(p.tags[t], rows)]
    OBVIOUS
  <1>5. /\ tags = Arrow!ScalarTags(p) /\ rows = Arrow!Longest(p, tags)
        /\ rows \in Nat /\ (tags = <<>> => rows = 0)
        /\ Arrow!Batch(block, frame, 0, rows, tags, a) = Arrow!Batch(block, frame, 0, rows, tags, b)
    BY <1>2, <1>3, <1>4, ScalarsAgree
  <1>6. PICK scalars : scalars = Arrow!Batch(block, frame, 0, rows, tags, a)
    OBVIOUS
  <1>7. Arrow!PyScalars(p, block, frame) = IF rows > 0 THEN <<scalars>> ELSE <<>>
    <2>1. (tags = <<>> \/ rows = 0) <=> ~(rows > 0)
      BY <1>5
    <2>2. Arrow!PyScalars(p, block, frame) =
              IF tags = <<>> \/ rows = 0 THEN <<>> ELSE <<Arrow!Batch(block, frame, 0, rows, tags, b)>>
      BY <1>4, <1>5 DEF Arrow!PyScalars
    <2>3. QED
      BY <1>5, <1>6, <2>1, <2>2
  <1>8. PICK full : full = Arrow!FullLoops(d)
    OBVIOUS
  <1>9. full = Arrow!FullLoops(p) /\ \A k \in DOMAIN full : full[k] \in DOMAIN d.loops
    BY <1>8, FullLoopsAre
  <1>10. PICK c, e : /\ c = [t \in DOMAIN d.tags |-> Arrow!RustLoopColumn(d.tags[t])]
                     /\ e = [t \in DOMAIN p.tags |-> [m \in DOMAIN p.tags[t] |-> <<Enc(p.tags[t][m])>>]]
    OBVIOUS
  <1>11. PICK loops : loops = [k \in DOMAIN full |->
             Arrow!Batch(block, frame, full[k], Arrow!LoopRows(d, full[k]), d.loops[full[k]], c)]
    OBVIOUS
  <1>12. Arrow!PyLoops(p, block, frame) = loops
    <2>1. Arrow!PyLoops(p, block, frame) = [k \in DOMAIN full |->
             Arrow!Batch(block, frame, full[k], Arrow!LoopRows(p, full[k]), p.loops[full[k]], e)]
      BY <1>9, <1>10 DEF Arrow!PyLoops
    <2>2. \A k \in DOMAIN full :
              Arrow!Batch(block, frame, full[k], Arrow!LoopRows(d, full[k]), d.loops[full[k]], c)
                = Arrow!Batch(block, frame, full[k], Arrow!LoopRows(p, full[k]), p.loops[full[k]], e)
      <3> SUFFICES ASSUME NEW k \in DOMAIN full
                   PROVE  Arrow!Batch(block, frame, full[k], Arrow!LoopRows(d, full[k]), d.loops[full[k]], c)
                            = Arrow!Batch(block, frame, full[k], Arrow!LoopRows(p, full[k]), p.loops[full[k]], e)
        OBVIOUS
      <3>1. PICK i \in DOMAIN d.loops : i = full[k]
        BY <1>9
      <3>2. Arrow!Batch(block, frame, i, Arrow!LoopRows(d, i), d.loops[i], c)
              = Arrow!Batch(block, frame, i, Arrow!LoopRows(p, i), p.loops[i], e)
        <4>1. LoopCells(d, p, c, e)
          BY <1>10 DEF LoopCells
        <4>2. QED
          BY <3>1, <4>1, LoopsAgree
      <3>3. QED
        BY <3>1, <3>2
    <2>3. QED
      BY <1>11, <2>1, <2>2
  <1>13. Arrow!RustNamespace(d, block, frame) = (IF rows > 0 THEN <<scalars>> ELSE <<>>) \o loops
    BY <1>3, <1>4, <1>6, <1>8, <1>10, <1>11 DEF Arrow!RustNamespace
  <1>14. Arrow!PyNamespace(p, block, frame) = (IF rows > 0 THEN <<scalars>> ELSE <<>>) \o loops
    BY <1>7, <1>12 DEF Arrow!PyNamespace
  <1>15. QED
    BY <1>13, <1>14

-----------------------------------------------------------------------------
(***************************************************************************)
(* The exports of a document.                                              *)
(***************************************************************************)
\* Each value of the document gives one cell, raw or converted (raw_to_str,
\* raw_value_to_python and _enc).
CellsAlike == \A d \in Namespaces(Raw!RawDocument) : Alike(d)

\* A block as it is built.
LEMMA BlockBuilt ==
    ASSUME NEW b, BlockIsGood(b), NEW q, q = BlockToPython(b)
    PROVE  /\ q.name = b.name /\ Converted(b.data, q.data)
           /\ DOMAIN q.frames = DOMAIN b.frames
           /\ \A j \in DOMAIN b.frames :
                  q.frames[j].name = b.frames[j].name /\ Converted(b.frames[j].data, q.frames[j].data)
  <1>1. PICK data, frames : /\ data = DataToPython(b.data)
                            /\ frames = [j \in DOMAIN b.frames |-> FrameToPython(b.frames[j])]
    OBVIOUS
  <1>2. q = [name |-> b.name, data |-> data, frames |-> frames]
    BY <1>1 DEF BlockIsGood, BlockToPython
  <1>3. q.name = b.name /\ q.data = data /\ q.frames = frames
    BY <1>2
  <1>4. Converted(b.data, data)
    BY <1>1, DataIsConverted DEF BlockIsGood
  <1>5. ASSUME NEW j \in DOMAIN b.frames
        PROVE  frames[j].name = b.frames[j].name /\ Converted(b.frames[j].data, frames[j].data)
    <2>1. PICK f, g : f = b.frames[j] /\ g = frames[j]
      OBVIOUS
    <2>2. FrameIsGood(f) /\ g = FrameToPython(f)
      BY <1>1, <2>1 DEF BlockIsGood
    <2>3. PICK e : e = DataToPython(f.data)
      OBVIOUS
    <2>4. g = [name |-> f.name, data |-> e]
      BY <2>2, <2>3 DEF FrameIsGood, FrameToPython
    <2>5. g.name = f.name /\ g.data = e
      BY <2>4
    <2>6. Converted(f.data, e)
      BY <2>2, <2>3, DataIsConverted DEF FrameIsGood
    <2>7. QED
      BY <2>1, <2>5, <2>6
  <1>6. DOMAIN frames = DOMAIN b.frames
    BY <1>1
  <1>7. QED
    BY <1>3, <1>4, <1>5, <1>6

\* The batches of one block.
LEMMA BlocksAgree ==
    ASSUME NEW b, BlockIsGood(b), NEW q, q = BlockToPython(b), NEW block,
           Arrow!ByName(q.frames) = q.frames,
           Alike(b.data), \A j \in DOMAIN b.frames : Alike(b.frames[j].data)
    PROVE  Arrow!RustNamespace(b.data, block, Arrow!None) \o Arrow!RustFrames(b, block)
             = Arrow!PyNamespace(q.data, block, Arrow!None) \o Arrow!PyFrames(q, block)
  <1>1. /\ q.name = b.name /\ Converted(b.data, q.data)
        /\ DOMAIN q.frames = DOMAIN b.frames
        /\ \A j \in DOMAIN b.frames :
               q.frames[j].name = b.frames[j].name /\ Converted(b.frames[j].data, q.frames[j].data)
    BY BlockBuilt
  <1>2. Arrow!RustNamespace(b.data, block, Arrow!None) = Arrow!PyNamespace(q.data, block, Arrow!None)
    BY <1>1, NamespacesAgree DEF BlockIsGood
  <1>3. Arrow!RustFrames(b, block) = Arrow!PyFrames(q, block)
    <2>1. PICK frames, built : frames = b.frames /\ built = q.frames
      OBVIOUS
    <2>2. ASSUME NEW j \in DOMAIN frames
          PROVE  Arrow!RustNamespace(frames[j].data, block, <<j, frames[j].name>>)
                   = Arrow!PyNamespace(built[j].data, block, <<j, built[j].name>>)
      <3>1. PICK d, p, frame : d = frames[j].data /\ p = built[j].data /\ frame = <<j, frames[j].name>>
        OBVIOUS
      <3>2. Rectangular(d) /\ Alike(d) /\ Converted(d, p) /\ built[j].name = frames[j].name
        BY <1>1, <2>1, <3>1 DEF BlockIsGood, FrameIsGood
      <3>3. Arrow!RustNamespace(d, block, frame) = Arrow!PyNamespace(p, block, frame)
        BY <3>2, NamespacesAgree
      <3>4. QED
        BY <3>1, <3>2, <3>3
    <2>3. [j \in DOMAIN b.frames |-> Arrow!RustNamespace(b.frames[j].data, block, <<j, b.frames[j].name>>)]
            = [j \in DOMAIN q.frames |-> Arrow!PyNamespace(q.frames[j].data, block, <<j, q.frames[j].name>>)]
      BY <1>1, <2>1, <2>2
    <2>4. QED
      BY <2>3, Zenon DEF Arrow!RustFrames, Arrow!PyFrames
  <1>4. QED
    BY <1>2, <1>3

LEMMA DocumentsAgree ==
    ASSUME ShapeInv, NamesInv, CellsAlike
    PROVE  ArrowAgrees
  <1> SUFFICES ASSUME ~misplaced, rErrors = <<>>
               PROVE  Arrow!RustBatches(Raw!RawDocument) = Arrow!PyBatches(Built)
    BY DEF ArrowAgrees
  <1>1. PICK doc, built : doc = Raw!RawDocument /\ built = Built
    OBVIOUS
  <1>2. \A i \in DOMAIN doc : BlockIsGood(doc[i])
    BY <1>1, DocumentIsGood
  <1>3. built = [i \in DOMAIN doc |-> BlockToPython(doc[i])]
    BY <1>1 DEF Built
  <1>4. \A i \in DOMAIN built : /\ Arrow!FirstOfName(built, built[i].name) = built[i]
                                /\ Arrow!ByName(built[i].frames) = built[i].frames
    BY <1>1, NamesAreFound DEF LooksUpItself
  <1>5. \A i \in DOMAIN doc : Alike(doc[i].data) /\ \A j \in DOMAIN doc[i].frames : Alike(doc[i].frames[j].data)
    BY <1>1 DEF CellsAlike, Namespaces
  <1>6. ASSUME NEW i \in DOMAIN doc
        PROVE  /\ built[i].name = doc[i].name /\ Arrow!FirstOfName(built, built[i].name) = built[i]
               /\ Arrow!RustNamespace(doc[i].data, <<i, doc[i].name>>, Arrow!None)
                      \o Arrow!RustFrames(doc[i], <<i, doc[i].name>>)
                    = Arrow!PyNamespace(built[i].data, <<i, built[i].name>>, Arrow!None)
                          \o Arrow!PyFrames(built[i], <<i, built[i].name>>)
    <2>1. PICK b, q, block : b = doc[i] /\ q = built[i] /\ block = <<i, doc[i].name>>
      OBVIOUS
    <2>2. BlockIsGood(b) /\ q = BlockToPython(b) /\ i \in DOMAIN built
      BY <1>2, <1>3, <2>1
    <2>3. Arrow!ByName(q.frames) = q.frames /\ Arrow!FirstOfName(built, q.name) = q
      BY <1>4, <2>1, <2>2
    <2>4. Alike(b.data) /\ \A j \in DOMAIN b.frames : Alike(b.frames[j].data)
      BY <1>5, <2>1
    <2>5. q.name = b.name
      BY <2>2, BlockBuilt
    <2>6. Arrow!RustNamespace(b.data, block, Arrow!None) \o Arrow!RustFrames(b, block)
            = Arrow!PyNamespace(q.data, block, Arrow!None) \o Arrow!PyFrames(q, block)
      BY <2>2, <2>3, <2>4, BlocksAgree
    <2>7. QED
      BY <2>1, <2>3, <2>5, <2>6
  <1>7. [i \in DOMAIN doc |->
            LET block == <<i, doc[i].name>>
            IN  Arrow!RustNamespace(doc[i].data, block, Arrow!None) \o Arrow!RustFrames(doc[i], block)]
        = [i \in DOMAIN built |->
            LET name  == built[i].name
                block == Arrow!FirstOfName(built, name)
            IN  Arrow!PyNamespace(block.data, <<i, name>>, Arrow!None) \o Arrow!PyFrames(block, <<i, name>>)]
    BY <1>3, <1>6
  <1>8. Arrow!RustBatches(doc) = Arrow!PyBatches(built)
    BY <1>7, Zenon DEF Arrow!RustBatches, Arrow!PyBatches
  <1>9. QED
    BY <1>1, <1>8

\* The export of the raw document and that of the CifFile built from it are the same
\* batches, for every file that gives nothing two places and every name once, as long
\* as each of its values gives one cell: both take the same blocks, frames, tags and
\* loops, in one order, and fill up the same columns (frame_to_batches, _ns_batches).
THEOREM ArrowAgreesCorrect == PipelineSpec => [](CellsAlike => ArrowAgrees)
  <1>1. ShapeInv /\ NamesInv => (CellsAlike => ArrowAgrees)
    BY DocumentsAgree
  <1>2. QED
    BY <1>1, ShapeInvariant, NamesInvariant, PTL

=============================================================================

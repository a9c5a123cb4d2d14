---------------------------- MODULE EventStream ----------------------------
(***************************************************************************)
(* What a sink may rely on: the grammar of the callbacks, whatever file is *)
(* parsed.  The context of a stream is what a sink has to remember to know *)
(* where the next value goes:                                              *)
(*   frame  a save frame is open                                           *)
(*   loop   a loop is open                                                 *)
(*   tag    a tag waits for its value                                      *)
(*   nest   the open containers, innermost last: a "list", or a table that *)
(*          expects a "key" or the "val" of the key it was given           *)
(* Items, loops and frames never overlap, containers nest, a table never   *)
(* ends on a key without a value.  Two things a sink must put up with: a   *)
(* '?' of the parser's own where nothing expects a value, and a container  *)
(* where a key is expected; it has to ignore both.                         *)
(***************************************************************************)
EXTENDS EventSink

VARIABLES
    ctx,        \* the context
    calls       \* the callbacks made and not yet executed

Context == [frame : BOOLEAN, loop : BOOLEAN, tag : BOOLEAN,
            nest : Seq({"list", "key", "val"})]

Idle == [frame |-> FALSE, loop |-> FALSE, tag |-> FALSE, nest |-> <<>>]

Innermost(s, kind) == s.nest # <<>> /\ s.nest[Len(s.nest)] = kind

\* Between items: no loop, no tag, no container is open.
Quiet(s) == ~s.loop /\ ~s.tag /\ s.nest = <<>>

\* A value has a place to go to.
Room(s) ==
    IF s.nest = <<>> THEN s.loop \/ s.tag
                     ELSE Innermost(s, "list") \/ Innermost(s, "val")

Turn(s, kind) == [s EXCEPT !.nest[Len(s.nest)] = kind]
Drop(s)       == [s EXCEPT !.nest = SubSeq(s.nest, 1, Len(s.nest) - 1)]
Push(s, kind) == [s EXCEPT !.nest = Append(s.nest, kind)]

\* The context once a value has taken its place.
Filled(s) ==
    IF s.nest = <<>> THEN [s EXCEPT !.tag = FALSE]
    ELSE IF Innermost(s, "val") THEN Turn(s, "key") ELSE s

Legal(s, c) ==
    CASE c.op = "on_data_block"       -> Quiet(s) /\ ~s.frame
      [] c.op = "on_save_frame_start" -> Quiet(s) /\ ~s.frame
      [] c.op = "on_save_frame_end"   -> Quiet(s) /\ s.frame
      [] c.op = "on_loop_start"       -> Quiet(s) /\ c.tags # <<>>
      [] c.op = "on_loop_end"         -> s.loop /\ s.nest = <<>>
      [] c.op = "add_tag"             -> Quiet(s)
      [] c.op = "add_value"           -> Room(s) \/ c.ins
      [] c.op = "on_list_start"       -> Room(s) \/ Innermost(s, "key")
      [] c.op = "on_table_start"      -> Room(s) \/ Innermost(s, "key")
      [] c.op = "on_list_end"         -> Innermost(s, "list")
      [] c.op = "on_table_key"        -> Innermost(s, "key")
      [] c.op = "on_table_end"        -> Innermost(s, "key")

After(s, c) ==
    CASE c.op = "on_data_block"       -> s
      [] c.op = "on_save_frame_start" -> [s EXCEPT !.frame = TRUE]
      [] c.op = "on_save_frame_end"   -> [s EXCEPT !.frame = FALSE]
      [] c.op = "on_loop_start"       -> [s EXCEPT !.loop = TRUE]
      [] c.op = "on_loop_end"         -> [s EXCEPT !.loop = FALSE]
      [] c.op = "add_tag"             -> [s EXCEPT !.tag = TRUE]
      [] c.op = "add_value"           -> IF Room(s) THEN Filled(s) ELSE s
      [] c.op = "on_list_start"       -> Push(IF Room(s) THEN Filled(s) ELSE s, "list")
      [] c.op = "on_table_start"      -> Push(IF Room(s) THEN Filled(s) ELSE s, "key")
      [] c.op = "on_list_end"         -> Drop(s)
      [] c.op = "on_table_key"        -> Turn(s, "val")
      [] c.op = "on_table_end"        -> Drop(s)

Init == ctx = Idle /\ calls = <<>>

\* The parser makes its next callbacks once the last ones are executed.
Make == calls = <<>> /\ calls' \in Seq(Call) /\ UNCHANGED ctx

\* A callback is executed: it has to be legal then and there, and the context
\* changes as this very callback asks.
Execute ==
    /\ calls # <<>> /\ Legal(ctx, Head(calls))
    /\ ctx' = After(ctx, Head(calls))
    /\ calls' = Tail(calls)

Next == Make \/ Execute

Spec == Init /\ [][Next]_<<ctx, calls>>

=============================================================================

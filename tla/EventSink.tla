----------------------------- MODULE EventSink -----------------------------
(***************************************************************************)
(* The vocabulary shared by the parser and its sinks: the callbacks of the *)
(* EventSink trait, as records.  Every call has the same fields, so that a *)
(* queue of calls is a sequence over one set:                              *)
(*   op      the callback                                                  *)
(*   arg     its name, tag or text (NoArg when it has none)                *)
(*   tags    the header of on_loop_start                                   *)
(*   form    the ValueType of a text: a bare word, a delimited string or a *)
(*           text field                                                    *)
(*   ins     the parser made the value up, a '?' for a missing one         *)
(* Positions, message texts and the finer ValueTypes are left out.         *)
(***************************************************************************)
EXTENDS Naturals, Sequences

CONSTANTS
    Names,      \* names of data blocks and save frames, "" included or not
    Tags,       \* tag names
    Scalars,    \* texts of scalar values
    Headers     \* the lists of tags a loop_ may be followed by

ASSUME HeadersAssumption == Headers \subseteq Seq(Tags) /\ <<>> \in Headers

\* The placeholder the parser and the builders insert.
Unknown == "?"

NoArg == "none"

Delims == {"[", "]", "{", "}", ":"}

Texts == Scalars \cup Delims \cup {Unknown}

\* The tag that adopts a value nothing precedes (dispatch_scalar_value).
ErrorTag == "_cifflow_error_value"

AllTags == Tags \cup {ErrorTag}

Ops == {"on_data_block", "on_save_frame_start", "on_save_frame_end", "add_tag",
        "add_value", "on_list_start", "on_list_end", "on_table_start",
        "on_table_key", "on_table_end", "on_loop_start", "on_loop_end"}

Forms == {"bare", "quoted", "text"}

Args == Names \cup AllTags \cup Texts \cup {NoArg}

ArgsOf(op) ==
    CASE op \in {"on_data_block", "on_save_frame_start"} -> Names
      [] op = "add_tag"                                  -> AllTags
      [] op \in {"add_value", "on_table_key"}            -> Texts
      [] OTHER                                           -> {NoArg}

Call ==
    {c \in [op : Ops, arg : Args, tags : Headers, form : Forms, ins : BOOLEAN] :
        c.arg \in ArgsOf(c.op)}

Plain(op, arg) ==
    [op |-> op, arg |-> arg, tags |-> <<>>, form |-> "bare", ins |-> FALSE]

OnDataBlock(n)      == Plain("on_data_block", n)
OnSaveFrameStart(n) == Plain("on_save_frame_start", n)
OnSaveFrameEnd      == Plain("on_save_frame_end", NoArg)
AddTag(t)           == Plain("add_tag", t)
AddValue(x, form)   == [Plain("add_value", x) EXCEPT !.form = form]
Placeholder         == [Plain("add_value", Unknown) EXCEPT !.ins = TRUE]
OnListStart         == Plain("on_list_start", NoArg)
OnListEnd           == Plain("on_list_end", NoArg)
OnTableStart        == Plain("on_table_start", NoArg)
OnTableKey(k)       == Plain("on_table_key", k)
OnTableEnd          == Plain("on_table_end", NoArg)
OnLoopStart(tags)   == [Plain("on_loop_start", NoArg) EXCEPT !.tags = tags]
OnLoopEnd           == Plain("on_loop_end", NoArg)

=============================================================================

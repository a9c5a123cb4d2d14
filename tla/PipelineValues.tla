--------------------------- MODULE PipelineValues ---------------------------
(***************************************************************************)
(* The values of the documents: their conversion, and that none is lost.   *)
(***************************************************************************)
EXTENDS PipelineDocuments
LOCAL INSTANCE SequencesExt

\* raw_value_to_python: the pairs of a table become the items of a dict.
RECURSIVE RawValueToPython(_)
RawValueToPython(v) ==
    CASE v.is = "str"   -> v
      [] v.is = "list"  -> [v EXCEPT !.items = [i \in DOMAIN @ |-> RawValueToPython(@[i])]]
      [] v.is = "table" ->
            [v EXCEPT !.items =
                FoldLeft(LAMBDA d, p : IR!DictSet(d, p[1], RawValueToPython(p[2])), <<>>, @)]

-----------------------------------------------------------------------------
(***************************************************************************)
(* The cells of the Arrow exports: a text, or a NUL and JSON.  A cell is   *)
(* the sequence of its tokens; the characters of a text are left out.      *)
(***************************************************************************)
Mark(x) == [IR!Str(x, "bare") EXCEPT !.is = "mark"]
JsonText(v) == <<[v EXCEPT !.is = "json"]>>

\* parts.join(",")
Joined(parts) ==
    FoldLeft(LAMBDA s, part : IF s = <<>> THEN part ELSE s \o <<Mark(",")>> \o part, <<>>, parts)

\* json_val, of a raw value: a table is written pair by pair
RECURSIVE JsonVal(_)
JsonVal(v) ==
    CASE v.is = "str"   -> JsonText(v)
      [] v.is = "list"  ->
            <<Mark("[")>> \o Joined([i \in DOMAIN v.items |-> JsonVal(v.items[i])]) \o <<Mark("]")>>
      [] v.is = "table" ->
            LET pair(p) == JsonText(IR!Str(p[1], "bare")) \o <<Mark(":")>> \o JsonVal(p[2]) IN
            <<Mark("{")>> \o Joined([i \in DOMAIN v.items |-> pair(v.items[i])]) \o <<Mark("}")>>

RawValueToStr(v) == IF v.is = "str" THEN <<v>> ELSE <<Mark("NUL")>> \o JsonVal(v)

\* json.dumps(v, separators=(',', ':')): the items of a dict in the order of its keys'
\* arrival
RECURSIVE Dumps(_)
Dumps(v) ==
    LET key(item) == JsonText(IR!Str(item[1], "bare")) \o <<Mark(":")>>
        parts == [i \in DOMAIN v.items |->
                    IF v.is = "list" THEN Dumps(v.items[i])
                    ELSE key(v.items[i]) \o Dumps(v.items[i][2])]
        within(open, close) == <<Mark(open)>> \o Joined(parts) \o <<Mark(close)>>
    IN  CASE v.is = "str"   -> JsonText(v)
          [] v.is = "list"  -> within("[", "]")
          [] v.is = "table" -> within("{", "}")

PyEnc(v) == IF v.is = "str" THEN <<v>> ELSE <<Mark("NUL")>> \o Dumps(v)

-----------------------------------------------------------------------------
\* The strings of a value, of a namespace and of a document that satisfy P.
RECURSIVE Strings(_, _)
Strings(P(_), v) ==
    CASE v.is = "str"   -> IF P(v) THEN 1 ELSE 0
      [] v.is = "list"  -> FoldLeft(LAMBDA n, x : n + Strings(P, x), 0, v.items)
      [] v.is = "table" -> FoldLeft(LAMBDA n, p : n + Strings(P, p[2]), 0, v.items)

StringsOf(P(_), doc) ==
    LET column(n, x) == n + Strings(P, x)
        data(n, d)   == FoldLeft(LAMBDA m, t : FoldLeft(column, m, d.tags[t]), n, d.order)
        frame(n, f)  == data(n, f.data)
        block(n, b)  == FoldLeft(frame, data(n, b.data), b.frames)
    IN  FoldLeft(block, 0, doc)

IsPlaceholder(v) == v.text = Unknown /\ ~v.quotes
IsData(v) == ~IsPlaceholder(v)

-----------------------------------------------------------------------------
\* In pad mode every scalar given inside a block, whatever else is wrong with the
\* file, is in the document once the parse has ended, and the document holds a
\* '?' of its own only if an error was reported (README.md, Error-tolerant).
ValuesKept ==
    Finished /\ ~strict /\ ~misplaced =>
        /\ StringsOf(IsData, Built) = sent
        /\ StringsOf(IsPlaceholder, Built) > 0 => faulty \/ rErrors # <<>>

\* A scalar of the file is lost only if some error says so (README.md, No silent
\* data loss).
NoSilentLoss ==
    Finished /\ StringsOf(IsData, Built) < sent => faulty \/ rErrors # <<>>

=============================================================================

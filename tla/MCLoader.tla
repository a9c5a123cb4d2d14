------------------------------ MODULE MCLoader ------------------------------
(***************************************************************************)
(* The loader for TLC: three dictionaries that import each other, with     *)
(* definitions of the same names, and some of them also in other versions: *)
(* chains, diamonds and circles, the root with up to two imports.          *)
(***************************************************************************)
EXTENDS LoadedDictionary

CONSTANTS rdic, bdic, cdic,         \* URIs
          rhead, bhead, chead,      \* the frames that stand for the dictionaries
          shared, nick, tmpl,       \* two definitions and a template
          cat, unit, other          \* a category and two tags

HeadOf == [u \in {rdic, bdic, cdic} |-> CASE u = rdic -> rhead [] u = bdic -> bhead [] u = cdic -> chead]

Full(u, dupl, miss) == [file |-> u, save |-> HeadOf[u], mode |-> "Full", dupl |-> dupl, miss |-> miss,
                        order |-> 0]
Template(dupl, miss) == [file |-> cdic, save |-> tmpl, mode |-> "Contents", dupl |-> dupl, miss |-> miss,
                         order |-> 0]
Unusable == [file |-> Nothing, save |-> shared, mode |-> "Contents", dupl |-> "Exit", miss |-> "Exit",
             order |-> 1]

HeadFrame(u, imports) ==
    [label |-> HeadOf[u], id |-> HeadOf[u], class |-> "Head", scope |-> "Category",
     category |-> HeadOf[u], tags |-> <<>>, imports |-> imports]
Definition(name, tags, imports) ==
    [label |-> name, id |-> name, class |-> "Datum", scope |-> "Item", category |-> cat,
     tags |-> tags, imports |-> imports]
TemplateFrame(tags) ==
    [label |-> tmpl, id |-> Nothing, class |-> "Datum", scope |-> "Item", category |-> Nothing,
     tags |-> tags, imports |-> <<>>]

Contents(frames) == [hasBlock |-> TRUE, errors |-> FALSE, uri |-> Nothing, frames |-> frames]

Says(t, v) == [tag |-> t, value |-> v]

\* What a head imports, the second of two by `order` before the first.
Lists == [none |-> <<>>, r |-> <<rdic>>, b |-> <<bdic>>, c |-> <<cdic>>,
          bc |-> <<bdic, cdic>>, cb |-> <<cdic, bdic>>]
Imports(list, dupl, miss) ==
    [k \in DOMAIN Lists[list] |->
        [Full(Lists[list][k], dupl, miss) EXCEPT !.order = IF k = 1 THEN 1 ELSE 0]]

\* c is also a dictionary of tags, as ddl.dic is.
Library(ri, bi, ci, dupl, miss) ==
    LET rtext(imports) == Contents(<<HeadFrame(rdic, imports),
            Definition(shared, <<Says(unit, "mine")>>, 
                (IF dupl = "Exit" THEN <<Unusable>> ELSE <<>>) \o <<Template(dupl, miss)>>)>>)
        category == [Definition(cat, <<>>, <<>>) EXCEPT !.class = "Loop", !.scope = "Category"]
    IN [u \in {rdic, bdic, cdic} |->
           CASE u = rdic -> <<rtext(Imports(ri, dupl, miss)),
                           [rtext(<<>>) EXCEPT !.errors = TRUE, !.uri = rdic],
                           [Contents(<<>>) EXCEPT !.hasBlock = FALSE]>>
             [] u = bdic -> <<Contents(<<HeadFrame(bdic, Imports(bi, dupl, miss)), Definition(shared, <<>>, <<>>)>>)>>
             [] u = cdic -> <<Contents(<<HeadFrame(cdic, Imports(ci, dupl, miss)),
                               TemplateFrame(<<Says(other, "names"), Says(unit, "theirs")>>), category,
                               Definition(unit, <<>>, <<>>), Definition(other, <<>>, <<>>)>>),
                           Contents(<<HeadFrame(cdic, <<>>), Definition(unit, <<>>, <<>>),
                               Definition(nick, <<>>, <<>>)>>)>>]

Cases == {x \in [r : {"b", "bc", "cb"}, b : {"none", "r", "c"}, c : {"none", "b"},
                 dupl : {"Ignore", "Replace", "Exit"}, miss : {"Ignore", "Exit"}] :
            x.miss = "Exit" <=> x.dupl = "Exit"}
SomeLibraries == [x \in Cases |-> Library(x.r, x.b, x.c, x.dupl, x.miss)]

Flags(i, k, g) == [ignoreHeads |-> i, blockConstituents |-> k, baseGiven |-> g]
SomeSettings == {Flags(FALSE, FALSE, TRUE), Flags(TRUE, FALSE, FALSE), Flags(FALSE, TRUE, TRUE)}
SomeAliases == [v \in {"mine", "theirs", "names"} |-> IF v = "names" THEN {shared, nick} ELSE {}]
===============================================================================

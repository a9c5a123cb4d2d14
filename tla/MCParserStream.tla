--------------------------- MODULE MCParserStream ---------------------------
(***************************************************************************)
(* Instances of ParserStream for TLC: the tokens of small files.           *)
(***************************************************************************)
EXTENDS ParserStream

MCNames == {"", "b"}
MCTags == {"_a"}
MCScalars == {"v"}
MCHeaders == {<<>>, <<"_a">>}

Val(x, form) == [Tok("value", x) EXCEPT !.form = form]

\* Every keyword, a tag, and the values a file can hold.
AllTokens ==
    {Tok(k, n) : k \in {"data_"}, n \in MCNames}
        \cup {Tok("save_name", "b"), Tok("save_", NoArg), Tok("stop_", NoArg),
              Tok("global_", NoArg), Tok("tag", "_a"), Tok("loop_", NoArg),
              [Tok("loop_", NoArg) EXCEPT !.tags = <<"_a">>]}
        \cup {Val("v", f) : f \in {"bare", "quoted"}}
        \cup {Val(d, "bare") : d \in Delims}

\* A file whose values are all quoted, brackets among them.
QuotedTokens ==
    {Tok("data_", "b"), Tok("tag", "_a")} \cup {Val(x, "quoted") : x \in Delims \cup {"v"}}

=============================================================================

----------------------------- MODULE MCPipeline -----------------------------
(***************************************************************************)
(* Instances of Pipeline for TLC.  Each alphabet brings one family of      *)
(* constructs to meet: items and loops; frames and names; containers;      *)
(* lists as the cells of a loop.                                           *)
(***************************************************************************)
EXTENDS PipelineValues

MCNames == {"b", "B", "f"}
MCTags == {"_a", "_A", "_b"}
MCScalars == {"v", "k"}
MCHeaders == {<<>>, <<"_b">>, <<"_a", "_b">>, <<"_a", "_A">>}

Val(x, form) == [Tok("value", x) EXCEPT !.form = form]
LoopOf(tags) == [Tok("loop_", NoArg) EXCEPT !.tags = tags]

\* Case folding: capitals fold to small letters in both builders, as they do for
\* every letter on which to_lowercase() and casefold() agree.
Lower == [x \in MCNames \cup MCTags \cup {ErrorTag} |->
             CASE x = "B" -> "b" [] x = "_A" -> "_a" [] OTHER -> x]

ItemTokens ==
    {Tok("data_", "b"), Tok("tag", "_A"), LoopOf(<<"_a", "_b">>), LoopOf(<<"_a", "_A">>),
     Tok("stop_", NoArg),
     Val("v", "bare"), Val(Unknown, "quoted")}

FrameTokens ==
    {Tok("data_", "b"), Tok("data_", "B"), Tok("save_name", "f"), Tok("save_", NoArg),
     Tok("tag", "_A"), LoopOf(<<"_a", "_b">>), Val("v", "bare")}

ContainerTokens ==
    {Tok("data_", "b"), Val("k", "quoted")} \cup {Val(d, "bare") : d \in Delims}

CellTokens ==
    {Tok("data_", "b"), LoopOf(<<"_b">>), Val("k", "quoted"), Val("[", "bare"), Val("]", "bare")}

WellRead == {ItemTokens, FrameTokens, ContainerTokens, CellTokens}

\* For the documented claims.
ScalarLoopTokens == {Tok("data_", "b"), Tok("tag", "_b"), LoopOf(<<"_a", "_b">>), Val("v", "bare")}

ScalarLoops == {ScalarLoopTokens}
AnyToken == UNION (WellRead \cup ScalarLoops)

=============================================================================

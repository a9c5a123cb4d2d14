----------------------------- MODULE MCFileWriter -----------------------------
(***************************************************************************)
(* Instances of FileWriter for TLC, one setting per family of calls: the   *)
(* edits of one namespace, the names of blocks, the names of frames, and   *)
(* clean() on the files a parser may build.                                *)
(***************************************************************************)
EXTENDS FileWriter
LOCAL INSTANCE SequencesExt

\* Loading, as the builders do it: every object is added, duplicates included.
FramesOf(contents) ==
    FoldLeft(LAMBDA dir, c : Add(dir, [NewFrame(dir, c[1]) EXCEPT !.data = c[2]]), Empty, contents)
FileOf(contents) ==
    FoldLeft(LAMBDA dir, c : Add(dir, [NewBlock(dir, c[1]) EXCEPT !.data = c[2], !.frames = c[3]]),
             Empty, contents)

Scalar(d, t, v) == AppendValue(d, t, v)
Loop(d, header, rows) ==
    AddLoop(d, header, [t \in ToSet(header) |-> [r \in DOMAIN rows |-> rows[r][FirstPlace(header, t)]]])

Lists(S, n) == UNION {[1 .. k -> S] : k \in 0 .. n}

AllOn == [errors |-> TRUE, blocks |-> "first", frames |-> "first", tags |-> "first", padding |-> TRUE]
AllLast == [AllOn EXCEPT !.blocks = "last", !.frames = "last", !.tags = "last"]
NoCalls == [files |-> {Empty}, blocks |-> {}, frames |-> {}, tags |-> {}, values |-> {}, options |-> {}]

\* One namespace: empty, with a repeated scalar, with a loop between scalars.
LoadedData ==
    {NoData, Scalar(Scalar(NoData, "_a", "v"), "_a", "w"),
     Scalar(Loop(Scalar(NoData, "_a", "v"), <<"_b">>, <<<<"v">>, <<"w">>>>), "_c", "v")}

EditSetting ==
    [NoCalls EXCEPT !.files = {FileOf(<<<<"m", d, Empty>>>>) : d \in LoadedData},
                    !.tags = {"_a", "_b", "_c"}, !.values = {"v", "w"}]

BlockSetting ==
    [NoCalls EXCEPT !.files = {FileOf([i \in DOMAIN ns |-> <<ns[i], NoData, Empty>>]) :
                                    ns \in Lists({"m", "n"}, 3)},
                    !.blocks = {"m", "n", "o"}, !.options = {AllOn}]

FrameSetting ==
    [NoCalls EXCEPT !.files = {FileOf(<<<<"m", NoData, FramesOf([i \in DOMAIN ns |-> <<ns[i], NoData>>])>>>>) :
                                    ns \in Lists({"f", "g"}, 2)},
                    !.blocks = {"m", "n"}, !.frames = {"f", "g", "h"},
                    !.options = {AllOn}]

DirtyData ==
    {NoData,
     Scalar(Scalar(Scalar(NoData, ErrorTag, "v"), "_a", "v"), ErrorTag, "w"),
     Scalar(Scalar(NoData, "_a", "v"), "_a", ListOfText),
     Loop(NoData, <<"_a", "_b">>, <<<<"v", "w">>, <<Unknown, Unknown>>>>)}

\* A row that looks like padding and is not the last.
UnknownRowFirst == Loop(NoData, <<"_a", "_b">>, <<<<Unknown, Unknown>>, <<"v", "w">>>>)

OneFrame  == {FramesOf(<<<<"f", d>>>>) : d \in DirtyData}
TwoOfName == {FramesOf(<<<<"f", d>>, <<"f", NoData>>>>) : d \in DirtyData}

DirtyBlock(frames) == {<<n, d, f>> : n \in {"m", "n"}, d \in DirtyData, f \in frames}

CleanSetting ==
    [NoCalls EXCEPT
        !.files = {FileOf(<<a>>) : a \in DirtyBlock(OneFrame \cup TwoOfName)}
                    \cup {FileOf(<<a, b>>) : a \in DirtyBlock({Empty} \cup OneFrame),
                                            b \in DirtyBlock({Empty} \cup TwoOfName)}
                    \cup {FileOf(<<<<"m", UnknownRowFirst, Empty>>>>)},
        !.options = {AllOn, AllLast}]

WellUsed == [edits |-> EditSetting, blocks |-> BlockSetting, frames |-> FrameSetting,
             cleaning |-> CleanSetting]

\* For the documented claims.
TwoFrames == [use |-> [NoCalls EXCEPT
    !.files = {FileOf(<<<<"m", NoData, FramesOf(<<<<"f", NoData>>, <<"g", NoData>>>>)>>>>)},
    !.options = {AllOn}]]
TwoNamesakes == [use |-> [NoCalls EXCEPT
    !.files = {FileOf(<<<<"m", NoData, Empty>>, <<"m", NoData, Empty>>>>)}, !.blocks = {"m", "n"}]]
ScalarThenLoop == [use |-> [NoCalls EXCEPT
    !.files = {FileOf(<<<<"m", Loop(Scalar(Scalar(NoData, "_a", "v"), "_b", "v"),
                                    <<"_c", "_a">>, <<<<"v", "v">>>>), Empty>>>>)},
    !.tags = {"_a", "_b", "_c"}, !.values = {"v"}]]

=============================================================================

-------------------------------- MODULE MCViz --------------------------------
(***************************************************************************)
(* Viz for TLC: three calls out of questions that share an array, name the *)
(* same image, set what an instance remembers, or upset it.                *)
(***************************************************************************)
EXTENDS VizService

CONSTANTS dot, blank, bad, heavy,   \* sources
          icon, small, large,       \* a path and two contents
          shared                    \* an array of the client

SomeSources == {dot, blank, bad, heavy}
SomeTakes == [s \in SomeSources |->
    CASE s = dot -> "graph" [] s = blank -> "blank" [] s = bad -> "error" [] s = heavy -> "throws"]

Plain == [kind |-> "string", src |-> dot, format |-> "svg", files |-> Nothing, images |-> <<>>,
          yInvert |-> FALSE, nop |-> 0, cloneable |-> TRUE, scale |-> Nothing, mimeType |-> Nothing]
SomeQuestions ==
    {Plain,
     [Plain EXCEPT !.kind = "svg", !.files = shared, !.images = <<[path |-> icon, size |-> small]>>],
     [Plain EXCEPT !.kind = "image", !.files = shared, !.yInvert = TRUE,
                   !.images = <<[path |-> icon, size |-> large]>>,
                   !.mimeType = "image/webp"],
     [Plain EXCEPT !.src = bad],
     [Plain EXCEPT !.kind = "json", !.format = "dot", !.src = blank, !.nop = 2],
     [Plain EXCEPT !.kind = "svg", !.cloneable = FALSE],
     [Plain EXCEPT !.src = heavy]}
SomeFiles == [a \in {shared} |-> <<[path |-> icon, data |-> large]>>]
=============================================================================

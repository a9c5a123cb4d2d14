-------------------------- MODULE PipelineDocuments --------------------------
(***************************************************************************)
(* The documents a Pipeline ends with, as Python sees them, and what is    *)
(* exported from them.                                                     *)
(***************************************************************************)
EXTENDS Pipeline

CONSTANTS
    ToPython(_),    \* raw_value_to_python (PipelineValues)
    RawToStr(_),    \* raw_to_str: a raw value as a cell of a batch
    Enc(_)          \* _enc: a Python value as one

Arrow == INSTANCE ArrowExport

-----------------------------------------------------------------------------
(***************************************************************************)
(* The documents.                                                          *)
(***************************************************************************)

\* frame_data_to_py, build_py_save_frame and build_py_cif
DataToPython(d) ==
    [d EXCEPT !.tags = [t \in DOMAIN @ |-> [i \in DOMAIN @[t] |-> ToPython(@[t][i])]]]
FrameToPython(f) == [f EXCEPT !.data = DataToPython(@)]
BlockToPython(b) ==
    [b EXCEPT !.data = DataToPython(@), !.frames = [i \in DOMAIN @ |-> FrameToPython(@[i])]]

Built == [i \in DOMAIN Raw!RawDocument |-> BlockToPython(Raw!RawDocument[i])]

\* A loop's header has a tag twice: the Rust builder gives the tag no values, the
\* Python builder those of both its columns.
Doubled == \E d \in Namespaces(Raw!RawDocument) \cup {OpenData} : \E i \in DOMAIN d.loops : Repeats(d.loops[i])

-----------------------------------------------------------------------------
(***************************************************************************)
(* What the documents promise.                                             *)
(***************************************************************************)

\* The Rust and the Python builder, two programs with one purpose, report the same
\* semantic errors, and stop at the same one, at every point of a file (raw_builder.rs
\* and builder.py); and accumulate the same document, unless a header repeats a tag.
SameDocument ==
    BetweenTokens =>
        /\ rErrors = pErrors /\ rStopped = pStopped
        /\ ~Doubled => Built = pFile

\* build_arrow of a file, which exports the raw document, and cif_to_arrow of the
\* CifFile built from it are the same batches, when no name and no key is used
\* twice (raw_builder.rs, raw_to_str and frame_to_batches; builder.py, _enc and
\* _ns_batches).
ArrowAgrees ==
    Finished /\ ~misplaced /\ rErrors = <<>> =>
        Arrow!RustBatches(Raw!RawDocument) = Arrow!PyBatches(Built)

-----------------------------------------------------------------------------
(***************************************************************************)
(* What the documentation says and the builders do not do.                 *)
(***************************************************************************)

\* No file makes the Arrow export panic (README.md, The parser never raises).
ArrowNeverPanics == Finished => \A d \in Namespaces(Built) : ~Arrow!Panics(d)

=============================================================================

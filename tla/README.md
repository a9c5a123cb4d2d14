# cifflow: formal models

cifflow reads CIF files (crystallographic data), keeps them as documents,
edits and cleans them, loads them into a DuckDB database by the schema of a
DDLm dictionary, and writes them again; it also draws schemas on HTML pages,
with a JavaScript library it ships.  This directory holds TLA+ models of the program, TLC configurations that check them, and theorems that TLAPS
proves about them.  `PROJECT.json` lists the components, the runs, the
source lines each definition models, the hazards, and the disagreements
between code and documents that the models show.

Commands, in this directory: `tlasany M.tla` parses a module,
`tlc -config X.cfg M` checks it, and `tlapm` on each of `ParserProofs`, `PipelineProofs`,
`ListProofs`, `EditProofs`, `WriterProofs`, `DocumentProofs`, `VizProofs` and `LoaderProofs`
checks the proofs.

## 1. Inventory

| Component | State it keeps | Operations | Hard behaviour | What makes it correct |
|---|---|---|---|---|
| Lexer, version (`lexer.rs`, `version.rs`) | position, line, a token read ahead | next token | classification of words, text fields, byte and character columns | a total function of the text; tokens cover it |
| Parser (`parser.rs`) | flags for block, frame, loop; `active_tag`; a stack of open lists and tables; a held-back table key | one handler per token | every token may arrive in every state; recovery closes what is open | callbacks follow a grammar; what is opened is closed; no recovery without an error; it ends |
| Event interface (`event_sink.rs`, `types.py`) | none | eleven callbacks and the error callback | a sink must put up with what recovery produces | the grammar is what sinks need |
| Rust builder (`raw_builder.rs`) | document, its own copy of the parser's context, columns of the open loop | one per callback, `finish`, Arrow export | strict mode stops in the middle; repeated names, tags, keys | nothing lost; loops rectangular; same result as the Python builder |
| Python builder (`builder.py`) | the same again | the same, `cif_to_arrow` | two implementations of one thing | as above |
| Python binding (`lib.rs`) | the first exception of a Python sink | forwards callbacks | callbacks after an exception | the exception surfaces, once |
| In-memory model (`cif_model.rs`, `model.py`) | per namespace: order of tags, values, loop headers; per container: a list and a lookup by name | append, add, look up, copy | repeated names are kept | list and lookup agree |
| Writer (`writer.py`) | the model, by reference | edits of tags, loops, blocks and frames; `build` | structures changed one by one; calls on what a parser left | list, lookup, order, values and headers stay consistent |
| Cleaner (`clean.py`) | warnings | five steps | edits what it walks, through handles found by name | what it promises is gone; every loss has a warning |
| Text fields, quoting (`textfield.rs`, `quote.py`) | none | fold, prefix, quote | which delimiter can hold which text | what is written is read back |
| Dictionary loader (`loader.py`, `resolver.py`) | texts and parsed texts by URI, the set of URIs being loaded; per call a pool of definitions and the file's own | recursive import in two modes, lookup of tags | cycles, diamonds, missing files, duplicates, aborts half way, files that change meanwhile | a load returns; nothing is missing without a warning; each file in one version; the file's own definitions win |
| Dictionary cache (`cache.py`) | a JSON file | save, load | crash while saving, stale file | what is loaded was saved |
| Schema (`schema.py`) | none | tables, keys and foreign keys from a dictionary | bridges over several categories, cycles | keys resolvable; tables in creation order |
| Ingestion (`ingest.py`, `duckdb_ingest.py`) | staging tables, final tables, fallback rows | load, fill foreign keys, make stubs, merge | several blocks give one row; conflicts; order of filling | each value in one place; each conflict reported; no dangling key |
| Output (`emit.py`, `plan.py`) | none | group rows in blocks, order, quote | one block per plan, children with their parents | what is emitted is ingested to the same rows |
| Page renderer (`viz.js`, `full.render.js`) | a number for the next request and listeners by number; requests and answers under way; one instance of Graphviz with its files and settings; the caller's arrays | `renderString` and three methods built on it, the worker's and the page's message handlers | answers and calls cross; a request that cannot be sent; a worker that goes away; images that do not load or encode; what an instance remembers of other calls | every promise settles once, with the answer to its own call |
| Validation, fidelity, database utilities, inspection, page generation | none or SQL | checks, comparisons, views | | |

How they interact: the lexer is pulled by the parser, token by token.  The
parser calls its sink; a callback returns before the parser goes on, in one
thread.  The sink is the Rust builder (`build`, then converted to Python
objects or to Arrow batches), or any Python object through the binding, the
Python `CifBuilder` being one.  The document they leave is shared state: the
writer's handles, the cleaner and the ingestion all hold references to its
parts.  Ingestion writes to a DuckDB connection that the caller may own;
output reads it.  The loader parses dictionaries with the same builder and asks
a resolver for the files they import.  The Python program runs in one thread: the
difficulty lies in sequences (of tokens, of calls, of passes), in state that is
kept twice, in steps that fail half way, and in files that others change.  The
generated page does run concurrently: promises, a worker's messages and the
browser's image events come in any order.

## 2. Modules

    EventSink          the callbacks as values                 event_sink.rs
      EventStream      abstract: the grammar of the callbacks
      CifParser        the parser, one action per handler      parser.rs
        ParserStream   parser + the context its calls build up
          ParserProofs theorems: types, control, the held-back key, the grammar of
                       the callbacks, no silent recovery
      Namespace        what a block or a frame holds           cif_model.rs
        CifModel       values, padding of loops                raw_builder.rs
          RawBuilder   the Rust builder                        raw_builder.rs
          CifBuilder   the Python builder                      builder.py
          ArrowExport  both exports to Arrow batches           raw_builder.rs, builder.py
            Pipeline   parser + the two builders side by side
              PipelineDocuments  the documents compared, and their export
                PipelineProofs   theorems: the builder mirrors the parser, loops are
                                 rectangular, the two exports are alike
                PipelineValues   the conversion of values; no value is lost
        FrameWriter    the edits of one namespace              writer.py
    Directory          blocks or frames: a list and a lookup   cif_model.rs, writer.py
          Cleaner      the steps of clean()                    clean.py
    Document           abstract: what an edit may change
            FileWriter writer + cleaner over one file
              WriterProofs       theorems: lists and lookups agree, tags stay
                                 listed, loops even, namespaces replay
                DocumentProofs   theorem: every edit is a step of Document
    ListProofs         lemmas: least places, removal, counting, room for a new number
      EditProofs       lemmas: what each operator of Directory and FrameWriter leaves

    GraphvizInstance   one instance and render()               full.render.js, viz.js
      VizWrapper       both wrappers, the worker, messages     viz.js, full.render.js
        Viz            the four methods and their callbacks    viz.js
          VizService   what is true of a Viz object's calls
            VizProofs  theorems: types, listeners, settings, what calls leave, refinement
    RenderService      abstract: what a Viz object promises

    DictionaryLoader   load(), its recursion and merges        loader.py
      LoadedDictionary what a caller of load() may rely on
        LoaderProofs   theorems: types, recursion, one version of each file,
                       whole dictionaries

`MC...` modules give the constants values for TLC.

**Parser.** `CifParser` keeps the fields of `Parser` under their names in
TLA+ spelling: `inDataBlock`, `inSaveFrame`, `inLoop`, `loopHasValues`,
`activeTag`, `tagBase`, `stack` (of lists, and of tables in the states `Key`,
`Colon` with the key held back, and `Value`).  `Supply` takes the next token,
any token of the alphabet: the lexer's work is abstracted to its result.  Each
handler is an action that leaves in `calls` the callbacks it makes, in order,
and in `report` the kinds of errors it emits.  The unwinding loops, which
call one handler again with one container less, are `Unwind`, one step per
container.  `global_` ends the parse, as in the code, and the end of the file
is a token.  A parse is bounded by `MaxTokens` (length of the file) and
`MaxDepth` (nesting); both only keep `Supply` from choosing a token.
`ParserStream` executes the queued calls one by one (`Deliver`) before the
next handler runs, and folds them into the context of `EventStream`.
Positions in the file and the wording of errors are left out.

**Builders.** `RawBuilder` and `CifBuilder` define, for each callback, the
builder's next state; their fields are the variables that begin with `r` and with `p`.
They are written from the two sources independently, `CifBuilder`
keeping the differences of the Python program (dicts for tables, containment
through the model classes).  `Pipeline` delivers each call of the parser to
both, in pad mode or strict mode, chosen at the start.  `PipelineDocuments`
converts the Rust document as `build_py_cif` does (`BlockToPython`) and compares it with the
Python builder's.  `ArrowExport` has the two exports, each from its own source: `RustBatches` is
`to_py_batches` of the document as the Rust builder left it, cells by `raw_to_str`, and
`PyBatches` is `cif_to_arrow` of the document converted to Python objects, cells by `_enc`; of the code
they share nothing but what a scalar tag, a row and a batch are.  What is done to one value
are the constants `ToPython`, `RawToStr` and `Enc`: their definitions
(`RawValueToPython`; `RawValueToStr`, with `JsonVal`; `PyEnc`, with `json.dumps`) are recursive, so they have
a module of their own, `PipelineValues`, which the proofs do not reach and every configuration gives to
the constants.  A cell is the sequence of its tokens: brackets, commas, colons and texts in
their order, a text without its characters.  A value is its text, with a flag for the quotes that the builders
keep around a delimited `?` or `.`.  Folding of names is a constant function for
each builder, `RustFold` and `PyFold`.

**Document, writer, cleaner.** A namespace is a record of `order`
(`_tag_order`), `tags` (`_tags`) and `loops` (`_loops`).  `FrameWriter`
translates each edit as an operator on it, with the condition under which
the call does not raise; what it does to the three structures follows the
code statement by statement, including `reorder_loop_tags`, which writes over
the places from the loop's first tag on.  `Directory` is a list of objects
with the lookup beside it; objects have identities, so that two of one name
stay apart.  `Cleaner` writes each step of `clean()` as a function of the file
and the warnings, handles included: `Handles` finds what
`get_block(name)` and `get_save_frame(name, index)` find, which need not be the
object the step is at.  `Note` puts down a warning: the step, the block and frame it names, and the
number it gives in its message.  A value is a text, the list of one text (`ListOfText`), or
some other container, since `reassign_tag` takes a list for the values and one of one
element for that element (`Unwrapped`): a caller cannot assign such a list to a scalar, and `clean()`,
which hands over the value it keeps, turns a kept `[x]` into `x` (`writer.py:435`, `clean.py:235`).
`FileWriter` makes each call an action, and keeps the last call and the namespace it was made on in `call`.  It begins
with the files of its settings, new ones and ones a parser could have built
(repeated names, repeated scalars, error values, padded loops).
`Document` says what a caller may rely on: a namespace is a sequence of items; an edit
changes one item of the namespace it is made on; a new namespace is empty; only a removal
closes one, the one it names and a block's frames with it; a renaming changes no values; and only
`clean()` takes away what nobody named: the values without a tag, last rows of `?` alone, and
all but one value of a tag, of which a list of one is unwrapped.

**Page renderer.** A call of a method is one of `Calls`, numbered in the order in
which they are made; `question` is what it was asked.  `VizWrapper` has the two wrappers:
`WorkerRender` takes the number and sets the listener before the request is
posted, as `render()` does, `WorkerOnMessage` is the worker's `onmessage`, `OnMessage`
the listener of the page, `ModuleRender` the wrapper without a worker.  `inbox` and
`outbox` are the two message queues, in order; `WorkerDies` is a worker that is
terminated or whose script is not found, and is possible at any time.  `Viz` builds
the methods on it: `Begin` is `renderString` up to the wrapper's `render()` (the
stubs of images pushed onto the caller's array included), `Then...` are the callbacks of a
settled promise, and the `Image...`, `Blob...` and `Fabric...` actions the browser's
events, of which `stage` says which is awaited.  `GraphvizInstance` keeps what an
instance keeps between calls: its files, the `nop` setting, and whether the message
pointer is `stale`.  Graphviz itself is a table of verdicts: a source is drawn, is
blank, gives an error or throws; and after an error a later render may fail whatever its
source, since the message it reads was freed, or is one that a render which threw
had left unread.

**Dictionary loader.** The recursion is a stack: a record per call of
`_load_recursive`, with its local variables (`pool`, `primary` for
`primary_items`, `warnings`), its place in the file and the directives still to
do.  The loops are steps: `BeginFrame` and `EndFrame` for a save frame, one
action per way a directive may go (`SkipDirective`, `MissTarget`,
`BlockConstituent`, `RefuseConstituent`, `EnterConstituent`, `TakeFrame`), one step of
`_merge_frame` (`MergeTag`) and of `_merge_constituent` (`MergeItem`), `Overlay` for the
file's own definitions, `ReturnTop`.  A file is a sequence of versions, each a
sequence of frames; `Change` moves any file to another version, or away, between
two steps.  A cache keeps a version's number, so a text is known by its URI and
version, and every definition carries the two it was read in (`from`, `reading`).
A definition is its identity and the tags its frame says; URIs of files are taken as
they stand, which is what `_resolve_uri` does.

## 3. Checks

| Run | What it shows |
|---|---|
| `parser_stream` | all files of up to eight tokens over all keywords, tags, values and delimiters, nested to depth 3: the parser implements `EventStream`, everything opened is closed (`ClosedAtEnd`), parser and sink agree between tokens (`ContextAgrees`), an unreported step did exactly what its token asks (`NoSilentRecovery`), no held-back key is lost (`PendingKeyIsEmitted`), and the parse ends (`Termination`) |
| `pipeline` | files of up to seven tokens from four alphabets, in both modes: the Rust builder mirrors the parser, the two builders build one document with the same errors, no scalar is lost in pad mode, loops are rectangular, the Arrow export of the parsed document is that of the CifFile built from it (`ArrowAgrees`) |
| `file_writer` | all sequences of calls within the bounds, in four settings: lookups agree with lists (`LookupsAgree`), a namespace is what a builder would make of its items (`NamespacesReplay`), only `reassign_tag` can leave loops uneven (`OnlyReassignUnbalances`), edits are local (`ImplementsDocument`), `clean()` removes what it should, and its warnings account for every block, frame and value that is gone (`CleanedIsClean`, `WarningsAccountForLosses`) |
| `viz` | three calls of one Viz object out of seven kinds, in every order with messages, callbacks, image events and the death of the worker: messages and waiting calls pair up (`EveryWaiterHasItsMessage`), a listener stays only where the request was refused (`OnlyRefusedListenersStay`), a drawing has its own call's source, format and images though the instance and the array are shared (`OwnSettings`, `OwnImages`), what else an instance holds was put there by a call (`LeftByACall`), a sound source is refused only if the request cannot be sent or another call failed before (`RefusedAfterAnError`), the object implements `RenderService` (`ImplementsService`), and every promise settles but for a dead worker or a canvas that cannot be encoded (`PromisesSettle`) |
| `loader` | one load of three dictionaries that import each other in chains, diamonds and circles, with each policy for conflicts and misses, while files change: it returns (`LoadsReturn`); without a warning of a loss the result has exactly the definitions of the files that imports lead to, the root's own on top, each name leading to its own definition and each file listed (`DictionaryIsWhole`); and each imported file is there in one version (`OneReadingOfEachFile`) |

Seven more runs each show, by a counterexample, a statement of the documents
that the code does not keep; `PROJECT.json` quotes the statement.

| Run | What happens |
|---|---|
| `quoted_delimiter` | delimiters are told by a token's text, so the quoted value `'['` opens a list |
| `stray_value` | at the end of a file with an open container the parser makes up a `?` for a tag that has its value |
| `overwritten_scalar` | a loop over a tag that has a scalar replaces it, and nothing is reported |
| `arrow_panic` | a scalar for the tag of an earlier loop makes columns of unequal length, on which the Arrow export panics |
| `clean_raises` | `clean()` raises IndexError for a block with two frames of different names |
| `renamed_namesake` | renaming one of two namesakes leaves the other impossible to find |
| `reordered_loop` | reordering a loop whose tags are apart in the file's order drops another tag from the order |

### Bounds, and why they are enough

* *Parser.* Eight tokens open a block, a frame or a loop or a tag, and three
  containers, and leave two tokens to break it off; every handler is met with
  every kind of state, since the state before a handler is the flags, the
  innermost frame and whether there are more below.  Names and texts are
  never compared by the parser, except with the delimiters, so one tag, one
  text and two names (one of them empty, which is an error) are enough.
  `Termination` is about each such file.
* *Pipeline.* Four alphabets, one per run of the program: items and loops; frames
  and block names that fold together; containers to depth 2; lists as the cells of a
  loop.  Constructs of different alphabets meet in the parser run, and for
  `MirrorsParser` and `LoopsAreRectangular` in the proofs, which have any alphabet.  Names
  fold alike in both builders: letters on which `to_lowercase` and
  `casefold` differ are excluded, since there the builders do differ.
  Properties except `MirrorsParser` and `SameDocument` leave aside files with
  a loop and a scalar of one tag or a tag twice in one header (`misplaced`),
  which `overwritten_scalar` and `arrow_panic` are about.  `SameDocument` leaves aside
  only the documents in which a header has a tag twice (`Doubled`): `add_loop` takes the column out of its
  buffers at the first occurrence and stores an empty one at the second
  (`raw_builder.rs:49`), while the Python builder stores the values of both.
* *Writer.* Three tags and two values give loops of up to three columns,
  with a scalar before and behind them, and two rows; three names for blocks and
  frames, of which two may repeat in the file, give every case of removal
  and renaming of a namesake.  `clean()` is not called twice without
  a call in between.  The four settings exercise the families of calls apart:
  edits of a namespace, names of blocks, names of frames, and cleaning; a
  call on one part of a file leaves the others as they are, which is what
  `ImplementsDocument` checks where they meet.
* *Page renderer.* Three calls let a third meet what two others left: an
  error and a setting, or two sets of images under one path.  The seven questions share
  an array and a path, differ in the settings that an instance remembers, and have one
  of each fate (drawn, blank, error, exception, not to be cloned); all methods occur.
  `MaxCalls` only keeps clients from calling.
* *Loader.* Three files give chains, circles of two and three files, and diamonds;
  a head imports at most two of them, in an order that differs from the one listed.  One name
  is defined in two files, one is an alias and a name, a template gives
  tags of one loop category.  The imported file `c` has two versions, the root three (one without
  a block, one with parse errors), and one change per load is
  enough to fall between any two readings.  `MaxLoads` is 1: a second load differs only
  in caches that are full, which `LoaderProofs` covers.

### Fairness

`Termination` assumes weak fairness of the parse loop (`FairSpec`): `parse()` is a
loop in one thread that runs until it returns, a callback returns, and the
token source never blocks.  `viz` assumes that event loops run what is queued: the
worker takes its next request (unless it is gone), the page its next message,
a settled promise its callback, and an image that was given a source loads or
fails.  Nobody has to call, and the worker need not live; a call it leaves behind
is one `PromisesSettle` excepts.  `loader` assumes that `load()`, which runs in one
thread and waits for nothing, goes on until it returns; nobody has to load or to change
a file.  Nothing else assumes fairness.  `file_writer`, `viz` and `loader` turn
the check for deadlock off: no call need ever be made, and a file, a page or a loader that is
left alone is a legal end.

## 4. Proofs

The theorems hold for every set of names, tags, texts and headers, every
alphabet, every length of the file and every depth.  What they assume of the constants is named
in the module that declares them, and TLC evaluates all of it:

* types only: `ConstantsAssumption` (tokens are well typed, the bounds are numbers),
  `AlphabetsAssumption` (an alphabet's tokens are among the tokens), `SettingsAssumption`,
  `InstanceAssumption`, `VizAssumption`, `LoaderAssumption`;
* `HeadersAssumption`: a header is a sequence of tags, the empty one is among them;
* `FilesAssumption`: the file a writer is given is one that loading makes, its objects added
  one by one;
* `FramesAssumption`: a dictionary's text without a block has no frames, which is where
  frames are.

`ParserProofs`:

* `TypeCorrect`: `Spec => []TypeOK`.
* `ControlCorrect`: `Spec => []ControlInvariant`; what the handlers rely on
  without a test.  Only the innermost table can be in state `Colon`, and it has
  a key then (`cleanup_table_frame` unwraps it); no tag waits in a loop; the
  depth at which a tag was read is 0, so the comparison with it is a test for
  an empty stack.
* `PendingKeyCorrect`: `Spec => PendingKeyIsEmitted`, the action property that
  no step drops a held-back key.

The inductive invariant is `IInv == TypeOK /\ ControlInvariant`.  Typing alone
is not inductive: that a handler's calls are well typed needs that the key of
a table in state `Colon` is a text, which is part of `ControlInvariant`
(`StackOK`), and that in turn needs that a table goes back to `Key` or `Value`
before another frame is pushed on it.  Each handler has a lemma
(`HandleDataStep` ... `ScalarStep`), built on lemmas about the stack (`StackPop`,
`StackSetTop`, `StackPush`) and about the typing of calls; `NextIInv` puts
them together.  The key lemma for `PendingKeyIsEmitted` is that every way
of closing or turning the innermost frame begins its calls with that of the key.

In the same module, about the sink behind the parser:

* `GrammarKept`: `Spec => ImplementsEventStream`; the parser implements the
  grammar of its callbacks.  `EventStream` has the queue of callbacks among its
  variables: taking one from the queue is a step of it only if that very call is
  legal in the context where it is executed, so that a call out of place is
  refused even when it leaves the context as it is.
* `ClosedAtEndCorrect`: `Spec => []ClosedAtEnd`.
* `ContextAgreesCorrect`: `Spec => []ContextAgrees`.
* `NoSilentRecoveryCorrect`: `Spec => NoSilentRecovery`, the action property that a
  handler which reports nothing makes only the calls its token denotes.

None of the first three is inductive: while callbacks are queued, the sink's context
lags behind the parser.  The invariant relates the two through the queue:
`Leads(c, cs, d)` says that the calls `cs` are legal one after the other and
lead from context `c` to `d`, by the existence of the run of contexts between
them (a sequence, so that no recursion is needed), and `Mirror` is the context
as the parser's fields describe it.  `StreamInv` is `IInv`, that `Leads(ctx,
calls, Mirror)`, and `PhaseInv`: only a token that closes containers waits in
`tok`, and a parse that is over left nothing open.  `Mirror` has two
subtleties, both met in the code: during an unwinding a table in state `Value`
expects a key and no value any more, since the container just closed was its
value; and an EOF that unwinds has not reset `active_tag`, though the tag's
value was the container (which is why `stray_value` finds a `?` too many).

The lemmas follow that shape.  `NoCalls`, `OneCall`, `MoreCalls` and `FirstCall`
compose and decompose runs; one lemma per callback says what it makes of a
context (`LoopEnds` ... `ContainerBegins`); the lemmas on `NestOf` relate the
nesting to the stack when it is pushed, popped or turned; and each handler
has one that its calls lead from `Mirror` to `Mirror'` (`UnwindLeads` ...
`OpenContainerLeads`).  A step of the parser starts with an empty queue, where
`StreamInv` says that `ctx = Mirror`; a delivery takes the first call off the
run.  The refinement follows, as a delivered call is legal by `FirstCall` and
every other step leaves the context alone.  `NoSilentRecovery` needs no more than
`IInv`: handler by handler, a call that no token asked for comes with a report,
and the ends of a loop, a tag and a frame that a keyword implies are two at most
(`AtMostTwoEnds`, `QuietEnds` ... `QuietValue`).

`PipelineProofs`, about the parser with the builders behind it:

* `RefinesStream`: `PipelineSpec => Spec`; the builders do not influence the parser,
  so that all the theorems above hold of the pipeline too.
* `PlaceInvariant`: `PipelineSpec => []PlaceInv`, the invariant below.
* `MirrorsParserCorrect`: `PipelineSpec => []MirrorsParser`; while it is live the
  Rust builder is where the parser is: in the same loop, frame and containers, waiting for
  the value of the same tag.

`MirrorsParser` speaks of the moments between tokens only, and is not
inductive: the builder gets the calls of one token one by one.  `PlaceInv` has four parts.
`StreamInv` is the invariant above.  `Follows` says that a live builder is in the
context that the callbacks have built up, whatever calls are queued: `FollowsStep`
proves it for any call the grammar allows, so it would hold behind any sink of the
interface (`Nested` is its part about containers, of which the innermost holds no key
unless a value is due).  `Outer` is about the parser: tables below the innermost container
were told of it, a container outside a loop belongs to a tag, and a block does not begin
while a tag waits.  `Waits` relates the one field that the grammar does not: the
tag for which the parser waits is the builder's, and what is queued does not end its item
(`Keeps`), or the queue brings the tag (`Brings`).  Each handler has a lemma that it
keeps `Outer` and `TagKept` (`KeywordPlace` ... `ValuePlace`), and delivery is `BuildPlace`.

In the same module, about the Rust builder's document:

* `ShapeInvariant`: `PipelineSpec => []ShapeInv`.
* `LoopsAreRectangularCorrect`: `PipelineSpec => []LoopsAreRectangular`; the columns of a
  loop have one length, in every block and frame, in both modes, unless the file was `misplaced`.

The property alone says nothing of the loop that is still open, of which `OpenLoop`
knows that its columns are `q + 1` long up to the place `rIndex % Len(rHeader)` and `q` behind it
(`Rows`).  A value moves that place on, over the end of a row too
(`NextRemainder`, `RowsGrow`), and padding fills the row (`PaddedRows`).  A finished loop stays
rectangular only if no later item has a tag of it, which is `FreeTag`, and the part that
`overwritten_scalar` and `arrow_panic` show to fail otherwise: hence `misplaced`.  `Document`
says that each namespace has a column for every tag of its loops, also in the frame and the
block that are open, and that a frame is open only in a block; it uses `Follows` for that.

And about what is exported from it:

* `NamesInvariant`: `PipelineSpec => []NamesInv`.
* `ArrowAgreesCorrect`: `PipelineSpec => [](CellsAlike => ArrowAgrees)`; for any conversion of
  the values, `RustBatches` of the raw document is `PyBatches` of the converted one, as
  long as each value gives one cell on both ways (`CellsAlike`).

What the two exports do to a value is recursive, and the premise leaves it to TLC, whose
`pipeline` checks `ArrowAgrees` without it, over the conversions of `PipelineValues`.  What is
proved is all the rest.  Of a namespace (`NamespacesAgree`): the conversion keeps the order, the headers and the
lengths (`Converted`), so that both exports take the same scalars and the same loops
(`ScalarTagsAre`, `FullLoopsAre`); `frame_to_batches` makes a column of as many cells as
the longest has and asks each for its value, `_ns_batches` joins the missing cells on, which is the same as the longest is
never shorter (`LongestIs`, `ScalarColumnsAgree`).  For this the document's order must list tags it
has, and its values and headers be lists: `Listed`, a part of `ShapeInv`.

Of a document: `cif_to_arrow` looks up by name what `to_py_batches` takes as it comes, which is
the same only where names are distinct.  The builder reports the second block and the second frame of a name, which
it finds in its own sets of names: `NamesInv` relates these to the document, the open block and frame included.
It follows from `rErrors = <<>>` only because errors are never taken back
(`CallKeepsErrors`), and it survives every other callback because those change nothing but a namespace
(`OthersKeepNames`).  `PlaceOfItsName` and `DistinctByName` then say that a look-up
finds its own place, and taking frames name by name takes them in order (`NamesAreFound`).

`WriterProofs`, on the lemmas of `ListProofs` and `EditProofs`:

* `LookupsCorrect`: `EditsSpec => []LookupsAgree`, with `EditsSpec` the
  behaviours in which `clean()` is not called.
* `EditsKeepLookups`: in every behaviour of `Spec`, a call other than `clean()` made when `LookupsInv`
  holds leaves it true; so edits never break what `clean()` left in order.
* `TagsStayListed`, `OnlyReassign`, `TypeCorrect`: `EditsSpec` implies `[]` of `TagsAreListed`,
  `OnlyReassignUnbalances` and `TypeOK` if the file is `FileTidy` when the writer gets it (below).
* `EditsStayEven`: from a file whose loops are even, whatever the order of its tags, they
  stay so until `reassign_tag` is called.
* `NamespacesReplayed`: `EditsSpec` implies `[]NamespacesReplay`, what the builder would make of the
  items of a namespace is that namespace, if the file's namespaces are also `InTurn` (below).
* `WrittenFromScratch`: of a writer that begins with an empty file all five properties hold, and
  nothing is assumed.
* `EditsKeepNamespaces`: like `EditsKeepLookups`, for `NamespacesInv`, which is all of this together.

`LookupsInv` says of each list of blocks and of frames (`DirInv`) that it has its type, its
objects are distinct, and a name looks up an object of the list that bears it; and that
lookups are exact if no name was repeated in the file.  The distinct identities are what a
renaming needs, which changes the object the lookup holds (`RenameKeeps`); a removal points the name
to its first object that is left, if there is one (`RemoveKeeps`).  That an identity is new is a pigeonhole
argument (`NewIdIsNew`, by `HasRoom`): there is one more number than objects.  `LoadedIsKept` is the
file a parser made, the others (`AddKeeps`, `ChangeKeeps`) each an operator of `Directory`, and
one lemma per call of the writers puts them to use.

Of a namespace the invariant is `Tidy`.  `Balanced` is about the parts that the writer keeps
in step: every tag of a loop has values, columns of one loop are of one length and a scalar has one value
(as long as `reassign_tag` was not called), a tag is in one loop at most and once in it
(`Apart`).  `Placed` is about their order: `_tag_order` lists each tag with values once and no
other (`Listed`), and the tags of a loop follow one another in it (`Together`).  The second
half is needed though no property of the writer's documents asks for it: `reorder_loop_tags` overwrites as
many places as the loop has tags, from its first one on, `delete_tag` and
`remove_loop_tag` take out one place, and `add_loop_column` inserts after the last tag of the header, all
of which go wrong in an order where a foreign tag stands between those of a loop
(`writer.py:334`).  That does happen: a parser makes such an order of a file that repeats a tag, and the run
`reordered_loop` shows the tag that is lost.  Hence the hypothesis `FileTidy(file,
~reassigned, TRUE, FALSE)` about the file the writer is given: a document the builders made of a
file without repeated tags satisfies it, and so does an empty file, the
only one the program makes itself.  `InTurn`, the fourth argument of `FileTidy`, is for
`NamespacesReplayed` alone: the loops are listed in the order of their tags (`Ranked`), and a tag
outside the loops has a value (`Filled`).  A builder appends a loop when it
reads it and lists a tag when it sees the first value, so a namespace that is not so would
come back with its loops in another order, or without a tag.  Each edit has four lemmas, that it keeps
the sizes (`...Balanced`), the list and the runs (`...Placed`), the turns (`...InTurn`), and all of it
with `Tidy`; what they do to the order is a splice, a removal or a rewritten stretch, which `Inserted`, `Removed`
and `Overwritten` describe once for all edits.

The replay is a recursion over items, which needs no induction here, as it is only
compared with a function that is known: `Before(d, q)`, the first `q` tags of the namespace, their values
and their loops.  If two functions begin alike and agree wherever they agreed one place
earlier, they agree, for there is no least place where they do not (`SameSteps`,
`ReplayReads`).  What is left is one step: behind `Before(d, a)` the next item, a scalar
(`ScalarBehind`) or a whole loop (`LoopBehind`), makes `Before` of the place where the next
one starts (`ItemRead`).  `ReplayOf` puts the steps together, with `StartsAre` and `ItemsListed` (below).

TLC checked `NamespacesInv` and `InTurn` in the
settings of `file_writer`, across `clean()` too.  The proofs leave `clean()` out since its
five steps are folds over the blocks and frames, whose results are an induction over data.

`DocumentProofs`:

* `EditsImplement`: `EditsSpec /\ FileTidy(file, FALSE, TRUE, FALSE) => ImplementsDocument`.  Each call
  but `clean()` is a step of `Document` made on the namespace that `call` names: it edits one item of
  that namespace (a scalar or a loop appears at the end or anywhere vanishes, a column is added,
  removed or moved, a row is added, values are replaced) and leaves every other item of the file as
  it was and where it was; or it opens the namespace, empty; or closes it, with its frames if it is a block;
  or changes nothing, being a renaming.

The hypothesis is that of `TagsStayListed`, without the part about equal columns: a document in
which some tag was given the wrong number of values is still edited item by item.  The abstract
state is `DocumentOf(file)`, so the invariant `DocumentInv` is `LookupsInv` with `FileTidy`, and the
work is to tell what a step does to it.  First within a namespace.  `StartsAre` says that, where
the tags of a loop stand together, an item starts at every tag but the later ones of the loops, and
`ItemsListed` that `Items` lists the items at these places in order; an order is told by
`Sorts(o, S)`, which a list satisfies in one way only (`SortedOnce`), so that no lemma speaks of the
function that sorts.  `ItemAppended`, `ItemPutBehind`, `ItemChanged`, `ItemRemoved` and
`ItemTakenOut` then say what becomes of the items if the places move as the edits move them
(`Moves`), and a lemma for each edit (`SetTagEdits` ... `DeleteTagEdits`) shows that its
splice, removal or stretch of `_tag_order` moves them so.  Then in the file: `Held(f, n, x)` says
that the namespace of identity `n` holds `x`, whatever place it is at; `EditsDocument`,
`OpensDocument` and `ClosesDocument` turn facts about `Held` into steps of `Document`, and
the calls are taken one by one (`EditIsStep`, `BlockCallIsStep`, `FrameCallIsStep`).  A renaming is
a step that changes nothing: identities, not names, tell namespaces apart.

`VizProofs`:

* `VizTypeCorrect`, `MessagesPairUp`, `ListenersAreCleared`, `SettingsAreOwn`,
  `ImagesAreOwn`: `Spec => []` of `TypeOK`, `EveryWaiterHasItsMessage`,
  `OnlyRefusedListenersStay`, `OwnSettings` and `OwnImages`.
* `FilesHaveAnOwner`: `Spec => []LeftByACall`; what an instance holds of files and settings,
  some call of the object brought.
* `RefusalsHaveACause`: `Spec => []RefusedAfterAnError`.
* `ImplementsSafely`: every behaviour of `Spec` begins as a `RenderService` may and takes only steps it
  may take, under the refinement mapping of `VizService`.

The invariant `IInv` adds four facts to the types.  `Begun`: a call that was not made
has no trace, and stages and promises go together.  `Numbered`: numbers in
flight ascend along each queue, those of answers are below those of requests, all are below
`nextId`, so no number is used twice.  `Paired`: each message in flight has a listener of a
pending call, each pending call a message, each listener a call of its own.  `Matched`: a
request in the inbox asks what its call was asked, and an answer in the
outbox, like the output of a fulfilled call, answers that.  It is
`Paired` that lets `OnMessage` keep `Matched`: the answer goes to the call the number was given
to.  Which stub stands last under a path needs the well-foundedness of the numbers
(`LastAtIsLast`).  The two properties about what an instance remembers are about earlier
calls, whose results may be gone by then: `HInv` is `IInv` with `LeftBehind` (the files and
settings of the instance, of the requests and of the answers are all ones that some call brought) and
`Refusals` (the message pointer is stale only if some call gave Graphviz a source it fails for,
and no drawable source is refused, in the outbox or to its caller, but for that or for a
request that could not be sent).  `RenderLeaves` and `RenderRefuses` say what one
`render()` adds to either.  The refinement then has a lemma per kind of step: `CallAsks`,
`MessageSettles`, `CallbackSettles`, `WorkerAbandons`, and stutters elsewhere.

`LoaderProofs`, for all files, whatever they import, and any number of loads and changes:

* `LoaderTypeCorrect`: `Spec => []TypeOK`; a call reads a text that is
  there, is at one of its frames, and has directives of that frame to do.
* `NoFileIsLoadedInItself`: `Spec => []LoadingIsTheStack`; the set `loading` is just the
  files of the calls above the root, each once, so that the recursion is never deeper than
  there are files.
* `OneReadingCorrect`: `Spec => []OneReadingOfEachFile`.
* `DictionaryIsWholeCorrect`: `Spec => []DictionaryIsWhole`; a result without a warning of a loss
  has exactly the definitions of the files its imports lead to, the root's own where names
  meet, each under its own name, with each file listed.

The invariant of the first three says that the two caches agree, that a call above the root
reads the version in the cache, and that each definition in a pool, on its way or in a result is the root's
own or was read in the version that is now in the cache of its file
(`CachesAgree`, `ReadingsAgree`, `CallsSourced`, `ResultSourced`).  It is inductive because a
cache entry never changes once it is made (`Kept`), which is what the
files that change would break without it.  Each step of a frame turns the innermost
call into another of the same file and version (`Works`, `Follows`); `BecomesKeeps` does
the rest once for all of them, and `EnterInv`, `ReturnInv` and `LoadInv` treat the
steps that change the depth.

`DictionaryIsWhole` is about a result; of a load under way there is nothing whole to speak of.
`NInv` says of each call on the stack, whatever its depth, that it is `Sound`:

* `Home`: the definitions of the frames it is done with are in `primary`, waiting to
  be laid over the pool, or are the only ones of their names there (`OwnWin`); names in the
  pool are distinct; a frame that is left out has no directives to do;
* `CallListed`, if a base URI was given: the file of every definition it has is in `source_files`;
* `CallTraced`: every definition it has is made by the root's text, or by the cached text of a
  file that the root leads to by imports of heads;
* `Whole`: unless it warned of a loss, there is a set of files `M` whose definitions it
  has, with the constituents of what it read so far in it, and closed under the imports of heads
  but for files that are under way.

The last takes the place of an induction over imports, which the prover could not do: that a
constituent's definitions are all there is not proved from its own constituents', but `M` of the
returning call joins that of its caller.  Circular imports are why `M` may leave out files under way: the code
skips a file that is being loaded, whose definitions come with its own call.  At the root
nothing else is under way, so its `M` is closed, and contains the least closed set
`ReachedFrom`, which is an intersection.  `WaitsForNext` says that each call below the innermost
waits for the one above it, and `ResultWaits` that there is no result then.

The caches grow during a load and a set like `ReachedFrom` depends on them; the lemmas from `Grown` to
`SoundGrows` say that all of this survives it.  Then each action has its lemma:
`SkipSound` ... `MergeTagSound` for directives that leave the call's definitions (by
`ResumeStep`, or `LossResumes` if they warn), `BeginSound`, `EndSound`, `OverlaySound` and
`MergeItemSound` for those that move definitions, `EnterSound`, `ReturnSound`, `ReturnWhole` (by
`RootIsWhole`) and `LoadSound` where the depth changes.  TLC checked `NInv` on the states of
`loader` before the proof.  It was the proof that asked for `FramesAssumption`: without
it a text could have definitions and be treated as an empty file.

### What stays with TLC

* Liveness (`Termination`, `PromisesSettle`, `LoadsReturn`, and that half of
  `ImplementsService`) is beyond the prover, which knows no fairness.
* `ValuesKept` counts what a recursive conversion makes of a document, and `CellsAlike` compares two
  recursive writings of a value: inductions over data, beyond the prover as well.  `SameDocument` needs no induction, the two builders being
  compared call by call, but its proof is not written.
* `CleanedIsClean` and `WarningsAccountForLosses`, and what is proved of the edits (`NamespacesReplay`
  among it) across `clean()`: folds again; so too `ImplementsDocument` for `clean()`.

## 5. Not modelled, and why

* Positions, columns, contexts and texts of errors.  Met while reading: the
  width of a held-back key is its number of bytes (`parser.rs:553`), so
  a key with a multi-byte letter is always reported; the empty-loop report
  is made for a loop whose only value is a container still open
  (`parser.rs:157`).
* The lexer, for the time being: its tokens are the models' input.  Its
  contexts are byte slices (`lexer.rs:324`, `356`, `384`, `412`).
* Names that begin with an underscore for frames: `builder.py:173` looks for
  a frame with an operator that looks for tags then.
* Names on which the two foldings differ (`raw_builder.rs:342`).
* `clean()` with repeated blocks left in (`deduplicate_blocks=False`): edits of a later namesake go
  to the first (`clean.py:203`), and no option set of the runs has it; the error tag as a column of
  a loop, which a file may make it; and which `?` were padding: `_strip_padding_in_ns`
  takes full rows of `?`, which the parser's padding never makes
  (`clean.py:289`).
* The characters of a text in a cell of Arrow: `json_str` escapes line feed, carriage return and tab only,
  `json.dumps` every control character; CIF allows no others in a file.
* Conversion of Python values, legality of names, the chaining of handles.
* Two behaviours of the builders that differ from the documents: a container
  in the place of a table's key is reported as kept, and its content is dropped
  (`raw_builder.rs:173`); a text field that holds `?` is stored as the placeholder
  (`raw_builder.rs:400`).  Two more met in the writer and the ingestion:
  `writer.py:435` takes a list of one element for its element (modelled as it is), and rows of
  blocks that share a name collide (`ingest.py:346`).
* Graphviz (compiled code inside `full.render.js`) and the browser: external, by what
  they may answer.  Two `Viz` objects given one worker, which number their
  requests alike (`viz.js:249`): the generated page makes one object, without a
  worker, and one call (`visualise.py:846`); the models treat the library as it is
  shipped, with all its methods.
* In the loader: `merge_dictionaries`; warnings but for their kinds; the paths
  a `path_resolver` gives; `resolve_tag` but for its lookup.  Met while reading: with
  `dupl="Replace"` a loop's tag that was just merged is removed when the next tag of its category
  comes (`loader.py:926`, modelled as it is); errors in a template file are discarded
  (`loader.py:860`); a warning of "aborting dictionary load" ends the directives of
  one frame; and `source_files` lacks the root if its URI comes from
  `_dictionary.uri` only.
* The cache of dictionaries, for the time being; `save_dictionary` writes in place
  (`cache.py:63`).
* Inspection and page generation, validation of values against a dictionary
  and the SQL views of the database utilities: no state of their own.

## 6. Plan

Done: `EventSink`, `EventStream`, `CifParser`, `ParserStream`, `ParserProofs`,
`Namespace`, `CifModel`, `RawBuilder`, `CifBuilder`, `ArrowExport`, `Pipeline`,
`PipelineDocuments`, `PipelineValues`, `PipelineProofs`,
`FrameWriter`, `Directory`, `Cleaner`, `Document`, `FileWriter`, `ListProofs`, `EditProofs`, `WriterProofs`,
`DocumentProofs`, `RenderService`,
`GraphvizInstance`, `VizWrapper`, `Viz`, `VizService`, `VizProofs`,
`DictionaryLoader`, `LoadedDictionary`, `LoaderProofs`.

Next modules, in this order:

1. `Staging`, `ForeignKeys`, `FinalTables`, composed in `Ingestion`: routing of
   tags, loops that feed several tables, the filling passes, stubs, UUID keys,
   merge and conflicts.  State: staging rows and final tables; one action per
   pass.  Abstract specification: `Merge`, a keyed set of rows with the first
   value winning and a report for each other one.  Properties: no dangling
   foreign key after the stubs, every non-null value in a final row or in
   a report, a second ingestion adds nothing twice.  Bounds: three tables in
   a chain and in a cycle, two blocks, two keys.  DuckDB is external.
2. `Schema`: primary keys, bridges, foreign keys, order of creation, as
   functions of a small dictionary, against reference definitions.
3. `DictionaryCache`: the file with a crash between any two writes, several
   processes, and sources newer than it.  Property: what is loaded from the cache
   was saved.  And `merge_dictionaries`, over results of `DictionaryLoader`.
4. `Lexer` and `Quote`: words, quotes and text fields over short character
   sequences; what `quote` writes the lexer reads back.  Abstract
   specification: a relation between a text and its tokens.
5. `PythonSink` (the exception latch of `lib.rs`) beside `ParserStream`.
6. `OutputPlan` and `Emit`: which rows go to which block in each mode;
   every row in one block, parents with children; composed with `Ingestion`
   for the round trip.  `Fidelity`: the comparison as a relation, reflexive and
   symmetric.

Theorems worth proving next: that the Python
builder follows the callbacks as the Rust builder does (`Follows` for its fields), so
that both are in one place with one set of errors; for ingestion, once modelled, that stubs
leave no dangling key.
Runs whose question a stronger property comes to cover will make room for the
runs of the new modules.

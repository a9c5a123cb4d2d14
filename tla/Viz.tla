--------------------------------- MODULE Viz ---------------------------------
(***************************************************************************)
(* The Viz object of viz.js: renderString and the three methods built on   *)
(* it.  Each call is made once; what happens to it afterwards is driven by *)
(* the promise callbacks, the worker and the browser's image events, in    *)
(* any order.                                                              *)
(***************************************************************************)
EXTENDS VizWrapper

CONSTANTS
    Questions,      \* the calls a client may make
    Arrays,         \* `files` arrays the client keeps, and may pass to several calls
    InitialFiles,   \* what they hold at first
    DevicePixelRatio

VARIABLES
    vizLoaded, renderInstalled,     \* window.Viz, and Viz.Module with Viz.render
    fabricLoaded,                   \* window.fabric
    arrays,
    question,       \* what each call was asked
    stage,          \* how far the method around renderString has come
    image           \* the image element a call was given

clientVars == <<vizLoaded, renderInstalled, fabricLoaded, arrays, question, stage, image>>
vars == <<wrapperVars, clientVars>>

Kinds == {"string", "svg", "image", "json"}
MimeTypes == {"image/png", "image/jpeg", "image/webp"}
Image == [path : Paths, size : Data]
Question == [kind : Kinds, src : Sources, format : Formats, files : Arrays \cup {Nothing},
             images : Seq(Image), yInvert : BOOLEAN, nop : Nat, cloneable : BOOLEAN,
             scale : (Nat \ {0}) \cup {Nothing}, mimeType : MimeTypes \cup {Nothing}]
Stages == {"idle", "waiting", "fabric", "loading", "encoding", "resolved", "rejected", "lost"}
Drawn == [scale : Nat \ {0}, mimeType : MimeTypes]

ASSUME VizAssumption ==
    /\ MaxCalls \in Nat
    /\ Questions \subseteq Question
    /\ InitialFiles \in [Arrays -> Seq(File)]
    /\ DevicePixelRatio \in Nat \ {0}
    /\ Nothing \notin Arrays \cup Questions \cup Nat \cup MimeTypes \cup Output \cup Drawn

Init ==
    /\ WrapperInit
    /\ vizLoaded = FALSE /\ renderInstalled = FALSE /\ fabricLoaded = FALSE
    /\ arrays = InitialFiles
    /\ question = [c \in Calls |-> Nothing]
    /\ stage = [c \in Calls |-> "idle"]
    /\ image = [c \in Calls |-> Nothing]

-----------------------------------------------------------------------------
(***************************************************************************)
(* The page's scripts, all loaded before the object is made.               *)
(***************************************************************************)
\* viz.js defines a new class, and with it the old one's Module and render are gone.
LoadViz ==
    /\ wrapper = "none"
    /\ vizLoaded' = TRUE /\ renderInstalled' = FALSE
    /\ UNCHANGED <<wrapperVars, fabricLoaded, arrays, question, stage, image>>

LoadFullRender ==
    /\ wrapper = "none"
    /\ renderInstalled' = vizLoaded
    /\ UNCHANGED <<wrapperVars, vizLoaded, fabricLoaded, arrays, question, stage, image>>

LoadFabric ==
    /\ wrapper = "none"
    /\ fabricLoaded' = TRUE
    /\ UNCHANGED <<wrapperVars, vizLoaded, renderInstalled, arrays, question, stage, image>>

NewViz ==
    /\ vizLoaded
    /\ \E o \in ConstructorOptions : Construct(o, renderInstalled)
    /\ UNCHANGED clientVars

-----------------------------------------------------------------------------
(***************************************************************************)
(* The methods.                                                            *)
(***************************************************************************)
\* An empty SVG file of the image's size for each image.
Stubs(images) == [i \in DOMAIN images |-> [path |-> images[i].path, data |-> images[i].size]]

\* The caller's array itself is extended, and the next call that is given it starts from there.
FilesFor(q) == (IF q.files = Nothing THEN <<>> ELSE arrays[q.files]) \o Stubs(q.images)

RenderString(c, q) ==
    /\ Render(c, q.src, [format |-> q.format, files |-> FilesFor(q), yInvert |-> q.yInvert,
                         nop |-> q.nop], q.cloneable)
    /\ arrays' = IF q.files = Nothing THEN arrays ELSE [arrays EXCEPT ![q.files] = FilesFor(q)]

\* _extends({}, options, {format: ...}): a shallow copy, the files array is still the caller's.
Extends(q, format) == [q EXCEPT !.format = format]

Begin(c, q, format) ==
    /\ question[c] = Nothing /\ \A d \in 1..c-1 : question[d] # Nothing
    /\ question' = [question EXCEPT ![c] = q]
    /\ stage' = [stage EXCEPT ![c] = "waiting"]
    /\ RenderString(c, Extends(q, format))
    /\ UNCHANGED <<vizLoaded, renderInstalled, fabricLoaded, image>>

CallString(c, q) == q.kind = "string" /\ Begin(c, q, q.format)
CallSVGElement(c, q) == q.kind = "svg" /\ Begin(c, q, "svg")
CallImageElement(c, q) == q.kind = "image" /\ Begin(c, q, "svg")
\* The test for json0 is always true, so the format always becomes json.
CallJSONObject(c, q) == q.kind = "json" /\ Begin(c, q, "json")

Advance(c, from, to) ==
    /\ stage[c] = from
    /\ stage' = [stage EXCEPT ![c] = to]
    /\ UNCHANGED <<wrapperVars, vizLoaded, renderInstalled, fabricLoaded, arrays, question>>

Fulfilled(c, kind) == question[c] # Nothing /\ question[c].kind = kind /\ state[c] = "fulfilled"

\* Without an onRejected, `then` passes the rejection on.
ThenRejected(c) ==
    /\ question[c] # Nothing /\ question[c].kind # "string" /\ state[c] = "rejected"
    /\ Advance(c, "waiting", "rejected")
    /\ UNCHANGED image

\* DOMParser gives a document for any text.
ThenSVGElement(c) ==
    /\ Fulfilled(c, "svg")
    /\ Advance(c, "waiting", "resolved")
    /\ UNCHANGED image

\* JSON.parse raises on the text of no graph.
ThenJSONObject(c) ==
    /\ Fulfilled(c, "json")
    /\ Advance(c, "waiting", IF Takes[output[c].src] = "graph" THEN "resolved" ELSE "rejected")
    /\ UNCHANGED image

ThenImageElement(c) ==
    /\ Fulfilled(c, "image")
    /\ Advance(c, "waiting", IF fabricLoaded THEN "fabric" ELSE "loading")
    /\ UNCHANGED image

DefaultScale == IF DevicePixelRatio > 1 THEN DevicePixelRatio ELSE 1
\* Mutant of ScaleOf: an option that is left out has no default.
ScaleAsGiven(q) == q.scale
ScaleOf(q) == IF q.scale = Nothing THEN DefaultScale ELSE q.scale
MimeTypeOf(q) == IF q.mimeType = Nothing THEN "image/png" ELSE q.mimeType

\* svgImage.onload draws on a canvas and asks it for a blob; onerror rejects.
ImageLoads(c) ==
    /\ stage[c] = "loading" /\ Takes[output[c].src] = "graph"
    /\ Advance(c, "loading", "encoding")
    /\ UNCHANGED image
ImageFails(c) == Advance(c, "loading", "rejected") /\ UNCHANGED image

BlobArrives(c) ==
    /\ Advance(c, "encoding", "resolved")
    /\ image' = [image EXCEPT ![c] = [scale |-> ScaleOf(question[c]), mimeType |-> MimeTypeOf(question[c])]]

\* A canvas the browser cannot encode gives null; createObjectURL raises in the
\* callback, outside the promise, and nobody settles it any more.
BlobIsNull(c) == Advance(c, "encoding", "lost") /\ UNCHANGED image

\* Fabric knows jpeg and png; any other type is left to its default, png.
FabricMimeType(q) == IF MimeTypeOf(q) = "image/jpeg" THEN "image/jpeg" ELSE "image/png"
FabricLoads(c) ==
    /\ stage[c] = "fabric" /\ Takes[output[c].src] = "graph"
    /\ Advance(c, "fabric", "resolved")
    /\ image' = [image EXCEPT ![c] = [scale |-> ScaleOf(question[c]), mimeType |-> FabricMimeType(question[c])]]

\* No objects: rejected, and what the callback goes on to do cannot change that.
FabricIsEmpty(c) == Advance(c, "fabric", "rejected") /\ UNCHANGED image

-----------------------------------------------------------------------------
Call(c, q) == CallString(c, q) \/ CallSVGElement(c, q) \/ CallImageElement(c, q) \/ CallJSONObject(c, q)
Then(c) == ThenRejected(c) \/ ThenSVGElement(c) \/ ThenJSONObject(c) \/ ThenImageElement(c)
Browser(c) ==
    ImageLoads(c) \/ ImageFails(c) \/ BlobArrives(c) \/ BlobIsNull(c) \/ FabricLoads(c) \/ FabricIsEmpty(c)

Next ==
    \/ LoadViz \/ LoadFullRender \/ LoadFabric \/ NewViz
    \/ \E c \in Calls, q \in Questions : Call(c, q)
    \/ (WorkerOnMessage \/ OnMessage \/ WorkerDies) /\ UNCHANGED clientVars
    \/ \E c \in Calls : Then(c) \/ Browser(c)

\* Event loops run what is queued: callbacks of settled promises, messages, image events.
Fairness ==
    /\ WF_vars(WorkerOnMessage /\ UNCHANGED clientVars)
    /\ WF_vars(OnMessage /\ UNCHANGED clientVars)
    /\ \A c \in Calls : WF_vars(Then(c)) /\ WF_vars(Browser(c))

Spec == Init /\ [][Next]_vars /\ Fairness
=============================================================================

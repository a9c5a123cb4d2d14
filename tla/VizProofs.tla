------------------------------ MODULE VizProofs ------------------------------
(***************************************************************************)
(* Theorems about Viz objects, for any number of calls, any questions,     *)
(* any behaviour of Graphviz and any sharing of arrays and paths.          *)
(***************************************************************************)
EXTENDS VizService, WellFoundedInduction, TLAPS

-----------------------------------------------------------------------------
(***************************************************************************)
(* One render.                                                             *)
(***************************************************************************)
\* The last place of a path is one of its places, and none is later.
LEMMA LastAtIsLast ==
    ASSUME NEW files, NEW n \in Nat, DOMAIN files = 1..n, NEW p, Named(files, p) # {}
    PROVE  /\ LastAt(files, p) \in Named(files, p)
           /\ \A j \in Named(files, p) : j <= LastAt(files, p)
  <1> DEFINE T == {n - i : i \in Named(files, p)}
  <1>1. Named(files, p) \subseteq 1..n
    BY DEF Named
  <1>2. T \subseteq Nat /\ T # {}
    BY <1>1
  <1>3. PICK x \in T : \A y \in T : ~ (<<y, x>> \in OpToRel(<, Nat))
    BY <1>2, NatLessThanWellFounded, WFMin
  <1>4. \A y \in T : ~ (y < x)
    BY <1>2, <1>3 DEF OpToRel
  <1>5. PICK i \in Named(files, p) : x = n - i
    OBVIOUS
  <1>6. \A j \in Named(files, p) : j <= i
    <2> TAKE j \in Named(files, p)
    <2>1. n - j \in T /\ i \in Int /\ j \in Int
      BY <1>1
    <2>2. ~ (n - j < n - i)
      BY <1>4, <1>5, <2>1
    <2>3. QED
      BY <2>1, <2>2
  <1>7. QED
    BY <1>6 DEF LastAt

LEMMA CreatedFiles ==
    ASSUME NEW fs \in [Paths -> Data \cup {Nothing}], NEW files \in Seq(File)
    PROVE  CreateFiles(fs, files) \in [Paths -> Data \cup {Nothing}]
  <1> SUFFICES ASSUME NEW p \in Paths, Named(files, p) # {}
               PROVE  files[LastAt(files, p)].data \in Data
    BY DEF CreateFiles
  <1>1. LastAt(files, p) \in DOMAIN files
    BY LastAtIsLast, Len(files) \in Nat, DOMAIN files = 1..Len(files) DEF Named
  <1>2. \A i \in DOMAIN files : files[i] \in File
    OBVIOUS
  <1>3. QED
    BY <1>1, <1>2 DEF File

LEMMA PreparedInstance ==
    ASSUME NEW inst \in Instance, NEW o \in Options
    PROVE  /\ Prepared(inst, o) \in Instance
           /\ Prepared(inst, o).yInvert = o.yInvert
           /\ o.nop # 0 => Prepared(inst, o).nop = o.nop
           /\ Prepared(inst, o).files = CreateFiles(inst.files, o.files)
           /\ Prepared(inst, o).stale = inst.stale
  <1>1. CreateFiles(inst.files, o.files) \in [Paths -> Data \cup {Nothing}]
    BY CreatedFiles DEF Instance, Options
  <1>2. QED
    BY <1>1 DEF Prepared, Instance, Options

\* A text is what the call's own source and settings make it.
LEMMA RenderTyped ==
    ASSUME NEW inst \in Instance, NEW src \in Sources, NEW o \in Options,
           NEW r \in Renders(inst, src, o)
    PROVE  /\ r.ok \in BOOLEAN /\ r.instance \in Instance
           /\ r.ok => /\ r.output \in Output
                      /\ r.output.src = src /\ r.output.format = o.format
                      /\ r.output.yInvert = o.yInvert
                      /\ o.nop # 0 => r.output.nop = o.nop
                      /\ r.output.files = CreateFiles(inst.files, o.files)
           /\ ~r.ok => r.output = Nothing
  <1> DEFINE p == Prepared(inst, o)
             q == [p EXCEPT !.stale = TRUE]
  <1>1. p \in Instance /\ p.yInvert = o.yInvert /\ (o.nop # 0 => p.nop = o.nop)
        /\ p.files = CreateFiles(inst.files, o.files)
    BY PreparedInstance
  <1>2. q \in Instance
    BY <1>1 DEF Instance
  <1>3. OutputOf(p, src, o) \in Output
    BY <1>1 DEF OutputOf, Output, Instance, Options
  <1>4. r \in {Fails(p), Fails(q), Succeeds(OutputOf(p, src, o), p)}
    BY DEF Renders
  <1> HIDE DEF p, q
  <1>5. CASE r = Fails(p)
    BY <1>1, <1>5 DEF Fails
  <1>6. CASE r = Fails(q)
    BY <1>2, <1>6 DEF Fails
  <1>7. CASE r = Succeeds(OutputOf(p, src, o), p)
    <2>1. r.ok = TRUE /\ r.output = OutputOf(p, src, o) /\ r.instance = p
      BY <1>7 DEF Succeeds
    <2>2. /\ r.output.src = src /\ r.output.format = o.format
          /\ r.output.yInvert = p.yInvert /\ r.output.nop = p.nop /\ r.output.files = p.files
      BY <2>1 DEF OutputOf
    <2>3. QED
      BY <2>1, <2>2, <1>1, <1>3
  <1>8. QED
    BY <1>4, <1>5, <1>6, <1>7

-----------------------------------------------------------------------------
(***************************************************************************)
(* Typing.                                                                 *)
(***************************************************************************)
LEMMA StubsAreFiles ==
    ASSUME NEW images \in Seq(Image)
    PROVE  /\ Stubs(images) \in Seq(File)
           /\ DOMAIN Stubs(images) = DOMAIN images /\ Len(Stubs(images)) = Len(images)
           /\ \A i \in DOMAIN images : Stubs(images)[i] = [path |-> images[i].path, data |-> images[i].size]
  <1>1. Len(images) \in Nat /\ DOMAIN images = 1..Len(images) /\ \A i \in DOMAIN images : images[i] \in Image
    OBVIOUS
  <1>2. \A i \in DOMAIN images : [path |-> images[i].path, data |-> images[i].size] \in File
    BY <1>1 DEF Image, File
  <1>3. Stubs(images) \in [1..Len(images) -> File]
    BY <1>1, <1>2 DEF Stubs
  <1>4. Stubs(images) \in Seq(File) /\ Len(Stubs(images)) = Len(images)
    BY <1>1, <1>3
  <1>5. QED
    BY <1>1, <1>4 DEF Stubs

LEMMA FilesAreTyped ==
    ASSUME TypeOK, NEW q \in Question
    PROVE  FilesFor(q) \in Seq(File)
  <1>1. Stubs(q.images) \in Seq(File)
    BY StubsAreFiles DEF Question
  <1>2. q.files # Nothing => arrays[q.files] \in Seq(File)
    BY DEF TypeOK, ClientTypeOK, Question
  <1>3. QED
    BY <1>1, <1>2 DEF FilesFor

\* What render() is asked for c.
OptionsFor(q, format) ==
    [format |-> format, files |-> FilesFor(q), yInvert |-> q.yInvert, nop |-> q.nop]

LEMMA QuestionsAreTyped ==
    ASSUME NEW q \in Questions
    PROVE  /\ q \in Question /\ q # Nothing
           /\ q.src \in Sources /\ FormatOf(q) \in Formats
  BY VizAssumption DEF Question, FormatOf, Formats

LEMMA OptionsAreTyped ==
    ASSUME TypeOK, NEW q \in Questions
    PROVE  OptionsFor(q, FormatOf(q)) \in Options
  BY FilesAreTyped, QuestionsAreTyped DEF OptionsFor, Options, Question

\* The four methods do the same with a format of their own.
LEMMA CallBegins ==
    ASSUME NEW c \in Calls, NEW q \in Questions, Call(c, q)
    PROVE  /\ question[c] = Nothing
           /\ question' = [question EXCEPT ![c] = q]
           /\ stage' = [stage EXCEPT ![c] = "waiting"]
           /\ Render(c, q.src, OptionsFor(q, FormatOf(q)), q.cloneable)
           /\ arrays' = IF q.files = Nothing THEN arrays ELSE [arrays EXCEPT ![q.files] = FilesFor(q)]
           /\ UNCHANGED <<vizLoaded, renderInstalled, fabricLoaded, image>>
  <1>1. Begin(c, q, FormatOf(q))
    BY DEF Call, CallString, CallSVGElement, CallImageElement, CallJSONObject, FormatOf
  <1> DEFINE e == Extends(q, FormatOf(q))
  <1>2. /\ e.format = FormatOf(q) /\ e.src = q.src /\ e.files = q.files /\ e.images = q.images
        /\ e.yInvert = q.yInvert /\ e.nop = q.nop /\ e.cloneable = q.cloneable
    BY QuestionsAreTyped DEF Extends, Question
  <1>3. FilesFor(e) = FilesFor(q)
    BY <1>2 DEF FilesFor
  <1>4. RenderString(c, e)
    BY <1>1 DEF Begin
  <1> HIDE DEF e
  <1>5. /\ Render(c, q.src, OptionsFor(q, FormatOf(q)), q.cloneable)
        /\ arrays' = IF q.files = Nothing THEN arrays ELSE [arrays EXCEPT ![q.files] = FilesFor(q)]
    BY <1>2, <1>3, <1>4 DEF RenderString, OptionsFor
  <1>6. QED
    BY <1>1, <1>5 DEF Begin

LEMMA TypeInit == Init => TypeOK
  <1> SUFFICES ASSUME Init PROVE TypeOK
    OBVIOUS
  <1>1. instance \in Instance
    BY DEF Init, WrapperInit, FreshInstance, Instance
  <1>2. listeners = <<>> /\ DOMAIN listeners = {}
    BY DEF Init, WrapperInit
  <1>3. inbox \in Seq(Request) /\ outbox \in Seq(Answer)
    BY DEF Init, WrapperInit
  <1>4. QED
    BY <1>1, <1>2, <1>3, VizAssumption DEF Init, WrapperInit, TypeOK, WrapperTypeOK, ClientTypeOK, PromiseStates,
                                            Stages

LEMMA TypeRender ==
    ASSUME TypeOK, NEW c \in Calls, NEW src \in Sources, NEW o \in Options, NEW cloneable,
           Render(c, src, o, cloneable)
    PROVE  WrapperTypeOK'
  <1> USE DEF TypeOK, WrapperTypeOK
  <1>1. CASE WorkerRender(c, src, o, cloneable)
    <2>1. [id |-> nextId, src |-> src, options |-> o] \in Request
      BY DEF Request
    <2>2. inbox' \in Seq(Request)
      BY <1>1, <2>1 DEF WorkerRender
    <2>3. DOMAIN listeners' \subseteq Nat /\ \A id \in DOMAIN listeners' : listeners'[id] \in Calls
      BY <1>1 DEF WorkerRender, With
    <2>4. state' \in [Calls -> PromiseStates]
      BY <1>1 DEF WorkerRender, PromiseStates
    <2>5. QED
      BY <1>1, <2>2, <2>3, <2>4 DEF WorkerRender
  <1>2. CASE ModuleRender(c, src, o)
    <2>1. PICK r \in Renders(instance, src, o) :
             /\ instance' = r.instance
             /\ state' = [state EXCEPT ![c] = IF r.ok THEN "fulfilled" ELSE "rejected"]
             /\ output' = [output EXCEPT ![c] = r.output]
      BY <1>2 DEF ModuleRender
    <2>2. r.instance \in Instance /\ r.output \in Output \cup {Nothing}
      BY RenderTyped
    <2>3. state' \in [Calls -> PromiseStates]
      BY <2>1 DEF PromiseStates
    <2>4. QED
      BY <1>2, <2>1, <2>2, <2>3 DEF ModuleRender
  <1>3. QED
    BY <1>1, <1>2 DEF Render

LEMMA TypeMessages ==
    ASSUME TypeOK, WorkerOnMessage \/ OnMessage \/ WorkerDies
    PROVE  WrapperTypeOK'
  <1> USE DEF TypeOK, WrapperTypeOK
  <1>1. CASE WorkerOnMessage
    <2>1. Head(inbox) \in Request /\ Tail(inbox) \in Seq(Request)
      BY <1>1 DEF WorkerOnMessage
    <2>2. PICK r \in Renders(instance, Head(inbox).src, Head(inbox).options) :
             /\ instance' = r.instance
             /\ outbox' = Append(outbox, [id |-> Head(inbox).id, ok |-> r.ok, output |-> r.output])
      BY <1>1 DEF WorkerOnMessage
    <2>3. r.instance \in Instance /\ r.ok \in BOOLEAN /\ r.output \in Output \cup {Nothing}
      BY <2>1, RenderTyped DEF Request
    <2>4. [id |-> Head(inbox).id, ok |-> r.ok, output |-> r.output] \in Answer
      BY <2>1, <2>3 DEF Request, Answer
    <2>5. outbox' \in Seq(Answer)
      BY <2>2, <2>4
    <2>6. QED
      BY <1>1, <2>1, <2>2, <2>3, <2>5 DEF WorkerOnMessage
  <1>2. CASE OnMessage
    <2>1. Head(outbox) \in Answer /\ Tail(outbox) \in Seq(Answer)
      BY <1>2 DEF OnMessage
    <2>2. /\ SettleWith(listeners[Head(outbox).id], Head(outbox).ok, Head(outbox).output)
          /\ listeners' = Without(listeners, Head(outbox).id)
      BY <1>2 DEF OnMessage
    <2>3. state' \in [Calls -> PromiseStates]
      BY <2>2 DEF SettleWith, PromiseStates
    <2>4. output' \in [Calls -> Output \cup {Nothing}]
      BY <2>1, <2>2 DEF SettleWith, Answer
    <2>5. DOMAIN listeners' \subseteq Nat /\ \A id \in DOMAIN listeners' : listeners'[id] \in Calls
      BY <2>2 DEF Without
    <2>6. QED
      BY <1>2, <2>1, <2>3, <2>4, <2>5 DEF OnMessage
  <1>3. CASE WorkerDies
    BY <1>3 DEF WorkerDies
  <1>4. QED
    BY <1>1, <1>2, <1>3

-----------------------------------------------------------------------------
(***************************************************************************)
(* The inductive invariant.                                                *)
(***************************************************************************)
\* How far a call can have come.
BegunAt(c) ==
    /\ question[c] = Nothing <=> state[c] = "none"
    /\ question[c] = Nothing <=> stage[c] = "idle"
    /\ stage[c] \in {"fabric", "loading", "encoding", "resolved", "lost"} => state[c] = "fulfilled"
    /\ stage[c] = "rejected" => state[c] # "pending"
    /\ question[c] # Nothing => (question[c].kind = "string" => stage[c] = "waiting")
Begun == \A c \in Calls : BegunAt(c)

\* Numbers rise from the answers under way to the requests under way.
Ordered(q) == \A i, j \in DOMAIN q : i < j => q[i].id < q[j].id
Numbered ==
    /\ Ordered(inbox) /\ Ordered(outbox)
    /\ \A i \in DOMAIN outbox, j \in DOMAIN inbox : outbox[i].id < inbox[j].id
    /\ \A id \in DOMAIN listeners : id < nextId
    /\ \A a, b \in DOMAIN listeners : listeners[a] = listeners[b] => a = b

\* Each message under way has the listener of the pending call it belongs to.
Waits(id) == id \in DOMAIN listeners /\ state[listeners[id]] = "pending"
Paired ==
    /\ \A i \in DOMAIN inbox : Waits(inbox[i].id)
    /\ \A i \in DOMAIN outbox : Waits(outbox[i].id)
    /\ \A c \in Calls : state[c] = "pending" =>
           \/ \E i \in DOMAIN inbox : listeners[inbox[i].id] = c
           \/ \E i \in DOMAIN outbox : listeners[outbox[i].id] = c
    /\ \A id \in DOMAIN listeners : state[listeners[id]] # "pending" =>
           state[listeners[id]] = "rejected" /\ ~question[listeners[id]].cloneable

\* Requests, answers and results are those of their own call.
SetsImages(fs, q) ==
    \A p \in {q.images[i].path : i \in DOMAIN q.images} :
        fs[p] = Stubs(q.images)[LastAt(Stubs(q.images), p)].data
Asks(m, q) ==
    /\ m.src = q.src /\ m.options.format = FormatOf(q)
    /\ m.options.yInvert = q.yInvert /\ m.options.nop = q.nop
    /\ \E given \in Seq(File) : m.options.files = given \o Stubs(q.images)
Answers(out, q) ==
    /\ out \in Output
    /\ out.src = q.src /\ out.format = FormatOf(q) /\ out.yInvert = q.yInvert
    /\ q.nop # 0 => out.nop = q.nop
    /\ SetsImages(out.files, q)
Matched ==
    /\ \A i \in DOMAIN inbox : Asks(inbox[i], question[listeners[inbox[i].id]])
    /\ \A i \in DOMAIN outbox :
           outbox[i].ok => Answers(outbox[i].output, question[listeners[outbox[i].id]])
    /\ \A c \in Calls : state[c] = "fulfilled" => Answers(output[c], question[c])

IInv == TypeOK /\ Begun /\ Numbered /\ Paired /\ Matched

\* The stubs come last, so they are what is found under their paths.
LEMMA ImagesAreSet ==
    ASSUME NEW fs, NEW given \in Seq(File), NEW q \in Question
    PROVE  SetsImages(CreateFiles(fs, given \o Stubs(q.images)), q)
  <1> DEFINE stubs == Stubs(q.images)
             all == given \o stubs
             n == Len(given)
  <1>0. q.images \in Seq(Image)
    BY DEF Question
  <1>1. /\ stubs \in Seq(File) /\ DOMAIN stubs = DOMAIN q.images
        /\ \A i \in DOMAIN q.images : stubs[i] = [path |-> q.images[i].path, data |-> q.images[i].size]
    BY <1>0, StubsAreFiles
  <1>2. /\ all \in Seq(File) /\ n \in Nat /\ Len(all) = n + Len(stubs) /\ Len(stubs) \in Nat
        /\ DOMAIN all = 1..Len(all) /\ DOMAIN stubs = 1..Len(stubs)
        /\ \A i \in 1..Len(stubs) : all[n + i] = stubs[i]
    BY <1>1
  <1> SUFFICES ASSUME NEW k \in DOMAIN q.images
               PROVE  CreateFiles(fs, all)[q.images[k].path] = stubs[LastAt(stubs, q.images[k].path)].data
    BY DEF SetsImages
  <1> DEFINE p == q.images[k].path
  <1>3. q.images[k] \in Image /\ p \in Paths
    <2>1. q.images[k] \in Image
      BY <1>0
    <2>2. QED
      BY <2>1 DEF Image
  <1>4. k \in Named(stubs, p) /\ n + k \in Named(all, p)
    <2> HIDE DEF stubs
    <2>0. stubs[k] = [path |-> q.images[k].path, data |-> q.images[k].size]
      BY <1>1
    <2>1. stubs[k].path = p /\ k \in 1..Len(stubs)
      BY <1>1, <1>2, <2>0
    <2>2. n + k \in 1..Len(all) /\ all[n + k].path = p
      BY <1>2, <2>1
    <2> HIDE DEF stubs, all, n, p
    <2>3. QED
      BY <1>2, <2>1, <2>2 DEF Named
  <1> HIDE DEF all, stubs, p, n
  <1>5. /\ LastAt(stubs, p) \in Named(stubs, p)
        /\ \A j \in Named(stubs, p) : j <= LastAt(stubs, p)
    BY <1>2, <1>4, LastAtIsLast
  <1>6. /\ LastAt(all, p) \in Named(all, p)
        /\ \A j \in Named(all, p) : j <= LastAt(all, p)
    BY <1>2, <1>4, LastAtIsLast, Len(all) \in Nat
  <1>7. n + LastAt(stubs, p) \in Named(all, p)
    BY <1>2, <1>5 DEF Named
  <1>8. LastAt(all, p) >= n + LastAt(stubs, p) /\ LastAt(all, p) \in 1..Len(all) /\ LastAt(stubs, p) \in 1..Len(stubs)
    BY <1>2, <1>5, <1>6, <1>7 DEF Named
  <1>9. LastAt(all, p) - n \in 1..Len(stubs) /\ LastAt(all, p) = n + (LastAt(all, p) - n)
    BY <1>2, <1>8
  <1>10. all[LastAt(all, p)] = stubs[LastAt(all, p) - n]
    BY <1>2, <1>9
  <1>11. LastAt(all, p) - n \in Named(stubs, p)
    BY <1>2, <1>6, <1>9, <1>10 DEF Named
  <1>12. LastAt(all, p) - n <= LastAt(stubs, p)
    BY <1>5, <1>11
  <1>13. LastAt(all, p) - n = LastAt(stubs, p)
    <2>1. \A a, b \in Int : a >= n + b /\ a - n <= b => a - n = b
      BY <1>2
    <2>2. LastAt(all, p) \in Int /\ LastAt(stubs, p) \in Int
      BY <1>8
    <2>3. QED
      BY <1>8, <1>12, <2>1, <2>2
  <1>14. CreateFiles(fs, all)[p] = all[LastAt(all, p)].data
    BY <1>3, <1>6 DEF CreateFiles
  <1>15. QED
    BY <1>10, <1>13, <1>14 DEF p

\* A render that succeeds answers the question it was asked.
LEMMA RenderAnswers ==
    ASSUME NEW inst \in Instance, NEW m, m.src \in Sources, m.options \in Options,
           NEW q \in Question, Asks(m, q), NEW r \in Renders(inst, m.src, m.options), r.ok
    PROVE  Answers(r.output, q)
  <1>1. PICK given \in Seq(File) : m.options.files = given \o Stubs(q.images)
    BY DEF Asks
  <1>2. /\ r.output \in Output /\ r.output.src = m.src /\ r.output.format = m.options.format
        /\ r.output.yInvert = m.options.yInvert
        /\ m.options.nop # 0 => r.output.nop = m.options.nop
        /\ r.output.files = CreateFiles(inst.files, m.options.files)
    BY RenderTyped
  <1>3. SetsImages(r.output.files, q)
    BY <1>1, <1>2, ImagesAreSet
  <1>4. QED
    BY <1>2, <1>3 DEF Answers, Asks

LEMMA OptionsAsk ==
    ASSUME TypeOK, NEW q \in Questions, NEW m, m.src = q.src, m.options = OptionsFor(q, FormatOf(q))
    PROVE  Asks(m, q)
  <1> DEFINE given == IF q.files = Nothing THEN <<>> ELSE arrays[q.files]
  <1>1. given \in Seq(File)
    BY QuestionsAreTyped DEF TypeOK, ClientTypeOK, Question
  <1>2. /\ m.options.files = FilesFor(q) /\ m.options.format = FormatOf(q)
        /\ m.options.yInvert = q.yInvert /\ m.options.nop = q.nop
    BY DEF OptionsFor
  <1>3. m.options.files = given \o Stubs(q.images)
    BY <1>2 DEF FilesFor
  <1> HIDE DEF given
  <1>4. QED
    BY <1>1, <1>2, <1>3 DEF Asks

-----------------------------------------------------------------------------
(***************************************************************************)
(* The steps.                                                              *)
(***************************************************************************)
LEMMA InvInit == Init => IInv
  <1> SUFFICES ASSUME Init PROVE IInv
    OBVIOUS
  <1>1. /\ inbox = <<>> /\ outbox = <<>> /\ DOMAIN listeners = {}
        /\ \A c \in Calls : state[c] = "none" /\ question[c] = Nothing /\ stage[c] = "idle"
    BY DEF Init, WrapperInit
  <1>2. DOMAIN inbox = {} /\ DOMAIN outbox = {}
    BY <1>1
  <1>3. Begun
    BY <1>1 DEF Begun, BegunAt
  <1>4. Numbered /\ Paired /\ Matched
    BY <1>1, <1>2 DEF Numbered, Ordered, Paired, Matched
  <1>5. QED
    BY TypeInit, <1>3, <1>4 DEF IInv

\* A call that is being made has no listener yet.
LEMMA NewCall ==
    ASSUME IInv, NEW c \in Calls, NEW q \in Questions, Call(c, q)
    PROVE  /\ state[c] = "none" /\ stage[c] = "idle"
           /\ \A id \in DOMAIN listeners : listeners[id] \in Calls \ {c}
           /\ ClientTypeOK'
           /\ question'[c] = q /\ q # Nothing
           /\ \A d \in Calls \ {c} : question'[d] = question[d] /\ stage'[d] = stage[d]
           /\ stage'[c] = "waiting"
  <1> USE DEF IInv, TypeOK
  <1>1. /\ question[c] = Nothing
        /\ question' = [question EXCEPT ![c] = q] /\ stage' = [stage EXCEPT ![c] = "waiting"]
        /\ arrays' = IF q.files = Nothing THEN arrays ELSE [arrays EXCEPT ![q.files] = FilesFor(q)]
        /\ UNCHANGED <<vizLoaded, renderInstalled, fabricLoaded, image>>
    BY CallBegins
  <1>2. state[c] = "none" /\ stage[c] = "idle"
    BY <1>1 DEF Begun, BegunAt
  <1>3. \A id \in DOMAIN listeners : listeners[id] \in Calls \ {c}
    BY <1>2 DEF Paired, WrapperTypeOK
  <1>4. FilesFor(q) \in Seq(File) /\ q # Nothing
    BY FilesAreTyped, QuestionsAreTyped
  <1>5. question' \in [Calls -> Questions \cup {Nothing}] /\ stage' \in [Calls -> Stages]
    BY <1>1 DEF ClientTypeOK, Stages
  <1>6. arrays' \in [Arrays -> Seq(File)]
    BY <1>1, <1>4 DEF ClientTypeOK
  <1>7. QED
    BY <1>1, <1>2, <1>3, <1>4, <1>5, <1>6 DEF ClientTypeOK

LEMMA InvWorkerCall ==
    ASSUME IInv, NEW c \in Calls, NEW q \in Questions, Call(c, q),
           WorkerRender(c, q.src, OptionsFor(q, FormatOf(q)), q.cloneable)
    PROVE  IInv'
  <1> DEFINE m == [id |-> nextId, src |-> q.src, options |-> OptionsFor(q, FormatOf(q))]
             old == DOMAIN listeners
             n == Len(inbox)
  <1>1. /\ nextId' = nextId + 1 /\ listeners' = With(listeners, nextId, c)
        /\ state' = [state EXCEPT ![c] = IF q.cloneable THEN "pending" ELSE "rejected"]
        /\ inbox' = IF q.cloneable THEN Append(inbox, m) ELSE inbox
        /\ UNCHANGED <<wrapper, outbox, instance, workerUp, output>>
    BY DEF WorkerRender
  <1>2. /\ state[c] = "none" /\ stage[c] = "idle"
        /\ \A id \in old : listeners[id] \in Calls \ {c}
        /\ ClientTypeOK' /\ question'[c] = q /\ q # Nothing
        /\ \A d \in Calls \ {c} : question'[d] = question[d] /\ stage'[d] = stage[d]
        /\ stage'[c] = "waiting"
    BY NewCall
  <1>3. TypeOK'
    <2>1. Render(c, q.src, OptionsFor(q, FormatOf(q)), q.cloneable) /\ q.src \in Sources
          /\ OptionsFor(q, FormatOf(q)) \in Options /\ TypeOK
      BY OptionsAreTyped, QuestionsAreTyped DEF Render, IInv
    <2>2. QED
      BY <2>1, <1>2, TypeRender DEF TypeOK
  <1>4. /\ DOMAIN listeners' = old \cup {nextId} /\ listeners'[nextId] = c
        /\ nextId \notin old /\ \A id \in old : id < nextId /\ listeners'[id] = listeners[id]
        /\ old \subseteq Nat /\ nextId \in Nat
    BY <1>1 DEF With, IInv, Numbered, TypeOK, WrapperTypeOK
  <1>5. /\ state'[c] = IF q.cloneable THEN "pending" ELSE "rejected"
        /\ \A d \in Calls \ {c} : state'[d] = state[d]
        /\ output' = output
    BY <1>1 DEF IInv, TypeOK, WrapperTypeOK
  <1>6. \A id \in old : /\ state'[listeners'[id]] = state[listeners[id]]
                        /\ question'[listeners'[id]] = question[listeners[id]]
    BY <1>2, <1>4, <1>5
  <1>7. /\ \A i \in DOMAIN inbox : inbox[i].id \in old
        /\ \A i \in DOMAIN outbox : outbox[i].id \in old /\ outbox'[i] = outbox[i]
        /\ outbox' = outbox
    BY <1>1 DEF IInv, Paired, Waits
  <1>8. /\ n \in Nat /\ DOMAIN inbox = 1..n
        /\ \A i \in 1..n : i \in DOMAIN inbox' /\ inbox'[i] = inbox[i]
        /\ q.cloneable => DOMAIN inbox' = 1..n + 1 /\ inbox'[n + 1] = m
        /\ ~q.cloneable => inbox' = inbox
    BY <1>1 DEF IInv, TypeOK, WrapperTypeOK
  <1>9. m.id = nextId /\ m.src = q.src /\ m.options = OptionsFor(q, FormatOf(q))
    OBVIOUS
  <1> HIDE DEF m, old, n
  <1>a. /\ \A i \in DOMAIN inbox : inbox[i].id \in Nat /\ inbox[i].id < nextId
        /\ \A i \in DOMAIN outbox : outbox[i].id \in Nat /\ outbox[i].id < nextId
    BY <1>4, <1>7
  <1>b. \A i \in DOMAIN inbox' :
            \/ i \in DOMAIN inbox /\ inbox'[i] = inbox[i]
            \/ i = n + 1 /\ inbox'[i] = m /\ q.cloneable
    <2>1. CASE q.cloneable
      BY <2>1, <1>8
    <2>2. CASE ~q.cloneable
      BY <2>2, <1>8
    <2>3. QED
      BY <2>1, <2>2
  <1>10. Begun'
    <2> SUFFICES ASSUME NEW d \in Calls PROVE BegunAt(d)'
      BY DEF Begun
    <2>1. CASE d = c
      BY <2>1, <1>2, <1>5 DEF BegunAt
    <2>2. CASE d # c
      BY <2>2, <1>2, <1>5 DEF BegunAt, IInv, Begun
    <2>3. QED
      BY <2>1, <2>2
  <1>11. Numbered'
    <2>1. Ordered(inbox)'
      BY SMTT(30), <1>8, <1>9, <1>a, <1>b DEF Ordered, IInv, Numbered
    <2>2. \A i \in DOMAIN outbox', j \in DOMAIN inbox' : outbox'[i].id < inbox'[j].id
      BY <1>7, <1>9, <1>a, <1>b DEF IInv, Numbered
    <2>3. \A a, b \in DOMAIN listeners' : listeners'[a] = listeners'[b] => a = b
      BY <1>2, <1>4 DEF IInv, Numbered, old
    <2>4. \A id \in DOMAIN listeners' : id < nextId'
      <3>1. nextId' = nextId + 1
        BY <1>1
      <3>2. \A id \in old : id \in Nat /\ id < nextId + 1
        BY <1>4
      <3>3. nextId < nextId + 1
        BY <1>4
      <3>4. DOMAIN listeners' = old \cup {nextId}
        BY <1>4
      <3>5. QED
        BY <3>1, <3>2, <3>3, <3>4
    <2>5. QED
      BY <2>1, <2>2, <2>3, <2>4, <1>7 DEF Numbered, IInv
  <1>12. Paired'
    <2>1. ASSUME NEW i \in DOMAIN inbox'
          PROVE  inbox'[i].id \in DOMAIN listeners' /\ state'[listeners'[inbox'[i].id]] = "pending"
      <3>1. CASE i \in DOMAIN inbox /\ inbox'[i] = inbox[i]
        <4>1. inbox[i].id \in old /\ state[listeners[inbox[i].id]] = "pending"
          BY <3>1 DEF Waits, IInv, Paired, old
        <4>2. QED
          BY <3>1, <4>1, <1>4, <1>6
      <3>2. CASE inbox'[i] = m /\ q.cloneable
        BY <3>2, <1>4, <1>5, <1>9
      <3>3. QED
        BY <2>1, <3>1, <3>2, <1>b
    <2>2. (\A i \in DOMAIN outbox : Waits(outbox[i].id))'
      BY <1>4, <1>6, <1>7 DEF Waits, IInv, Paired
    <2>3. ASSUME NEW d \in Calls, state'[d] = "pending"
          PROVE  \/ \E i \in DOMAIN inbox' : listeners'[inbox'[i].id] = d
                 \/ \E i \in DOMAIN outbox' : listeners'[outbox'[i].id] = d
      <3>1. CASE d = c
        BY <3>1, <2>3, <1>4, <1>5, <1>8, <1>9
      <3>2. CASE d # c
        <4>1. state[d] = "pending"
          BY <3>2, <2>3, <1>5
        <4>2. CASE \E i \in DOMAIN inbox : listeners[inbox[i].id] = d
          BY <4>2, <1>4, <1>7, <1>8
        <4>3. CASE \E i \in DOMAIN outbox : listeners[outbox[i].id] = d
          BY <4>3, <1>4, <1>7
        <4>4. QED
          BY <4>1, <4>2, <4>3 DEF IInv, Paired
      <3>3. QED
        BY <3>1, <3>2
    <2>4. \A id \in DOMAIN listeners' : state'[listeners'[id]] # "pending" =>
              state'[listeners'[id]] = "rejected" /\ ~question'[listeners'[id]].cloneable
      BY <1>2, <1>4, <1>5, <1>6 DEF IInv, Paired, old
    <2>5. QED
      BY <2>1, <2>2, <2>3, <2>4 DEF Paired, Waits
  <1>13. Matched'
    <2>1. TypeOK
      BY DEF IInv
    <2>2. Asks(m, q)
      BY <1>9, <2>1, OptionsAsk
    <2>3. \A i \in DOMAIN inbox' : Asks(inbox'[i], question'[listeners'[inbox'[i].id]])
      <3> SUFFICES ASSUME NEW i \in DOMAIN inbox'
                   PROVE  Asks(inbox'[i], question'[listeners'[inbox'[i].id]])
        OBVIOUS
      <3>1. CASE i \in DOMAIN inbox /\ inbox'[i] = inbox[i]
        <4>1. /\ inbox[i].id \in old
              /\ Asks(inbox[i], question[listeners[inbox[i].id]])
          BY <3>1, <1>7 DEF IInv, Matched
        <4>2. question'[listeners'[inbox[i].id]] = question[listeners[inbox[i].id]]
          BY <4>1, <1>6
        <4>3. QED
          BY <3>1, <4>1, <4>2
      <3>2. CASE inbox'[i] = m
        BY <3>2, <2>2, <1>2, <1>4, <1>9
      <3>3. QED
        BY <3>1, <3>2, <1>b
    <2>4. \A i \in DOMAIN outbox' : outbox'[i].ok =>
              Answers(outbox'[i].output, question'[listeners'[outbox'[i].id]])
      BY <1>6, <1>7 DEF IInv, Matched
    <2>5. \A d \in Calls : state'[d] = "fulfilled" => Answers(output'[d], question'[d])
      BY <1>2, <1>5 DEF IInv, Matched
    <2>6. QED
      BY <2>3, <2>4, <2>5 DEF Matched
  <1>14. QED
    BY <1>3, <1>10, <1>11, <1>12, <1>13 DEF IInv

LEMMA InvModuleCall ==
    ASSUME IInv, NEW c \in Calls, NEW q \in Questions, Call(c, q),
           ModuleRender(c, q.src, OptionsFor(q, FormatOf(q)))
    PROVE  IInv'
  <1> DEFINE m == [id |-> nextId, src |-> q.src, options |-> OptionsFor(q, FormatOf(q))]
  <1>1. /\ m.src = q.src /\ m.options = OptionsFor(q, FormatOf(q))
        /\ m.src \in Sources /\ m.options \in Options /\ q \in Question
        /\ instance \in Instance
    BY OptionsAreTyped, QuestionsAreTyped DEF IInv, TypeOK, WrapperTypeOK
  <1>2. PICK r \in Renders(instance, m.src, m.options) :
           /\ instance' = r.instance
           /\ state' = [state EXCEPT ![c] = IF r.ok THEN "fulfilled" ELSE "rejected"]
           /\ output' = [output EXCEPT ![c] = r.output]
    BY <1>1 DEF ModuleRender
  <1>3. /\ state[c] = "none" /\ stage[c] = "idle"
        /\ \A id \in DOMAIN listeners : listeners[id] \in Calls \ {c}
        /\ ClientTypeOK' /\ question'[c] = q /\ q # Nothing
        /\ \A d \in Calls \ {c} : question'[d] = question[d] /\ stage'[d] = stage[d]
        /\ stage'[c] = "waiting"
    BY NewCall
  <1>4. TypeOK'
    <2>1. Render(c, q.src, OptionsFor(q, FormatOf(q)), q.cloneable) /\ TypeOK
      BY DEF Render, IInv
    <2>2. QED
      BY <2>1, <1>1, <1>3, TypeRender DEF TypeOK
  <1>5. UNCHANGED <<wrapper, nextId, listeners, inbox, outbox, workerUp>>
    BY DEF ModuleRender
  <1>6. r.ok => Answers(r.output, q)
    <2>1. Asks(m, q)
      BY <1>1, OptionsAsk DEF IInv
    <2>2. QED
      BY <1>1, <2>1, RenderAnswers
  <1>7. /\ state'[c] = IF r.ok THEN "fulfilled" ELSE "rejected"
        /\ output'[c] = r.output
        /\ \A d \in Calls \ {c} : state'[d] = state[d] /\ output'[d] = output[d]
    BY <1>2 DEF IInv, TypeOK, WrapperTypeOK
  <1> HIDE DEF m
  <1>8. \A id \in DOMAIN listeners : /\ state'[listeners[id]] = state[listeners[id]]
                                    /\ question'[listeners[id]] = question[listeners[id]]
    BY <1>3, <1>7
  <1>9. /\ \A i \in DOMAIN inbox : inbox[i].id \in DOMAIN listeners
        /\ \A i \in DOMAIN outbox : outbox[i].id \in DOMAIN listeners
    BY DEF IInv, Paired, Waits
  <1>10. Begun'
    <2> SUFFICES ASSUME NEW d \in Calls PROVE BegunAt(d)'
      BY DEF Begun
    <2>1. CASE d = c
      BY <2>1, <1>3, <1>7 DEF BegunAt
    <2>2. CASE d # c
      BY <2>2, <1>3, <1>7 DEF BegunAt, IInv, Begun
    <2>3. QED
      BY <2>1, <2>2
  <1>11. Numbered'
    BY <1>5 DEF IInv, Numbered, Ordered
  <1>12. Paired'
    <2>1. \A d \in Calls : state'[d] = "pending" => state[d] = "pending"
      BY <1>7
    <2>2. QED
      BY <2>1, <1>5, <1>8, <1>9 DEF IInv, Paired, Waits
  <1>13. Matched'
    <2>1. \A d \in Calls : state'[d] = "fulfilled" => Answers(output'[d], question'[d])
      BY <1>3, <1>6, <1>7 DEF IInv, Matched
    <2>2. QED
      BY <2>1, <1>5, <1>8, <1>9 DEF IInv, Matched
  <1>14. QED
    BY <1>4, <1>10, <1>11, <1>12, <1>13 DEF IInv

LEMMA InvWorkerOnMessage ==
    ASSUME IInv, WorkerOnMessage, UNCHANGED clientVars
    PROVE  IInv'
  <1> DEFINE m == Head(inbox)
             n == Len(inbox)
             k == Len(outbox)
  <1>1. PICK r \in Renders(instance, m.src, m.options) :
           /\ instance' = r.instance
           /\ outbox' = Append(outbox, [id |-> m.id, ok |-> r.ok, output |-> r.output])
    BY DEF WorkerOnMessage
  <1> DEFINE a == [id |-> m.id, ok |-> r.ok, output |-> r.output]
  <1>2. /\ inbox # <<>> /\ inbox' = Tail(inbox)
        /\ UNCHANGED <<wrapper, nextId, listeners, workerUp, state, output>>
    BY DEF WorkerOnMessage
  <1>3. UNCHANGED <<vizLoaded, renderInstalled, fabricLoaded, arrays, question, stage, image>>
    BY DEF clientVars
  <1>4. TypeOK'
    BY <1>3, TypeMessages DEF IInv, TypeOK, ClientTypeOK
  <1>5. /\ n \in Nat \ {0} /\ DOMAIN inbox = 1..n /\ DOMAIN inbox' = 1..n - 1
        /\ \A i \in 1..n - 1 : inbox'[i] = inbox[i + 1]
        /\ m = inbox[1] /\ m \in Request
    BY <1>2 DEF IInv, TypeOK, WrapperTypeOK
  <1>6. /\ k \in Nat /\ DOMAIN outbox = 1..k /\ DOMAIN outbox' = 1..k + 1
        /\ \A i \in 1..k : outbox'[i] = outbox[i]
        /\ outbox'[k + 1] = a
    BY <1>1 DEF IInv, TypeOK, WrapperTypeOK
  <1>7. a.id = m.id /\ a.ok = r.ok /\ a.output = r.output
    OBVIOUS
  <1>b. /\ \A i \in DOMAIN inbox : inbox[i].id \in Nat
        /\ \A i \in DOMAIN outbox : outbox[i].id \in Nat
    BY DEF IInv, TypeOK, WrapperTypeOK, Paired, Waits
  <1>8. Waits(m.id) /\ Asks(m, question[listeners[m.id]])
    BY <1>5 DEF IInv, Paired, Matched
  <1>9. question[listeners[m.id]] \in Question
    <2>1. listeners[m.id] \in Calls /\ state[listeners[m.id]] # "none"
      BY <1>8 DEF Waits, IInv, TypeOK, WrapperTypeOK
    <2>2. QED
      BY <2>1, QuestionsAreTyped DEF IInv, Begun, BegunAt, TypeOK, ClientTypeOK
  <1>10. r.ok => Answers(r.output, question[listeners[m.id]])
    BY <1>5, <1>8, <1>9, RenderAnswers DEF Request, IInv, TypeOK, WrapperTypeOK
  <1> HIDE DEF m, n, k, a
  <1>11. Begun'
    BY <1>2, <1>3 DEF IInv, Begun, BegunAt
  <1>12. Numbered'
    <2>1. Ordered(inbox)'
      <3>1. ASSUME NEW i \in 1..n - 1, NEW j \in 1..n - 1, i < j
            PROVE  inbox'[i].id < inbox'[j].id
        <4>1. i + 1 \in DOMAIN inbox /\ j + 1 \in DOMAIN inbox /\ i + 1 < j + 1
          BY <3>1, <1>5
        <4>2. inbox[i + 1].id < inbox[j + 1].id
          BY <4>1 DEF IInv, Numbered, Ordered
        <4>3. QED
          BY <4>2, <1>5
      <3>2. QED
        BY <3>1, <1>5 DEF Ordered
    <2>2. Ordered(outbox)'
      <3>1. ASSUME NEW i \in 1..k + 1, NEW j \in 1..k + 1, i < j
            PROVE  outbox'[i].id < outbox'[j].id
        <4>1. i \in DOMAIN outbox /\ outbox'[i] = outbox[i]
          BY <3>1, <1>6
        <4>2. CASE j = k + 1
          <5>1. outbox[i].id < inbox[1].id
            BY <4>1, <1>5 DEF IInv, Numbered
          <5>2. QED
            BY <5>1, <4>1, <4>2, <1>5, <1>6, <1>7
        <4>3. CASE j # k + 1
          <5>1. j \in DOMAIN outbox /\ outbox'[j] = outbox[j]
            BY <4>3, <1>6
          <5>2. outbox[i].id < outbox[j].id
            BY <5>1, <4>1, <3>1 DEF IInv, Numbered, Ordered
          <5>3. QED
            BY <5>1, <5>2, <4>1
        <4>4. QED
          BY <4>2, <4>3
      <3>2. QED
        BY <3>1, <1>6 DEF Ordered
    <2>3. ASSUME NEW i \in 1..k + 1, NEW j \in 1..n - 1
          PROVE  outbox'[i].id < inbox'[j].id
      <3>1. j + 1 \in DOMAIN inbox /\ inbox'[j] = inbox[j + 1] /\ 1 \in DOMAIN inbox /\ 1 < j + 1
        BY <1>5
      <3>2. CASE i = k + 1
        <4>1. inbox[1].id < inbox[j + 1].id
          BY <3>1 DEF IInv, Numbered, Ordered
        <4>2. QED
          BY <4>1, <3>1, <3>2, <1>5, <1>6, <1>7
      <3>3. CASE i # k + 1
        <4>1. i \in DOMAIN outbox /\ outbox'[i] = outbox[i]
          BY <3>3, <1>6
        <4>2. QED
          BY <4>1, <3>1 DEF IInv, Numbered
      <3>4. QED
        BY <3>2, <3>3
    <2>4. QED
      BY <2>1, <2>2, <2>3, <1>2, <1>5, <1>6 DEF IInv, Numbered
  <1>13. Paired'
    <2>1. (\A i \in DOMAIN inbox : Waits(inbox[i].id))'
      BY <1>2, <1>5 DEF IInv, Paired, Waits
    <2>2. (\A i \in DOMAIN outbox : Waits(outbox[i].id))'
      BY <1>2, <1>6, <1>7, <1>8 DEF IInv, Paired, Waits
    <2>3. ASSUME NEW d \in Calls, state[d] = "pending"
          PROVE  \/ \E i \in DOMAIN inbox' : listeners[inbox'[i].id] = d
                 \/ \E i \in DOMAIN outbox' : listeners[outbox'[i].id] = d
      <3>1. CASE \E i \in DOMAIN outbox : listeners[outbox[i].id] = d
        BY <3>1, <1>6
      <3>2. CASE \E i \in DOMAIN inbox : listeners[inbox[i].id] = d
        <4>1. PICK i \in 1..n : listeners[inbox[i].id] = d
          BY <3>2, <1>5
        <4>2. CASE i = 1
          BY SMTT(30), <4>1, <4>2, <1>5, <1>6, <1>7
        <4>3. CASE i # 1
          <5>1. i - 1 \in 1..n - 1 /\ inbox'[i - 1] = inbox[i]
            BY <4>3, <1>5
          <5>2. QED
            BY <4>1, <5>1, <1>5
        <4>4. QED
          BY <4>2, <4>3
      <3>3. QED
        BY <2>3, <3>1, <3>2 DEF IInv, Paired
    <2>4. QED
      BY <2>1, <2>2, <2>3, <1>2, <1>3 DEF IInv, Paired
  <1>14. Matched'
    <2>1. \A i \in DOMAIN inbox' : Asks(inbox'[i], question[listeners[inbox'[i].id]])
      BY SMTT(30), <1>5 DEF IInv, Matched
    <2>2. \A i \in DOMAIN outbox' : outbox'[i].ok =>
              Answers(outbox'[i].output, question[listeners[outbox'[i].id]])
      BY <1>6, <1>7, <1>10 DEF IInv, Matched
    <2>3. QED
      BY <2>1, <2>2, <1>2, <1>3 DEF IInv, Matched
  <1>15. QED
    BY <1>4, <1>11, <1>12, <1>13, <1>14 DEF IInv

LEMMA InvOnMessage ==
    ASSUME IInv, OnMessage, UNCHANGED clientVars
    PROVE  IInv'
  <1> DEFINE m == Head(outbox)
             k == Len(outbox)
             old == DOMAIN listeners
  <1> DEFINE c == listeners[m.id]
  <1>1. /\ outbox # <<>> /\ outbox' = Tail(outbox)
        /\ SettleWith(c, m.ok, m.output) /\ listeners' = Without(listeners, m.id)
        /\ UNCHANGED <<wrapper, nextId, inbox, instance, workerUp>>
    BY DEF OnMessage
  <1>2. UNCHANGED <<vizLoaded, renderInstalled, fabricLoaded, arrays, question, stage, image>>
    BY DEF clientVars
  <1>3. TypeOK'
    BY <1>2, TypeMessages DEF IInv, TypeOK, ClientTypeOK
  <1>4. /\ k \in Nat \ {0} /\ DOMAIN outbox = 1..k /\ DOMAIN outbox' = 1..k - 1
        /\ \A i \in 1..k - 1 : outbox'[i] = outbox[i + 1]
        /\ m = outbox[1] /\ m \in Answer
    BY <1>1 DEF IInv, TypeOK, WrapperTypeOK
  <1>5. m.id \in old /\ c \in Calls /\ state[c] = "pending"
    BY <1>4 DEF IInv, Paired, Waits, TypeOK, WrapperTypeOK
  <1>6. /\ state'[c] = IF m.ok THEN "fulfilled" ELSE "rejected"
        /\ m.ok => output'[c] = m.output
        /\ \A d \in Calls \ {c} : state'[d] = state[d] /\ output'[d] = output[d]
    BY <1>1, <1>5 DEF SettleWith, IInv, TypeOK, WrapperTypeOK
  <1>7. /\ DOMAIN listeners' = old \ {m.id}
        /\ \A id \in old \ {m.id} : listeners'[id] = listeners[id]
    BY <1>1 DEF Without
  <1>8. \A id \in old \ {m.id} : listeners[id] \in Calls \ {c}
    BY <1>5 DEF IInv, Numbered, TypeOK, WrapperTypeOK
  <1>9. m.ok => Answers(m.output, question[c])
    BY <1>4 DEF IInv, Matched
  <1>a. /\ \A i \in DOMAIN inbox : inbox[i].id \in old
        /\ \A i \in DOMAIN outbox : outbox[i].id \in old
        /\ old \subseteq Nat
    BY DEF IInv, Paired, Waits, TypeOK, WrapperTypeOK
  <1> HIDE DEF m, k, old, c
  <1>b. \A i \in DOMAIN inbox : inbox[i].id \in old \ {m.id}
    <2> TAKE i \in DOMAIN inbox
    <2>1. outbox[1].id < inbox[i].id
      BY <1>4 DEF IInv, Numbered
    <2>2. m.id = outbox[1].id /\ m.id \in Nat /\ inbox[i].id \in old /\ inbox[i].id \in Nat
      BY <1>4, <1>5, <1>a
    <2>3. QED
      BY <2>1, <2>2
  <1>c. \A i \in 1..k - 1 : outbox[i + 1].id \in old \ {m.id}
    <2> TAKE i \in 1..k - 1
    <2>1. 1 \in DOMAIN outbox /\ i + 1 \in DOMAIN outbox /\ 1 < i + 1
      BY <1>4
    <2>2. outbox[1].id < outbox[i + 1].id
      BY <2>1 DEF IInv, Numbered, Ordered
    <2>3. m.id = outbox[1].id /\ m.id \in Nat /\ outbox[i + 1].id \in old /\ outbox[i + 1].id \in Nat
      BY <2>1, <1>4, <1>5, <1>a
    <2>4. QED
      BY <2>2, <2>3
  <1>d. \A id \in old \ {m.id} :
            /\ id \in DOMAIN listeners'
            /\ listeners'[id] = listeners[id] /\ state'[listeners[id]] = state[listeners[id]]
    BY <1>6, <1>7, <1>8
  <1>10. Begun'
    <2> SUFFICES ASSUME NEW d \in Calls PROVE BegunAt(d)'
      BY DEF Begun
    <2>1. CASE d = c
      BY <2>1, <1>2, <1>5, <1>6 DEF BegunAt, IInv, Begun
    <2>2. CASE d # c
      BY <2>2, <1>2, <1>6 DEF BegunAt, IInv, Begun
    <2>3. QED
      BY <2>1, <2>2
  <1>11. Numbered'
    <2>1. Ordered(outbox)'
      <3>1. ASSUME NEW i \in 1..k - 1, NEW j \in 1..k - 1, i < j
            PROVE  outbox'[i].id < outbox'[j].id
        <4>1. i + 1 \in DOMAIN outbox /\ j + 1 \in DOMAIN outbox /\ i + 1 < j + 1
          BY <3>1, <1>4
        <4>2. outbox[i + 1].id < outbox[j + 1].id
          BY <4>1 DEF IInv, Numbered, Ordered
        <4>3. QED
          BY <4>2, <1>4
      <3>2. QED
        BY <3>1, <1>4 DEF Ordered
    <2>2. \A i \in 1..k - 1, j \in DOMAIN inbox : outbox'[i].id < inbox[j].id
      <3> TAKE i \in 1..k - 1, j \in DOMAIN inbox
      <3>1. i + 1 \in DOMAIN outbox /\ outbox'[i] = outbox[i + 1]
        BY <1>4
      <3>2. QED
        BY <3>1 DEF IInv, Numbered
    <2>3. \A id \in DOMAIN listeners' : id < nextId'
      BY <1>1, <1>7 DEF IInv, Numbered, old
    <2>4. \A a, b \in DOMAIN listeners' : listeners'[a] = listeners'[b] => a = b
      BY <1>7 DEF IInv, Numbered, old
    <2>5. QED
      BY <2>1, <2>2, <2>3, <2>4, <1>1, <1>4 DEF IInv, Numbered
  <1>12. Paired'
    <2>1. (\A i \in DOMAIN inbox : Waits(inbox[i].id))'
      BY <1>1, <1>b, <1>d DEF IInv, Paired, Waits
    <2>2. (\A i \in DOMAIN outbox : Waits(outbox[i].id))'
      <3> SUFFICES ASSUME NEW i \in 1..k - 1
                   PROVE  /\ outbox'[i].id \in DOMAIN listeners'
                          /\ state'[listeners'[outbox'[i].id]] = "pending"
        BY <1>4 DEF Waits
      <3>1. i + 1 \in DOMAIN outbox /\ outbox'[i] = outbox[i + 1]
        BY <1>4
      <3>2. state[listeners[outbox[i + 1].id]] = "pending"
        BY <3>1 DEF IInv, Paired, Waits
      <3>3. QED
        BY <3>1, <3>2, <1>c, <1>d
    <2>3. ASSUME NEW d \in Calls, state'[d] = "pending"
          PROVE  \/ \E i \in DOMAIN inbox : listeners'[inbox[i].id] = d
                 \/ \E i \in DOMAIN outbox' : listeners'[outbox'[i].id] = d
      <3>1. d # c /\ state[d] = "pending"
        BY <2>3, <1>6
      <3>2. CASE \E i \in DOMAIN inbox : listeners[inbox[i].id] = d
        BY <3>2, <1>b, <1>d
      <3>3. CASE \E i \in DOMAIN outbox : listeners[outbox[i].id] = d
        <4>1. PICK i \in 1..k : listeners[outbox[i].id] = d
          BY <3>3, <1>4
        <4>2. i # 1
          BY <4>1, <3>1, <1>4 DEF c
        <4>3. i - 1 \in 1..k - 1 /\ outbox'[i - 1] = outbox[i] /\ (i - 1) + 1 = i
          BY <4>2, <1>4
        <4>4. listeners'[outbox'[i - 1].id] = d
          BY <4>1, <4>3, <1>c, <1>d
        <4>5. QED
          BY <4>3, <4>4, <1>4
      <3>4. QED
        BY <3>1, <3>2, <3>3 DEF IInv, Paired
    <2>4. \A id \in DOMAIN listeners' : state'[listeners'[id]] # "pending" =>
              state'[listeners'[id]] = "rejected" /\ ~question'[listeners'[id]].cloneable
      BY <1>2, <1>7, <1>d DEF IInv, Paired, old
    <2>5. QED
      BY <2>1, <2>2, <2>3, <2>4, <1>1 DEF Paired
  <1>13. Matched'
    <2>1. \A i \in DOMAIN inbox : Asks(inbox[i], question[listeners'[inbox[i].id]])
      BY <1>b, <1>d DEF IInv, Matched
    <2>2. ASSUME NEW i \in 1..k - 1, outbox'[i].ok
          PROVE  Answers(outbox'[i].output, question[listeners'[outbox'[i].id]])
      <3>1. i + 1 \in DOMAIN outbox /\ outbox'[i] = outbox[i + 1]
        BY <1>4
      <3>2. QED
        BY <2>2, <3>1, <1>c, <1>d DEF IInv, Matched
    <2>3. \A d \in Calls : state'[d] = "fulfilled" => Answers(output'[d], question[d])
      BY <1>6, <1>9 DEF IInv, Matched
    <2>4. QED
      BY <2>1, <2>2, <2>3, <1>1, <1>2, <1>4 DEF Matched
  <1>14. QED
    BY <1>3, <1>10, <1>11, <1>12, <1>13 DEF IInv

\* The steps before the first call, and a worker that is gone.
LEMMA InvScripts ==
    ASSUME IInv, LoadViz \/ LoadFullRender \/ LoadFabric \/ NewViz
                 \/ (WorkerDies /\ UNCHANGED clientVars)
    PROVE  IInv'
  <1>1. UNCHANGED <<nextId, listeners, inbox, outbox, instance, state, output,
                    arrays, question, stage, image>>
    BY DEF LoadViz, LoadFullRender, LoadFabric, NewViz, Construct, WorkerDies, wrapperVars, clientVars
  <1>2. /\ wrapper' \in {"none", "worker", "module"} /\ workerUp' \in BOOLEAN
        /\ vizLoaded' \in BOOLEAN /\ renderInstalled' \in BOOLEAN /\ fabricLoaded' \in BOOLEAN
    <2> USE DEF IInv, TypeOK, WrapperTypeOK, ClientTypeOK
    <2>1. CASE LoadViz \/ LoadFullRender \/ LoadFabric
      BY <2>1 DEF LoadViz, LoadFullRender, LoadFabric, wrapperVars
    <2>2. CASE NewViz
      BY <2>2 DEF NewViz, Construct, WrapperFor, clientVars
    <2>3. CASE WorkerDies /\ UNCHANGED clientVars
      BY <2>3 DEF WorkerDies, clientVars
    <2>4. QED
      BY <2>1, <2>2, <2>3
  <1>3. TypeOK'
    BY <1>1, <1>2 DEF IInv, TypeOK, WrapperTypeOK, ClientTypeOK
  <1>4. Begun' /\ Numbered' /\ Paired' /\ Matched'
    BY <1>1 DEF IInv, Begun, BegunAt, Numbered, Ordered, Paired, Waits, Matched
  <1>5. QED
    BY <1>3, <1>4 DEF IInv

\* What the callbacks around renderString do to a call.
Moves(c) ==
    \E from \in Stages \ {"idle", "resolved", "rejected", "lost"}, to \in Stages \ {"idle", "waiting"} :
        /\ Advance(c, from, to)
        /\ to = "rejected" => state[c] # "pending"
        /\ to # "rejected" => state[c] = "fulfilled"
        /\ question[c].kind # "string"

LEMMA ClientStep ==
    ASSUME IInv, NEW c \in Calls, Then(c) \/ Browser(c)
    PROVE  /\ Moves(c) /\ question[c] # Nothing
           /\ image' \in [Calls -> Drawn \cup {Nothing}]
  <1> USE DEF IInv, TypeOK, ClientTypeOK
  <1>0. BegunAt(c) /\ image \in [Calls -> Drawn \cup {Nothing}] /\ stage[c] \in Stages
    BY DEF Begun
  <1>1. CASE ThenRejected(c)
    BY <1>1, <1>0 DEF ThenRejected, Moves, Stages
  <1>2. CASE ThenSVGElement(c) \/ ThenJSONObject(c) \/ ThenImageElement(c)
    <2>1. question[c] # Nothing /\ question[c].kind # "string" /\ state[c] = "fulfilled" /\ UNCHANGED image
      BY <1>2 DEF ThenSVGElement, ThenJSONObject, ThenImageElement, Fulfilled
    <2>2. \E to \in {"resolved", "rejected", "fabric", "loading"} : Advance(c, "waiting", to)
      BY <1>2 DEF ThenSVGElement, ThenJSONObject, ThenImageElement
    <2>3. QED
      BY <2>1, <2>2, <1>0 DEF Moves, Stages
  <1>3. CASE Browser(c)
    <2>1. PICK from \in {"loading", "encoding", "fabric"}, to \in {"encoding", "rejected", "resolved", "lost"} :
             Advance(c, from, to)
      BY <1>3 DEF Browser, ImageLoads, ImageFails, BlobArrives, BlobIsNull, FabricLoads, FabricIsEmpty
    <2>2. stage[c] = from
      BY <2>1 DEF Advance
    <2>3. state[c] = "fulfilled" /\ question[c] # Nothing /\ question[c].kind # "string"
      BY <2>2, <1>0 DEF BegunAt
    <2>4. Moves(c)
      BY <2>1, <2>3 DEF Moves, Stages
    <2>5. question[c] \in Question
      BY <2>3, QuestionsAreTyped
    <2>6. ScaleOf(question[c]) \in Nat \ {0} /\ MimeTypeOf(question[c]) \in MimeTypes
          /\ FabricMimeType(question[c]) \in MimeTypes
      BY <2>5, VizAssumption DEF ScaleOf, DefaultScale, MimeTypeOf, FabricMimeType, Question, MimeTypes
    <2>7. image' = image \/ \E mt \in MimeTypes :
             image' = [image EXCEPT ![c] = [scale |-> ScaleOf(question[c]), mimeType |-> mt]]
      BY <1>3, <2>6 DEF Browser, ImageLoads, ImageFails, BlobArrives, BlobIsNull, FabricLoads, FabricIsEmpty
    <2>8. \A mt \in MimeTypes : [scale |-> ScaleOf(question[c]), mimeType |-> mt] \in Drawn
      BY <2>6 DEF Drawn
    <2>9. image' \in [Calls -> Drawn \cup {Nothing}]
      BY <1>0, <2>7, <2>8
    <2>10. QED
      BY <2>3, <2>4, <2>9
  <1>4. QED
    BY <1>1, <1>2, <1>3 DEF Then

LEMMA InvClient ==
    ASSUME IInv, NEW c \in Calls, Then(c) \/ Browser(c)
    PROVE  IInv'
  <1>1. /\ Moves(c) /\ question[c] # Nothing
        /\ image' \in [Calls -> Drawn \cup {Nothing}]
    BY ClientStep
  <1>2. PICK from \in Stages \ {"idle", "resolved", "rejected", "lost"}, to \in Stages \ {"idle", "waiting"} :
           /\ Advance(c, from, to)
           /\ to = "rejected" => state[c] # "pending"
           /\ to # "rejected" => state[c] = "fulfilled"
           /\ question[c].kind # "string"
    BY <1>1 DEF Moves
  <1>3. /\ stage' = [stage EXCEPT ![c] = to]
        /\ UNCHANGED <<wrapperVars, vizLoaded, renderInstalled, fabricLoaded, arrays, question>>
    BY <1>2 DEF Advance
  <1>4. UNCHANGED <<wrapper, nextId, listeners, inbox, outbox, instance, workerUp, state, output>>
    BY <1>3 DEF wrapperVars
  <1>5. TypeOK'
    BY <1>1, <1>3, <1>4 DEF IInv, TypeOK, WrapperTypeOK, ClientTypeOK
  <1>6. Begun'
    <2> SUFFICES ASSUME NEW d \in Calls PROVE BegunAt(d)'
      BY DEF Begun
    <2>0. stage \in [Calls -> Stages] /\ BegunAt(d)
      BY DEF IInv, TypeOK, ClientTypeOK, Begun
    <2>1. CASE d = c
      BY <2>0, <2>1, <1>1, <1>2, <1>3, <1>4 DEF BegunAt
    <2>2. CASE d # c
      BY <2>0, <2>2, <1>3, <1>4 DEF BegunAt
    <2>3. QED
      BY <2>1, <2>2
  <1>7. Numbered' /\ Paired' /\ Matched'
    BY <1>3, <1>4 DEF IInv, Numbered, Ordered, Paired, Waits, Matched
  <1>8. QED
    BY <1>5, <1>6, <1>7 DEF IInv

LEMMA InvStutter ==
    ASSUME IInv, UNCHANGED vars
    PROVE  IInv'
  BY DEF IInv, TypeOK, WrapperTypeOK, ClientTypeOK, Begun, BegunAt, Numbered, Ordered, Paired, Waits,
         Matched, vars, wrapperVars, clientVars

LEMMA InvNext == IInv /\ [Next]_vars => IInv'
  <1> SUFFICES ASSUME IInv, [Next]_vars PROVE IInv'
    OBVIOUS
  <1>1. CASE LoadViz \/ LoadFullRender \/ LoadFabric \/ NewViz
    BY <1>1, InvScripts
  <1>2. ASSUME NEW c \in Calls, NEW q \in Questions, Call(c, q)
        PROVE  IInv'
    <2>1. Render(c, q.src, OptionsFor(q, FormatOf(q)), q.cloneable)
      BY <1>2, CallBegins
    <2>2. QED
      BY <1>2, <2>1, InvWorkerCall, InvModuleCall DEF Render
  <1>3. CASE (WorkerOnMessage \/ OnMessage \/ WorkerDies) /\ UNCHANGED clientVars
    BY <1>3, InvWorkerOnMessage, InvOnMessage, InvScripts
  <1>4. ASSUME NEW c \in Calls, Then(c) \/ Browser(c)
        PROVE  IInv'
    BY <1>4, InvClient
  <1>5. CASE UNCHANGED vars
    BY <1>5, InvStutter
  <1>6. QED
    BY <1>1, <1>2, <1>3, <1>4, <1>5 DEF Next

LEMMA Inductive == Spec => []IInv
  <1>1. Init => IInv
    BY InvInit
  <1>2. IInv /\ [Next]_vars => IInv'
    BY InvNext
  <1>3. QED
    BY <1>1, <1>2, PTL DEF Spec

-----------------------------------------------------------------------------
(***************************************************************************)
(* What follows from it.                                                   *)
(***************************************************************************)
\* The variables of viz.js and of the worker hold what the code can put there.
THEOREM VizTypeCorrect == Spec => []TypeOK
  <1>1. IInv => TypeOK
    BY DEF IInv
  <1>2. QED
    BY <1>1, Inductive, PTL

LEMMA PairsUp == IInv => EveryWaiterHasItsMessage
  <1> SUFFICES ASSUME IInv PROVE EveryWaiterHasItsMessage
    OBVIOUS
  <1> DEFINE k == Len(outbox)
             n == Len(inbox)
  <1>1. /\ k \in Nat /\ n \in Nat /\ DOMAIN outbox = 1..k /\ DOMAIN inbox = 1..n
        /\ DOMAIN InFlight = 1..k + n
        /\ \A i \in 1..k : InFlight[i] = outbox[i]
        /\ \A i \in k + 1..k + n : InFlight[i] = inbox[i - k]
    BY DEF InFlight, IInv, TypeOK, WrapperTypeOK
  <1> HIDE DEF k, n
  <1>2. /\ \A i \in 1..n : inbox[i].id \in Nat /\ Waits(inbox[i].id)
        /\ \A i \in 1..k : outbox[i].id \in Nat /\ Waits(outbox[i].id)
    BY <1>1 DEF IInv, Paired, Waits, TypeOK, WrapperTypeOK
  <1>3. ASSUME NEW i \in DOMAIN InFlight
        PROVE  InFlight[i].id \in Nat /\ Waits(InFlight[i].id)
    <2>1. CASE i \in 1..k
      BY <2>1, <1>1, <1>2
    <2>2. CASE i \in k + 1..k + n
      <3>1. i - k \in 1..n
        BY <2>2, <1>1
      <3>2. QED
        BY <2>2, <3>1, <1>1, <1>2
    <2>3. QED
      BY <1>3, <1>1, <2>1, <2>2
  <1>4. ASSUME NEW i \in DOMAIN InFlight, NEW j \in DOMAIN InFlight, i < j
        PROVE  InFlight[i].id < InFlight[j].id
    <2>1. CASE j \in 1..k
      <3>1. i \in 1..k
        BY <2>1, <1>1, <1>4
      <3>2. QED
        BY <2>1, <3>1, <1>1, <1>4 DEF IInv, Numbered, Ordered
    <2>2. CASE i \in k + 1..k + n
      <3>1. /\ i - k \in 1..n /\ j - k \in 1..n /\ i - k < j - k
            /\ j \in k + 1..k + n
        BY <2>2, <1>1, <1>4
      <3>2. inbox[i - k].id < inbox[j - k].id
        BY <3>1, <1>1 DEF IInv, Numbered, Ordered
      <3>3. QED
        BY <2>2, <3>1, <3>2, <1>1
    <2>3. CASE i \in 1..k /\ j \in k + 1..k + n
      <3>1. j - k \in 1..n
        BY <2>3, <1>1
      <3>2. outbox[i].id < inbox[j - k].id
        BY <2>3, <3>1, <1>1 DEF IInv, Numbered
      <3>3. QED
        BY <2>3, <3>2, <1>1
    <2>4. QED
      BY <2>1, <2>2, <2>3, <1>1
  <1>5. \A i, j \in DOMAIN InFlight : InFlight[i].id = InFlight[j].id => i = j
    <2> SUFFICES ASSUME NEW i \in DOMAIN InFlight, NEW j \in DOMAIN InFlight, i # j
                 PROVE  InFlight[i].id # InFlight[j].id
      OBVIOUS
    <2>1. InFlight[i].id \in Nat /\ InFlight[j].id \in Nat
      BY <1>3
    <2>2. i < j \/ j < i
      BY <1>1
    <2>3. InFlight[i].id < InFlight[j].id \/ InFlight[j].id < InFlight[i].id
      BY <2>2, <1>4
    <2>4. QED
      BY <2>1, <2>3
  <1>6. ASSUME NEW c \in Calls, state[c] = "pending"
        PROVE  \E i \in DOMAIN InFlight : listeners[InFlight[i].id] = c
    <2>1. CASE \E i \in DOMAIN outbox : listeners[outbox[i].id] = c
      BY <2>1, <1>1
    <2>2. CASE \E i \in DOMAIN inbox : listeners[inbox[i].id] = c
      <3>1. PICK i \in 1..n : listeners[inbox[i].id] = c
        BY <2>2, <1>1
      <3>2. k + i \in DOMAIN InFlight /\ InFlight[k + i] = inbox[i]
        BY <3>1, <1>1
      <3>3. QED
        BY <3>1, <3>2
    <2>3. QED
      BY <1>6, <2>1, <2>2 DEF IInv, Paired
  <1>7. QED
    BY <1>3, <1>5, <1>6 DEF EveryWaiterHasItsMessage, Waits

\* Every message finds the listener of a call that waits for it, and every call that
\* waits has its message: the lookup in the message handler never misses.
THEOREM MessagesPairUp == Spec => []EveryWaiterHasItsMessage
  BY PairsUp, Inductive, PTL

\* Only requests that postMessage refused leave a listener behind.
THEOREM ListenersAreCleared == Spec => []OnlyRefusedListenersStay
  <1>1. IInv => OnlyRefusedListenersStay
    BY DEF IInv, Paired, OnlyRefusedListenersStay
  <1>2. QED
    BY <1>1, Inductive, PTL

\* A text is drawn from its own call's source and settings.
THEOREM SettingsAreOwn == Spec => []OwnSettings
  <1>1. IInv => OwnSettings
    BY SMTT(30) DEF IInv, Matched, Answers, OwnSettings, Rendered
  <1>2. QED
    BY <1>1, Inductive, PTL

\* The images a call names are those it is drawn with.
THEOREM ImagesAreOwn == Spec => []OwnImages
  <1>1. IInv => OwnImages
    BY DEF IInv, Matched, Answers, SetsImages, OwnImages, Rendered
  <1>2. QED
    BY <1>1, Inductive, PTL

-----------------------------------------------------------------------------
(***************************************************************************)
(* A Viz object is a RenderService, as far as safety goes.                 *)
(***************************************************************************)
Asked == [c \in Calls |-> IF question[c] = Nothing THEN Nothing ELSE Essence(question[c])]
Outcomes == [c \in Calls |-> Outcome(c)]
ResultOf(c) == IF Outcome(c) = "resolved" THEN EssenceOf(output[c]) ELSE Nothing
Results == [c \in Calls |-> ResultOf(c)]
Seen == <<Asked, Outcomes, Results>>

\* A call nothing happened to looks the same.
Untouched(c) ==
    /\ question'[c] = question[c] /\ stage'[c] = stage[c] /\ state'[c] = state[c]
    /\ output'[c] = output[c]
    /\ state[c] = "pending" => (Unanswerable(c)' <=> Unanswerable(c))

LEMMA UntouchedLooksTheSame ==
    ASSUME NEW c, Untouched(c)
    PROVE  Outcome(c)' = Outcome(c) /\ ResultOf(c)' = ResultOf(c)
  <1>1. Unanswerable(c)' <=> Unanswerable(c)
    BY DEF Untouched, Unanswerable
  <1>2. Outcome(c)' = Outcome(c)
    BY <1>1 DEF Untouched, Outcome
  <1>3. QED
    BY <1>2 DEF Untouched, ResultOf

\* So a step that touches c alone and settles it with its own answer is a Settle.
LEMMA SettlesOne ==
    ASSUME NEW c \in Calls, Outcome(c) = "open", UNCHANGED question,
           \A d \in Calls \ {c} : Untouched(d),
           question[c] # Nothing,
           Outcome(c)' \in {"resolved", "rejected"},
           Outcome(c)' = "resolved" => EssenceOf(output[c])' = Essence(question[c])
    PROVE  Service!Settle(c)
  <1>1. \A d \in Calls \ {c} : Outcome(d)' = Outcome(d) /\ ResultOf(d)' = ResultOf(d)
    BY UntouchedLooksTheSame
  <1>2. Asked' = Asked
    BY DEF Asked
  <1>3. Outcomes' = [Outcomes EXCEPT ![c] = Outcome(c)']
    BY <1>1 DEF Outcomes
  <1>4. Results' = IF Outcome(c)' = "resolved" THEN [Results EXCEPT ![c] = Asked[c]] ELSE Results
    <2>1. ResultOf(c) = Nothing /\ Asked[c] = Essence(question[c])
      BY DEF ResultOf, Asked
    <2>2. ResultOf(c)' = IF Outcome(c)' = "resolved" THEN Asked[c] ELSE ResultOf(c)
      BY <2>1 DEF ResultOf
    <2>3. QED
      BY <1>1, <2>1, <2>2 DEF Results
  <1>5. Outcomes[c] = "open"
    BY DEF Outcomes
  <1>6. QED
    BY <1>2, <1>3, <1>4, <1>5 DEF Service!Settle, Asked, Outcomes, Results, ResultOf

LEMMA LooksTheSame ==
    ASSUME UNCHANGED question, \A d \in Calls : Outcome(d)' = Outcome(d) /\ ResultOf(d)' = ResultOf(d)
    PROVE  UNCHANGED Seen
  BY DEF Seen, Asked, Outcomes, Results

\* A call is an Ask; it may be over before the caller knows.
LEMMA CallAsks ==
    ASSUME IInv, NEW c \in Calls, NEW q \in Questions, Call(c, q), IInv'
    PROVE  Service!Ask(c, Essence(q))
  <1>1. /\ state[c] = "none" /\ stage[c] = "idle"
        /\ \A id \in DOMAIN listeners : listeners[id] \in Calls \ {c}
        /\ question'[c] = q /\ q # Nothing
        /\ \A d \in Calls \ {c} : question'[d] = question[d] /\ stage'[d] = stage[d]
        /\ stage'[c] = "waiting"
    BY NewCall
  <1>2. /\ question[c] = Nothing /\ question' = [question EXCEPT ![c] = q]
        /\ Render(c, q.src, OptionsFor(q, FormatOf(q)), q.cloneable)
    BY CallBegins
  <1>3. ASSUME NEW d \in Calls \ {c}
        PROVE  Untouched(d)
    <2>1. CASE WorkerRender(c, q.src, OptionsFor(q, FormatOf(q)), q.cloneable)
      <3> DEFINE m == [id |-> nextId, src |-> q.src, options |-> OptionsFor(q, FormatOf(q))]
      <3>1. /\ listeners' = With(listeners, nextId, c) /\ workerUp' = workerUp /\ output' = output
            /\ state'[d] = state[d]
            /\ inbox' = IF q.cloneable THEN Append(inbox, m) ELSE inbox
        BY <2>1 DEF WorkerRender, IInv, TypeOK, WrapperTypeOK
      <3>2. /\ DOMAIN inbox \subseteq DOMAIN inbox'
            /\ \A i \in DOMAIN inbox' : \/ i \in DOMAIN inbox /\ inbox'[i] = inbox[i]
                                       \/ inbox'[i] = m
            /\ \A i \in DOMAIN inbox : inbox'[i] = inbox[i]
        BY SMTT(30), <3>1 DEF IInv, TypeOK, WrapperTypeOK
      <3>3. /\ m.id = nextId /\ listeners'[nextId] = c
            /\ \A i \in DOMAIN inbox : listeners'[inbox[i].id] = listeners[inbox[i].id]
        BY <3>1 DEF With, IInv, Paired, Waits, Numbered, TypeOK, WrapperTypeOK
      <3> HIDE DEF m
      <3>4. (\E i \in DOMAIN inbox' : listeners'[inbox'[i].id] = d)
               <=> (\E i \in DOMAIN inbox : listeners[inbox[i].id] = d)
        <4>1. ASSUME NEW i \in DOMAIN inbox', listeners'[inbox'[i].id] = d
              PROVE  i \in DOMAIN inbox /\ listeners[inbox[i].id] = d
          BY <4>1, <3>2, <3>3
        <4>2. ASSUME NEW i \in DOMAIN inbox, listeners[inbox[i].id] = d
              PROVE  i \in DOMAIN inbox' /\ listeners'[inbox'[i].id] = d
          BY <4>2, <3>2, <3>3
        <4>3. QED
          BY <4>1, <4>2
      <3>5. QED
        BY <3>1, <3>4, <1>1 DEF Untouched, Unanswerable
    <2>2. CASE ModuleRender(c, q.src, OptionsFor(q, FormatOf(q)))
      <3>1. /\ UNCHANGED <<listeners, inbox, workerUp>>
            /\ state'[d] = state[d] /\ output'[d] = output[d]
        BY <2>2 DEF ModuleRender, IInv, TypeOK, WrapperTypeOK
      <3>2. QED
        BY <3>1, <1>1 DEF Untouched, Unanswerable
    <2>3. QED
      BY <2>1, <2>2, <1>2 DEF Render
  <1>4. \A d \in Calls \ {c} : Outcome(d)' = Outcome(d) /\ ResultOf(d)' = ResultOf(d)
    BY <1>3, UntouchedLooksTheSame
  <1>5. Outcome(c)' \in {"open", "resolved", "rejected", "abandoned"}
    BY <1>1 DEF Outcome
  <1>6. Outcome(c)' = "resolved" => EssenceOf(output[c])' = Essence(q)
    <2>1. Outcome(c)' = "resolved" => state'[c] = "fulfilled"
      BY <1>1 DEF Outcome, IInv, TypeOK, WrapperTypeOK, Begun, BegunAt, PromiseStates
    <2>2. state'[c] = "fulfilled" => Answers(output'[c], question'[c])
      BY DEF IInv, Matched
    <2>3. QED
      BY <2>1, <2>2, <1>1 DEF Answers, EssenceOf, Essence
  <1>7. Outcome(c) = "idle" /\ ResultOf(c) = Nothing
    BY <1>2 DEF Outcome, ResultOf
  <1>8. ResultOf(c)' = IF Outcome(c)' = "resolved" THEN Essence(q) ELSE Nothing
    BY <1>6 DEF ResultOf
  <1>9. Asked' = [Asked EXCEPT ![c] = Essence(q)]
    BY <1>1, <1>2 DEF Asked
  <1>10. Outcomes' = [Outcomes EXCEPT ![c] = Outcome(c)'] /\ Outcomes[c] = "idle"
    BY <1>4, <1>7 DEF Outcomes
  <1>11. Results' = IF Outcome(c)' = "resolved" THEN [Results EXCEPT ![c] = Essence(q)] ELSE Results
    BY <1>4, <1>7, <1>8 DEF Results
  <1>12. QED
    BY <1>5, <1>9, <1>10, <1>11 DEF Service!Ask, Service!Ends, Asked, Outcomes, Results, ResultOf

\* An answer that reaches the page settles a renderString, and leaves the others open.
LEMMA MessageSettles ==
    ASSUME IInv, IInv', (WorkerOnMessage \/ OnMessage) /\ UNCHANGED clientVars
    PROVE  UNCHANGED Seen \/ \E c \in Calls : Service!Settle(c)
  <1>0. UNCHANGED <<question, stage>>
    BY DEF clientVars
  <1>1. CASE WorkerOnMessage
    <2>1. workerUp /\ workerUp' = workerUp /\ UNCHANGED <<state, output>>
      BY <1>1 DEF WorkerOnMessage
    <2>2. \A d \in Calls : Untouched(d)
      BY <1>0, <2>1 DEF Untouched, Unanswerable
    <2>3. QED
      BY <1>0, <2>2, UntouchedLooksTheSame, LooksTheSame
  <1>2. CASE OnMessage
    <2>0. outbox # <<>>
      BY <1>2 DEF OnMessage
    <2>a. PICK m \in Answer : m = Head(outbox)
      BY <2>0 DEF IInv, TypeOK, WrapperTypeOK
    <2>2. m = outbox[1] /\ 1 \in DOMAIN outbox
      BY <2>0, <2>a DEF IInv, TypeOK, WrapperTypeOK
    <2>b. /\ m.id \in DOMAIN listeners /\ m.id \in Nat
          /\ listeners[m.id] \in Calls /\ state[listeners[m.id]] = "pending"
      BY <2>2 DEF IInv, Paired, Waits, TypeOK, WrapperTypeOK
    <2>3. PICK c \in Calls : c = listeners[m.id] /\ state[c] = "pending"
      BY <2>b
    <2>1. /\ outbox' = Tail(outbox)
          /\ SettleWith(c, m.ok, m.output) /\ listeners' = Without(listeners, m.id)
          /\ UNCHANGED <<inbox, workerUp>>
      BY <1>2, <2>a, <2>3 DEF OnMessage
    <2>4. /\ state'[c] \in {"fulfilled", "rejected"}
          /\ \A d \in Calls \ {c} : state'[d] = state[d] /\ output'[d] = output[d]
      BY <2>1, <2>3 DEF SettleWith, IInv, TypeOK, WrapperTypeOK
    <2>5. \A i \in DOMAIN inbox :
             /\ inbox[i].id \in DOMAIN listeners \ {m.id}
             /\ listeners[inbox[i].id] # c
      <3> TAKE i \in DOMAIN inbox
      <3>1. outbox[1].id < inbox[i].id /\ inbox[i].id \in DOMAIN listeners /\ inbox[i].id \in Nat
        BY <2>2 DEF IInv, Numbered, Paired, Waits, TypeOK, WrapperTypeOK
      <3>2. inbox[i].id # m.id
        BY <2>2, <2>b, <3>1
      <3>3. QED
        BY <2>3, <2>b, <3>1, <3>2 DEF IInv, Numbered
    <2>6. \A i \in DOMAIN inbox : listeners'[inbox[i].id] = listeners[inbox[i].id]
      BY <2>1, <2>5 DEF Without
    <2>7. \A d \in Calls \ {c} : Untouched(d)
      BY <1>0, <2>1, <2>4, <2>6 DEF Untouched, Unanswerable
    <2>8. question[c] # Nothing /\ stage[c] = "waiting" /\ ~Unanswerable(c)
      <3>1. question[c] # Nothing /\ stage[c] = "waiting"
        BY <2>3 DEF IInv, Begun, BegunAt, TypeOK, ClientTypeOK, Stages
      <3>2. ~Unanswerable(c)
        BY <2>5 DEF Unanswerable
      <3>3. QED
        BY <3>1, <3>2
    <2>9. Outcome(c) = "open"
      BY <2>3, <2>8 DEF Outcome
    <2>10. CASE question[c].kind = "string"
      <3>1. Outcome(c)' = IF state'[c] = "fulfilled" THEN "resolved" ELSE "rejected"
        BY <1>0, <2>4, <2>8, <2>10 DEF Outcome, Unanswerable
      <3>2. state'[c] = "fulfilled" => Answers(output'[c], question[c])
        BY <1>0, <2>3 DEF IInv, Matched
      <3>3. Outcome(c)' = "resolved" => EssenceOf(output[c])' = Essence(question[c])
        BY <3>1, <3>2 DEF Answers, EssenceOf, Essence
      <3>4. QED
        BY <1>0, <2>3, <2>7, <2>8, <2>9, <3>1, <3>3, SettlesOne
    <2>11. CASE question[c].kind # "string"
      <3>1. Outcome(c)' = "open"
        BY <1>0, <2>4, <2>8, <2>11 DEF Outcome, Unanswerable
      <3>2. ResultOf(c)' = ResultOf(c)
        BY <2>9, <3>1 DEF ResultOf
      <3>3. \A d \in Calls : Outcome(d)' = Outcome(d) /\ ResultOf(d)' = ResultOf(d)
        BY <2>7, <2>9, <3>1, <3>2, UntouchedLooksTheSame
      <3>4. QED
        BY <1>0, <3>3, LooksTheSame
    <2>12. QED
      BY <2>10, <2>11
  <1>3. QED
    BY <1>1, <1>2

\* The callbacks settle the call, lose it, or leave it open.
LEMMA CallbackSettles ==
    ASSUME IInv, NEW c \in Calls, Then(c) \/ Browser(c)
    PROVE  UNCHANGED Seen \/ Service!Settle(c) \/ Service!Abandon({c})
  <1>1. Moves(c) /\ question[c] # Nothing
    BY ClientStep
  <1>2. PICK from \in Stages \ {"idle", "resolved", "rejected", "lost"}, to \in Stages \ {"idle", "waiting"} :
           /\ Advance(c, from, to)
           /\ to = "rejected" => state[c] # "pending"
           /\ to # "rejected" => state[c] = "fulfilled"
           /\ question[c].kind # "string"
    BY <1>1 DEF Moves
  <1>3. /\ stage[c] = from /\ stage'[c] = to
        /\ \A d \in Calls \ {c} : stage'[d] = stage[d]
        /\ UNCHANGED <<question, state, output, listeners, inbox, workerUp>>
    BY <1>2 DEF Advance, wrapperVars, IInv, TypeOK, ClientTypeOK
  <1>4. \A d \in Calls \ {c} : Untouched(d)
    BY <1>3 DEF Untouched, Unanswerable
  <1>5. state[c] # "pending" /\ ~Unanswerable(c) /\ ~Unanswerable(c)'
    BY <1>2, <1>3 DEF Unanswerable
  <1>6. Outcome(c) = "open"
    BY <1>1, <1>2, <1>3, <1>5 DEF Outcome
  <1>7. Outcome(c)' = IF to \in {"resolved", "rejected"} THEN to ELSE IF to = "lost" THEN "abandoned" ELSE "open"
    BY <1>1, <1>2, <1>3, <1>5 DEF Outcome
  <1>8. CASE to \in {"resolved", "rejected"}
    <2>1. to = "resolved" => Answers(output[c], question[c])
      BY <1>2 DEF IInv, Matched
    <2>2. Outcome(c)' = "resolved" => EssenceOf(output[c])' = Essence(question[c])
      BY <1>3, <1>7, <1>8, <2>1 DEF Answers, EssenceOf, Essence
    <2>3. QED
      BY <1>1, <1>3, <1>4, <1>6, <1>7, <1>8, <2>2, SettlesOne
  <1>9. CASE to = "lost"
    <2>1. \A d \in Calls \ {c} : Outcome(d)' = Outcome(d) /\ ResultOf(d)' = ResultOf(d)
      BY <1>4, UntouchedLooksTheSame
    <2>2. Outcome(c)' = "abandoned"
      BY <1>7, <1>9
    <2>3. ResultOf(c)' = ResultOf(c)
      BY <1>6, <2>2 DEF ResultOf
    <2>4. Asked' = Asked /\ Results' = Results
      BY <1>3, <2>1, <2>3 DEF Asked, Results
    <2>5. Outcomes' = [d \in Calls |-> IF d \in {c} THEN "abandoned" ELSE Outcomes[d]]
      BY <2>1, <2>2 DEF Outcomes
    <2>6. Outcomes[c] = "open"
      BY <1>6 DEF Outcomes
    <2>7. Service!Abandon({c})
      BY <2>4, <2>5, <2>6 DEF Service!Abandon, Asked, Outcomes, Results, ResultOf
    <2>8. QED
      BY <2>7
  <1>10. CASE to \notin {"resolved", "rejected", "lost"}
    <2>1. Outcome(c)' = Outcome(c)
      BY <1>6, <1>7, <1>10
    <2>2. ResultOf(c)' = ResultOf(c)
      BY <1>6, <2>1 DEF ResultOf
    <2>3. \A d \in Calls : Outcome(d)' = Outcome(d) /\ ResultOf(d)' = ResultOf(d)
      BY <1>4, <2>1, <2>2, UntouchedLooksTheSame
    <2>4. QED
      BY <1>3, <2>3, LooksTheSame
  <1>11. QED
    BY <1>8, <1>9, <1>10

\* A worker that goes takes the calls in its queue with it.
LEMMA WorkerAbandons ==
    ASSUME IInv, WorkerDies, UNCHANGED clientVars
    PROVE  \E lost \in SUBSET Calls : Service!Abandon(lost)
  <1> DEFINE InQueue(d) == state[d] = "pending" /\ \E i \in DOMAIN inbox : listeners[inbox[i].id] = d
             lost == {d \in Calls : InQueue(d)}
  <1>1. /\ workerUp = TRUE /\ workerUp' = FALSE
        /\ UNCHANGED <<listeners, inbox, state, output, question, stage>>
    BY DEF WorkerDies, clientVars
  <1>2. \A d \in Calls : ~Unanswerable(d) /\ (Unanswerable(d)' <=> InQueue(d))
    BY <1>1 DEF Unanswerable
  <1>3. ASSUME NEW d \in lost
        PROVE  Outcome(d) = "open" /\ Outcome(d)' = "abandoned" /\ ResultOf(d)' = ResultOf(d)
    <2>1. question[d] # Nothing /\ stage[d] = "waiting" /\ state[d] = "pending"
      BY DEF IInv, Begun, BegunAt, TypeOK, ClientTypeOK, Stages
    <2>2. Outcome(d) = "open" /\ Outcome(d)' = "abandoned"
      BY <2>1, <1>1, <1>2 DEF Outcome
    <2>3. QED
      BY <2>2 DEF ResultOf
  <1>4. ASSUME NEW d \in Calls \ lost
        PROVE  Outcome(d)' = Outcome(d) /\ ResultOf(d)' = ResultOf(d)
    <2>1. Outcome(d)' = Outcome(d)
      BY <1>1, <1>2 DEF Outcome
    <2>2. QED
      BY <1>1, <2>1 DEF ResultOf
  <1> HIDE DEF lost
  <1>5. lost \subseteq Calls
    BY DEF lost
  <1>6. Asked' = Asked /\ Results' = Results
    <2>1. \A d \in Calls : ResultOf(d)' = ResultOf(d)
      BY <1>3, <1>4
    <2>2. QED
      BY <1>1, <2>1 DEF Asked, Results
  <1>7. Outcomes' = [d \in Calls |-> IF d \in lost THEN "abandoned" ELSE Outcomes[d]]
    BY <1>3, <1>4, <1>5 DEF Outcomes
  <1>8. \A d \in lost : Outcomes[d] = "open"
    BY <1>3, <1>5 DEF Outcomes
  <1>9. Service!Abandon(lost)
    BY <1>6, <1>7, <1>8 DEF Service!Abandon, Asked, Outcomes, Results, ResultOf
  <1>10. QED
    BY <1>5, <1>9

LEMMA ServiceInit == Init => Service!Init
  <1> SUFFICES ASSUME Init PROVE Service!Init
    OBVIOUS
  <1>1. \A c \in Calls : question[c] = Nothing
    BY DEF Init
  <1>2. \A c \in Calls : Outcome(c) = "idle"
    BY <1>1 DEF Outcome
  <1>3. QED
    BY <1>1, <1>2 DEF Service!Init

LEMMA ServiceNext == IInv /\ IInv' /\ [Next]_vars => [Service!Next]_(Service!vars)
  <1> SUFFICES ASSUME IInv, IInv', [Next]_vars PROVE Service!Next \/ UNCHANGED Seen
    BY DEF Service!vars, Seen, Asked, Outcomes, Results, ResultOf
  <1>1. CASE LoadViz \/ LoadFullRender \/ LoadFabric \/ NewViz \/ UNCHANGED vars
    <2>1. UNCHANGED <<question, stage, state, output, listeners, inbox, workerUp>>
      BY <1>1 DEF LoadViz, LoadFullRender, LoadFabric, NewViz, Construct, vars, wrapperVars, clientVars
    <2>2. \A d \in Calls : Untouched(d)
      BY <2>1 DEF Untouched, Unanswerable
    <2>3. QED
      BY <2>1, <2>2, UntouchedLooksTheSame, LooksTheSame
  <1>2. ASSUME NEW c \in Calls, NEW q \in Questions, Call(c, q)
        PROVE  Service!Next
    <2>1. Service!Ask(c, Essence(q))
      BY <1>2, CallAsks
    <2>2. QED
      BY <2>1 DEF Service!Next
  <1>3. CASE (WorkerOnMessage \/ OnMessage) /\ UNCHANGED clientVars
    BY <1>3, MessageSettles DEF Service!Next
  <1>4. CASE WorkerDies /\ UNCHANGED clientVars
    BY <1>4, WorkerAbandons DEF Service!Next
  <1>5. ASSUME NEW c \in Calls, Then(c) \/ Browser(c)
        PROVE  Service!Next \/ UNCHANGED Seen
    <2>1. {c} \in SUBSET Calls
      OBVIOUS
    <2>2. QED
      BY <1>5, <2>1, CallbackSettles DEF Service!Next
  <1>6. QED
    BY <1>1, <1>2, <1>3, <1>4, <1>5 DEF Next

\* Whatever the calls, their questions and their interleaving, a Viz object does what a
\* RenderService may do, but for when it must: calls settle at most once, and each
\* answer is to the question of its own call.
THEOREM ImplementsSafely == Spec => Service!Init /\ [][Service!Next]_(Service!vars)
  <1>1. Init => Service!Init
    BY ServiceInit
  <1>2. IInv /\ IInv' /\ [Next]_vars => [Service!Next]_(Service!vars)
    BY ServiceNext
  <1>3. QED
    BY <1>1, <1>2, Inductive, PTL DEF Spec

-----------------------------------------------------------------------------
(***************************************************************************)
(* What one Graphviz instance carries from call to call: where the files   *)
(* and the nop a render meets come from, and why it may refuse what        *)
(* Graphviz can draw.                                                      *)
(***************************************************************************)
\* The files some call brought, in its images or in the array it names: questions stay
\* and arrays only grow, so what was brought stays brought.
Brings(q, f) ==
    \/ \E i \in DOMAIN q.images : q.images[i] = [path |-> f.path, size |-> f.data]
    \/ q.files # Nothing /\ \E i \in DOMAIN arrays[q.files] : arrays[q.files][i] = f
Brought == {f \in File : \E d \in Calls : question[d] # Nothing /\ Brings(question[d], f)}

\* The nops some call set; 0 sets none.
Nops == {0} \cup {n \in Nat : \E d \in Calls : question[d] # Nothing /\ question[d].nop = n}

Left(fs) == \A p \in Paths : fs[p] # Nothing => [path |-> p, data |-> fs[p]] \in Brought
LeftBehind ==
    /\ Left(instance.files) /\ instance.nop \in Nops
    /\ \A i \in DOMAIN inbox :
           /\ \A k \in DOMAIN inbox[i].options.files : inbox[i].options.files[k] \in Brought
           /\ inbox[i].options.nop \in Nops
    /\ \A i \in DOMAIN outbox : outbox[i].ok =>
           Left(outbox[i].output.files) /\ outbox[i].output.nop \in Nops
    /\ \A c \in Calls : state[c] = "fulfilled" =>
           Left(output[c].files) /\ output[c].nop \in Nops

\* The message pointer is stale only after a call for which Graphviz failed.
Upset == \E d \in Calls : question[d] # Nothing /\ Takes[question[d].src] \in {"error", "throws"}
Drawable(c) == Takes[question[c].src] \in {"graph", "blank"}
Refusals ==
    /\ instance.stale => Upset
    /\ \A i \in DOMAIN outbox : ~outbox[i].ok /\ Drawable(listeners[outbox[i].id]) => Upset
    /\ \A c \in Calls : state[c] = "rejected" /\ Drawable(c) =>
           (wrapper = "worker" /\ ~question[c].cloneable) \/ Upset

HInv == IInv /\ LeftBehind /\ Refusals

-----------------------------------------------------------------------------
(***************************************************************************)
(* One render.                                                             *)
(***************************************************************************)
\* A render adds the files and the nop it is given to what it finds, and no more.
LEMMA RenderLeaves ==
    ASSUME NEW B, NEW N, NEW inst \in Instance, NEW src \in Sources, NEW o \in Options,
           \A p \in Paths : inst.files[p] # Nothing => [path |-> p, data |-> inst.files[p]] \in B,
           \A k \in DOMAIN o.files : o.files[k] \in B,
           inst.nop \in N, o.nop \in N,
           NEW r \in Renders(inst, src, o)
    PROVE  LET kept(fs) == \A p \in Paths : fs[p] # Nothing => [path |-> p, data |-> fs[p]] \in B
           IN /\ kept(r.instance.files) /\ r.instance.nop \in N
              /\ r.ok => kept(r.output.files) /\ r.output.nop \in N
  <1> DEFINE kept(fs) == \A p \in Paths : fs[p] # Nothing => [path |-> p, data |-> fs[p]] \in B
             prep == Prepared(inst, o)
             after == [prep EXCEPT !.stale = TRUE]
             out == OutputOf(prep, src, o)
  <1>1. prep \in Instance /\ prep.files = CreateFiles(inst.files, o.files)
    BY PreparedInstance
  <1>2. prep.nop = IF o.nop # 0 THEN o.nop ELSE inst.nop
    BY DEF Prepared, Instance
  <1>3. ASSUME NEW p \in Paths, prep.files[p] # Nothing
        PROVE  [path |-> p, data |-> prep.files[p]] \in B
    <2>1. CASE Named(o.files, p) = {}
      <3>1. prep.files[p] = inst.files[p]
        BY <1>1, <2>1 DEF CreateFiles
      <3>2. QED
        BY <1>3, <3>1
    <2>2. CASE Named(o.files, p) # {}
      <3> DEFINE k == LastAt(o.files, p)
      <3>0. o.files \in Seq(File)
        BY DEF Options
      <3>1. k \in Named(o.files, p)
        BY <2>2, <3>0, LastAtIsLast, Len(o.files) \in Nat, DOMAIN o.files = 1..Len(o.files)
      <3>2. k \in DOMAIN o.files /\ o.files[k].path = p
        BY <3>1 DEF Named
      <3>3. prep.files[p] = o.files[k].data
        BY <1>1, <2>2 DEF CreateFiles
      <3> HIDE DEF k
      <3>4. o.files[k] \in File
        BY <3>0, <3>2
      <3>5. o.files[k] = [path |-> p, data |-> prep.files[p]]
        BY <3>2, <3>3, <3>4 DEF File
      <3>6. QED
        BY <3>2, <3>5
    <2>3. QED
      BY <2>1, <2>2
  <1>4. kept(prep.files) /\ prep.nop \in N
    BY <1>2, <1>3
  <1>5. after.files = prep.files /\ after.nop = prep.nop /\ out.files = prep.files /\ out.nop = prep.nop
    BY <1>1 DEF Instance, OutputOf
  <1>6. r \in {Fails(prep), Fails(after), Succeeds(out, prep)}
    BY DEF Renders
  <1> HIDE DEF prep, after, out, kept
  <1>7. CASE r = Fails(prep) \/ r = Fails(after)
    <2>1. r.ok = FALSE /\ (r.instance = prep \/ r.instance = after)
      BY <1>7 DEF Fails
    <2>2. QED
      BY <2>1, <1>4, <1>5 DEF kept
  <1>8. CASE r = Succeeds(out, prep)
    <2>1. r.output = out /\ r.instance = prep
      BY <1>8 DEF Succeeds
    <2>2. QED
      BY <2>1, <1>4, <1>5 DEF kept
  <1>9. QED
    BY <1>6, <1>7, <1>8

\* A render of what can be drawn fails only on a stale pointer, and only a failure
\* leaves one.
LEMMA RenderRefuses ==
    ASSUME NEW inst \in Instance, NEW src \in Sources, NEW o \in Options,
           NEW r \in Renders(inst, src, o)
    PROVE  /\ r.instance.stale => inst.stale \/ Takes[src] \in {"error", "throws"}
           /\ ~r.ok /\ Takes[src] \in {"graph", "blank"} => inst.stale
  <1> DEFINE prep == Prepared(inst, o)
  <1>1. prep \in Instance /\ prep.stale = inst.stale
    BY PreparedInstance
  <1> HIDE DEF prep
  <1>2. CASE Takes[src] \in {"error", "throws"}
    BY <1>2
  <1>3. CASE Takes[src] \notin {"error", "throws"}
    <2>1. r = Succeeds(OutputOf(prep, src, o), prep) \/ (r = Fails(prep) /\ prep.stale)
      BY <1>3 DEF Renders, prep
    <2>2. r.instance = prep /\ (~r.ok => prep.stale)
      BY <2>1 DEF Succeeds, Fails
    <2>3. QED
      BY <2>2, <1>1
  <1>4. QED
    BY <1>2, <1>3

-----------------------------------------------------------------------------
(***************************************************************************)
(* The past only grows.                                                    *)
(***************************************************************************)
\* Questions once asked stay and arrays are only appended to.
Extended ==
    /\ \A d \in Calls : question[d] # Nothing => question'[d] = question[d]
    /\ \A a \in Arrays : \A i \in DOMAIN arrays[a] :
           i \in DOMAIN arrays'[a] /\ arrays'[a][i] = arrays[a][i]

LEMMA StepsExtend ==
    ASSUME IInv, [Next]_vars
    PROVE  Extended
  <1>1. ASSUME NEW c \in Calls, NEW q \in Questions, Call(c, q)
        PROVE  Extended
    <2>1. /\ question[c] = Nothing
          /\ \A d \in Calls \ {c} : question'[d] = question[d]
          /\ arrays' = IF q.files = Nothing THEN arrays ELSE [arrays EXCEPT ![q.files] = FilesFor(q)]
      BY <1>1, CallBegins, NewCall
    <2>2. ASSUME q.files # Nothing
          PROVE  \A i \in DOMAIN arrays[q.files] :
                     i \in DOMAIN FilesFor(q) /\ FilesFor(q)[i] = arrays[q.files][i]
      <3>1. arrays[q.files] \in Seq(File) /\ Stubs(q.images) \in Seq(File)
        BY <2>2, QuestionsAreTyped, StubsAreFiles DEF IInv, TypeOK, ClientTypeOK, Question
      <3>2. FilesFor(q) = arrays[q.files] \o Stubs(q.images)
        BY <2>2 DEF FilesFor
      <3>3. \A s, t \in Seq(File) : \A i \in DOMAIN s : i \in DOMAIN (s \o t) /\ (s \o t)[i] = s[i]
        OBVIOUS
      <3> DEFINE s == arrays[q.files]
                 t == Stubs(q.images)
      <3>4. s \in Seq(File) /\ t \in Seq(File) /\ FilesFor(q) = s \o t
        BY <3>1, <3>2
      <3> HIDE DEF s, t
      <3>5. \A i \in DOMAIN s : i \in DOMAIN FilesFor(q) /\ FilesFor(q)[i] = s[i]
        BY <3>3, <3>4
      <3>6. QED
        BY <3>5 DEF s
    <2>3. arrays \in [Arrays -> Seq(File)]
      BY DEF IInv, TypeOK, ClientTypeOK
    <2>4. QED
      BY <2>1, <2>2, <2>3 DEF Extended
  <1>2. ASSUME UNCHANGED <<question, arrays>>
        PROVE  Extended
    BY <1>2 DEF Extended
  <1>3. (\E c \in Calls, q \in Questions : Call(c, q)) \/ UNCHANGED <<question, arrays>>
    <2>1. CASE LoadViz \/ LoadFullRender \/ LoadFabric \/ NewViz \/ UNCHANGED clientVars \/ UNCHANGED vars
      BY <2>1 DEF LoadViz, LoadFullRender, LoadFabric, NewViz, clientVars, vars
    <2>2. ASSUME NEW c \in Calls, Then(c) \/ Browser(c)
          PROVE  UNCHANGED <<question, arrays>>
      BY <2>2, ClientStep DEF Moves, Advance
    <2>3. QED
      BY <2>1, <2>2 DEF Next
  <1>4. QED
    BY <1>1, <1>2, <1>3

LEMMA HistoryGrows ==
    ASSUME IInv, Extended
    PROVE  /\ Brought \subseteq Brought' /\ Nops \subseteq Nops'
           /\ Upset => Upset'
  <1>1. Brought \subseteq Brought'
    <2> SUFFICES ASSUME NEW f \in File, NEW d \in Calls, question[d] # Nothing, Brings(question[d], f)
                 PROVE  question'[d] # Nothing /\ Brings(question[d], f)'
      BY DEF Brought
    <2>1. question'[d] = question[d]
      BY DEF Extended
    <2>2. question[d].files # Nothing => question[d].files \in Arrays
      BY QuestionsAreTyped DEF IInv, TypeOK, ClientTypeOK, Question
    <2>3. QED
      BY <2>1, <2>2 DEF Brings, Extended
  <1>2. Nops \subseteq Nops'
    BY DEF Nops, Extended
  <1>3. Upset => Upset'
    BY DEF Upset, Extended
  <1>4. QED
    BY <1>1, <1>2, <1>3

\* What a call hands over, it brought.
LEMMA OptionsAreBrought ==
    ASSUME IInv, NEW c \in Calls, NEW q \in Questions, Call(c, q)
    PROVE  LET o == OptionsFor(q, FormatOf(q))
           IN (\A k \in DOMAIN o.files : o.files[k] \in Brought') /\ o.nop \in Nops'
  <1> DEFINE stubs == Stubs(q.images)
  <1>1. /\ question'[c] = q /\ q # Nothing
        /\ arrays' = IF q.files = Nothing THEN arrays ELSE [arrays EXCEPT ![q.files] = FilesFor(q)]
    BY CallBegins, NewCall
  <1>2. q \in Question /\ q.nop \in Nat /\ q.images \in Seq(Image)
    BY QuestionsAreTyped DEF Question
  <1>3. FilesFor(q) \in Seq(File)
    BY FilesAreTyped, <1>2 DEF IInv
  <1>4. stubs \in Seq(File) /\ DOMAIN stubs = DOMAIN q.images
        /\ \A i \in DOMAIN q.images : stubs[i] = [path |-> q.images[i].path, data |-> q.images[i].size]
    BY <1>2, StubsAreFiles
  <1>5. ASSUME NEW k \in DOMAIN FilesFor(q), NEW f \in File, f = FilesFor(q)[k]
        PROVE  Brings(q, f)'
    <2>1. CASE q.files # Nothing
      <3>1. arrays'[q.files] = FilesFor(q)
        BY <2>1, <1>1, <1>2 DEF IInv, TypeOK, ClientTypeOK, Question
      <3>2. QED
        BY <3>1, <2>1, <1>5 DEF Brings
    <2>2. CASE q.files = Nothing
      <3>1. FilesFor(q) = stubs
        BY <2>2, <1>4 DEF FilesFor
      <3>2. q.images[k] \in Image /\ k \in DOMAIN q.images
        BY <3>1, <1>2, <1>4
      <3>3. q.images[k] = [path |-> f.path, size |-> f.data]
        <4> HIDE DEF stubs
        <4>1. f = [path |-> q.images[k].path, data |-> q.images[k].size]
          BY <3>1, <3>2, <1>4, <1>5
        <4>2. QED
          BY <3>2, <4>1 DEF Image
      <3>4. QED
        BY <3>2, <3>3 DEF Brings
    <2>3. QED
      BY <2>1, <2>2
  <1>6. ASSUME NEW k \in DOMAIN FilesFor(q)
        PROVE  FilesFor(q)[k] \in Brought'
    <2>1. PICK f \in File : f = FilesFor(q)[k]
      BY <1>3
    <2>2. Brings(q, f)'
      BY <2>1, <1>5
    <2>3. f \in Brought'
      BY <2>2, <1>1 DEF Brought
    <2>4. QED
      BY <2>1, <2>3
  <1>7. q.nop \in Nops'
    BY <1>1, <1>2 DEF Nops
  <1>8. QED
    BY <1>6, <1>7 DEF OptionsFor

-----------------------------------------------------------------------------
(***************************************************************************)
(* The steps.                                                              *)
(***************************************************************************)
LEMMA HInit == Init => HInv
  <1> SUFFICES ASSUME Init PROVE HInv
    OBVIOUS
  <1>1. /\ inbox = <<>> /\ outbox = <<>> /\ instance = FreshInstance
        /\ \A c \in Calls : state[c] = "none"
    BY DEF Init, WrapperInit
  <1>2. /\ \A p \in Paths : instance.files[p] = Nothing
        /\ instance.nop = 0 /\ instance.stale = FALSE
    BY <1>1 DEF FreshInstance
  <1>3. LeftBehind
    BY <1>1, <1>2 DEF LeftBehind, Left, Nops
  <1>4. Refusals
    BY <1>1, <1>2 DEF Refusals
  <1>5. QED
    BY <1>3, <1>4, InvInit DEF HInv

LEMMA HWorkerCall ==
    ASSUME HInv, IInv', Extended, NEW c \in Calls, NEW q \in Questions, Call(c, q),
           WorkerRender(c, q.src, OptionsFor(q, FormatOf(q)), q.cloneable)
    PROVE  HInv'
  <1> DEFINE m == [id |-> nextId, src |-> q.src, options |-> OptionsFor(q, FormatOf(q))]
             o == OptionsFor(q, FormatOf(q))
  <1>1. /\ listeners' = With(listeners, nextId, c)
        /\ state' = [state EXCEPT ![c] = IF q.cloneable THEN "pending" ELSE "rejected"]
        /\ inbox' = IF q.cloneable THEN Append(inbox, m) ELSE inbox
        /\ wrapper = "worker"
        /\ UNCHANGED <<wrapper, outbox, instance, workerUp, output>>
    BY DEF WorkerRender
  <1>2. /\ question'[c] = q /\ \A id \in DOMAIN listeners : listeners[id] \in Calls \ {c}
        /\ \A d \in Calls \ {c} : question'[d] = question[d]
    BY NewCall DEF HInv
  <1>3. /\ Brought \subseteq Brought' /\ Nops \subseteq Nops' /\ (Upset => Upset')
    BY HistoryGrows DEF HInv
  <1>4. (\A k \in DOMAIN o.files : o.files[k] \in Brought') /\ o.nop \in Nops'
    BY SMTT(30), OptionsAreBrought DEF HInv
  <1>5. \A i \in DOMAIN outbox : /\ outbox[i].id \in DOMAIN listeners
                                 /\ listeners'[outbox[i].id] = listeners[outbox[i].id]
    <2>1. nextId \notin DOMAIN listeners
      BY DEF HInv, IInv, Numbered, TypeOK, WrapperTypeOK
    <2>2. QED
      BY <1>1, <2>1 DEF HInv, IInv, Paired, Waits, With
  <1>6. \A d \in Calls \ {c} : state'[d] = state[d]
    BY <1>1 DEF HInv, IInv, TypeOK, WrapperTypeOK
  <1>7. state'[c] = IF q.cloneable THEN "pending" ELSE "rejected"
    BY <1>1 DEF HInv, IInv, TypeOK, WrapperTypeOK
  <1>8. m.options = o
    OBVIOUS
  <1> HIDE DEF m, o
  <1>9. \A i \in DOMAIN inbox' : (i \in DOMAIN inbox /\ inbox'[i] = inbox[i]) \/ inbox'[i] = m
    BY <1>1 DEF HInv, IInv, TypeOK, WrapperTypeOK
  <1>10. \A fs : Left(fs) => Left(fs)'
    BY <1>3 DEF Left
  <1>11. LeftBehind'
    <2>1. Left(instance.files)' /\ instance'.nop \in Nops'
      BY <1>1, <1>3, <1>10 DEF HInv, LeftBehind, Left
    <2>2. \A i \in DOMAIN inbox' :
             /\ \A k \in DOMAIN inbox'[i].options.files : inbox'[i].options.files[k] \in Brought'
             /\ inbox'[i].options.nop \in Nops'
      BY <1>3, <1>4, <1>8, <1>9 DEF HInv, LeftBehind
    <2>3. \A i \in DOMAIN outbox' : outbox'[i].ok =>
             Left(outbox[i].output.files)' /\ outbox'[i].output.nop \in Nops'
      BY <1>1, <1>3 DEF HInv, LeftBehind, Left
    <2>4. \A d \in Calls : state'[d] = "fulfilled" =>
             Left(output[d].files)' /\ output'[d].nop \in Nops'
      BY <1>1, <1>3, <1>6, <1>7 DEF HInv, LeftBehind, Left
    <2>5. QED
      BY <2>1, <2>2, <2>3, <2>4 DEF LeftBehind
  <1>12. Refusals'
    <2>1. instance'.stale => Upset'
      BY <1>1, <1>3 DEF HInv, Refusals
    <2>2. \A i \in DOMAIN outbox' : ~outbox'[i].ok /\ Drawable(listeners[outbox[i].id])' => Upset'
      BY <1>1, <1>2, <1>3, <1>5 DEF HInv, Refusals, Drawable
    <2>3. \A d \in Calls : state'[d] = "rejected" /\ Drawable(d)' =>
             (wrapper' = "worker" /\ ~question'[d].cloneable) \/ Upset'
      BY <1>1, <1>2, <1>3, <1>6, <1>7 DEF HInv, Refusals, Drawable
    <2>4. QED
      BY <2>1, <2>2, <2>3 DEF Refusals
  <1>13. QED
    BY <1>11, <1>12 DEF HInv

LEMMA HModuleCall ==
    ASSUME HInv, IInv', Extended, NEW c \in Calls, NEW q \in Questions, Call(c, q),
           ModuleRender(c, q.src, OptionsFor(q, FormatOf(q)))
    PROVE  HInv'
  <1> DEFINE o == OptionsFor(q, FormatOf(q))
  <1>1. PICK r \in Renders(instance, q.src, o) :
           /\ instance' = r.instance
           /\ state' = [state EXCEPT ![c] = IF r.ok THEN "fulfilled" ELSE "rejected"]
           /\ output' = [output EXCEPT ![c] = r.output]
    BY DEF ModuleRender
  <1>2. UNCHANGED <<wrapper, nextId, listeners, inbox, outbox, workerUp>>
    BY DEF ModuleRender
  <1>3. /\ question'[c] = q /\ question[c] = Nothing
        /\ \A id \in DOMAIN listeners : listeners[id] \in Calls \ {c}
        /\ \A d \in Calls \ {c} : question'[d] = question[d]
    BY NewCall, CallBegins DEF HInv
  <1>4. /\ Brought \subseteq Brought' /\ Nops \subseteq Nops' /\ (Upset => Upset')
    BY HistoryGrows DEF HInv
  <1>5. instance \in Instance /\ q.src \in Sources /\ o \in Options /\ q # Nothing
    BY OptionsAreTyped, QuestionsAreTyped DEF HInv, IInv, TypeOK, WrapperTypeOK
  <1>6. (\A k \in DOMAIN o.files : o.files[k] \in Brought') /\ o.nop \in Nops'
    BY OptionsAreBrought DEF HInv
  <1> HIDE DEF o
  <1>7. /\ \A p \in Paths : instance.files[p] # Nothing =>
              [path |-> p, data |-> instance.files[p]] \in Brought'
        /\ instance.nop \in Nops'
    BY <1>4 DEF HInv, LeftBehind, Left
  <1>8. /\ \A p \in Paths : r.instance.files[p] # Nothing =>
              [path |-> p, data |-> r.instance.files[p]] \in Brought'
        /\ r.instance.nop \in Nops'
        /\ r.ok => /\ \A p \in Paths : r.output.files[p] # Nothing =>
                         [path |-> p, data |-> r.output.files[p]] \in Brought'
                   /\ r.output.nop \in Nops'
    BY <1>5, <1>6, <1>7, RenderLeaves
  <1>9. /\ r.instance.stale => instance.stale \/ Takes[q.src] \in {"error", "throws"}
        /\ ~r.ok /\ Takes[q.src] \in {"graph", "blank"} => instance.stale
    BY <1>5, RenderRefuses
  <1>10. /\ state'[c] = IF r.ok THEN "fulfilled" ELSE "rejected"
         /\ output'[c] = r.output
         /\ \A d \in Calls \ {c} : state'[d] = state[d] /\ output'[d] = output[d]
    BY <1>1 DEF HInv, IInv, TypeOK, WrapperTypeOK
  <1>11. LeftBehind'
    <2>1. Left(instance.files)' /\ instance'.nop \in Nops'
      BY <1>1, <1>8 DEF Left
    <2>2. /\ \A i \in DOMAIN inbox' :
                /\ \A k \in DOMAIN inbox'[i].options.files : inbox'[i].options.files[k] \in Brought'
                /\ inbox'[i].options.nop \in Nops'
          /\ \A i \in DOMAIN outbox' : outbox'[i].ok =>
                Left(outbox[i].output.files)' /\ outbox'[i].output.nop \in Nops'
      BY <1>2, <1>4 DEF HInv, LeftBehind, Left
    <2>3. \A d \in Calls : state'[d] = "fulfilled" =>
             Left(output[d].files)' /\ output'[d].nop \in Nops'
      BY <1>4, <1>8, <1>10 DEF HInv, LeftBehind, Left
    <2>4. QED
      BY <2>1, <2>2, <2>3 DEF LeftBehind
  <1>12. Refusals'
    <2>1. instance'.stale => Upset'
      BY <1>1, <1>3, <1>4, <1>5, <1>9 DEF HInv, Refusals, Upset
    <2>2. \A i \in DOMAIN outbox' : ~outbox'[i].ok /\ Drawable(listeners[outbox[i].id])' => Upset'
      BY <1>2, <1>3, <1>4 DEF HInv, Refusals, Drawable, IInv, Paired, Waits
    <2>3. \A d \in Calls : state'[d] = "rejected" /\ Drawable(d)' =>
             (wrapper' = "worker" /\ ~question'[d].cloneable) \/ Upset'
      BY <1>2, <1>3, <1>4, <1>9, <1>10 DEF HInv, Refusals, Drawable
    <2>4. QED
      BY <2>1, <2>2, <2>3 DEF Refusals
  <1>13. QED
    BY <1>11, <1>12 DEF HInv

LEMMA HWorkerOnMessage ==
    ASSUME HInv, IInv', WorkerOnMessage, UNCHANGED clientVars
    PROVE  HInv'
  <1> DEFINE m == Head(inbox)
             k == Len(outbox)
             c == listeners[m.id]
  <1>1. PICK r \in Renders(instance, m.src, m.options) :
           /\ instance' = r.instance
           /\ outbox' = Append(outbox, [id |-> m.id, ok |-> r.ok, output |-> r.output])
    BY DEF WorkerOnMessage
  <1> DEFINE a == [id |-> m.id, ok |-> r.ok, output |-> r.output]
  <1>2. /\ inbox # <<>> /\ inbox' = Tail(inbox)
        /\ UNCHANGED <<wrapper, nextId, listeners, workerUp, state, output>>
        /\ UNCHANGED <<arrays, question>>
    BY DEF WorkerOnMessage, clientVars
  <1>3. /\ Brought' = Brought /\ Nops' = Nops /\ (Upset' <=> Upset)
    BY <1>2 DEF Brought, Brings, Nops, Upset
  <1>4. /\ \A i \in DOMAIN inbox' : i + 1 \in DOMAIN inbox /\ inbox'[i] = inbox[i + 1]
        /\ 1 \in DOMAIN inbox /\ m = inbox[1] /\ m \in Request /\ instance \in Instance
    BY <1>2 DEF HInv, IInv, TypeOK, WrapperTypeOK
  <1>5. /\ a.id = m.id /\ a.ok = r.ok /\ a.output = r.output
        /\ \A i \in DOMAIN outbox' : (i \in DOMAIN outbox /\ outbox'[i] = outbox[i]) \/ outbox'[i] = a
    BY SMTT(30), <1>1 DEF HInv, IInv, TypeOK, WrapperTypeOK
  <1>6. c \in Calls /\ question[c] # Nothing /\ m.src = question[c].src
    <2>1. m.id \in DOMAIN listeners /\ state[c] = "pending" /\ Asks(m, question[c])
      BY <1>4 DEF HInv, IInv, Paired, Waits, Matched
    <2>2. c \in Calls
      BY <2>1 DEF HInv, IInv, TypeOK, WrapperTypeOK
    <2>3. QED
      BY <2>1, <2>2 DEF HInv, IInv, Begun, BegunAt, Asks
  <1>7. m.src \in Sources /\ m.options \in Options
    BY <1>4 DEF Request
  <1>8. (\A j \in DOMAIN m.options.files : m.options.files[j] \in Brought) /\ m.options.nop \in Nops
    BY <1>4 DEF HInv, LeftBehind
  <1> HIDE DEF m, a, c
  <1>9. /\ \A p \in Paths : r.instance.files[p] # Nothing =>
              [path |-> p, data |-> r.instance.files[p]] \in Brought
        /\ r.instance.nop \in Nops
        /\ r.ok => /\ \A p \in Paths : r.output.files[p] # Nothing =>
                         [path |-> p, data |-> r.output.files[p]] \in Brought
                   /\ r.output.nop \in Nops
    <2>1. /\ \A p \in Paths : instance.files[p] # Nothing =>
                [path |-> p, data |-> instance.files[p]] \in Brought
          /\ instance.nop \in Nops
      BY DEF HInv, LeftBehind, Left
    <2>2. QED
      BY ZenonT(30), <2>1, <1>4, <1>7, <1>8, RenderLeaves
  <1>10. /\ r.instance.stale => instance.stale \/ Takes[m.src] \in {"error", "throws"}
         /\ ~r.ok /\ Takes[m.src] \in {"graph", "blank"} => instance.stale
    BY <1>4, <1>7, RenderRefuses
  <1>11. r.instance.stale => Upset
    BY <1>6, <1>10 DEF HInv, Refusals, Upset
  <1>12. LeftBehind'
    <2>1. Left(instance.files)' /\ instance'.nop \in Nops'
      BY <1>1, <1>3, <1>9 DEF Left
    <2>2. \A i \in DOMAIN inbox' :
             /\ \A j \in DOMAIN inbox'[i].options.files : inbox'[i].options.files[j] \in Brought'
             /\ inbox'[i].options.nop \in Nops'
      BY <1>3, <1>4 DEF HInv, LeftBehind
    <2>3. \A i \in DOMAIN outbox' : outbox'[i].ok =>
             Left(outbox[i].output.files)' /\ outbox'[i].output.nop \in Nops'
      BY <1>3, <1>5, <1>9 DEF HInv, LeftBehind, Left
    <2>4. \A d \in Calls : state'[d] = "fulfilled" =>
             Left(output[d].files)' /\ output'[d].nop \in Nops'
      BY <1>2, <1>3 DEF HInv, LeftBehind, Left
    <2>5. QED
      BY <2>1, <2>2, <2>3, <2>4 DEF LeftBehind
  <1>13. Refusals'
    <2>1. instance'.stale => Upset'
      BY <1>1, <1>3, <1>11
    <2>2. \A i \in DOMAIN outbox' : ~outbox'[i].ok /\ Drawable(listeners[outbox[i].id])' => Upset'
      <3> SUFFICES ASSUME NEW i \in DOMAIN outbox', ~outbox'[i].ok, Drawable(listeners[outbox[i].id])'
                   PROVE  Upset
        BY <1>3
      <3>1. CASE i \in DOMAIN outbox /\ outbox'[i] = outbox[i]
        BY <3>1, <1>2 DEF HInv, Refusals, Drawable
      <3>2. CASE outbox'[i] = a
        <4>1. ~r.ok /\ Takes[m.src] \in {"graph", "blank"}
          BY <3>2, <1>2, <1>5, <1>6 DEF Drawable, c
        <4>2. QED
          BY <4>1, <1>10 DEF HInv, Refusals
      <3>3. QED
        BY <3>1, <3>2, <1>5
    <2>3. \A d \in Calls : state'[d] = "rejected" /\ Drawable(d)' =>
             (wrapper' = "worker" /\ ~question'[d].cloneable) \/ Upset'
      BY <1>2, <1>3 DEF HInv, Refusals, Drawable
    <2>4. QED
      BY <2>1, <2>2, <2>3 DEF Refusals
  <1>14. QED
    BY <1>12, <1>13 DEF HInv

LEMMA HOnMessage ==
    ASSUME HInv, IInv', OnMessage, UNCHANGED clientVars
    PROVE  HInv'
  <1> DEFINE m == Head(outbox)
             c == listeners[m.id]
  <1>1. /\ outbox # <<>> /\ outbox' = Tail(outbox)
        /\ SettleWith(c, m.ok, m.output) /\ listeners' = Without(listeners, m.id)
        /\ UNCHANGED <<wrapper, nextId, inbox, instance, workerUp>>
        /\ UNCHANGED <<arrays, question>>
    BY DEF OnMessage, clientVars
  <1>2. /\ Brought' = Brought /\ Nops' = Nops /\ (Upset' <=> Upset)
    BY <1>1 DEF Brought, Brings, Nops, Upset
  <1>3. /\ \A i \in DOMAIN outbox' : i + 1 \in DOMAIN outbox /\ outbox'[i] = outbox[i + 1] /\ i \in Nat \ {0}
        /\ 1 \in DOMAIN outbox /\ m = outbox[1]
        /\ \A i \in DOMAIN outbox : outbox[i].id \in DOMAIN listeners
        /\ \A i, j \in DOMAIN outbox : i < j => outbox[i].id < outbox[j].id
        /\ \A i \in DOMAIN outbox : outbox[i].id \in Nat
    <2>1. outbox \in Seq(Answer) /\ outbox # <<>>
      BY <1>1 DEF HInv, IInv, TypeOK, WrapperTypeOK
    <2>2. /\ \A i \in DOMAIN outbox' : i + 1 \in DOMAIN outbox /\ outbox'[i] = outbox[i + 1] /\ i \in Nat \ {0}
          /\ 1 \in DOMAIN outbox /\ m = outbox[1]
      BY <1>1, <2>1
    <2>3. \A i \in DOMAIN outbox : outbox[i] \in Answer
      BY <2>1
    <2>4. QED
      BY <2>2, <2>3 DEF HInv, IInv, Paired, Waits, Numbered, Ordered, Answer
  <1> HIDE DEF m
  <1>4. \A i \in DOMAIN outbox' : listeners'[outbox'[i].id] = listeners[outbox[i + 1].id]
    <2> SUFFICES ASSUME NEW i \in DOMAIN outbox'
                 PROVE  listeners'[outbox'[i].id] = listeners[outbox[i + 1].id]
      OBVIOUS
    <2>1. i + 1 \in DOMAIN outbox /\ 1 < i + 1 /\ outbox'[i] = outbox[i + 1]
      BY <1>3
    <2>2. outbox[1].id < outbox[i + 1].id /\ outbox[1].id \in Nat /\ outbox[i + 1].id \in Nat
      BY <2>1, <1>3
    <2>3. outbox[i + 1].id # m.id
      BY <2>2, <1>3
    <2>4. QED
      BY <2>1, <2>3, <1>1, <1>3 DEF Without
  <1>5. c \in Calls /\ state[c] = "pending"
    BY <1>3 DEF HInv, IInv, Paired, Waits, TypeOK, WrapperTypeOK
  <1>6. /\ state'[c] = IF m.ok THEN "fulfilled" ELSE "rejected"
        /\ m.ok => output'[c] = m.output
        /\ \A d \in Calls \ {c} : state'[d] = state[d] /\ output'[d] = output[d]
    BY <1>1, <1>5 DEF SettleWith, HInv, IInv, TypeOK, WrapperTypeOK
  <1>7. /\ m.ok => Left(m.output.files) /\ m.output.nop \in Nops
        /\ ~m.ok /\ Drawable(c) => Upset
    BY <1>3 DEF HInv, LeftBehind, Refusals
  <1> HIDE DEF c
  <1>8. LeftBehind'
    <2>1. Left(instance.files)' /\ instance'.nop \in Nops'
      BY <1>1, <1>2 DEF HInv, LeftBehind, Left
    <2>2. \A i \in DOMAIN inbox' :
             /\ \A j \in DOMAIN inbox'[i].options.files : inbox'[i].options.files[j] \in Brought'
             /\ inbox'[i].options.nop \in Nops'
      BY <1>1, <1>2 DEF HInv, LeftBehind
    <2>3. \A i \in DOMAIN outbox' : outbox'[i].ok =>
             Left(outbox[i].output.files)' /\ outbox'[i].output.nop \in Nops'
      BY <1>2, <1>3 DEF HInv, LeftBehind, Left
    <2>4. \A d \in Calls : state'[d] = "fulfilled" =>
             Left(output[d].files)' /\ output'[d].nop \in Nops'
      BY <1>2, <1>6, <1>7 DEF HInv, LeftBehind, Left
    <2>5. QED
      BY <2>1, <2>2, <2>3, <2>4 DEF LeftBehind
  <1>9. Refusals'
    <2>1. instance'.stale => Upset'
      BY <1>1, <1>2 DEF HInv, Refusals
    <2>2. \A i \in DOMAIN outbox' : ~outbox'[i].ok /\ Drawable(listeners[outbox[i].id])' => Upset'
      BY <1>1, <1>2, <1>3, <1>4 DEF HInv, Refusals, Drawable
    <2>3. \A d \in Calls : state'[d] = "rejected" /\ Drawable(d)' =>
             (wrapper' = "worker" /\ ~question'[d].cloneable) \/ Upset'
      BY <1>1, <1>2, <1>6, <1>7 DEF HInv, Refusals, Drawable
    <2>4. QED
      BY <2>1, <2>2, <2>3 DEF Refusals
  <1>10. QED
    BY <1>8, <1>9 DEF HInv

\* Scripts, the end of the worker and the callbacks around a promise leave all of it
\* alone; a wrapper is chosen before the first call.
LEMMA HElsewhere ==
    ASSUME HInv, IInv',
           UNCHANGED <<listeners, inbox, outbox, instance, state, output, arrays, question>>,
           wrapper # "none" => wrapper' = wrapper
    PROVE  HInv'
  <1>1. Brought' = Brought /\ Nops' = Nops /\ (Upset' <=> Upset)
    BY DEF Brought, Brings, Nops, Upset
  <1>2. LeftBehind'
    BY <1>1 DEF HInv, LeftBehind, Left
  <1>3. Refusals'
    BY <1>1 DEF HInv, Refusals, Drawable
  <1>4. QED
    BY <1>2, <1>3 DEF HInv

LEMMA HNext == HInv /\ [Next]_vars => HInv'
  <1> SUFFICES ASSUME HInv, [Next]_vars PROVE HInv'
    OBVIOUS
  <1>1. IInv'
    BY InvNext DEF HInv
  <1>2. Extended
    BY StepsExtend DEF HInv
  <1>3. ASSUME NEW c \in Calls, NEW q \in Questions, Call(c, q)
        PROVE  HInv'
    <2>1. Render(c, q.src, OptionsFor(q, FormatOf(q)), q.cloneable)
      BY <1>3, CallBegins
    <2>2. QED
      BY <1>1, <1>2, <1>3, <2>1, HWorkerCall, HModuleCall DEF Render
  <1>4. CASE (WorkerOnMessage \/ OnMessage) /\ UNCHANGED clientVars
    BY <1>1, <1>4, HWorkerOnMessage, HOnMessage
  <1>5. CASE LoadViz \/ LoadFullRender \/ LoadFabric \/ NewViz \/ (WorkerDies /\ UNCHANGED clientVars)
             \/ UNCHANGED vars
    <2>1. UNCHANGED <<listeners, inbox, outbox, instance, state, output, arrays, question>>
      BY <1>5 DEF LoadViz, LoadFullRender, LoadFabric, NewViz, Construct, WorkerDies, wrapperVars, clientVars, vars
    <2>2. wrapper # "none" => wrapper' = wrapper
      BY <1>5 DEF LoadViz, LoadFullRender, LoadFabric, NewViz, Construct, WorkerDies, wrapperVars, clientVars, vars
    <2>3. QED
      BY <2>1, <2>2, <1>1, HElsewhere
  <1>6. ASSUME NEW c \in Calls, Then(c) \/ Browser(c)
        PROVE  HInv'
    <2>1. UNCHANGED <<wrapperVars, arrays, question>>
      BY <1>6, ClientStep DEF HInv, Moves, Advance
    <2>2. QED
      BY <2>1, <1>1, HElsewhere DEF wrapperVars
  <1>7. QED
    BY <1>3, <1>4, <1>5, <1>6 DEF Next

LEMMA HInductive == Spec => []HInv
  <1>1. Init => HInv
    BY HInit
  <1>2. HInv /\ [Next]_vars => HInv'
    BY HNext
  <1>3. QED
    BY <1>1, <1>2, PTL DEF Spec

-----------------------------------------------------------------------------
(***************************************************************************)
(* What follows from it.                                                   *)
(***************************************************************************)
\* Whatever a drawing was made with, some call brought: a file an instance holds comes
\* from the images or the array of a call, and its nop, unless it is 0, from a call.
THEOREM FilesHaveAnOwner == Spec => []LeftByACall
  <1>1. ASSUME HInv PROVE LeftByACall
    <2> SUFFICES ASSUME NEW c \in Rendered
                 PROVE  /\ output[c].nop # 0 =>
                              \E d \in Calls : question[d] # Nothing /\ question[d].nop = output[c].nop
                        /\ \A p \in Paths : output[c].files[p] # Nothing =>
                              \E d \in Calls : question[d] # Nothing /\
                                 Brings(question[d], [path |-> p, data |-> output[c].files[p]])
      BY DEF LeftByACall, Brings
    <2>1. Left(output[c].files) /\ output[c].nop \in Nops
      BY <1>1 DEF HInv, LeftBehind, Rendered
    <2>2. QED
      BY <2>1 DEF Left, Nops, Brought
  <1>2. QED
    BY <1>1, HInductive, PTL

\* A drawing is refused only to a request that could not be posted, or after an error of
\* another call of the same instance.
THEOREM RefusalsHaveACause == Spec => []RefusedAfterAnError
  <1>1. ASSUME HInv PROVE RefusedAfterAnError
    <2> SUFFICES ASSUME NEW c \in Calls, state[c] = "rejected", Drawable(c), Upset
                 PROVE  \E d \in Calls \ {c} : state[d] # "none" /\ Takes[question[d].src] \in {"error", "throws"}
      BY <1>1 DEF RefusedAfterAnError, HInv, Refusals, Drawable
    <2>1. PICK d \in Calls : question[d] # Nothing /\ Takes[question[d].src] \in {"error", "throws"}
      BY DEF Upset
    <2>2. d # c /\ state[d] # "none"
      BY <1>1, <2>1 DEF Drawable, HInv, IInv, Begun, BegunAt
    <2>3. QED
      BY <2>1, <2>2
  <1>2. QED
    BY <1>1, HInductive, PTL
=============================================================================

--------------------------- MODULE DictionaryLoader ---------------------------
(***************************************************************************)
(* DictionaryLoader.load (loader.py): frames are read in order, each       *)
(* applies its _import.get directives, and a directive that names the head *)
(* of another dictionary loads that one first, by recursion.  The stack    *)
(* holds the calls of _load_recursive.  The files may change meanwhile.    *)
(***************************************************************************)
EXTENDS Integers, Sequences

CONSTANTS
    Uris, Names,        \* Names: of definitions, frames, categories and tags
    Tags, Values,       \* what frames say beside their identity
    AliasTag, AliasNames,   \* the tag that lists aliases, and what a value of it lists
    Nothing,
    Libraries,          \* what may be behind the URIs: in each case, each file in all its versions
    Settings,           \* the flags the loader is made with
    Editable,           \* files that may change while the loader is in use
    MaxLoads, MaxChanges

VARIABLES
    library,                    \* the case at hand
    version,                    \* the version the resolver finds, 0 for None
    changes,
    settings,
    sourceCache, parseCache,    \* the version kept for a URI, 0 for none
    stack,                      \* the calls of _load_recursive, the innermost last
    loading, collected,
    loads, result

files == <<library, version, changes>>
vars == <<files, settings, sourceCache, parseCache, stack, loading, collected, loads, result>>

Directive == [file : Uris \cup {Nothing}, save : Names, mode : {"Contents", "Full", "Other"},
              dupl : {"Ignore", "Replace", "Exit"}, miss : {"Ignore", "Exit"}, order : Int]
Frame == [label : Names, id : Names \cup {Nothing}, class : {"Head", "Loop", "Datum"},
          scope : {"Item", "Category", "Dictionary"}, category : Names \cup {Nothing},
          tags : Seq([tag : Tags, value : Values]), imports : Seq(Directive)]
\* Frames of the first block; `uri` is its _dictionary.uri.
File == [hasBlock : BOOLEAN, errors : BOOLEAN, uri : Uris \cup {Nothing}, frames : Seq(Frame)]

Data == UNION {[S -> Values] : S \in SUBSET Tags}
\* `from` is the URI and `reading` the version of the text the definition was read in.
Item == [id : Names, scope : {"Item", "Category"}, category : Names \cup {Nothing}, tags : Data,
         source : Uris \cup {Nothing}, from : Uris, reading : Nat]
Kinds == {"parse", "no block", "unusable", "missing", "circular", "aborted", "blocked", "conflict",
          "no id", "no category", "alias"}
Warning == [kind : Kinds, at : Uris]
Phases == {"frames", "directives", "tags", "waiting", "items"}

\* One call of _load_recursive.
Call == [uri : Uris, base : Uris \cup {Nothing}, reading : Nat, place : Nat, phase : Phases,
         data : Data, todo : SUBSET Nat, merging : Seq([tag : Tags, value : Values]),
         constituent : Seq(Item), coming : SUBSET Nat,
         pool : Seq(Item), primary : Seq(Item), warnings : SUBSET Warning]
Dictionary == [uri : Uris, base : Uris \cup {Nothing}, reading : Nat, items : Seq(Item),
               warnings : SUBSET Warning, sources : Seq(Uris)]

ASSUME LoaderAssumption ==
    /\ Tags \subseteq Names /\ AliasTag \in Tags /\ AliasNames \in [Values -> SUBSET Names]
    /\ Libraries \in [DOMAIN Libraries -> [Uris -> Seq(File)]]
    /\ Settings \subseteq [ignoreHeads : BOOLEAN, blockConstituents : BOOLEAN, baseGiven : BOOLEAN]
    /\ Editable \subseteq Uris /\ MaxLoads \in Nat /\ MaxChanges \in Nat
    /\ Nothing \notin Uris \cup Names \cup Dictionary

\* Frames are those of a block.
ASSUME FramesAssumption ==
    \A l \in DOMAIN Libraries : \A u \in Uris : \A v \in DOMAIN Libraries[l][u] :
        Libraries[l][u][v].hasBlock \/ Libraries[l][u][v].frames = <<>>

Files == Libraries[library]
Text(u, v) == Files[u][v]

Init ==
    /\ library \in DOMAIN Libraries
    /\ version = [u \in Uris |-> IF Files[u] = <<>> THEN 0 ELSE 1]
    /\ settings \in Settings
    /\ changes = 0 /\ loads = 0
    /\ sourceCache = [u \in Uris |-> 0] /\ parseCache = [u \in Uris |-> 0]
    /\ stack = <<>> /\ loading = {} /\ collected = <<>>
    /\ result = Nothing

-----------------------------------------------------------------------------
(***************************************************************************)
(* Reading.                                                                *)
(***************************************************************************)
\* Somebody edits, removes or restores a file.
Change(u) ==
    /\ changes < MaxChanges
    /\ changes' = changes + 1
    /\ \E v \in 0..Len(Files[u]) \ {version[u]} : version' = [version EXCEPT ![u] = v]
    /\ UNCHANGED <<library, settings, sourceCache, parseCache, stack, loading, collected, loads, result>>

\* Mutant of Source: the resolver is asked each time.
Afresh(u) == version[u]
\* _get_source and _get_parsed: a None of the resolver is not kept.
Source(u) == IF sourceCache[u] # 0 THEN sourceCache[u] ELSE version[u]
Parsed(u) == IF parseCache[u] # 0 THEN parseCache[u] ELSE Source(u)
Remember(u) ==
    /\ parseCache' = [parseCache EXCEPT ![u] = Parsed(u)]
    /\ sourceCache' = [sourceCache EXCEPT ![u] = IF parseCache[u] # 0 THEN @ ELSE Source(u)]

\* _find_frame_by_definition_id: by label only what has no id.
Matches(f, name) == IF f.id # Nothing THEN f.id = name ELSE f.label = name
Finds(file, name, k) ==
    /\ k \in DOMAIN file.frames /\ Matches(file.frames[k], name)
    /\ \A j \in 1..k-1 : ~Matches(file.frames[j], name)

-----------------------------------------------------------------------------
(***************************************************************************)
(* Calls and their directives.                                             *)
(***************************************************************************)
EmptyData == [t \in {} |-> Nothing]
NewCall(u, base, v) ==
    [uri |-> u, base |-> base, reading |-> v, place |-> 0, phase |-> "frames", data |-> EmptyData,
     todo |-> {}, merging |-> <<>>, constituent |-> <<>>, coming |-> {}, pool |-> <<>>,
     primary |-> <<>>,
     warnings |-> IF Text(u, v).errors THEN {[kind |-> "parse", at |-> u]} ELSE {}]

Top == stack[Len(stack)]
FrameOf(c) == Text(c.uri, c.reading).frames[c.place]
Becomes(c) == stack' = [stack EXCEPT ![Len(stack)] = c]
Warn(c, kinds) == [c EXCEPT !.warnings = @ \cup {[kind |-> k, at |-> c.uri] : k \in kinds}]

\* The directives run in the order of their `order`, those of one order as they are listed.
IsNext(c, i) ==
    LET order(j) == FrameOf(c).imports[j].order IN
    i \in c.todo /\ \A j \in c.todo : order(i) < order(j) \/ (order(i) = order(j) /\ i <= j)
Pass(c, i) == [c EXCEPT !.phase = "directives", !.todo = @ \ {i}]
\* `return` leaves the frame's other directives, and nothing else.
GiveUp(c) == [c EXCEPT !.phase = "directives", !.todo = {}]
\* Mutant of Missed: an ignored miss does not go on to the next directive.
MissedForEver(c, i, kind) ==
    IF FrameOf(c).imports[i].miss = "Ignore" THEN Warn(c, {kind}) ELSE GiveUp(Warn(c, {kind, "aborted"}))
Missed(c, i, kind) ==
    IF FrameOf(c).imports[i].miss = "Ignore" THEN Pass(Warn(c, {kind}), i)
    ELSE GiveUp(Warn(c, {kind, "aborted"}))

In(phase) == stack # <<>> /\ Top.phase = phase
NoCallBegins == UNCHANGED <<files, settings, loading, collected, loads, result>>
NothingRead == UNCHANGED <<sourceCache, parseCache>>

\* A caller passes the root's text, which it has read itself.
Load(u) ==
    /\ stack = <<>> /\ loads < MaxLoads /\ version[u] # 0
    /\ loads' = loads + 1 /\ loading' = {}
    /\ collected' = IF settings.baseGiven THEN <<u>> ELSE <<>>
    /\ LET file == Text(u, version[u])
           base == IF settings.baseGiven THEN u ELSE file.uri
           call == NewCall(u, base, version[u])
       IN IF file.hasBlock THEN stack' = <<call>> /\ result' = Nothing
          ELSE /\ result' = [uri |-> u, base |-> base, reading |-> version[u], items |-> <<>>,
                             warnings |-> Warn(call, {"no block"}).warnings, sources |-> <<>>]
               /\ UNCHANGED stack
    /\ UNCHANGED <<files, settings, sourceCache, parseCache>>

OwnData(f) ==
    [t \in {f.tags[k].tag : k \in DOMAIN f.tags} |->
        f.tags[CHOOSE k \in DOMAIN f.tags : f.tags[k].tag = t].value]
Skipped(f) == settings.ignoreHeads /\ f.class = "Head"
BeginFrame ==
    /\ In("frames") /\ Top.place < Len(Text(Top.uri, Top.reading).frames)
    /\ LET f == Text(Top.uri, Top.reading).frames[Top.place + 1]
       IN Becomes([Top EXCEPT !.place = @ + 1, !.phase = "directives", !.data = OwnData(f),
                              !.todo = IF Skipped(f) THEN {} ELSE DOMAIN f.imports])
    /\ NoCallBegins /\ NothingRead

Usable(d) == d.file # Nothing /\ d.mode # "Other"
SkipDirective(i) ==
    /\ In("directives") /\ IsNext(Top, i) /\ ~Usable(FrameOf(Top).imports[i])
    /\ Becomes(Pass(Warn(Top, {"unusable"}), i))
    /\ NoCallBegins /\ NothingRead

\* Where a directive finds the frame it names: at one place of its file, or nowhere.
Places(d) ==
    IF Parsed(d.file) = 0 THEN {}
    ELSE LET file == Text(d.file, Parsed(d.file))
         IN {k \in DOMAIN file.frames : Finds(file, d.save, k)}
UsablePlaces(d) == IF Usable(d) THEN Places(d) ELSE {}
Target(i, k) ==
    In("directives") /\ IsNext(Top, i) /\ k \in UsablePlaces(FrameOf(Top).imports[i])
TargetFrame(i, k) ==
    LET d == FrameOf(Top).imports[i] IN Text(d.file, Parsed(d.file)).frames[k]
MissTarget(i) ==
    LET d == FrameOf(Top).imports[i] IN
    /\ In("directives") /\ IsNext(Top, i) /\ Usable(d) /\ Places(d) = {}
    /\ Becomes(Missed(Top, i, "missing"))
    /\ Remember(d.file)
    /\ NoCallBegins

IsConstituent(i, k) == FrameOf(Top).imports[i].mode = "Full" /\ TargetFrame(i, k).class = "Head"

BlockConstituent(i, k) ==
    /\ Target(i, k) /\ IsConstituent(i, k) /\ settings.blockConstituents
    /\ Becomes(Pass(Warn(Top, {"blocked"}), i))
    /\ Remember(FrameOf(Top).imports[i].file)
    /\ NoCallBegins

\* _load_constituent returns None.
RefuseConstituent(i, k) ==
    LET u == FrameOf(Top).imports[i].file IN
    /\ Target(i, k) /\ IsConstituent(i, k) /\ ~settings.blockConstituents
    /\ u \in loading \/ Source(u) = 0
    /\ Becomes(Missed(Top, i, IF u \in loading THEN "circular" ELSE "missing"))
    /\ Remember(u)
    /\ NoCallBegins

EnterConstituent(i, k) ==
    LET u == FrameOf(Top).imports[i].file IN
    /\ Target(i, k) /\ IsConstituent(i, k) /\ ~settings.blockConstituents
    /\ u \notin loading /\ Source(u) # 0
    /\ stack' = Append([stack EXCEPT ![Len(stack)].phase = "waiting"], NewCall(u, u, Source(u)))
    /\ loading' = loading \cup {u}
    /\ collected' = IF \E n \in DOMAIN collected : collected[n] = u THEN collected
                    ELSE Append(collected, u)
    /\ Remember(u)
    /\ UNCHANGED <<files, settings, loads, result>>

TakeFrame(i, k) ==
    /\ Target(i, k) /\ ~IsConstituent(i, k)
    /\ Becomes([Top EXCEPT !.phase = "tags", !.merging = TargetFrame(i, k).tags])
    /\ Remember(FrameOf(Top).imports[i].file)
    /\ NoCallBegins

-----------------------------------------------------------------------------
(***************************************************************************)
(* Merging.                                                                *)
(***************************************************************************)
\* Where a file defines a name.
DefinedAt(file, name, k) ==
    /\ k \in DOMAIN file.frames /\ file.frames[k].id = name
    /\ \A j \in 1..k-1 : file.frames[j].id # name
\* The tags that a file defines in one Loop category with `tag`.
LoopMates(file, tag) ==
    {t \in Tags : \E k, m, n \in DOMAIN file.frames :
        /\ DefinedAt(file, tag, k) /\ DefinedAt(file, t, m)
        /\ file.frames[k].category # Nothing /\ file.frames[m].category = file.frames[k].category
        /\ DefinedAt(file, file.frames[k].category, n) /\ file.frames[n].class = "Loop"}
Without(data, ts) == [t \in DOMAIN data \ ts |-> data[t]]
With(data, tag, v) == [t \in DOMAIN data \cup {tag} |-> IF t = tag THEN v ELSE data[t]]

\* One round of _merge_frame's loop.
MergeTag(i) ==
    LET d == FrameOf(Top).imports[i]
        m == Head(Top.merging)
        file == Text(d.file, parseCache[d.file])
        data == IF d.dupl = "Replace" /\ m.tag \in DOMAIN Top.data
                THEN Without(Top.data, LoopMates(file, m.tag)) ELSE Top.data
    IN  /\ In("tags") /\ IsNext(Top, i) /\ Top.merging # <<>>
        /\ IF m.tag \in DOMAIN Top.data /\ d.dupl = "Exit"
           THEN Becomes(GiveUp(Warn([Top EXCEPT !.merging = <<>>], {"conflict"})))
           ELSE Becomes([Top EXCEPT !.merging = Tail(@), !.data =
                    IF m.tag \in DOMAIN Top.data /\ d.dupl = "Ignore" THEN @ ELSE With(data, m.tag, m.value)])
        /\ NoCallBegins /\ NothingRead

\* A dict assignment: a new key goes to the end, an old one keeps its place.
Holds(items, id) == \E k \in DOMAIN items : items[k].id = id
Put(items, item) ==
    IF Holds(items, item.id) THEN [k \in DOMAIN items |-> IF items[k].id = item.id THEN item ELSE items[k]]
    ELSE Append(items, item)

\* Constituents are merged categories first.
IsNextItem(c, n) ==
    LET item == c.constituent[n]
        before(j) == /\ c.constituent[j].scope = "Category" \/ item.scope = "Item"
                     /\ c.constituent[j].scope # item.scope \/ j < n
    IN n \in c.coming /\ \A j \in c.coming : ~before(j)

\* One round of _merge_constituent's loop.
MergeItem(i, n) ==
    LET item == Top.constituent[n]
        dupl == FrameOf(Top).imports[i].dupl
    IN  /\ In("items") /\ IsNext(Top, i) /\ IsNextItem(Top, n)
        /\ IF Holds(Top.pool, item.id) /\ dupl = "Exit"
           THEN Becomes(GiveUp(Warn([Top EXCEPT !.coming = {}, !.constituent = <<>>], {"conflict"})))
           ELSE Becomes([Top EXCEPT !.coming = @ \ {n}, !.pool =
                    IF Holds(@, item.id) /\ dupl = "Ignore" THEN @ ELSE Put(@, item)])
        /\ NoCallBegins /\ NothingRead

FinishDirective(i) ==
    /\ (In("tags") /\ Top.merging = <<>>) \/ (In("items") /\ Top.coming = {})
    /\ IsNext(Top, i)
    /\ Becomes(Pass([Top EXCEPT !.constituent = <<>>], i))
    /\ NoCallBegins /\ NothingRead

-----------------------------------------------------------------------------
(***************************************************************************)
(* The end of a frame and of a call.                                       *)
(***************************************************************************)
\* Mutant of Unextracted: a frame without an id is taken for a definition.
OnlyCategoryNeeded(f) == IF f.scope = "Item" /\ f.category = Nothing /\ f.id # Nothing THEN {"no category"} ELSE {}
\* _extract_item
Unextracted(f) ==
    IF f.id = Nothing THEN {"no id"}
    ELSE IF f.scope = "Item" /\ f.category = Nothing THEN {"no category"} ELSE {}
Extracted(f) == Unextracted(f) = {} /\ f.scope # "Dictionary"
ItemOf(c, f) == [id |-> f.id, scope |-> f.scope, category |-> f.category, tags |-> c.data,
                 source |-> c.base, from |-> c.uri, reading |-> c.reading]

EndFrame ==
    LET f == FrameOf(Top)
        c == Warn([Top EXCEPT !.phase = "frames"], Unextracted(f))
    IN  /\ In("directives") /\ Top.todo = {}
        /\ Becomes(IF Extracted(f) THEN [c EXCEPT !.primary = Append(@, ItemOf(Top, f))] ELSE c)
        /\ NoCallBegins /\ NothingRead

AllRead == In("frames") /\ Top.place = Len(Text(Top.uri, Top.reading).frames)

\* Mutant of Overlay: the file's own definitions do not overwrite what it imported.
ImportsFirst ==
    /\ AllRead /\ Top.primary # <<>>
    /\ Becomes([Top EXCEPT !.primary = Tail(@), !.pool =
           IF Holds(@, Head(Top.primary).id) THEN @ ELSE Put(@, Head(Top.primary))])
    /\ NoCallBegins /\ NothingRead
\* The file's own definitions over those it imported.
Overlay ==
    /\ AllRead /\ Top.primary # <<>>
    /\ Becomes([Top EXCEPT !.primary = Tail(@), !.pool = Put(@, Head(Top.primary))])
    /\ NoCallBegins /\ NothingRead

\* _build_lookup_tables: names first, then aliases that are still free, in order.
Aliases(item) == IF AliasTag \in DOMAIN item.tags THEN AliasNames[item.tags[AliasTag]] ELSE {}
TagToItem(items, name) ==
    IF Holds(items, name) THEN {k \in DOMAIN items : items[k].id = name}
    ELSE {k \in DOMAIN items : name \in Aliases(items[k]) /\
              \A j \in 1..k-1 : name \notin Aliases(items[j])}
AliasCollision(items) ==
    \E k \in DOMAIN items : \E name \in Aliases(items[k]) :
        Holds(items, name) \/ k \notin TagToItem(items, name)

ReturnTop ==
    LET t == IF AliasCollision(Top.pool) THEN Warn(Top, {"alias"}) ELSE Top
        n == Len(stack) - 1
    IN  /\ AllRead /\ Top.primary = <<>>
        /\ IF n = 0
           THEN /\ stack' = <<>> /\ UNCHANGED loading
                /\ result' = [uri |-> t.uri, base |-> t.base, reading |-> t.reading, items |-> t.pool,
                              warnings |-> t.warnings, sources |-> collected]
           ELSE /\ stack' = [SubSeq(stack, 1, n) EXCEPT ![n].phase = "items",
                                 ![n].constituent = t.pool, ![n].coming = DOMAIN t.pool,
                                 ![n].warnings = @ \cup t.warnings]
                /\ loading' = loading \ {t.uri}
                /\ UNCHANGED result
        /\ UNCHANGED <<files, settings, sourceCache, parseCache, collected, loads>>

-----------------------------------------------------------------------------
Directives ==
    \E i \in Top.todo :
        \/ SkipDirective(i) \/ MissTarget(i) \/ MergeTag(i) \/ FinishDirective(i)
        \/ \E n \in Top.coming : MergeItem(i, n)
        \/ \E k \in UsablePlaces(FrameOf(Top).imports[i]) :
               BlockConstituent(i, k) \/ RefuseConstituent(i, k) \/ EnterConstituent(i, k) \/ TakeFrame(i, k)
Step == BeginFrame \/ (stack # <<>> /\ Directives) \/ EndFrame \/ Overlay \/ ReturnTop

Next == Step \/ (\E u \in Uris : Load(u)) \/ (\E u \in Editable : Change(u))

\* load() runs in one thread until it returns.
Spec == Init /\ [][Next]_vars /\ WF_vars(Step)
===============================================================================

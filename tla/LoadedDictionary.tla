--------------------------- MODULE LoadedDictionary ---------------------------
(***************************************************************************)
(* What a caller of DictionaryLoader.load may rely on.                     *)
(***************************************************************************)
EXTENDS DictionaryLoader

\* The calls above the root are of different files, and `loading` is just those: so the
\* recursion is never deeper than there are files, whatever they import.
LoadingIsTheStack ==
    /\ loading = {stack[n].uri : n \in 2..Len(stack)}
    /\ \A m, n \in 2..Len(stack) : stack[m].uri = stack[n].uri => m = n

CallOK(c) ==
    /\ c.reading \in DOMAIN Files[c.uri]
    /\ c.place \in 0..Len(Text(c.uri, c.reading).frames)
    /\ c.phase # "frames" => c.place # 0 /\ c.todo \subseteq DOMAIN FrameOf(c).imports
    /\ c.coming # {} => c.phase = "items" /\ c.coming \subseteq DOMAIN c.constituent
CallsOK == \A n \in DOMAIN stack : CallOK(stack[n]) /\ (stack[n].phase = "waiting" <=> n # Len(stack))

TypeOK ==
    /\ library \in DOMAIN Libraries
    /\ version \in [Uris -> Nat] /\ \A u \in Uris : version[u] \in 0..Len(Files[u])
    /\ changes \in Nat /\ loads \in Nat
    /\ settings \in Settings
    /\ sourceCache \in [Uris -> Nat] /\ \A u \in Uris : sourceCache[u] \in 0..Len(Files[u])
    /\ parseCache \in [Uris -> Nat] /\ \A u \in Uris : parseCache[u] \in 0..Len(Files[u])
    /\ stack \in Seq(Call) /\ CallsOK /\ LoadingIsTheStack
    /\ loading \subseteq Uris
    /\ collected \in Seq(Uris)
    /\ result \in Dictionary \cup {Nothing}

\* Each file is seen in one version by all imports of a load, though it may change in the
\* meantime, and though the text of a constituent and its parsed frames are kept apart.
\* (The root's own text comes from the caller; a cycle that leads back to it reads it again.)
OneReadingOfEachFile ==
    result # Nothing =>
        \A m, n \in DOMAIN result.items :
            LET a == result.items[m]
                b == result.items[n]
            IN a.from = b.from /\ a.from # result.uri => a.reading = b.reading

-----------------------------------------------------------------------------
(***************************************************************************)
(* What a load leaves, by the files as they were read.                     *)
(***************************************************************************)
Defined(file) == {f.id : f \in {file.frames[k] : k \in {n \in DOMAIN file.frames : Extracted(file.frames[n])}}}
HeadsAt(u, name) == {k \in DOMAIN Text(u, parseCache[u]).frames :
    Finds(Text(u, parseCache[u]), name, k) /\ Text(u, parseCache[u]).frames[k].class = "Head"}
Constituents(file) ==
    {u \in Uris : \E k \in DOMAIN file.frames : \E i \in DOMAIN file.frames[k].imports :
        LET d == file.frames[k].imports[i] IN
        /\ ~Skipped(file.frames[k])
        /\ d.file = u /\ d.mode = "Full" /\ parseCache[u] # 0 /\ HeadsAt(u, d.save) # {}}

Root == Text(result.uri, result.reading)
\* The files that the root reaches through imports of heads: the least set closed under them.
Reached ==
    {u \in Uris : \A S \in SUBSET Uris :
        (Constituents(Root) \subseteq S /\
             \A v \in S : parseCache[v] # 0 => Constituents(Text(v, parseCache[v])) \subseteq S)
        => u \in S}

\* Something was left out: a directive, or what came after a conflict.  An import that is
\* circular is not among them, what it would bring comes from the call that is under way.
Losses == {"unusable", "missing", "aborted", "blocked", "conflict"}
Lossless == \A w \in result.warnings : w.kind \notin Losses

\* Without a warning of a loss the dictionary has every definition of every file that
\* imports lead to, through chains, diamonds and circles, and no others.
Complete ==
    {item.id : item \in {result.items[k] : k \in DOMAIN result.items}} =
        Defined(Root) \cup UNION {Defined(Text(u, parseCache[u])) : u \in Reached}

\* The root's own definitions win over imported ones, by whatever way those came and
\* whatever dupl says.
LocalFirst ==
    \A k \in DOMAIN result.items :
        LET item == result.items[k] IN
        item.id \in Defined(Root) => item.from = result.uri /\ item.reading = result.reading

\* A name that has a definition leads to it, never to another that lists it as an alias.
NamesLeadHome ==
    \A k \in DOMAIN result.items : TagToItem(result.items, result.items[k].id) = {k}

\* The files that definitions come from are listed.
SourcesListed ==
    settings.baseGiven => \A k \in DOMAIN result.items :
        \E n \in DOMAIN result.sources : result.sources[n] = result.items[k].source

DictionaryIsWhole ==
    result # Nothing =>
        (Lossless => Complete) /\ LocalFirst /\ NamesLeadHome /\ SourcesListed

\* Every load returns, whatever the files import, and while they change.
LoadsReturn == stack # <<>> ~> stack = <<>>
===============================================================================

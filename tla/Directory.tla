------------------------------ MODULE Directory ------------------------------
(***************************************************************************)
(* The blocks of a CifFile, or the save frames of a CifBlock: objects with *)
(* names, kept twice (cif_model.rs, writer.py).                            *)
(*   list    all of them, in file order (_block_list, _save_frame_list)    *)
(*   named   for a name, the identity of the object it looks up (_blocks,  *)
(*           _save_frames)                                                 *)
(* Names may repeat, since a parsed file keeps its duplicates; a lookup by *)
(* name is then meant to find the first.  An object is a record with an    *)
(* `id`, its identity, and a `name`.                                       *)
(***************************************************************************)
EXTENDS Naturals, Sequences
LOCAL INSTANCE SequencesExt
LOCAL INSTANCE FiniteSetsExt

Empty == [list |-> <<>>, named |-> <<>>]

Names(dir) == {dir.list[i].name : i \in DOMAIN dir.list}

\* The places of the objects of a name.
Places(dir, n) == {i \in DOMAIN dir.list : dir.list[i].name = n}

\* An identity no object of the list has.
NewId(dir) == Min((1 .. Len(dir.list) + 1) \ {dir.list[i].id : i \in DOMAIN dir.list})

Point(named, n, id) == [m \in DOMAIN named \cup {n} |-> IF m = n THEN id ELSE named[m]]
Drop(named, n) == [m \in DOMAIN named \ {n} |-> named[m]]

\* _add_block / _add_save_frame: a name keeps looking up its first object.
Add(dir, object) ==
    [list  |-> Append(dir.list, object),
     named |-> IF object.name \in DOMAIN dir.named THEN dir.named
               ELSE Point(dir.named, object.name, object.id)]

\* deepcopy, which builds the lookup anew.
Reindexed(dir) == FoldLeft(Add, Empty, dir.list)

\* Of the objects of a name, the last or the first.
OneNamed(dir, n, fromEnd) == IF fromEnd THEN Max(Places(dir, n)) ELSE Min(Places(dir, n))

\* Mutant of RemoveNamed: the lookup is dropped although the name has another object.
RemoveForgetsOthers(dir, n, fromEnd) ==
    [list |-> RemoveAt(dir.list, OneNamed(dir, n, fromEnd)), named |-> Drop(dir.named, n)]

\* remove_block / remove_save_frame
RemoveNamed(dir, n, fromEnd) ==
    LET rest == [dir EXCEPT !.list = RemoveAt(@, OneNamed(dir, n, fromEnd))] IN
    [rest EXCEPT !.named =
        IF n \in Names(rest) THEN Point(@, n, rest.list[Min(Places(rest, n))].id)
                             ELSE Drop(@, n)]

\* rename_block / rename_save_frame: the object found by the old name.
CanRename(dir, old, new) == old \in DOMAIN dir.named /\ new \notin DOMAIN dir.named

\* Mutant of Rename: the object is added anew under the name, and stays where it was.
RenameByAdding(dir, old, new) ==
    LET i == CHOOSE k \in DOMAIN dir.list : dir.list[k].id = dir.named[old] IN
    Add([dir EXCEPT !.named = Drop(@, old)], [dir.list[i] EXCEPT !.name = new])

Rename(dir, old, new) ==
    [list  |-> [i \in DOMAIN dir.list |->
                    IF dir.list[i].id = dir.named[old] THEN [dir.list[i] EXCEPT !.name = new]
                                                       ELSE dir.list[i]],
     named |-> Point(Drop(dir.named, old), new, dir.named[old])]

-----------------------------------------------------------------------------
IsDirectory(dir, fields) ==
    /\ dir = [list |-> dir.list, named |-> dir.named]
    /\ dir.list \in Seq({dir.list[i] : i \in DOMAIN dir.list})
    /\ \A i \in DOMAIN dir.list : DOMAIN dir.list[i] = fields /\ dir.list[i].id \in Nat \ {0}

Distinct(dir) == \A i, j \in DOMAIN dir.list : dir.list[i].id = dir.list[j].id => i = j

\* What loading makes, object by object: every name looks up the first of its objects.
Loaded(dir) ==
    Distinct(dir) /\ dir.named = [n \in Names(dir) |-> dir.list[Min(Places(dir, n))].id]

\* Every lookup finds an object of the list that bears the name.
LookupsSound(dir) ==
    \A n \in DOMAIN dir.named : \E i \in Places(dir, n) : dir.list[i].id = dir.named[n]

\* Names are unique, and every object of the list is found by its name.
LookupsExact(dir) ==
    /\ DOMAIN dir.named = Names(dir)
    /\ \A n \in Names(dir) : Places(dir, n) = {i \in DOMAIN dir.list : dir.list[i].id = dir.named[n]}

=============================================================================

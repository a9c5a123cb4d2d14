------------------------------ MODULE EditProofs ------------------------------
(***************************************************************************)
(* Facts about the edits of a file: what adding, removing and renaming an  *)
(* object leave of a list and its lookup, and what each edit of a          *)
(* namespace leaves of its order, its tags and its loops, whatever their   *)
(* size.                                                                   *)
(***************************************************************************)
EXTENDS FrameWriter, Directory, ListProofs
LOCAL INSTANCE SequencesExt
LOCAL INSTANCE FiniteSetsExt

-----------------------------------------------------------------------------
(***************************************************************************)
(* The operators of lists that directories are kept with.                  *)
(***************************************************************************)
LEMMA MinIsLeast ==
    ASSUME NEW T, T \subseteq Nat, T # {}
    PROVE  Min(T) \in T /\ \A x \in T : Min(T) <= x
  BY HasLeast DEF Min

LEMMA MaxIsGreatest ==
    ASSUME NEW n \in Nat, NEW T, T \subseteq 0 .. n, T # {}
    PROVE  Max(T) \in T /\ \A x \in T : x <= Max(T)
  BY HasGreatest DEF Max

LEMMA RemovedAt ==
    ASSUME NEW S, NEW s \in Seq(S), NEW k \in 1 .. Len(s)
    PROVE  /\ RemoveAt(s, k) \in Seq(S)
           /\ Len(RemoveAt(s, k)) = Len(s) - 1
           /\ \A i \in 1 .. Len(s) - 1 : RemoveAt(s, k)[i] = IF i < k THEN s[i] ELSE s[i + 1]
  BY WithoutOne DEF RemoveAt

-----------------------------------------------------------------------------
(***************************************************************************)
(* Directories.  Identities tell the objects apart, and a lookup finds an  *)
(* object that bears the name.                                             *)
(***************************************************************************)
DirInv(dir, fields) == IsDirectory(dir, fields) /\ Distinct(dir) /\ LookupsSound(dir)

\* Objects have an identity and a name.
Fields == {F \in SUBSET {"id", "name", "data", "frames"} : {"id", "name"} \subseteq F}

LEMMA ListTyped ==
    ASSUME NEW F, NEW dir, IsDirectory(dir, F)
    PROVE  /\ Len(dir.list) \in Nat /\ DOMAIN dir.list = 1 .. Len(dir.list)
           /\ \A n : Places(dir, n) \subseteq 1 .. Len(dir.list) /\ Places(dir, n) \subseteq Nat
           /\ \A n : n \in Names(dir) <=> Places(dir, n) # {}
  <1>1. Len(dir.list) \in Nat /\ DOMAIN dir.list = 1 .. Len(dir.list)
    BY DEF IsDirectory
  <1>2. QED
    BY <1>1 DEF Places, Names

\* A list of its own elements is one over any set that has them.
LEMMA OverItself ==
    ASSUME NEW s, NEW n \in Nat, NEW T, s \in [1 .. n -> T]
    PROVE  s \in Seq({s[i] : i \in DOMAIN s}) /\ Len(s) = n /\ DOMAIN s = 1 .. n
  <1> DEFINE R == {s[i] : i \in DOMAIN s}
  <1>1. DOMAIN s = 1 .. n /\ s = [i \in 1 .. n |-> s[i]]
    OBVIOUS
  <1>2. s \in [1 .. n -> R]
    BY <1>1
  <1> HIDE DEF R
  <1>3. s \in Seq(R)
    BY <1>2
  <1>4. QED
    BY <1>1, <1>3 DEF R

LEMMA ItsOwnList ==
    ASSUME NEW s, NEW n \in Nat, s = [i \in 1 .. n |-> s[i]]
    PROVE  s \in Seq({s[i] : i \in DOMAIN s}) /\ Len(s) = n
  <1>1. PICK T : T = {s[i] : i \in 1 .. n}
    OBVIOUS
  <1>2. s \in [1 .. n -> T]
    BY <1>1
  <1>3. QED
    BY <1>2, OverItself

LEMMA EmptyDirectory ==
    ASSUME NEW F
    PROVE  DirInv(Empty, F) /\ Loaded(Empty) /\ LookupsExact(Empty)
  <1>1. Empty.list = <<>> /\ Empty.named = <<>> /\ Empty = [list |-> <<>>, named |-> <<>>]
    BY DEF Empty
  <1>2. DOMAIN <<>> = {} /\ \A T : <<>> \in Seq(T)
    OBVIOUS
  <1>3. Names(Empty) = {} /\ \A n : Places(Empty, n) = {}
    BY <1>1, <1>2 DEF Names, Places
  <1>4. <<>> = [n \in {} |-> Empty.list[Min(Places(Empty, n))].id]
    OBVIOUS
  <1>5. QED
    BY <1>1, <1>2, <1>3, <1>4 DEF DirInv, IsDirectory, Distinct, LookupsSound, LookupsExact, Loaded

\* Looking up by name and by identity is all one to another list of objects with
\* these names and identities.
LEMMA SameObjects ==
    ASSUME NEW F, NEW dir, NEW e, DirInv(dir, F), IsDirectory(e, F), e.named = dir.named,
           Len(e.list) = Len(dir.list),
           \A i \in DOMAIN dir.list : e.list[i].id = dir.list[i].id /\ e.list[i].name = dir.list[i].name
    PROVE  DirInv(e, F) /\ (LookupsExact(dir) => LookupsExact(e))
  <1>1. DOMAIN e.list = DOMAIN dir.list
    BY ListTyped DEF DirInv
  <1>2. Names(e) = Names(dir) /\ \A n : Places(e, n) = Places(dir, n)
    BY <1>1 DEF Names, Places
  <1>3. Distinct(e)
    BY <1>1 DEF DirInv, Distinct
  <1>4. LookupsSound(e)
    BY <1>1, <1>2 DEF DirInv, LookupsSound, Places
  <1>5. LookupsExact(dir) => LookupsExact(e)
    <2> SUFFICES ASSUME LookupsExact(dir) PROVE LookupsExact(e)
      OBVIOUS
    <2>1. \A n \in Names(dir) : {i \in DOMAIN e.list : e.list[i].id = e.named[n]}
                                  = {i \in DOMAIN dir.list : dir.list[i].id = dir.named[n]}
      BY <1>1
    <2>2. QED
      BY <1>2, <2>1 DEF LookupsExact
  <1>6. QED
    BY <1>3, <1>4, <1>5 DEF DirInv

\* One object changed in a field that is not its identity or its name.
Changed(dir, k, field, v) ==
    [list |-> [dir.list EXCEPT ![k] = [@ EXCEPT ![field] = v]], named |-> dir.named]

LEMMA ChangeKeeps ==
    ASSUME NEW F \in Fields, NEW dir, NEW k, NEW field, field \in {"data", "frames"}, NEW v, DirInv(dir, F)
    PROVE  /\ DirInv(Changed(dir, k, field, v), F)
           /\ LookupsExact(dir) => LookupsExact(Changed(dir, k, field, v))
           /\ DOMAIN Changed(dir, k, field, v).list = DOMAIN dir.list
           /\ \A i \in DOMAIN dir.list : \A x \in F :
                Changed(dir, k, field, v).list[i][x] =
                    IF i = k /\ x = field THEN v ELSE dir.list[i][x]
  <1>1. PICK list : list = [dir.list EXCEPT ![k] = [@ EXCEPT ![field] = v]]
    OBVIOUS
  <1>2. PICK e : e = Changed(dir, k, field, v)
    OBVIOUS
  <1>3. e = [list |-> list, named |-> dir.named]
    BY <1>1, <1>2 DEF Changed
  <1>4. PICK n \in Nat : n = Len(dir.list) /\ DOMAIN dir.list = 1 .. n
    BY ListTyped DEF DirInv
  <1>5. /\ DOMAIN list = 1 .. n /\ list = [i \in 1 .. n |-> list[i]]
        /\ \A i \in 1 .. n : list[i] = IF i = k THEN [dir.list[i] EXCEPT ![field] = v] ELSE dir.list[i]
    BY <1>1, <1>4
  <1>6. list \in Seq({list[i] : i \in DOMAIN list}) /\ Len(list) = n
    BY <1>5, ItsOwnList
  <1>7. \A i \in 1 .. n : /\ DOMAIN dir.list[i] = F /\ dir.list[i].id \in Nat \ {0}
                          /\ {"id", "name"} \subseteq F
    BY <1>4 DEF DirInv, IsDirectory, Fields
  <1>8. ASSUME NEW i \in 1 .. n
        PROVE  /\ DOMAIN list[i] = F
               /\ \A x \in F : list[i][x] = IF i = k /\ x = field THEN v ELSE dir.list[i][x]
    <2>1. CASE i = k
      <3>1. list[i] = [x \in F |-> IF x = field THEN v ELSE dir.list[i][x]]
        BY <1>5, <1>7, <2>1
      <3>2. QED
        BY <2>1, <3>1
    <2>2. CASE i # k
      BY <1>5, <1>7, <2>2
    <2>3. QED
      BY <2>1, <2>2
  <1>9. field # "id" /\ field # "name"
    OBVIOUS
  <1>10. \A i \in 1 .. n : list[i].id = dir.list[i].id /\ list[i].name = dir.list[i].name
    BY <1>7, <1>8, <1>9
  <1>11. e.list = list /\ e.named = dir.named /\ e = [list |-> e.list, named |-> e.named]
    BY <1>3
  <1>12. IsDirectory(e, F)
    BY <1>5, <1>6, <1>7, <1>8, <1>10, <1>11 DEF IsDirectory
  <1>13. DirInv(e, F) /\ (LookupsExact(dir) => LookupsExact(e))
    BY <1>4, <1>6, <1>10, <1>11, <1>12, SameObjects
  <1>14. QED
    BY ZenonT(30), <1>2, <1>4, <1>5, <1>8, <1>11, <1>13

\* _add_block, _add_save_frame.  What loading makes, they make of what loading has made.
LEMMA AddKeeps ==
    ASSUME NEW F \in Fields, NEW dir, DirInv(dir, F),
           NEW object, DOMAIN object = F, object.id \in Nat \ {0},
           \A i \in DOMAIN dir.list : dir.list[i].id # object.id
    PROVE  /\ DirInv(Add(dir, object), F)
           /\ Loaded(dir) => Loaded(Add(dir, object))
           /\ LookupsExact(dir) /\ object.name \notin DOMAIN dir.named => LookupsExact(Add(dir, object))
           /\ Len(Add(dir, object).list) = Len(dir.list) + 1
           /\ \A i \in 1 .. Len(dir.list) : Add(dir, object).list[i] = dir.list[i]
           /\ Add(dir, object).list[Len(dir.list) + 1] = object
  <1> DEFINE e == Add(dir, object)
             n == Len(dir.list)
             T == {dir.list[i] : i \in DOMAIN dir.list} \cup {object}
  <1>1. n \in Nat /\ DOMAIN dir.list = 1 .. n /\ dir.list \in Seq(T)
    BY ListTyped DEF DirInv, IsDirectory
  <1>2. /\ e.list = Append(dir.list, object) /\ e = [list |-> e.list, named |-> e.named]
        /\ e.named = IF object.name \in DOMAIN dir.named THEN dir.named
                     ELSE Point(dir.named, object.name, object.id)
    BY DEF Add
  <1> HIDE DEF e
  <1>3. /\ e.list \in Seq(T) /\ Len(e.list) = n + 1
        /\ \A i \in 1 .. n : e.list[i] = dir.list[i]
        /\ e.list[n + 1] = object
    <2>1. object \in T
      OBVIOUS
    <2> HIDE DEF T
    <2>2. QED
      BY <1>1, <1>2, <2>1, AppendProperties
  <1>4. DOMAIN e.list = 1 .. n + 1 /\ e.list \in [1 .. n + 1 -> T]
    BY <1>1, <1>3
  <1>5. e.list \in Seq({e.list[i] : i \in DOMAIN e.list})
    <2>1. n + 1 \in Nat /\ e.list \in [1 .. n + 1 -> T]
      BY <1>1, <1>4
    <2> HIDE DEF n, T
    <2>2. QED
      BY <2>1, OverItself, Zenon
  <1>6. \A i \in 1 .. n + 1 : i \in 1 .. n \/ i = n + 1
    BY <1>1
  <1>7. IsDirectory(e, F)
    BY SMTT(30), <1>1, <1>2, <1>3, <1>4, <1>5, <1>6 DEF DirInv, IsDirectory
  <1>8. Distinct(e)
    BY <1>1, <1>3, <1>4, <1>6 DEF DirInv, Distinct
  <1>9. \A m : Places(e, m) = IF m = object.name THEN Places(dir, m) \cup {n + 1} ELSE Places(dir, m)
    BY SMTT(30), <1>1, <1>3, <1>4, <1>6 DEF Places
  <1>10. Names(e) = Names(dir) \cup {object.name}
    <2>1. \A x \in Names(dir) : x \in Names(e)
      BY <1>1, <1>3, <1>4 DEF Names
    <2>2. object.name \in Names(e)
      BY <1>1, <1>3, <1>4 DEF Names
    <2>3. \A x \in Names(e) : x \in Names(dir) \/ x = object.name
      BY SMTT(30), <1>1, <1>3, <1>4, <1>6 DEF Names
    <2>4. QED
      BY <2>1, <2>2, <2>3
  <1>11. \A m \in DOMAIN e.named : e.named[m] = IF m \in DOMAIN dir.named THEN dir.named[m] ELSE object.id
    BY <1>2 DEF Point
  <1>12. DOMAIN e.named = DOMAIN dir.named \cup {object.name}
    BY <1>2 DEF Point
  <1>13. LookupsSound(e)
    <2> SUFFICES ASSUME NEW m \in DOMAIN e.named
                 PROVE  \E i \in Places(e, m) : e.list[i].id = e.named[m]
      BY DEF LookupsSound
    <2>1. CASE m \in DOMAIN dir.named
      <3>1. PICK i \in Places(dir, m) : dir.list[i].id = dir.named[m]
        BY <2>1 DEF DirInv, LookupsSound
      <3>2. i \in Places(e, m) /\ i \in 1 .. n
        BY <1>1, <1>9 DEF Places
      <3>3. QED
        BY <1>3, <1>11, <2>1, <3>1, <3>2
    <2>2. CASE m \notin DOMAIN dir.named
      <3>1. m = object.name /\ n + 1 \in Places(e, m) /\ e.named[m] = object.id
        BY <1>9, <1>11, <1>12, <2>2
      <3>2. QED
        BY <1>3, <3>1
    <2>3. QED
      BY <2>1, <2>2
  <1>14. ASSUME Loaded(dir) PROVE Loaded(e)
    <2>1. DOMAIN dir.named = Names(dir) /\ DOMAIN e.named = Names(e)
      BY <1>10, <1>12, <1>14 DEF Loaded
    <2>2. ASSUME NEW m \in Names(e) PROVE e.named[m] = e.list[Min(Places(e, m))].id
      <3>1. CASE m \in Names(dir)
        <4>1. Places(dir, m) # {} /\ Places(dir, m) \subseteq 1 .. n /\ Places(dir, m) \subseteq Nat
          BY <3>1, ListTyped DEF DirInv
        <4>2. Min(Places(dir, m)) \in Places(dir, m) /\ \A x \in Places(dir, m) : Min(Places(dir, m)) <= x
          BY <4>1, MinIsLeast
        <4>3. /\ Min(Places(e, m)) \in Places(e, m)
              /\ \A x \in Places(e, m) : Min(Places(e, m)) <= x
              /\ Places(e, m) \subseteq Nat
          <5>1. Places(e, m) # {} /\ Places(e, m) \subseteq Nat
            BY <1>1, <1>9, <4>1
          <5>2. QED
            BY <5>1, MinIsLeast
        <4>4. Min(Places(e, m)) = Min(Places(dir, m))
          <5>1. PICK a : a = Min(Places(e, m))
            OBVIOUS
          <5>2. PICK b : b = Min(Places(dir, m))
            OBVIOUS
          <5>3. b \in Places(e, m) /\ a <= b /\ b \in 1 .. n /\ a \in Nat
            BY <1>9, <4>1, <4>2, <4>3, <5>1, <5>2
          <5>4. a # n + 1
            BY <1>1, <5>3
          <5>5. a \in Places(dir, m)
            BY <1>9, <4>3, <5>1, <5>4
          <5>6. b <= a
            BY <4>2, <5>2, <5>5
          <5>7. QED
            BY <5>1, <5>2, <5>3, <5>6
        <4>5. e.named[m] = dir.named[m] /\ dir.named[m] = dir.list[Min(Places(dir, m))].id
          BY <1>11, <1>14, <2>1, <3>1 DEF Loaded
        <4>6. QED
          BY <1>3, <4>1, <4>2, <4>4, <4>5
      <3>2. CASE m \notin Names(dir)
        <4>1. m = object.name /\ Places(dir, m) = {}
          BY <1>10, <2>2, <3>2, ListTyped DEF DirInv
        <4>2. Places(e, m) = {n + 1}
          BY <1>9, <4>1
        <4>3. Min({n + 1}) = n + 1
          <5>1. PICK T1 : T1 = {n + 1}
            OBVIOUS
          <5>2. T1 \subseteq Nat /\ T1 # {}
            BY <1>1, <5>1
          <5>3. QED
            BY <5>1, <5>2, MinIsLeast
        <4>4. e.named[m] = object.id
          BY <1>11, <2>1, <2>2, <3>2
        <4>5. QED
          BY <1>3, <4>2, <4>3, <4>4
      <3>3. QED
        BY <3>1, <3>2
    <2>3. e.named = [m \in DOMAIN e.named |-> e.named[m]]
      <3>1. dir.named = [m \in DOMAIN dir.named |-> dir.named[m]]
        BY <1>14 DEF Loaded
      <3>2. QED
        BY <1>2, <3>1 DEF Point
    <2>4. e.named = [m \in Names(e) |-> e.list[Min(Places(e, m))].id]
      BY <2>1, <2>2, <2>3
    <2>5. QED
      BY <1>8, <2>4 DEF Loaded
  <1>15. ASSUME LookupsExact(dir), object.name \notin DOMAIN dir.named PROVE LookupsExact(e)
    <2>1. DOMAIN e.named = Names(e) /\ DOMAIN dir.named = Names(dir)
      BY <1>10, <1>12, <1>15 DEF LookupsExact
    <2>2. ASSUME NEW m \in Names(e) PROVE Places(e, m) = {i \in DOMAIN e.list : e.list[i].id = e.named[m]}
      <3>1. CASE m \in Names(dir)
        <4>1. /\ Places(dir, m) = {i \in DOMAIN dir.list : dir.list[i].id = dir.named[m]}
              /\ e.named[m] = dir.named[m] /\ m # object.name
          BY <1>11, <1>15, <2>1, <3>1 DEF LookupsExact
        <4>2. dir.named[m] # object.id
          BY <3>1, <2>1 DEF DirInv, LookupsSound, Places
        <4>3. Places(e, m) = Places(dir, m)
          BY <1>9, <4>1
        <4>4. QED
          BY SMTT(30), <1>1, <1>3, <1>4, <1>6, <4>1, <4>2, <4>3
      <3>2. CASE m \notin Names(dir)
        <4>1. m = object.name /\ Places(dir, m) = {} /\ e.named[m] = object.id
          BY <1>10, <1>11, <2>1, <2>2, <3>2, ListTyped DEF DirInv
        <4>2. Places(e, m) = {n + 1}
          BY <1>9, <4>1
        <4>3. QED
          BY SMTT(30), <1>1, <1>3, <1>4, <1>6, <4>1, <4>2
      <3>3. QED
        BY <3>1, <3>2
    <2>3. QED
      BY <2>1, <2>2 DEF LookupsExact
  <1>16. QED
    BY <1>3, <1>7, <1>8, <1>13, <1>14, <1>15 DEF DirInv, e

LEMMA NewIdIsNew ==
    ASSUME NEW F, NEW dir, DirInv(dir, F)
    PROVE  NewId(dir) \in Nat \ {0} /\ \A i \in DOMAIN dir.list : dir.list[i].id # NewId(dir)
  <1> DEFINE n == Len(dir.list)
             f == [i \in 1 .. n |-> dir.list[i].id]
             T == (1 .. n + 1) \ {f[i] : i \in 1 .. n}
  <1>1. n \in Nat /\ DOMAIN dir.list = 1 .. n
    BY ListTyped DEF DirInv
  <1>2. T # {}
    <2> HIDE DEF f
    <2>1. QED
      BY <1>1, HasRoom
  <1>3. T = (1 .. n + 1) \ {dir.list[i].id : i \in DOMAIN dir.list}
    BY <1>1
  <1>4. T \subseteq Nat
    BY <1>1
  <1> HIDE DEF T
  <1>5. Min(T) \in T
    BY <1>2, <1>4, MinIsLeast
  <1>6. NewId(dir) = Min(T)
    BY <1>3 DEF NewId
  <1>7. NewId(dir) \in 1 .. n + 1 /\ NewId(dir) \notin {dir.list[i].id : i \in DOMAIN dir.list}
    BY <1>3, <1>5, <1>6
  <1>8. QED
    BY <1>1, <1>7

\* The places of the objects once the one at k is gone.
MovedUp(k, i) == IF i < k THEN i ELSE i + 1

\* remove_block, remove_save_frame
LEMMA RemoveKeeps ==
    ASSUME NEW F, NEW dir, DirInv(dir, F), NEW m \in DOMAIN dir.named, NEW fromEnd \in BOOLEAN
    PROVE  /\ DirInv(RemoveNamed(dir, m, fromEnd), F)
           /\ LookupsExact(dir) => LookupsExact(RemoveNamed(dir, m, fromEnd))
           /\ \A i \in DOMAIN RemoveNamed(dir, m, fromEnd).list :
                \E j \in DOMAIN dir.list : RemoveNamed(dir, m, fromEnd).list[i] = dir.list[j]
           /\ OneNamed(dir, m, fromEnd) \in Places(dir, m)
           /\ RemoveNamed(dir, m, fromEnd).list = RemoveAt(dir.list, OneNamed(dir, m, fromEnd))
  <1> DEFINE n == Len(dir.list)
             k == OneNamed(dir, m, fromEnd)
             T == {dir.list[i] : i \in DOMAIN dir.list}
             rest == [dir EXCEPT !.list = RemoveAt(@, k)]
             e == RemoveNamed(dir, m, fromEnd)
  <1>1. n \in Nat /\ DOMAIN dir.list = 1 .. n /\ dir.list \in Seq(T)
    BY ListTyped DEF DirInv, IsDirectory
  <1>2. Places(dir, m) # {} /\ Places(dir, m) \subseteq 1 .. n /\ Places(dir, m) \subseteq Nat
    BY ListTyped DEF DirInv, LookupsSound
  <1>3. k \in Places(dir, m) /\ k \in 1 .. n
    <2>1. Min(Places(dir, m)) \in Places(dir, m)
      BY <1>2, MinIsLeast
    <2>2. Max(Places(dir, m)) \in Places(dir, m)
      <3>1. Places(dir, m) \subseteq 0 .. n
        BY <1>1, <1>2
      <3>2. QED
        BY <1>1, <1>2, <3>1, MaxIsGreatest
    <2>3. QED
      BY <1>2, <2>1, <2>2 DEF OneNamed
  <1>4. /\ e.list = RemoveAt(dir.list, k) /\ e = [list |-> e.list, named |-> e.named]
        /\ e.named = IF m \in Names(rest)
                     THEN Point(dir.named, m, rest.list[Min(Places(rest, m))].id)
                     ELSE Drop(dir.named, m)
        /\ rest = [list |-> RemoveAt(dir.list, k), named |-> dir.named]
    <2>1. dir = [list |-> dir.list, named |-> dir.named]
      BY DEF DirInv, IsDirectory
    <2>2. e = [rest EXCEPT !.named =
                 IF m \in Names(rest) THEN Point(@, m, rest.list[Min(Places(rest, m))].id)
                                      ELSE Drop(@, m)]
      BY DEF RemoveNamed
    <2> HIDE DEF e, k
    <2>3. rest = [list |-> RemoveAt(dir.list, k), named |-> dir.named]
      BY <2>1
    <2> HIDE DEF rest
    <2>4. QED
      BY <2>2, <2>3
  <1> HIDE DEF e, k, rest, T
  <1>5. /\ e.list \in Seq(T) /\ Len(e.list) = n - 1
        /\ \A i \in 1 .. n - 1 : e.list[i] = dir.list[MovedUp(k, i)]
    BY SMTT(30), <1>1, <1>3, <1>4, RemovedAt DEF MovedUp
  <1>6. DOMAIN e.list = 1 .. n - 1 /\ n - 1 \in Nat /\ e.list \in [1 .. n - 1 -> T]
    BY <1>1, <1>3, <1>5
  <1>7. e.list \in Seq({e.list[i] : i \in DOMAIN e.list})
    BY <1>6, OverItself
  <1>8. /\ \A i \in 1 .. n - 1 : MovedUp(k, i) \in 1 .. n /\ MovedUp(k, i) # k
        /\ \A i, j \in 1 .. n - 1 : MovedUp(k, i) = MovedUp(k, j) => i = j
        /\ \A j \in 1 .. n : j # k => \E i \in 1 .. n - 1 : MovedUp(k, i) = j
    <2>1. \A j \in 1 .. n : j # k => \E i \in 1 .. n - 1 : MovedUp(k, i) = j
      <3> SUFFICES ASSUME NEW j \in 1 .. n, j # k PROVE \E i \in 1 .. n - 1 : MovedUp(k, i) = j
        OBVIOUS
      <3>1. CASE j < k
        <4>1. j \in 1 .. n - 1 /\ MovedUp(k, j) = j
          BY <1>1, <1>3, <3>1 DEF MovedUp
        <4>2. QED
          BY <4>1
      <3>2. CASE j > k
        <4>1. j - 1 \in 1 .. n - 1 /\ MovedUp(k, j - 1) = j
          BY <1>1, <1>3, <3>2 DEF MovedUp
        <4>2. QED
          BY <4>1
      <3>3. QED
        BY <1>1, <1>3, <3>1, <3>2
    <2>2. QED
      BY <1>1, <1>3, <2>1 DEF MovedUp
  <1>9. IsDirectory(e, F)
    <2>1. \A i \in 1 .. n - 1 : DOMAIN e.list[i] = F /\ e.list[i].id \in Nat \ {0}
      <3> SUFFICES ASSUME NEW i \in 1 .. n - 1
                   PROVE  DOMAIN e.list[i] = F /\ e.list[i].id \in Nat \ {0}
        OBVIOUS
      <3>1. PICK j \in 1 .. n : e.list[i] = dir.list[j]
        BY <1>5, <1>8
      <3>2. QED
        BY <1>1, <3>1 DEF DirInv, IsDirectory
    <2>2. e = [list |-> e.list, named |-> e.named]
      BY <1>4
    <2>3. QED
      BY <1>6, <1>7, <2>1, <2>2 DEF IsDirectory
  <1>10. Distinct(e)
    <2> SUFFICES ASSUME NEW i \in 1 .. n - 1, NEW j \in 1 .. n - 1, e.list[i].id = e.list[j].id
                 PROVE  i = j
      BY <1>6 DEF Distinct
    <2>1. PICK a \in 1 .. n : a = MovedUp(k, i)
      BY <1>8
    <2>2. PICK b \in 1 .. n : b = MovedUp(k, j)
      BY <1>8
    <2>3. dir.list[a].id = dir.list[b].id
      BY <1>5, <2>1, <2>2
    <2>4. a = b
      BY <1>1, <2>3 DEF DirInv, Distinct
    <2>5. QED
      BY <1>8, <2>1, <2>2, <2>4
  <1>11. \A x : /\ \A i \in Places(e, x) : i \in 1 .. n - 1 /\ MovedUp(k, i) \in Places(dir, x)
                /\ \A j \in Places(dir, x) : j # k => \E i \in Places(e, x) : MovedUp(k, i) = j
    BY <1>1, <1>5, <1>6, <1>8 DEF Places
  <1>12. Places(rest, m) = Places(e, m) /\ rest.list = e.list /\ (m \in Names(rest) <=> Places(e, m) # {})
    <2>1. rest.list = e.list
      BY <1>4
    <2>2. QED
      BY <2>1 DEF Places, Names
  <1>13. LookupsSound(e)
    <2> SUFFICES ASSUME NEW x \in DOMAIN e.named
                 PROVE  \E i \in Places(e, x) : e.list[i].id = e.named[x]
      BY DEF LookupsSound
    <2>1. CASE x = m
      <3>1. Places(e, m) # {}
        BY <1>4, <1>12, <2>1 DEF Drop
      <3>2. Places(e, m) \subseteq Nat
        BY <1>11
      <3>3. Min(Places(e, m)) \in Places(e, m)
        BY <3>1, <3>2, MinIsLeast
      <3>4. e.named[x] = e.list[Min(Places(e, m))].id
        BY <1>4, <1>12, <2>1, <3>1 DEF Point
      <3>5. QED
        BY <2>1, <3>3, <3>4
    <2>2. CASE x # m
      <3>1. x \in DOMAIN dir.named /\ e.named[x] = dir.named[x]
        BY <1>4, <2>2 DEF Point, Drop
      <3>2. PICK j \in Places(dir, x) : dir.list[j].id = dir.named[x]
        BY <3>1 DEF DirInv, LookupsSound
      <3>3. j # k
        BY <1>3, <2>2 DEF Places
      <3>4. PICK i \in Places(e, x) : MovedUp(k, i) = j
        BY <1>11, <3>3
      <3>5. QED
        BY <1>5, <1>11, <3>1, <3>2, <3>4
    <2>3. QED
      BY <2>1, <2>2
  <1>14. ASSUME LookupsExact(dir) PROVE LookupsExact(e)
    <2>1. DOMAIN dir.named = Names(dir) /\ Places(dir, m) = {k}
      <3>1. Places(dir, m) = {i \in DOMAIN dir.list : dir.list[i].id = dir.named[m]} /\ DOMAIN dir.named = Names(dir)
        BY <1>14 DEF LookupsExact
      <3>2. \A i \in Places(dir, m) : i = k
        BY <1>3, <3>1 DEF DirInv, Distinct
      <3>3. QED
        BY <1>3, <3>1, <3>2
    <2>2. Places(e, m) = {}
      BY <1>8, <1>11, <2>1
    <2>3. e.named = Drop(dir.named, m)
      BY <1>4, <1>12, <2>2
    <2>4. \A x : x # m => (x \in Names(e) <=> x \in Names(dir))
      <3> SUFFICES ASSUME NEW x, x # m PROVE x \in Names(e) <=> x \in Names(dir)
        OBVIOUS
      <3>1. k \notin Places(dir, x)
        BY <1>3 DEF Places
      <3>2. Places(e, x) # {} <=> Places(dir, x) # {}
        BY <1>11, <3>1
      <3>3. QED
        BY <1>9, <3>2, ListTyped DEF DirInv
    <2>5. m \notin Names(e)
      BY <1>9, <2>2, ListTyped
    <2>6. DOMAIN e.named = Names(e)
      BY <2>1, <2>3, <2>4, <2>5 DEF Drop
    <2>7. ASSUME NEW x \in Names(e) PROVE Places(e, x) = {i \in DOMAIN e.list : e.list[i].id = e.named[x]}
      <3>1. x # m /\ x \in Names(dir) /\ e.named[x] = dir.named[x]
        BY <2>3, <2>4, <2>5, <2>6, <2>7 DEF Drop
      <3>2. Places(dir, x) = {i \in DOMAIN dir.list : dir.list[i].id = dir.named[x]}
        BY <1>14, <3>1 DEF LookupsExact
      <3>3. \A i \in 1 .. n - 1 : i \in Places(e, x) <=> MovedUp(k, i) \in Places(dir, x)
        BY <1>1, <1>5, <1>6, <1>8 DEF Places
      <3>4. \A i \in 1 .. n - 1 : MovedUp(k, i) \in Places(dir, x) <=> e.list[i].id = e.named[x]
        BY <1>1, <1>5, <1>8, <3>1, <3>2
      <3>5. Places(e, x) \subseteq 1 .. n - 1
        BY <1>11
      <3>6. QED
        BY <1>6, <3>3, <3>4, <3>5
    <2>8. QED
      BY <2>6, <2>7 DEF LookupsExact
  <1>15. \A i \in DOMAIN e.list : \E j \in DOMAIN dir.list : e.list[i] = dir.list[j]
    BY <1>1, <1>5, <1>6, <1>8
  <1>16. DirInv(e, F)
    BY <1>9, <1>10, <1>13 DEF DirInv
  <1>17. QED
    BY <1>3, <1>4, <1>14, <1>15, <1>16 DEF e, k

\* rename_block, rename_save_frame
LEMMA RenameKeeps ==
    ASSUME NEW F \in Fields, NEW dir, DirInv(dir, F), NEW old, NEW new, CanRename(dir, old, new)
    PROVE  /\ DirInv(Rename(dir, old, new), F)
           /\ LookupsExact(dir) => LookupsExact(Rename(dir, old, new))
           /\ DOMAIN Rename(dir, old, new).list = DOMAIN dir.list
           /\ \A j \in DOMAIN dir.list : \A x \in F \ {"name"} :
                Rename(dir, old, new).list[j][x] = dir.list[j][x]
  <1> DEFINE n == Len(dir.list)
             e == Rename(dir, old, new)
  <1>1. n \in Nat /\ DOMAIN dir.list = 1 .. n
    BY ListTyped DEF DirInv
  <1>2. PICK i \in 1 .. n : i \in Places(dir, old) /\ dir.list[i].id = dir.named[old]
    BY <1>1 DEF CanRename, DirInv, LookupsSound, Places
  <1>3. \A j \in 1 .. n : dir.list[j].id = dir.named[old] <=> j = i
    BY <1>1, <1>2 DEF DirInv, Distinct
  <1>4. \A j \in 1 .. n : DOMAIN dir.list[j] = F /\ dir.list[j].id \in Nat \ {0} /\ {"id", "name"} \subseteq F
    BY <1>1 DEF DirInv, IsDirectory, Fields
  <1>5. /\ e.list = [j \in 1 .. n |-> IF dir.list[j].id = dir.named[old]
                                      THEN [dir.list[j] EXCEPT !.name = new] ELSE dir.list[j]]
        /\ e.named = Point(Drop(dir.named, old), new, dir.named[old])
        /\ e = [list |-> e.list, named |-> e.named]
    BY <1>1 DEF Rename
  <1> HIDE DEF e
  <1>6. /\ DOMAIN e.list = 1 .. n /\ e.list = [j \in 1 .. n |-> e.list[j]]
        /\ \A j \in 1 .. n : e.list[j] = IF j = i THEN [dir.list[j] EXCEPT !.name = new] ELSE dir.list[j]
    BY <1>3, <1>5
  <1>7. e.list \in Seq({e.list[j] : j \in DOMAIN e.list}) /\ Len(e.list) = n
    BY <1>1, <1>6, ItsOwnList
  <1>8. \A j \in 1 .. n : /\ DOMAIN e.list[j] = F /\ e.list[j].id = dir.list[j].id
                          /\ e.list[j].name = IF j = i THEN new ELSE dir.list[j].name
                          /\ \A x \in F \ {"name"} : e.list[j][x] = dir.list[j][x]
    BY <1>4, <1>6
  <1>9. IsDirectory(e, F)
    BY <1>4, <1>5, <1>6, <1>7, <1>8 DEF IsDirectory
  <1>10. Distinct(e)
    BY <1>1, <1>6, <1>8 DEF DirInv, Distinct
  <1>11. \A x : Places(e, x) = IF x = new THEN Places(dir, x) \cup {i} ELSE Places(dir, x) \ {i}
    BY ZenonT(30), <1>1, <1>6, <1>8 DEF Places
  <1>12. /\ DOMAIN e.named = (DOMAIN dir.named \ {old}) \cup {new}
         /\ \A x \in DOMAIN e.named : e.named[x] = IF x = new THEN dir.named[old] ELSE dir.named[x]
    BY <1>5 DEF Point, Drop
  <1>13. LookupsSound(e)
    <2> SUFFICES ASSUME NEW x \in DOMAIN e.named
                 PROVE  \E j \in Places(e, x) : e.list[j].id = e.named[x]
      BY DEF LookupsSound
    <2>1. CASE x = new
      BY <1>2, <1>8, <1>11, <1>12, <2>1
    <2>2. CASE x # new
      <3>1. x \in DOMAIN dir.named /\ x # old /\ e.named[x] = dir.named[x]
        BY <1>12, <2>2
      <3>2. PICK j \in Places(dir, x) : dir.list[j].id = dir.named[x]
        BY <3>1 DEF DirInv, LookupsSound
      <3>3. j \in 1 .. n /\ j # i
        BY <1>1, <1>2, <3>1, <3>2 DEF Places
      <3>4. QED
        BY <1>8, <1>11, <2>2, <3>1, <3>2, <3>3
    <2>3. QED
      BY <2>1, <2>2
  <1>14. ASSUME LookupsExact(dir) PROVE LookupsExact(e)
    <2>1. DOMAIN dir.named = Names(dir) /\ Places(dir, old) = {i} /\ Places(dir, new) = {} /\ old # new
      <3>1. /\ Places(dir, old) = {j \in DOMAIN dir.list : dir.list[j].id = dir.named[old]}
            /\ DOMAIN dir.named = Names(dir)
        BY <1>14 DEF LookupsExact, CanRename
      <3>2. Places(dir, old) = {i}
        BY <1>1, <1>3, <3>1
      <3>3. QED
        BY <3>1, <3>2, ListTyped DEF CanRename, DirInv
    <2>2. Places(e, old) = {} /\ Places(e, new) = {i}
      BY <1>11, <2>1
    <2>3. \A x : x # old /\ x # new => Places(e, x) = Places(dir, x)
      BY <1>2, <1>11 DEF Places
    <2>4. DOMAIN e.named = Names(e)
      <3>1. \A x : x \in Names(e) <=> x = new \/ (x # old /\ x \in Names(dir))
        BY <1>9, <2>1, <2>2, <2>3, ListTyped DEF DirInv
      <3>2. \A x : x \in DOMAIN e.named <=> x \in Names(e)
        BY <1>12, <2>1, <3>1
      <3>3. QED
        BY <3>2
    <2>5. ASSUME NEW x \in Names(e) PROVE Places(e, x) = {j \in DOMAIN e.list : e.list[j].id = e.named[x]}
      <3>1. CASE x = new
        <4>1. e.named[x] = dir.named[old]
          BY <1>12, <3>1
        <4>2. \A j \in 1 .. n : e.list[j].id = e.named[x] <=> j = i
          BY <1>3, <1>8, <4>1
        <4>3. QED
          BY <1>6, <2>2, <3>1, <4>2
      <3>2. CASE x # new
        <4>1. x # old /\ x \in Names(dir) /\ e.named[x] = dir.named[x]
          BY <1>12, <2>1, <2>4, <2>5, <3>2
        <4>2. Places(dir, x) = {j \in DOMAIN dir.list : dir.list[j].id = dir.named[x]}
          BY <1>14, <4>1 DEF LookupsExact
        <4>3. Places(e, x) = Places(dir, x)
          BY <2>3, <3>2, <4>1
        <4>4. {j \in DOMAIN e.list : e.list[j].id = e.named[x]}
                = {j \in DOMAIN dir.list : dir.list[j].id = dir.named[x]}
          BY <1>1, <1>6, <1>8, <4>1
        <4>5. QED
          BY <4>2, <4>3, <4>4
      <3>3. QED
        BY <3>1, <3>2
    <2>6. QED
      BY <2>4, <2>5 DEF LookupsExact
  <1>15. QED
    BY <1>1, <1>6, <1>8, <1>9, <1>10, <1>13, <1>14 DEF DirInv, e

-----------------------------------------------------------------------------
(***************************************************************************)
(* Namespaces.  Every tag of a loop has a column, and is in no other loop; *)
(* the columns of a loop have one length, any other tag has one value.     *)
(***************************************************************************)
IsList(s) == s \in Seq({s[i] : i \in DOMAIN s})

InLoop(L, t) == \E i \in DOMAIN L : \E k \in DOMAIN L[i] : L[i][k] = t

Columned(T, L) ==
    /\ T = [t \in DOMAIN T |-> T[t]] /\ \A t \in DOMAIN T : IsList(T[t])
    /\ IsList(L) /\ \A i \in DOMAIN L : IsList(L[i]) /\ \A k \in DOMAIN L[i] : L[i][k] \in DOMAIN T
OnceEach(L) ==
    \A i, j \in DOMAIN L : \A k \in DOMAIN L[i], l \in DOMAIN L[j] : L[i][k] = L[j][l] => i = j /\ k = l
Lengths(T, L) ==
    /\ \A i \in DOMAIN L : \A k, l \in DOMAIN L[i] : Len(T[L[i][k]]) = Len(T[L[i][l]])
    /\ \A t \in DOMAIN T : ~InLoop(L, t) => Len(T[t]) = 1
Shaped(T, L, even) == Columned(T, L) /\ OnceEach(L) /\ (even => Lengths(T, L))

Balanced(d, even) ==
    d = [order |-> d.order, tags |-> d.tags, loops |-> d.loops] /\ Shaped(d.tags, d.loops, even)

LEMMA OnlyOnce ==
    ASSUME NEW L, OnceEach(L), NEW i \in DOMAIN L, NEW j \in DOMAIN L,
           NEW k \in DOMAIN L[i], NEW l \in DOMAIN L[j], L[i][k] = L[j][l]
    PROVE  i = j /\ k = l
  BY DEF OnceEach

LEMMA ListFacts ==
    ASSUME NEW s, IsList(s)
    PROVE  Len(s) \in Nat /\ DOMAIN s = 1 .. Len(s) /\ s = [i \in 1 .. Len(s) |-> s[i]]
  <1>1. s \in Seq({s[i] : i \in DOMAIN s})
    BY DEF IsList
  <1>2. QED
    BY <1>1

LEMMA IsListOver ==
    ASSUME NEW S, NEW s \in Seq(S)
    PROVE  IsList(s)
  <1>1. Len(s) \in Nat /\ s \in [1 .. Len(s) -> S]
    OBVIOUS
  <1>2. QED
    BY <1>1, OverItself DEF IsList

LEMMA ListOverPlaces ==
    ASSUME NEW s, NEW n \in Nat, s = [i \in 1 .. n |-> s[i]]
    PROVE  IsList(s)
  BY ItsOwnList DEF IsList

LEMMA ListOfOne ==
    ASSUME NEW x
    PROVE  IsList(<<x>>) /\ Len(<<x>>) = 1 /\ <<x>>[1] = x
  <1>1. <<x>> \in Seq({x})
    OBVIOUS
  <1>2. QED
    BY <1>1, IsListOver

LEMMA Appended ==
    ASSUME NEW s, IsList(s), NEW x
    PROVE  /\ IsList(Append(s, x)) /\ Len(Append(s, x)) = Len(s) + 1
           /\ DOMAIN Append(s, x) = 1 .. Len(s) + 1 /\ Append(s, x)[Len(s) + 1] = x
           /\ \A i \in DOMAIN s : Append(s, x)[i] = s[i]
  <1>1. PICK S : S = {s[i] : i \in DOMAIN s} \cup {x}
    OBVIOUS
  <1>2. s \in Seq({s[i] : i \in DOMAIN s}) /\ Len(s) \in Nat /\ DOMAIN s = 1 .. Len(s)
    BY DEF IsList
  <1>3. s \in Seq(S)
    <2>1. s \in [1 .. Len(s) -> S]
      BY <1>1, <1>2
    <2>2. QED
      BY <1>2, <2>1
  <1>4. x \in S
    BY <1>1
  <1>5. Append(s, x) \in Seq(S)
    BY <1>3, <1>4
  <1>6. IsList(Append(s, x))
    BY <1>5, IsListOver
  <1>7. QED
    BY <1>2, <1>3, <1>4, <1>6

LEMMA Replaced ==
    ASSUME NEW s, IsList(s), NEW i \in DOMAIN s, NEW x, NEW r, r = [s EXCEPT ![i] = x]
    PROVE  /\ IsList(r) /\ DOMAIN r = DOMAIN s /\ r[i] = x
           /\ \A j \in DOMAIN s : j # i => r[j] = s[j]
  <1>1. Len(s) \in Nat /\ DOMAIN s = 1 .. Len(s)
    BY ListFacts
  <1>2. r = [s EXCEPT ![i] = x]
    OBVIOUS
  <1>3. r = [j \in 1 .. Len(s) |-> r[j]] /\ DOMAIN r = DOMAIN s
    BY <1>1, <1>2
  <1>4. IsList(r)
    BY <1>1, <1>3, ListOverPlaces
  <1>5. QED
    BY <1>2, <1>3, <1>4

\* set_tag: a new tag with one value.
LEMMA NewScalar ==
    ASSUME NEW even, NEW T, NEW L, Shaped(T, L, even), NEW t, t \notin DOMAIN T, NEW v
    PROVE  Shaped([u \in DOMAIN T \cup {t} |-> IF u = t THEN <<v>> ELSE T[u]], L, even)
  <1>1. PICK N : N = [u \in DOMAIN T \cup {t} |-> IF u = t THEN <<v>> ELSE T[u]]
    OBVIOUS
  <1>2. /\ DOMAIN N = DOMAIN T \cup {t} /\ N = [u \in DOMAIN N |-> N[u]]
        /\ N[t] = <<v>> /\ \A u \in DOMAIN T : N[u] = T[u]
    BY <1>1
  <1>3. IsList(N[t]) /\ Len(N[t]) = 1
    BY <1>2, ListOfOne
  <1>4. Columned(N, L)
    BY <1>2, <1>3 DEF Shaped, Columned
  <1>5. even => Lengths(N, L)
    BY <1>2, <1>3 DEF Shaped, Columned, Lengths
  <1>6. QED
    BY <1>1, <1>4, <1>5 DEF Shaped

\* add_loop: new tags, each once, with columns of one length.
LEMMA NewLoop ==
    ASSUME NEW even, NEW T, NEW L, Shaped(T, L, even), NEW h, IsList(h), NEW C,
           \A k \in DOMAIN h : h[k] \notin DOMAIN T /\ IsList(C[h[k]]),
           \A k, l \in DOMAIN h : Len(C[h[k]]) = Len(C[h[l]]) /\ (h[k] = h[l] => k = l)
    PROVE  LET own == {h[k] : k \in DOMAIN h} IN
           Shaped([t \in DOMAIN T \cup own |-> IF t \in own THEN C[t] ELSE T[t]], Append(L, h), even)
  <1> DEFINE own == {h[k] : k \in DOMAIN h}
  <1>1. PICK N : N = [t \in DOMAIN T \cup own |-> IF t \in own THEN C[t] ELSE T[t]]
    OBVIOUS
  <1>2. PICK M : M = Append(L, h)
    OBVIOUS
  <1>3. /\ DOMAIN N = DOMAIN T \cup own /\ N = [t \in DOMAIN N |-> N[t]]
        /\ \A t \in own : N[t] = C[t] /\ t \notin DOMAIN T
        /\ \A t \in DOMAIN T : N[t] = T[t]
    BY <1>1
  <1>4. PICK n \in Nat : n = Len(L) /\ DOMAIN L = 1 .. n
    BY ListFacts DEF Shaped, Columned
  <1>5. /\ IsList(M) /\ DOMAIN M = 1 .. n + 1 /\ M[n + 1] = h
        /\ \A i \in DOMAIN L : i \in DOMAIN M /\ M[i] = L[i] /\ i # n + 1
        /\ \A i \in DOMAIN M : i \in DOMAIN L \/ i = n + 1
    BY <1>2, <1>4, Appended DEF Shaped, Columned
  <1>6. \A i \in DOMAIN L : \A k \in DOMAIN L[i] : L[i][k] \in DOMAIN T
    BY DEF Shaped, Columned
  <1>7. \A k \in DOMAIN h : h[k] \in own
    OBVIOUS
  <1> HIDE DEF own
  <1>8. Columned(N, M)
    <2>1. \A t \in DOMAIN N : IsList(N[t])
      BY <1>3 DEF Shaped, Columned, own
    <2>2. ASSUME NEW i \in DOMAIN M PROVE IsList(M[i]) /\ \A k \in DOMAIN M[i] : M[i][k] \in DOMAIN N
      BY <1>3, <1>5, <1>6, <1>7 DEF Shaped, Columned
    <2>3. QED
      BY <1>3, <1>5, <2>1, <2>2 DEF Columned
  <1>9. OnceEach(M)
    <2> SUFFICES ASSUME NEW i \in DOMAIN M, NEW j \in DOMAIN M,
                        NEW k \in DOMAIN M[i], NEW l \in DOMAIN M[j], M[i][k] = M[j][l]
                 PROVE  i = j /\ k = l
      BY DEF OnceEach
    <2>1. CASE i \in DOMAIN L /\ j \in DOMAIN L
      BY <1>5, <2>1 DEF Shaped, OnceEach
    <2>2. CASE i = n + 1 /\ j = n + 1
      BY <1>5, <2>2
    <2>3. CASE i \in DOMAIN L /\ j = n + 1
      BY <1>5, <1>6, <2>3
    <2>4. CASE i = n + 1 /\ j \in DOMAIN L
      BY <1>5, <1>6, <2>4
    <2>5. QED
      BY <1>5, <2>1, <2>2, <2>3, <2>4
  <1>10. even => Lengths(N, M)
    <2> SUFFICES ASSUME even PROVE Lengths(N, M)
      OBVIOUS
    <2>1. ASSUME NEW i \in DOMAIN M, NEW k \in DOMAIN M[i], NEW l \in DOMAIN M[i]
          PROVE  Len(N[M[i][k]]) = Len(N[M[i][l]])
      <3>1. CASE i \in DOMAIN L
        BY <1>3, <1>5, <1>6, <3>1 DEF Shaped, Lengths
      <3>2. CASE i = n + 1
        <4>1. M[i] = h /\ N[h[k]] = C[h[k]] /\ N[h[l]] = C[h[l]]
          BY <1>3, <1>5, <1>7, <3>2
        <4>2. QED
          BY <1>5, <3>2, <4>1
      <3>3. QED
        BY <1>5, <3>1, <3>2
    <2>2. ASSUME NEW t \in DOMAIN N, ~InLoop(M, t)
          PROVE  Len(N[t]) = 1
      <3>1. t \notin own
        BY <1>4, <1>5, <2>2 DEF InLoop, own
      <3>2. ~InLoop(L, t)
        BY <1>5, <2>2 DEF InLoop
      <3>3. QED
        BY <1>3, <3>1, <3>2 DEF Shaped, Lengths
    <2>3. QED
      BY <2>1, <2>2 DEF Lengths
  <1>11. QED
    BY <1>1, <1>2, <1>8, <1>9, <1>10 DEF Shaped, own

\* add_loop_column: a new tag at the end of a header, with a column as long as the others.
Gains(T, t, c, N) ==
    /\ t \notin DOMAIN T /\ DOMAIN N = DOMAIN T \cup {t} /\ N = [u \in DOMAIN N |-> N[u]]
    /\ N[t] = c /\ \A u \in DOMAIN T : N[u] = T[u]
Lengthens(L, i, t, M) ==
    /\ IsList(M) /\ DOMAIN M = DOMAIN L /\ M[i] = Append(L[i], t)
    /\ \A j \in DOMAIN L : j # i => M[j] = L[j]
AsLong(T, h, c) == \A k \in DOMAIN h : Len(T[h[k]]) = Len(c)

LEMMA NewColumn ==
    ASSUME NEW even, NEW T, NEW L, Shaped(T, L, even), NEW i \in DOMAIN L, NEW t, NEW c, IsList(c),
           even => AsLong(T, L[i], c), NEW N, Gains(T, t, c, N), NEW M, Lengthens(L, i, t, M)
    PROVE  Shaped(N, M, even)
  <1>2. PICK h : h = L[i]
    OBVIOUS
  <1>4. /\ DOMAIN N = DOMAIN T \cup {t} /\ N = [u \in DOMAIN N |-> N[u]]
        /\ N[t] = c /\ \A u \in DOMAIN T : N[u] = T[u] /\ u # t
    BY DEF Gains
  <1>5. /\ IsList(M) /\ DOMAIN M = DOMAIN L /\ M[i] = Append(h, t)
        /\ \A j \in DOMAIN L : j # i => M[j] = L[j]
    BY <1>2 DEF Lengthens
  <1>6. PICK n \in Nat : n = Len(h) /\ DOMAIN h = 1 .. n
    BY <1>2, ListFacts DEF Shaped, Columned
  <1>7. /\ IsList(M[i]) /\ DOMAIN M[i] = 1 .. n + 1 /\ M[i][n + 1] = t
        /\ \A k \in DOMAIN h : k \in DOMAIN M[i] /\ M[i][k] = h[k] /\ k # n + 1
        /\ \A k \in DOMAIN M[i] : k \in DOMAIN h \/ k = n + 1
    BY <1>2, <1>5, <1>6, Appended DEF Shaped, Columned
  <1>8. \A j \in DOMAIN L : \A k \in DOMAIN L[j] : L[j][k] \in DOMAIN T
    BY DEF Shaped, Columned
  <1>9. Columned(N, M)
    <2>1. \A u \in DOMAIN N : IsList(N[u])
      BY <1>4 DEF Shaped, Columned
    <2>2. ASSUME NEW j \in DOMAIN M PROVE IsList(M[j]) /\ \A k \in DOMAIN M[j] : M[j][k] \in DOMAIN N
      <3>1. CASE j = i
        BY <1>2, <1>4, <1>7, <1>8, <3>1
      <3>2. CASE j # i
        BY <1>4, <1>5, <1>8, <3>2 DEF Shaped, Columned
      <3>3. QED
        BY <3>1, <3>2
    <2>3. QED
      BY <1>4, <1>5, <2>1, <2>2 DEF Columned
  \* The place of a tag in M is its place in L, or it is the new one.
  <1>10. \A j \in DOMAIN M : \A k \in DOMAIN M[j] :
            \/ k \in DOMAIN L[j] /\ M[j][k] = L[j][k] /\ M[j][k] # t
            \/ j = i /\ k = n + 1 /\ M[j][k] = t
    <2>1. ASSUME NEW j \in DOMAIN M, NEW k \in DOMAIN M[j]
          PROVE  \/ k \in DOMAIN L[j] /\ M[j][k] = L[j][k] /\ M[j][k] # t
                 \/ j = i /\ k = n + 1 /\ M[j][k] = t
      <3>1. CASE j = i
        BY <1>2, <1>4, <1>7, <1>8, <3>1
      <3>2. CASE j # i
        BY <1>4, <1>5, <1>8, <3>2
      <3>3. QED
        BY <3>1, <3>2
    <2>2. QED
      BY <2>1
  <1>11. OnceEach(M)
    <2> SUFFICES ASSUME NEW j \in DOMAIN M, NEW m \in DOMAIN M,
                        NEW k \in DOMAIN M[j], NEW l \in DOMAIN M[m], M[j][k] = M[m][l]
                 PROVE  j = m /\ k = l
      BY DEF OnceEach
    <2>1. CASE M[j][k] = t
      BY <1>10, <2>1
    <2>2. CASE M[j][k] # t
      <3>1. /\ k \in DOMAIN L[j] /\ l \in DOMAIN L[m] /\ L[j][k] = L[m][l]
            /\ j \in DOMAIN L /\ m \in DOMAIN L
        BY <1>5, <1>10, <2>2
      <3>2. QED
        BY <3>1 DEF Shaped, OnceEach
    <2>3. QED
      BY <2>1, <2>2
  <1>12. even => Lengths(N, M)
    <2> SUFFICES ASSUME even PROVE Lengths(N, M)
      OBVIOUS
    <2>1. ASSUME NEW j \in DOMAIN M, NEW k \in DOMAIN M[j], NEW l \in DOMAIN M[j]
          PROVE  Len(N[M[j][k]]) = Len(N[M[j][l]])
      <3>1. CASE j = i
        <4>1. \A m \in DOMAIN M[i] : Len(N[M[i][m]]) = Len(c)
          BY <1>2, <1>4, <1>7, <1>8 DEF AsLong
        <4>2. QED
          BY <3>1, <4>1
      <3>2. CASE j # i
        BY <1>4, <1>5, <1>8, <3>2 DEF Shaped, Lengths
      <3>3. QED
        BY <3>1, <3>2
    <2>2. ASSUME NEW u \in DOMAIN N, ~InLoop(M, u)
          PROVE  Len(N[u]) = 1
      <3>1. u # t
        BY <1>5, <1>7, <2>2 DEF InLoop
      <3>2. ~InLoop(L, u)
        <4>1. \A j \in DOMAIN L : \A k \in DOMAIN L[j] : k \in DOMAIN M[j] /\ M[j][k] = L[j][k]
          BY <1>2, <1>5, <1>7
        <4>2. QED
          BY <1>5, <2>2, <4>1 DEF InLoop
      <3>3. QED
        BY <1>4, <3>1, <3>2 DEF Shaped, Lengths
    <2>3. QED
      BY <2>1, <2>2 DEF Lengths
  <1>13. QED
    BY <1>9, <1>11, <1>12 DEF Shaped

\* reorder_loop_tags: the same tags, each once, in another order.
Permuted(g, h) ==
    /\ DOMAIN h = DOMAIN g /\ \A k, l \in DOMAIN h : h[k] = h[l] => k = l
    /\ \A k \in DOMAIN h : \E l \in DOMAIN g : h[k] = g[l]
    /\ \A l \in DOMAIN g : \E k \in DOMAIN h : h[k] = g[l]

LEMMA Reordered ==
    ASSUME NEW even, NEW T, NEW L, Shaped(T, L, even), NEW i \in DOMAIN L, NEW h, IsList(h),
           Permuted(L[i], h)
    PROVE  Shaped(T, [L EXCEPT ![i] = h], even)
  <1>1. PICK M : M = [L EXCEPT ![i] = h]
    OBVIOUS
  <1>2. /\ IsList(M) /\ DOMAIN M = DOMAIN L /\ M[i] = h
        /\ \A j \in DOMAIN L : j # i => M[j] = L[j]
    BY <1>1, Replaced DEF Shaped, Columned
  <1>3. /\ \A k \in DOMAIN h : \E l \in DOMAIN L[i] : h[k] = L[i][l]
        /\ \A l \in DOMAIN L[i] : \E k \in DOMAIN h : h[k] = L[i][l]
    BY DEF Permuted
  <1>4. \A j \in DOMAIN L : \A k \in DOMAIN M[j] : \E l \in DOMAIN L[j] : M[j][k] = L[j][l]
    BY <1>2, <1>3
  <1>5. \A t : InLoop(L, t) => InLoop(M, t)
    <2> SUFFICES ASSUME NEW t, NEW j \in DOMAIN L, NEW k \in DOMAIN L[j], L[j][k] = t
                 PROVE  InLoop(M, t)
      BY DEF InLoop
    <2>1. \E l \in DOMAIN M[j] : M[j][l] = t
      BY <1>2, <1>3
    <2>2. QED
      BY <1>2, <2>1 DEF InLoop
  <1>6. Columned(T, M)
    <2>1. ASSUME NEW j \in DOMAIN M PROVE IsList(M[j]) /\ \A k \in DOMAIN M[j] : M[j][k] \in DOMAIN T
      BY <1>2, <1>4 DEF Shaped, Columned
    <2>2. QED
      BY <1>2, <2>1 DEF Shaped, Columned
  <1>7. OnceEach(M)
    <2> SUFFICES ASSUME NEW j \in DOMAIN M, NEW m \in DOMAIN M,
                        NEW k \in DOMAIN M[j], NEW l \in DOMAIN M[m], M[j][k] = M[m][l]
                 PROVE  j = m /\ k = l
      BY DEF OnceEach
    <2>1. PICK a \in DOMAIN L[j] : M[j][k] = L[j][a]
      BY <1>2, <1>4
    <2>2. PICK b \in DOMAIN L[m] : M[m][l] = L[m][b]
      BY <1>2, <1>4
    <2>3. j = m /\ a = b
      <3>1. OnceEach(L) /\ j \in DOMAIN L /\ m \in DOMAIN L /\ L[j][a] = L[m][b]
        BY <1>2, <2>1, <2>2 DEF Shaped
      <3>2. QED
        BY <3>1, OnlyOnce
    <2>4. CASE j = i
      <3>1. \A x, y \in DOMAIN h : h[x] = h[y] => x = y
        BY DEF Permuted
      <3>2. QED
        BY <1>2, <2>3, <2>4, <3>1
    <2>5. CASE j # i
      BY <1>2, <2>3, <2>5 DEF Shaped, OnceEach
    <2>6. QED
      BY <2>4, <2>5
  <1>8. even => Lengths(T, M)
    <2> SUFFICES ASSUME even PROVE Lengths(T, M)
      OBVIOUS
    <2>1. ASSUME NEW j \in DOMAIN M, NEW k \in DOMAIN M[j], NEW l \in DOMAIN M[j]
          PROVE  Len(T[M[j][k]]) = Len(T[M[j][l]])
      <3>1. PICK a \in DOMAIN L[j] : M[j][k] = L[j][a]
        BY <1>2, <1>4
      <3>2. PICK b \in DOMAIN L[j] : M[j][l] = L[j][b]
        BY <1>2, <1>4
      <3>3. Len(T[L[j][a]]) = Len(T[L[j][b]])
        BY <1>2 DEF Shaped, Lengths
      <3>4. QED
        BY <3>1, <3>2, <3>3
    <2>2. ASSUME NEW t \in DOMAIN T, ~InLoop(M, t)
          PROVE  Len(T[t]) = 1
      BY <1>5, <2>2 DEF Shaped, Lengths
    <2>3. QED
      BY <2>1, <2>2 DEF Lengths
  <1>9. QED
    BY <1>1, <1>6, <1>7, <1>8 DEF Shaped

\* add_loop_row: one value more in each column of a loop.
LEMMA OneMoreRow ==
    ASSUME NEW even, NEW T, NEW L, Shaped(T, L, even), NEW i \in DOMAIN L, NEW row, NEW N,
           LET own == {L[i][k] : k \in DOMAIN L[i]} IN
           N = [t \in DOMAIN T |-> IF t \in own THEN Append(T[t], row[t]) ELSE T[t]]
    PROVE  Shaped(N, L, even)
  <1> DEFINE own == {L[i][k] : k \in DOMAIN L[i]}
  <1>1. N = [t \in DOMAIN T |-> IF t \in own THEN Append(T[t], row[t]) ELSE T[t]]
    OBVIOUS
  <1>2. /\ DOMAIN N = DOMAIN T /\ N = [t \in DOMAIN N |-> N[t]]
        /\ \A t \in DOMAIN T : t \in own => N[t] = Append(T[t], row[t])
        /\ \A t \in DOMAIN T : t \notin own => N[t] = T[t]
    BY <1>1
  <1>3. \A t \in own : InLoop(L, t)
    BY DEF InLoop
  <1>4. \A k \in DOMAIN L[i] : L[i][k] \in own
    OBVIOUS
  <1>5. \A j \in DOMAIN L : \A k \in DOMAIN L[j] : j # i => L[j][k] \notin own
    BY DEF Shaped, OnceEach
  <1> HIDE DEF own
  <1>6. \A t \in DOMAIN T : IsList(N[t]) /\ (t \in own => Len(N[t]) = Len(T[t]) + 1)
    <2>1. ASSUME NEW t \in DOMAIN T
          PROVE  IsList(N[t]) /\ (t \in own => Len(N[t]) = Len(T[t]) + 1)
      <3>1. IsList(T[t])
        BY DEF Shaped, Columned
      <3>2. IsList(Append(T[t], row[t])) /\ Len(Append(T[t], row[t])) = Len(T[t]) + 1
        BY <3>1, Appended
      <3>3. QED
        BY <1>2, <3>1, <3>2
    <2>2. QED
      BY <2>1
  <1>7. Columned(N, L)
    <2>1. /\ IsList(L) /\ \A j \in DOMAIN L : IsList(L[j]) /\ \A k \in DOMAIN L[j] : L[j][k] \in DOMAIN N
      BY <1>2 DEF Shaped, Columned
    <2>2. \A t \in DOMAIN N : IsList(N[t])
      BY <1>2, <1>6
    <2>3. QED
      BY <1>2, <2>1, <2>2 DEF Columned
  <1>8. even => Lengths(N, L)
    <2> SUFFICES ASSUME even PROVE Lengths(N, L)
      OBVIOUS
    <2>1. ASSUME NEW j \in DOMAIN L, NEW k \in DOMAIN L[j], NEW l \in DOMAIN L[j]
          PROVE  Len(N[L[j][k]]) = Len(N[L[j][l]])
      <3>1. L[j][k] \in DOMAIN T /\ L[j][l] \in DOMAIN T /\ Len(T[L[j][k]]) = Len(T[L[j][l]])
        BY DEF Shaped, Columned, Lengths
      <3>2. CASE j = i
        BY <1>4, <1>6, <3>1, <3>2
      <3>3. CASE j # i
        BY <1>2, <1>5, <3>1, <3>3
      <3>4. QED
        BY <3>2, <3>3
    <2>2. ASSUME NEW t \in DOMAIN N, ~InLoop(L, t)
          PROVE  Len(N[t]) = 1
      BY <1>2, <1>3, <2>2 DEF Shaped, Lengths
    <2>3. QED
      BY <2>1, <2>2 DEF Lengths
  <1>9. QED
    BY <1>1, <1>7, <1>8 DEF Shaped, own

\* delete_tag of a scalar.
LEMMA ScalarGone ==
    ASSUME NEW even, NEW T, NEW L, Shaped(T, L, even), NEW t, ~InLoop(L, t)
    PROVE  Shaped([u \in DOMAIN T \ {t} |-> T[u]], L, even)
  <1>1. PICK N : N = [u \in DOMAIN T \ {t} |-> T[u]]
    OBVIOUS
  <1>2. DOMAIN N = DOMAIN T \ {t} /\ N = [u \in DOMAIN N |-> N[u]] /\ \A u \in DOMAIN N : N[u] = T[u]
    BY <1>1
  <1>3. \A i \in DOMAIN L : \A k \in DOMAIN L[i] : L[i][k] \in DOMAIN N
    BY <1>2 DEF Shaped, Columned, InLoop
  <1>4. Columned(N, L)
    BY <1>2, <1>3 DEF Shaped, Columned
  <1>5. even => Lengths(N, L)
    BY <1>2, <1>3 DEF Shaped, Lengths
  <1>6. QED
    BY <1>1, <1>4, <1>5 DEF Shaped

\* _remove_loop_tag_impl: a tag of a loop, and its column.  The loop goes with its last tag.
LEMMA HeaderWithout ==
    ASSUME NEW h, IsList(h), NEW k \in DOMAIN h, \A l \in DOMAIN h : h[l] = h[k] => l = k
    PROVE  /\ RemoveFirst(h, h[k]) = RemoveAt(h, k)
           /\ IsList(RemoveAt(h, k)) /\ Len(RemoveAt(h, k)) = Len(h) - 1
           /\ \A l \in DOMAIN RemoveAt(h, k) :
                MovedUp(k, l) \in DOMAIN h /\ MovedUp(k, l) # k /\ RemoveAt(h, k)[l] = h[MovedUp(k, l)]
           /\ \A l \in DOMAIN h : l # k => \E m \in DOMAIN RemoveAt(h, k) : MovedUp(k, m) = l
  <1>1. PICK n \in Nat : n = Len(h) /\ DOMAIN h = 1 .. n
    BY ListFacts
  <1>2. PICK S : S = {h[i] : i \in DOMAIN h}
    OBVIOUS
  <1>3. h \in Seq(S)
    BY <1>2 DEF IsList
  <1>4. PICK r : r = RemoveAt(h, k)
    OBVIOUS
  <1>5. r \in Seq(S) /\ Len(r) = n - 1 /\ \A i \in 1 .. n - 1 : r[i] = IF i < k THEN h[i] ELSE h[i + 1]
    BY <1>1, <1>3, <1>4, RemovedAt
  <1>6. IsList(r) /\ DOMAIN r = 1 .. n - 1
    BY <1>1, <1>5, IsListOver
  <1>7. RemoveFirst(h, h[k]) = r
    <2>1. {i \in 1 .. Len(h) : h[i] = h[k]} = {k}
      BY <1>1
    <2>2. Min({k}) = k
      <3>1. {k} \subseteq Nat /\ {k} # {}
        BY <1>1
      <3>2. Min({k}) \in {k}
        BY <3>1, MinIsLeast
      <3>3. QED
        BY <3>2
    <2>3. QED
      BY <1>1, <1>4, <2>1, <2>2 DEF RemoveFirst, SelectInSeq
  <1>8. ASSUME NEW l \in DOMAIN r
        PROVE  MovedUp(k, l) \in DOMAIN h /\ MovedUp(k, l) # k /\ r[l] = h[MovedUp(k, l)]
    BY <1>1, <1>5, <1>6 DEF MovedUp
  <1>9. ASSUME NEW l \in DOMAIN h, l # k
        PROVE  \E m \in DOMAIN r : MovedUp(k, m) = l
    <2>1. CASE l < k
      <3>1. l \in DOMAIN r /\ MovedUp(k, l) = l
        BY <1>1, <1>6, <2>1 DEF MovedUp
      <3>2. QED
        BY <3>1
    <2>2. CASE ~(l < k)
      <3>1. l - 1 \in DOMAIN r /\ MovedUp(k, l - 1) = l
        BY <1>1, <1>6, <1>9, <2>2 DEF MovedUp
      <3>2. QED
        BY <3>1
    <2>3. QED
      BY <2>1, <2>2
  <1>10. QED
    BY <1>1, <1>4, <1>5, <1>6, <1>7, <1>8, <1>9

\* Headers M that have all tags of L but t, each where L has it.
LoseTag(L, M, t) ==
    /\ IsList(M) /\ \A j \in DOMAIN M : IsList(M[j])
    /\ \A u : InLoop(M, u) <=> InLoop(L, u) /\ u # t
    /\ OnceEach(M)
    /\ \A j \in DOMAIN M : \E i \in DOMAIN L : \A k \in DOMAIN M[j] : \E l \in DOMAIN L[i] : M[j][k] = L[i][l]

LEMMA LoopTagGone ==
    ASSUME NEW even, NEW T, NEW L, Shaped(T, L, even), NEW t, InLoop(L, t), NEW M, LoseTag(L, M, t)
    PROVE  Shaped([u \in DOMAIN T \ {t} |-> T[u]], M, even)
  <1>1. PICK N : N = [u \in DOMAIN T \ {t} |-> T[u]]
    OBVIOUS
  <1>2. DOMAIN N = DOMAIN T \ {t} /\ N = [u \in DOMAIN N |-> N[u]] /\ \A u \in DOMAIN N : N[u] = T[u]
    BY <1>1
  <1>3. \A u : InLoop(L, u) => u \in DOMAIN T
    BY DEF Shaped, Columned, InLoop
  <1>4. \A j \in DOMAIN M : \A k \in DOMAIN M[j] : InLoop(M, M[j][k])
    BY DEF InLoop
  <1>5. \A j \in DOMAIN M : \A k \in DOMAIN M[j] : M[j][k] \in DOMAIN N
    BY <1>2, <1>3, <1>4 DEF LoseTag
  <1>6. Columned(N, M)
    <2>1. \A u \in DOMAIN N : IsList(N[u])
      BY <1>2 DEF Shaped, Columned
    <2>2. IsList(M) /\ \A j \in DOMAIN M : IsList(M[j])
      BY DEF LoseTag
    <2>3. QED
      BY <1>2, <1>5, <2>1, <2>2 DEF Columned
  <1>7. even => Lengths(N, M)
    <2> SUFFICES ASSUME even PROVE Lengths(N, M)
      OBVIOUS
    <2>1. ASSUME NEW j \in DOMAIN M, NEW k \in DOMAIN M[j], NEW l \in DOMAIN M[j]
          PROVE  Len(N[M[j][k]]) = Len(N[M[j][l]])
      <3>1. PICK i \in DOMAIN L : \A m \in DOMAIN M[j] : \E a \in DOMAIN L[i] : M[j][m] = L[i][a]
        BY DEF LoseTag
      <3>2. PICK a \in DOMAIN L[i] : M[j][k] = L[i][a]
        BY <3>1
      <3>3. PICK b \in DOMAIN L[i] : M[j][l] = L[i][b]
        BY <3>1
      <3>4. Len(T[L[i][a]]) = Len(T[L[i][b]])
        BY DEF Shaped, Lengths
      <3>5. QED
        BY <1>2, <1>5, <3>2, <3>3, <3>4
    <2>2. ASSUME NEW u \in DOMAIN N, ~InLoop(M, u)
          PROVE  Len(N[u]) = 1
      BY <1>2, <2>2 DEF Shaped, Lengths, LoseTag
    <2>3. QED
      BY <2>1, <2>2 DEF Lengths
  <1>8. QED
    BY <1>1, <1>6, <1>7 DEF Shaped, LoseTag

LEMMA HeaderShrinks ==
    ASSUME NEW T, NEW L, Columned(T, L), OnceEach(L), NEW i \in DOMAIN L, NEW k \in DOMAIN L[i]
    PROVE  LoseTag(L, [L EXCEPT ![i] = RemoveAt(L[i], k)], L[i][k])
  <1>1. PICK h : h = L[i]
    OBVIOUS
  <1>2. PICK r : r = RemoveAt(h, k)
    OBVIOUS
  <1>3. PICK t : t = h[k]
    OBVIOUS
  <1>4. PICK M : M = [L EXCEPT ![i] = r]
    OBVIOUS
  <1>5. IsList(h) /\ k \in DOMAIN h /\ \A l \in DOMAIN h : h[l] = h[k] => l = k
    BY <1>1 DEF Columned, OnceEach
  <1>6. /\ IsList(r)
        /\ \A l \in DOMAIN r : MovedUp(k, l) \in DOMAIN h /\ MovedUp(k, l) # k /\ r[l] = h[MovedUp(k, l)]
        /\ \A l \in DOMAIN h : l # k => \E m \in DOMAIN r : MovedUp(k, m) = l
    BY <1>2, <1>5, HeaderWithout
  <1>7. /\ IsList(M) /\ DOMAIN M = DOMAIN L /\ M[i] = r
        /\ \A j \in DOMAIN L : j # i => M[j] = L[j]
    BY <1>4, Replaced DEF Columned
  <1>8. \A a, b \in DOMAIN r : MovedUp(k, a) = MovedUp(k, b) => a = b
    <2>1. DOMAIN r \subseteq Nat /\ k \in Nat
      BY <1>5, <1>6, ListFacts
    <2>2. QED
      BY <2>1 DEF MovedUp
  \* Where L has what M has.
  <1>9. ASSUME NEW j \in DOMAIN M, NEW l \in DOMAIN M[j]
        PROVE  \E a \in DOMAIN L[j] :
                  /\ M[j][l] = L[j][a] /\ M[j][l] # t
                  /\ a = IF j = i THEN MovedUp(k, l) ELSE l
    <2>1. CASE j = i
      BY <1>1, <1>3, <1>5, <1>6, <1>7, <2>1
    <2>2. CASE j # i
      <3>1. L[j][l] # t
        BY <1>1, <1>3, <1>5, <1>7, <2>2 DEF OnceEach
      <3>2. QED
        BY <1>7, <2>2, <3>1
    <2>3. QED
      BY <2>1, <2>2
  <1>10. ASSUME NEW u, InLoop(L, u), u # t
         PROVE  InLoop(M, u)
    <2>1. PICK j, a : j \in DOMAIN L /\ a \in DOMAIN L[j] /\ L[j][a] = u
      BY <1>10 DEF InLoop
    <2>2. \E l \in DOMAIN M[j] : M[j][l] = u
      <3>1. CASE j = i
        <4>1. a # k
          BY <1>1, <1>3, <1>10, <2>1, <3>1
        <4>2. PICK m \in DOMAIN r : MovedUp(k, m) = a
          BY <1>1, <1>6, <2>1, <3>1, <4>1
        <4>3. r[m] = u
          BY <1>1, <1>6, <2>1, <3>1, <4>2
        <4>4. QED
          BY <1>7, <3>1, <4>3
      <3>2. CASE j # i
        BY <1>7, <2>1, <3>2
      <3>3. QED
        BY <3>1, <3>2
    <2>3. QED
      BY <1>7, <2>1, <2>2 DEF InLoop
  <1>11. \A u : InLoop(M, u) <=> InLoop(L, u) /\ u # t
    <2>1. ASSUME NEW u, InLoop(M, u) PROVE InLoop(L, u) /\ u # t
      <3>1. PICK j, l : j \in DOMAIN M /\ l \in DOMAIN M[j] /\ M[j][l] = u
        BY <2>1 DEF InLoop
      <3>2. PICK a \in DOMAIN L[j] : M[j][l] = L[j][a] /\ M[j][l] # t
        BY <1>9, <3>1
      <3>3. QED
        BY <1>7, <3>1, <3>2 DEF InLoop
    <2>2. QED
      BY <1>10, <2>1
  <1>12. OnceEach(M)
    <2> SUFFICES ASSUME NEW j \in DOMAIN M, NEW m \in DOMAIN M,
                        NEW l \in DOMAIN M[j], NEW o \in DOMAIN M[m], M[j][l] = M[m][o]
                 PROVE  j = m /\ l = o
      BY DEF OnceEach
    <2>1. PICK a \in DOMAIN L[j] : M[j][l] = L[j][a] /\ a = IF j = i THEN MovedUp(k, l) ELSE l
      BY <1>9
    <2>2. PICK b \in DOMAIN L[m] : M[m][o] = L[m][b] /\ b = IF m = i THEN MovedUp(k, o) ELSE o
      BY <1>9
    <2>3. j = m /\ a = b
      <3>1. OnceEach(L) /\ j \in DOMAIN L /\ m \in DOMAIN L /\ L[j][a] = L[m][b]
        BY <1>7, <2>1, <2>2
      <3>2. QED
        BY <3>1, OnlyOnce
    <2>4. QED
      BY <1>7, <1>8, <2>1, <2>2, <2>3
  <1>13. \A j \in DOMAIN M : IsList(M[j])
    BY <1>6, <1>7 DEF Columned
  <1>14. \A j \in DOMAIN M : \E m \in DOMAIN L : \A l \in DOMAIN M[j] : \E a \in DOMAIN L[m] : M[j][l] = L[m][a]
    BY <1>7, <1>9
  <1>15. LoseTag(L, M, t)
    BY <1>7, <1>11, <1>12, <1>13, <1>14 DEF LoseTag
  <1>16. QED
    BY <1>1, <1>2, <1>3, <1>4, <1>15

LEMMA HeaderGoes ==
    ASSUME NEW T, NEW L, Columned(T, L), OnceEach(L), NEW i \in DOMAIN L,
           NEW t, {L[i][k] : k \in DOMAIN L[i]} = {t}
    PROVE  LoseTag(L, RemoveAt(L, i), t)
  <1>1. PICK M : M = RemoveAt(L, i)
    OBVIOUS
  <1>2. PICK n \in Nat : n = Len(L) /\ DOMAIN L = 1 .. n
    BY ListFacts DEF Columned
  <1>3. PICK S : S = {L[j] : j \in DOMAIN L}
    OBVIOUS
  <1>4. L \in Seq(S)
    BY <1>3 DEF Columned, IsList
  <1>5. M \in Seq(S) /\ Len(M) = n - 1 /\ \A j \in 1 .. n - 1 : M[j] = IF j < i THEN L[j] ELSE L[j + 1]
    BY <1>1, <1>2, <1>4, RemovedAt
  <1>6. IsList(M) /\ DOMAIN M = 1 .. n - 1
    BY <1>2, <1>5, IsListOver
  <1>7. \A j \in DOMAIN M : MovedUp(i, j) \in DOMAIN L /\ MovedUp(i, j) # i /\ M[j] = L[MovedUp(i, j)]
    BY <1>2, <1>5, <1>6 DEF MovedUp
  <1>8. \A j, m \in DOMAIN M : MovedUp(i, j) = MovedUp(i, m) => j = m
    BY <1>2, <1>6 DEF MovedUp
  <1>9. ASSUME NEW j \in DOMAIN L, j # i
        PROVE  \E m \in DOMAIN M : M[m] = L[j]
    <2>1. CASE j < i
      <3>1. j \in DOMAIN M /\ MovedUp(i, j) = j
        BY <1>2, <1>6, <2>1 DEF MovedUp
      <3>2. QED
        BY <1>7, <3>1
    <2>2. CASE ~(j < i)
      <3>1. j - 1 \in DOMAIN M /\ MovedUp(i, j - 1) = j
        BY <1>2, <1>6, <1>9, <2>2 DEF MovedUp
      <3>2. QED
        BY <1>7, <3>1
    <2>3. QED
      BY <2>1, <2>2
  <1>10. /\ \A k \in DOMAIN L[i] : L[i][k] = t
         /\ \E k \in DOMAIN L[i] : L[i][k] = t
    <2>1. \A k \in DOMAIN L[i] : L[i][k] \in {t}
      OBVIOUS
    <2>2. t \in {L[i][k] : k \in DOMAIN L[i]}
      OBVIOUS
    <2>3. QED
      BY <2>1, <2>2
  <1>11. ASSUME NEW u, InLoop(M, u) PROVE InLoop(L, u) /\ u # t
    <2>1. PICK j, l : j \in DOMAIN M /\ l \in DOMAIN M[j] /\ M[j][l] = u
      BY <1>11 DEF InLoop
    <2>2. PICK m : m = MovedUp(i, j)
      OBVIOUS
    <2>3. m \in DOMAIN L /\ m # i /\ l \in DOMAIN L[m] /\ L[m][l] = u
      BY <1>7, <2>1, <2>2
    <2>4. PICK k \in DOMAIN L[i] : L[i][k] = t
      BY <1>10
    <2>5. QED
      BY <2>3, <2>4 DEF InLoop, OnceEach
  <1>12. ASSUME NEW u, InLoop(L, u), u # t PROVE InLoop(M, u)
    <2>1. PICK j, l : j \in DOMAIN L /\ l \in DOMAIN L[j] /\ L[j][l] = u
      BY <1>12 DEF InLoop
    <2>2. j # i
      BY <1>10, <1>12, <2>1
    <2>3. PICK m \in DOMAIN M : M[m] = L[j]
      BY <1>9, <2>1, <2>2
    <2>4. QED
      BY <2>1, <2>3 DEF InLoop
  <1>13. OnceEach(M)
    <2> SUFFICES ASSUME NEW j \in DOMAIN M, NEW m \in DOMAIN M,
                        NEW l \in DOMAIN M[j], NEW o \in DOMAIN M[m], M[j][l] = M[m][o]
                 PROVE  j = m /\ l = o
      BY DEF OnceEach
    <2>1. PICK a \in DOMAIN L : a = MovedUp(i, j) /\ M[j] = L[a]
      BY <1>7
    <2>2. PICK b \in DOMAIN L : b = MovedUp(i, m) /\ M[m] = L[b]
      BY <1>7
    <2>3. a = b /\ l = o
      BY <2>1, <2>2 DEF OnceEach
    <2>4. QED
      BY <1>8, <2>1, <2>2, <2>3
  <1>14. \A j \in DOMAIN M : IsList(M[j])
    BY <1>7 DEF Columned
  <1>15. \A j \in DOMAIN M : \E m \in DOMAIN L : \A l \in DOMAIN M[j] : \E a \in DOMAIN L[m] : M[j][l] = L[m][a]
    <2>1. ASSUME NEW j \in DOMAIN M
          PROVE  \E m \in DOMAIN L : \A l \in DOMAIN M[j] : \E a \in DOMAIN L[m] : M[j][l] = L[m][a]
      <3>1. PICK m \in DOMAIN L : M[j] = L[m]
        BY <1>7
      <3>2. QED
        BY <3>1
    <2>2. QED
      BY <2>1
  <1>16. QED
    BY <1>1, <1>6, <1>11, <1>12, <1>13, <1>14, <1>15 DEF LoseTag

LEMMA NothingIsBalanced ==
    ASSUME NEW even
    PROVE  Balanced(NoData, even)
  <1>1. NoData.order = <<>> /\ NoData.tags = <<>> /\ NoData.loops = <<>>
    BY DEF NoData
  <1>2. DOMAIN <<>> = {} /\ <<>> \in Seq({})
    OBVIOUS
  <1>3. IsList(<<>>)
    BY <1>2, IsListOver
  <1>4. <<>> = [t \in DOMAIN <<>> |-> <<>>[t]]
    OBVIOUS
  <1>5. Shaped(<<>>, <<>>, even)
    BY <1>2, <1>3, <1>4 DEF Shaped, Columned, OnceEach, Lengths
  <1>6. QED
    BY <1>1, <1>5 DEF Balanced, NoData

LEMMA SetTagBalanced ==
    ASSUME NEW even, NEW d, Balanced(d, even), NEW t, CanSetTag(d, t), NEW v
    PROVE  Balanced(SetTag(d, t, v), even)
  <1>1. PICK o : o = Append(d.order, t)
    OBVIOUS
  <1>2. PICK T : T = [u \in DOMAIN d.tags \cup {t} |-> IF u = t THEN <<v>> ELSE d.tags[u]]
    OBVIOUS
  <1>3. d = [order |-> d.order, tags |-> d.tags, loops |-> d.loops] /\ t \notin DOMAIN d.tags
    BY DEF Balanced, CanSetTag
  <1>4. SetTag(d, t, v) = [order |-> o, tags |-> T, loops |-> d.loops]
    BY <1>1, <1>2, <1>3 DEF SetTag, AppendValue
  <1>5. Shaped(T, d.loops, even)
    BY <1>2, <1>3, NewScalar DEF Balanced
  <1>6. QED
    BY <1>4, <1>5 DEF Balanced

LEMMA AddLoopBalanced ==
    ASSUME NEW even, NEW d, Balanced(d, even), NEW h, IsList(h), \A k, l \in DOMAIN h : h[k] = h[l] => k = l,
           NEW C, \A k \in DOMAIN h : IsList(C[h[k]]), CanAddLoop(d, h, C)
    PROVE  Balanced(AddLoop(d, h, C), even)
  <1> DEFINE own == {h[k] : k \in DOMAIN h}
  <1>1. PICK o : o = AddLoop(d, h, C).order
    OBVIOUS
  <1>2. PICK T : T = [t \in DOMAIN d.tags \cup own |-> IF t \in own THEN C[t] ELSE d.tags[t]]
    OBVIOUS
  <1>3. AddLoop(d, h, C) = [order |-> o, tags |-> T, loops |-> Append(d.loops, h)]
    BY <1>1, <1>2 DEF AddLoop
  <1>4. \A k \in DOMAIN h : h[k] \in ToSet(h)
    BY DEF ToSet
  <1>5. /\ \A k \in DOMAIN h : h[k] \notin DOMAIN d.tags
        /\ \A k, l \in DOMAIN h : Len(C[h[k]]) = Len(C[h[l]])
    BY <1>4 DEF CanAddLoop
  <1>6. Shaped(T, Append(d.loops, h), even)
    BY <1>2, <1>5, NewLoop DEF Balanced
  <1>7. QED
    BY <1>3, <1>6 DEF Balanced

LEMMA AddLoopColumnBalanced ==
    ASSUME NEW even, NEW d, Balanced(d, even), NEW i \in DOMAIN d.loops, NEW t, NEW c, IsList(c),
           CanAddLoopColumn(d, i, t, c)
    PROVE  Balanced(AddLoopColumn(d, i, t, c), even)
  <1>1. PICK o : o = AddLoopColumn(d, i, t, c).order
    OBVIOUS
  <1>2. PICK T : T = [u \in DOMAIN d.tags \cup {t} |-> IF u = t THEN c ELSE d.tags[u]]
    OBVIOUS
  <1>3. PICK L : L = [d.loops EXCEPT ![i] = Append(@, t)]
    OBVIOUS
  <1>4. AddLoopColumn(d, i, t, c) = [order |-> o, tags |-> T, loops |-> L]
    BY <1>1, <1>2, <1>3 DEF AddLoopColumn
  <1>5. t \notin DOMAIN d.tags /\ Len(c) = Len(d.tags[Head(d.loops[i])])
    BY DEF CanAddLoopColumn, RowCount
  <1>6. ASSUME even, NEW k \in DOMAIN d.loops[i]
        PROVE  Len(d.tags[d.loops[i][k]]) = Len(c)
    <2>1. IsList(d.loops[i])
      BY DEF Balanced, Shaped, Columned
    <2>2. 1 \in DOMAIN d.loops[i]
      BY <2>1, ListFacts
    <2>3. Head(d.loops[i]) = d.loops[i][1]
      BY <2>1, <2>2 DEF IsList
    <2>4. Len(d.tags[d.loops[i][k]]) = Len(d.tags[d.loops[i][1]])
      BY <1>6, <2>2 DEF Balanced, Shaped, Lengths
    <2>5. QED
      BY <1>5, <2>3, <2>4
  <1>7. Shaped(T, L, even)
    <2>1. Shaped(d.tags, d.loops, even)
      BY DEF Balanced
    <2>2. even => AsLong(d.tags, d.loops[i], c)
      BY <1>6 DEF AsLong
    <2>3. Gains(d.tags, t, c, T)
      BY <1>2, <1>5 DEF Gains
    <2>4. PICK h : h = Append(d.loops[i], t)
      OBVIOUS
    <2>5. IsList(d.loops) /\ L = [d.loops EXCEPT ![i] = h]
      BY <1>3, <2>1, <2>4 DEF Shaped, Columned
    <2>6. Lengthens(d.loops, i, t, L)
      BY <2>4, <2>5, Replaced DEF Lengthens
    <2>7. QED
      BY <2>1, <2>2, <2>3, <2>6, NewColumn
  <1>8. QED
    BY <1>4, <1>7 DEF Balanced

\* What the code compares, how often each tag is in the old header and in the new, makes
\* the new one of distinct tags an ordering of the old.
LEMMA HeaderPermuted ==
    ASSUME NEW d, NEW i, IsList(d.loops[i]), NEW h, IsList(h),
           \A k, l \in DOMAIN h : h[k] = h[l] => k = l,
           \A k \in DOMAIN h : h[k] \in ToSet(d.loops[i]), CanReorderLoopTags(d, i, h)
    PROVE  Permuted(d.loops[i], h)
  <1>1. PICK g : g = d.loops[i]
    OBVIOUS
  <1>2. PICK n \in Nat : n = Len(h) /\ DOMAIN h = 1 .. n /\ DOMAIN g = 1 .. n
    BY <1>1, ListFacts DEF CanReorderLoopTags
  <1>3. \A k \in 1 .. n : \E l \in 1 .. n : h[k] = g[l]
    BY <1>1, <1>2 DEF ToSet
  <1>4. ASSUME NEW l \in 1 .. n
        PROVE  \E k \in 1 .. n : h[k] = g[l]
    <2>1. d.loops[i][l] \in ToSet(h) \cup ToSet(d.loops[i])
      BY <1>1, <1>2 DEF ToSet
    <2>2. PICK A : A = {k \in DOMAIN h : h[k] = d.loops[i][l]}
      OBVIOUS
    <2>3. PICK B : B = {k \in DOMAIN h : d.loops[i][k] = d.loops[i][l]}
      OBVIOUS
    <2>4. Cardinality(A) = Cardinality(B)
      BY Zenon, <2>1, <2>2, <2>3 DEF CanReorderLoopTags
    <2>5. A \in SUBSET (1 .. n) /\ B \in SUBSET (1 .. n) /\ l \in B
      BY <1>2, <2>2, <2>3
    <2>6. A # {}
      BY <2>4, <2>5, SameCounts
    <2>7. QED
      BY <1>1, <1>2, <2>2, <2>6
  <1>5. /\ DOMAIN h = DOMAIN g
        /\ \A k \in DOMAIN h : \E l \in DOMAIN g : h[k] = g[l]
        /\ \A l \in DOMAIN g : \E k \in DOMAIN h : h[k] = g[l]
    BY Zenon, <1>2, <1>3, <1>4
  <1>6. Permuted(g, h)
    BY Zenon, <1>5 DEF Permuted
  <1>7. QED
    BY <1>1, <1>6

LEMMA ReorderBalanced ==
    ASSUME NEW even, NEW d, Balanced(d, even), NEW i \in DOMAIN d.loops, NEW h, IsList(h),
           Permuted(d.loops[i], h)
    PROVE  Balanced(ReorderLoopTags(d, i, h), even)
  <1>1. PICK start : start = SelectInSeq(d.order, LAMBDA t : t \in ToSet(d.loops[i]))
    OBVIOUS
  <1>2. PICK o : o = [k \in DOMAIN d.order |-> IF k \in start .. start + Len(h) - 1
                                              THEN h[k - start + 1] ELSE d.order[k]]
    OBVIOUS
  <1>3. ReorderLoopTags(d, i, h) = [d EXCEPT !.order = o, !.loops[i] = h]
    BY <1>1, <1>2 DEF ReorderLoopTags
  <1>4. d = [order |-> d.order, tags |-> d.tags, loops |-> d.loops]
    BY DEF Balanced
  <1>5. ReorderLoopTags(d, i, h) = [order |-> o, tags |-> d.tags, loops |-> [d.loops EXCEPT ![i] = h]]
    BY <1>3, <1>4
  <1>6. Shaped(d.tags, [d.loops EXCEPT ![i] = h], even)
    BY Reordered DEF Balanced
  <1>7. QED
    BY <1>5, <1>6 DEF Balanced

LEMMA AddLoopRowBalanced ==
    ASSUME NEW even, NEW d, Balanced(d, even), NEW i \in DOMAIN d.loops, NEW row
    PROVE  Balanced(AddLoopRow(d, i, row), even)
  <1> DEFINE own == {d.loops[i][k] : k \in DOMAIN d.loops[i]}
  <1>1. PICK r : r = [t \in DOMAIN d.tags |-> row[FirstPlace(d.loops[i], t)]]
    OBVIOUS
  <1>2. PICK T : T = [t \in DOMAIN d.tags |-> IF t \in own THEN Append(d.tags[t], r[t]) ELSE d.tags[t]]
    OBVIOUS
  <1>3. d = [order |-> d.order, tags |-> d.tags, loops |-> d.loops]
    BY DEF Balanced
  <1>4. ToSet(d.loops[i]) = own
    BY DEF ToSet
  <1>5. T = [t \in DOMAIN d.tags |-> IF t \in own THEN Append(d.tags[t], row[FirstPlace(d.loops[i], t)])
                                                  ELSE d.tags[t]]
    BY <1>1, <1>2
  <1> HIDE DEF own
  <1>6. AddLoopRow(d, i, row) = [order |-> d.order, tags |-> T, loops |-> d.loops]
    <2>1. AddLoopRow(d, i, row) = [d EXCEPT !.tags = T]
      BY <1>4, <1>5 DEF AddLoopRow
    <2>2. QED
      BY <1>3, <2>1
  <1>7. Shaped(T, d.loops, even)
    <2>1. Shaped(d.tags, d.loops, even)
      BY DEF Balanced
    <2>2. QED
      BY <1>2, <2>1, OneMoreRow DEF own
  <1>8. QED
    BY <1>6, <1>7 DEF Balanced

\* reassign_tag: other values, and maybe another number of them.
LEMMA ReassignBalanced ==
    ASSUME NEW even, ~even, NEW d, Balanced(d, even), NEW t, CanReassignTag(d, t),
           NEW values, IsList(values)
    PROVE  Balanced(ReassignTag(d, t, values), even)
  <1>1. PICK c : c = IF t \in LoopTags(d) \/ Len(values) = 1 THEN values ELSE <<Container>>
    OBVIOUS
  <1>2. IsList(c)
    BY <1>1, ListOfOne
  <1>3. PICK T : T = [d.tags EXCEPT ![t] = c]
    OBVIOUS
  <1>4. d = [order |-> d.order, tags |-> d.tags, loops |-> d.loops] /\ Shaped(d.tags, d.loops, even)
    BY DEF Balanced
  <1>5. ReassignTag(d, t, values) = [order |-> d.order, tags |-> T, loops |-> d.loops]
    BY <1>1, <1>3, <1>4 DEF ReassignTag
  <1>6. /\ t \in DOMAIN d.tags /\ DOMAIN T = DOMAIN d.tags /\ T = [u \in DOMAIN T |-> T[u]]
        /\ T[t] = c /\ \A u \in DOMAIN T : u # t => T[u] = d.tags[u]
    BY <1>3, <1>4 DEF CanReassignTag, Shaped, Columned
  <1>7. Columned(T, d.loops)
    <2>1. \A u \in DOMAIN T : IsList(T[u])
      BY <1>2, <1>4, <1>6 DEF Shaped, Columned
    <2>2. QED
      BY <1>4, <1>6, <2>1 DEF Shaped, Columned
  <1>8. QED
    BY <1>4, <1>5, <1>7 DEF Balanced, Shaped

LEMMA RemoveLoopTagBalanced ==
    ASSUME NEW even, NEW d, Balanced(d, even), NEW i \in DOMAIN d.loops, NEW k \in DOMAIN d.loops[i]
    PROVE  Balanced(RemoveLoopTag(d, i, d.loops[i][k]), even)
  <1>1. PICK h : h = d.loops[i]
    OBVIOUS
  <1>2. PICK t : t = h[k]
    OBVIOUS
  <1>3. PICK r : r = RemoveAt(h, k)
    OBVIOUS
  <1>4. PICK o : o = RemoveLoopTag(d, i, t).order
    OBVIOUS
  <1>5. PICK T : T = [u \in DOMAIN d.tags \ {t} |-> d.tags[u]]
    OBVIOUS
  <1>6. PICK L : L = IF r = <<>> /\ ~OrderHasLost(d, t)
                     THEN RemoveAt(d.loops, i) ELSE [d.loops EXCEPT ![i] = r]
    OBVIOUS
  <1>7. Shaped(d.tags, d.loops, even)
    BY DEF Balanced
  <1>8. IsList(h) /\ k \in DOMAIN h /\ \A l \in DOMAIN h : h[l] = h[k] => l = k
    BY <1>1, <1>7 DEF Shaped, Columned, OnceEach
  <1>9. RemoveFirst(h, t) = r /\ IsList(r) /\ Len(r) = Len(h) - 1
    BY <1>2, <1>3, <1>8, HeaderWithout
  <1>10. RemoveLoopTag(d, i, t) = [order |-> o, tags |-> T, loops |-> L]
    BY <1>1, <1>4, <1>5, <1>6, <1>9 DEF RemoveLoopTag, Without
  <1>11. InLoop(d.loops, t)
    BY <1>1, <1>2, <1>8 DEF InLoop
  <1>12. LoseTag(d.loops, L, t)
    <2>1. CASE r = <<>> /\ ~OrderHasLost(d, t)
      <3>1. Len(r) = 0
        BY <2>1
      <3>2. DOMAIN h = {k}
        BY <1>8, <1>9, <3>1, ListFacts
      <3>3. {h[l] : l \in DOMAIN h} = {t}
        BY <1>2, <3>2
      <3>4. QED
        BY <1>1, <1>6, <1>7, <2>1, <3>3, HeaderGoes DEF Shaped
    <2>2. CASE ~(r = <<>> /\ ~OrderHasLost(d, t))
      BY <1>1, <1>2, <1>3, <1>6, <1>7, <1>8, <2>2, HeaderShrinks DEF Shaped
    <2>3. QED
      BY <2>1, <2>2
  <1>13. Shaped(T, L, even)
    BY <1>5, <1>7, <1>11, <1>12, LoopTagGone
  <1>14. QED
    BY <1>1, <1>2, <1>10, <1>13 DEF Balanced

\* Where delete_tag finds the tag: in the first loop that has it, which is the only one.
LEMMA LoopOfTag ==
    ASSUME NEW d, IsList(d.loops), NEW t, InLoop(d.loops, t)
    PROVE  \E i, k : /\ i \in DOMAIN d.loops /\ k \in DOMAIN d.loops[i] /\ d.loops[i][k] = t
                     /\ DeleteTag(d, t) = RemoveLoopTag(d, i, t)
  <1>1. PICK i : i = SelectInSeq(d.loops, LAMBDA h : t \in ToSet(h))
    OBVIOUS
  <1>2. DOMAIN d.loops = 1 .. Len(d.loops)
    BY ListFacts
  <1>3. PICK I : I = {j \in 1 .. Len(d.loops) : t \in ToSet(d.loops[j])}
    OBVIOUS
  <1>4. I # {} /\ I \subseteq Nat
    BY <1>2, <1>3 DEF InLoop, ToSet
  <1>5. i = Min(I)
    BY <1>1, <1>3, <1>4 DEF SelectInSeq
  <1>6. i \in I
    BY <1>4, <1>5, MinIsLeast
  <1>7. PICK k : i \in DOMAIN d.loops /\ k \in DOMAIN d.loops[i] /\ d.loops[i][k] = t
    BY <1>2, <1>3, <1>6 DEF ToSet
  <1>8. t \in LoopTags(d)
    BY DEF LoopTags, InLoop
  <1>9. DeleteTag(d, t) = RemoveLoopTag(d, i, t)
    BY <1>1, <1>8 DEF DeleteTag
  <1>10. QED
    BY <1>7, <1>9

LEMMA DeleteTagBalanced ==
    ASSUME NEW even, NEW d, Balanced(d, even), NEW t
    PROVE  Balanced(DeleteTag(d, t), even)
  <1>1. d = [order |-> d.order, tags |-> d.tags, loops |-> d.loops] /\ Shaped(d.tags, d.loops, even)
    BY DEF Balanced
  <1>2. t \in LoopTags(d) <=> InLoop(d.loops, t)
    BY DEF LoopTags, InLoop
  <1>3. CASE InLoop(d.loops, t)
    <2>1. PICK i, k : /\ i \in DOMAIN d.loops /\ k \in DOMAIN d.loops[i] /\ d.loops[i][k] = t
                      /\ DeleteTag(d, t) = RemoveLoopTag(d, i, t)
      BY <1>1, <1>3, LoopOfTag DEF Shaped, Columned
    <2>2. QED
      BY <2>1, RemoveLoopTagBalanced
  <1>4. CASE ~InLoop(d.loops, t)
    <2>1. PICK o : o = DeleteTag(d, t).order
      OBVIOUS
    <2>2. PICK T : T = [u \in DOMAIN d.tags \ {t} |-> d.tags[u]]
      OBVIOUS
    <2>3. DeleteTag(d, t) = [order |-> o, tags |-> T, loops |-> d.loops]
      BY <1>1, <1>2, <1>4, <2>1, <2>2 DEF DeleteTag, Without
    <2>4. Shaped(T, d.loops, even)
      BY <1>1, <1>4, <2>2, ScalarGone
    <2>5. QED
      BY <2>3, <2>4 DEF Balanced
  <1>5. QED
    BY <1>3, <1>4

-----------------------------------------------------------------------------
(***************************************************************************)
(* Numbers in order, as places are listed in.                              *)
(***************************************************************************)
\* The numbers of S, from the least to the greatest.
Sorts(o, S) ==
    /\ IsList(o) /\ S \subseteq Nat
    /\ \A i \in DOMAIN o : o[i] \in S
    /\ \A k \in S : \E i \in DOMAIN o : o[i] = k
    /\ \A i, j \in DOMAIN o : i < j => o[i] < o[j]

LEMMA OneCardinality == \A S : Sets!Cardinality(S) = Cardinality(S)
  BY DEF Sets!Cardinality, Cardinality

LEMMA InOrderSorts ==
    ASSUME NEW n \in Nat, NEW S, S \subseteq 1 .. n
    PROVE  Sorts(InOrder(S), S)
  <1>1. PICK o : o = InOrder(S)
    OBVIOUS
  <1>2. /\ Sets!Cardinality(S) = Cardinality(S)
        /\ \A k : Sets!Cardinality({j \in S : j <= k}) = Cardinality(UpTo(S, k))
    BY OneCardinality DEF UpTo
  <1>9. /\ o = [m \in 1 .. Cardinality(S) |-> o[m]]
        /\ \A m \in 1 .. Cardinality(S) :
                o[m] = CHOOSE k \in S : Sets!Cardinality({j \in S : j <= k}) = m
    <2> DEFINE nth(m) == CHOOSE k \in S : Sets!Cardinality({j \in S : j <= k}) = m
    <2>1. o = [m \in 1 .. Sets!Cardinality(S) |-> nth(m)]
      BY <1>1 DEF InOrder
    <2> HIDE DEF nth
    <2>2. DOMAIN o = 1 .. Cardinality(S)
      BY <1>2, <2>1
    <2>3. o = [m \in DOMAIN o |-> o[m]]
      BY <2>1
    <2>4. ASSUME NEW m \in 1 .. Cardinality(S)
          PROVE  o[m] = nth(m)
      <3>1. m \in 1 .. Sets!Cardinality(S)
        BY <1>2, <2>4
      <3>2. QED
        BY <2>1, <3>1
    <2>5. QED
      BY <2>2, <2>3, <2>4 DEF nth
  <1>3. Cardinality(S) \in Nat
    BY CountedPlaces
  <1>4. ASSUME NEW m \in DOMAIN o
        PROVE  o[m] \in S /\ Cardinality(UpTo(S, o[m])) = m
    <2>1. m \in 1 .. Cardinality(S)
      BY <1>9, <1>4
    <2>2. \E k \in S : Sets!Cardinality({j \in S : j <= k}) = m
      <3>1. PICK k \in S : Cardinality(UpTo(S, k)) = m
        BY <2>1, CountsReach
      <3>2. QED
        BY <1>2, <3>1
    <2>3. o[m] \in S /\ Sets!Cardinality({j \in S : j <= o[m]}) = m
      BY <1>9, <2>1, <2>2
    <2>4. QED
      BY <1>2, <2>3
  <1>5. IsList(o)
    BY <1>9, <1>3, ListOverPlaces
  <1>6. ASSUME NEW k \in S
        PROVE  \E i \in DOMAIN o : o[i] = k
    <2>1. PICK m : m = Cardinality(UpTo(S, k))
      OBVIOUS
    <2>2. k \in Nat /\ k \in UpTo(S, k)
      BY DEF UpTo
    <2>3. m \in Nat /\ m <= Cardinality(S) /\ IsFiniteSet(UpTo(S, k))
      BY <2>1, <2>2, CountedUpTo
    <2>4. m # 0
      BY <2>1, <2>2, UpToSome
    <2>5. m \in DOMAIN o
      BY <1>9, <1>3, <2>3, <2>4
    <2>6. o[m] \in S /\ Cardinality(UpTo(S, o[m])) = m
      BY <1>4, <2>5
    <2>8. o[m] = k
      BY <2>1, <2>6, CountsOnce
    <2>9. QED
      BY <2>5, <2>8
  <1>7. ASSUME NEW i \in DOMAIN o, NEW j \in DOMAIN o, i < j
        PROVE  o[i] < o[j]
    <2>1. o[i] \in S /\ o[j] \in S /\ Cardinality(UpTo(S, o[i])) = i /\ Cardinality(UpTo(S, o[j])) = j
      BY <1>4
    <2>2. i \in Nat /\ j \in Nat
      BY <1>9, <1>3
    <2>3. o[i] \in Nat /\ o[j] \in Nat
      <3>1. S \subseteq Nat
        OBVIOUS
      <3>2. QED
        BY <2>1, <3>1
    <2>4. PICK a, b : a = o[i] /\ b = o[j]
      OBVIOUS
    <2>5. a \in S /\ b \in S /\ Cardinality(UpTo(S, a)) = i /\ Cardinality(UpTo(S, b)) = j
      BY <2>1, <2>4
    <2>6. b < a => j < i
      BY <2>5, CountsApart
    <2>7. a # b
      BY <1>7, <2>2, <2>5
    <2>8. QED
      BY <1>7, <2>2, <2>3, <2>4, <2>6, <2>7
  <1>8. QED
    BY <1>1, <1>4, <1>5, <1>6, <1>7 DEF Sorts

LEMMA SortedOnce ==
    ASSUME NEW S, NEW o, Sorts(o, S), NEW p, Sorts(p, S)
    PROVE  o = p
  <1>1. /\ Len(o) \in Nat /\ DOMAIN o = 1 .. Len(o) /\ o = [i \in 1 .. Len(o) |-> o[i]]
        /\ Len(p) \in Nat /\ DOMAIN p = 1 .. Len(p) /\ p = [i \in 1 .. Len(p) |-> p[i]]
    BY ListFacts DEF Sorts
  <1>2. ASSUME NEW q, NEW r, Sorts(q, S), Sorts(r, S), NEW m \in DOMAIN q, m \in Nat, m # 0,
               DOMAIN q = 1 .. Len(q), Len(q) \in Nat, DOMAIN r = 1 .. Len(r), Len(r) \in Nat,
               \A i \in 1 .. m - 1 : i \in DOMAIN r /\ q[i] = r[i]
        PROVE  m \in DOMAIN r /\ r[m] <= q[m]
    <2>1. q[m] \in S /\ q[m] \in Nat
      BY <1>2 DEF Sorts
    <2>2. PICK j \in DOMAIN r : r[j] = q[m]
      BY <1>2, <2>1 DEF Sorts
    <2>3. j \notin 1 .. m - 1
      <3>1. SUFFICES ASSUME j \in 1 .. m - 1 PROVE FALSE
        OBVIOUS
      <3>2. j \in DOMAIN q /\ j < m /\ q[j] = r[j]
        BY <1>2, <3>1
      <3>3. q[j] < q[m]
        BY <1>2, <3>2 DEF Sorts
      <3>4. QED
        BY <2>1, <2>2, <3>2, <3>3
    <2>4. m \in DOMAIN r /\ m <= j
      BY <1>2, <2>2, <2>3
    <2>5. m = j \/ r[m] < r[j]
      BY <1>2, <2>2, <2>4 DEF Sorts
    <2>6. r[m] \in Nat
      BY <1>2, <2>4 DEF Sorts
    <2>7. QED
      BY <2>1, <2>2, <2>4, <2>5, <2>6
  <1> DEFINE T == {m \in Nat : m # 0 /\ (m \in DOMAIN o \/ m \in DOMAIN p) /\ ~(m \in DOMAIN o /\ m \in DOMAIN p /\ o[m] = p[m])}
  <1>3. T = {}
    <2> SUFFICES ASSUME T # {} PROVE FALSE
      OBVIOUS
    <2>1. PICK m \in T : \A j \in T : m <= j
      BY HasLeast
    <2>2. m \in Nat /\ m # 0
      BY <2>1
    <2>3. \A i \in 1 .. m - 1 : i \notin T /\ i \in Nat /\ i # 0
      BY <2>1, <2>2
    <2>4. \A i \in 1 .. m - 1 : i \in DOMAIN o /\ i \in DOMAIN p /\ o[i] = p[i]
      <3>1. \A i \in 1 .. m - 1 : i \in DOMAIN o \/ i \in DOMAIN p
        BY <1>1, <2>1, <2>2
      <3>2. QED
        BY <2>3, <3>1
    <2>5. m \in DOMAIN o => m \in DOMAIN p /\ p[m] <= o[m]
      BY <1>1, <1>2, <2>2, <2>4
    <2>6. m \in DOMAIN p => m \in DOMAIN o /\ o[m] <= p[m]
      BY <1>1, <1>2, <2>2, <2>4
    <2>7. m \in DOMAIN o /\ m \in DOMAIN p
      BY <2>1, <2>5, <2>6
    <2>8. o[m] \in Nat /\ p[m] \in Nat
      BY <2>7 DEF Sorts
    <2>9. o[m] = p[m]
      BY <2>5, <2>6, <2>7, <2>8
    <2>10. QED
      BY <2>1, <2>7, <2>9
  <1>4. \A m \in 1 .. Len(o) : m \in DOMAIN p /\ o[m] = p[m]
    BY <1>1, <1>3
  <1>5. \A m \in 1 .. Len(p) : m \in DOMAIN o
    BY <1>1, <1>3
  <1>6. DOMAIN o = DOMAIN p
    BY <1>1, <1>4, <1>5
  <1>7. QED
    BY <1>1, <1>4, <1>6

LEMMA AllInOrder ==
    ASSUME NEW m \in Nat
    PROVE  InOrder(1 .. m) = [k \in 1 .. m |-> k]
  <1>1. PICK o : o = [k \in 1 .. m |-> k]
    OBVIOUS
  <1>2. IsList(o)
    BY <1>1, ListOverPlaces
  <1>3. Sorts(o, 1 .. m)
    BY <1>1, <1>2 DEF Sorts
  <1>4. Sorts(InOrder(1 .. m), 1 .. m)
    BY InOrderSorts
  <1>5. QED
    BY <1>1, <1>3, <1>4, SortedOnce

\* A greater number behind the others.
LEMMA SortedWithOneMore ==
    ASSUME NEW o, NEW S, Sorts(o, S), NEW m \in Nat, \A k \in S : k < m
    PROVE  Sorts(Append(o, m), S \cup {m})
  <1>1. PICK p : p = Append(o, m)
    OBVIOUS
  <1>2. Len(o) \in Nat /\ DOMAIN o = 1 .. Len(o)
    BY ListFacts DEF Sorts
  <1>3. /\ IsList(p) /\ DOMAIN p = 1 .. Len(o) + 1 /\ p[Len(o) + 1] = m
        /\ \A i \in DOMAIN o : p[i] = o[i]
    BY <1>1, Appended DEF Sorts
  <1>4. \A i \in DOMAIN p : i \in DOMAIN o \/ i = Len(o) + 1
    BY <1>2, <1>3
  <1>5. \A i \in DOMAIN p : p[i] \in S \cup {m}
    BY <1>3, <1>4 DEF Sorts
  <1>6. ASSUME NEW k \in S \cup {m}
        PROVE  \E i \in DOMAIN p : p[i] = k
    <2>1. CASE k \in S
      <3>1. PICK i \in DOMAIN o : o[i] = k
        BY <2>1 DEF Sorts
      <3>2. QED
        BY <1>2, <1>3, <3>1
    <2>2. CASE k = m
      BY <1>2, <1>3, <2>2
    <2>3. QED
      BY <2>1, <2>2
  <1>7. ASSUME NEW i \in DOMAIN p, NEW j \in DOMAIN p, i < j
        PROVE  p[i] < p[j]
    <2>1. i \in DOMAIN o
      BY <1>2, <1>3, <1>7
    <2>2. CASE j \in DOMAIN o
      BY <1>3, <1>7, <2>1, <2>2 DEF Sorts
    <2>3. CASE j = Len(o) + 1
      BY <1>3, <2>1, <2>3 DEF Sorts
    <2>4. QED
      BY <1>4, <2>2, <2>3
  <1>8. S \cup {m} \subseteq Nat
    BY DEF Sorts
  <1>9. QED
    BY <1>1, <1>3, <1>5, <1>6, <1>7, <1>8 DEF Sorts

\* The numbers of S moved to others in the same order.
Moves(g, S) == g \in [S -> Nat] /\ \A j, k \in S : j < k => g[j] < g[k]

LEMMA SortedMoved ==
    ASSUME NEW o, NEW S, Sorts(o, S), NEW g, Moves(g, S),
           NEW p, p = [i \in DOMAIN o |-> g[o[i]]], NEW R, R = {g[k] : k \in S}
    PROVE  Sorts(p, R)
  <1>1. Len(o) \in Nat /\ DOMAIN o = 1 .. Len(o)
    BY ListFacts DEF Sorts
  <1>2. IsList(p) /\ DOMAIN p = DOMAIN o
    BY <1>1, ListOverPlaces
  <1>3. R \subseteq Nat
    BY DEF Moves
  <1>4. \A i \in DOMAIN p : p[i] \in R
    BY DEF Sorts
  <1>5. ASSUME NEW k \in R
        PROVE  \E i \in DOMAIN p : p[i] = k
    <2>1. PICK j \in S : k = g[j]
      BY <1>5
    <2>2. PICK i \in DOMAIN o : o[i] = j
      BY DEF Sorts
    <2>3. QED
      BY <2>1, <2>2
  <1>6. \A i, j \in DOMAIN p : i < j => p[i] < p[j]
    <2>1. \A i, j \in DOMAIN o : i < j => o[i] \in S /\ o[j] \in S /\ o[i] < o[j]
      BY DEF Sorts
    <2>2. QED
      BY <2>1 DEF Moves
  <1>7. QED
    BY <1>2, <1>3, <1>4, <1>5, <1>6 DEF Sorts

\* The same, but for one that is gone.
LEMMA SortedWithout ==
    ASSUME NEW o, NEW S, Sorts(o, S), NEW g, NEW m \in DOMAIN o, Moves(g, S \ {o[m]}),
           NEW p, p = [i \in 1 .. Len(o) - 1 |-> g[o[MovedUp(m, i)]]],
           NEW R, R = {g[k] : k \in S \ {o[m]}}
    PROVE  Sorts(p, R)
  <1>1. PICK n \in Nat : n = Len(o) /\ DOMAIN o = 1 .. n
    BY ListFacts DEF Sorts
  <1>2. n - 1 \in Nat /\ m \in Nat
    BY <1>1
  <1>3. IsList(p) /\ DOMAIN p = 1 .. n - 1
    BY <1>1, <1>2, ListOverPlaces
  <1>4. R \subseteq Nat
    BY DEF Moves
  <1>5. ASSUME NEW i \in DOMAIN p
        PROVE  MovedUp(m, i) \in DOMAIN o /\ MovedUp(m, i) # m /\ p[i] = g[o[MovedUp(m, i)]]
    <2>1. i \in 1 .. n - 1
      BY <1>3
    <2>2. MovedUp(m, i) \in 1 .. n /\ MovedUp(m, i) # m
      BY <1>1, <2>1 DEF MovedUp
    <2>3. QED
      BY <1>1, <2>1, <2>2
  <1>6. \A i, j \in DOMAIN o : i # j => o[i] # o[j]
    <2>1. \A i, j \in DOMAIN o : o[i] \in Nat /\ (i < j => o[i] < o[j])
      BY DEF Sorts
    <2>2. \A i, j \in DOMAIN o : i # j => i < j \/ j < i
      BY <1>1
    <2>3. QED
      BY <2>1, <2>2
  <1>7. \A i \in DOMAIN p : p[i] \in R
    BY <1>5, <1>6 DEF Sorts
  <1>8. ASSUME NEW k \in R
        PROVE  \E i \in DOMAIN p : p[i] = k
    <2>1. PICK j \in S \ {o[m]} : k = g[j]
      BY <1>8
    <2>2. PICK l \in DOMAIN o : o[l] = j
      BY DEF Sorts
    <2>3. l # m
      BY <2>1, <2>2
    <2>4. PICK i \in 1 .. n - 1 : MovedUp(m, i) = l
      <3>1. CASE l < m
        <4>1. l \in 1 .. n - 1 /\ MovedUp(m, l) = l
          BY <1>1, <3>1 DEF MovedUp
        <4>2. QED
          BY <4>1
      <3>2. CASE m < l
        <4>1. l - 1 \in 1 .. n - 1 /\ MovedUp(m, l - 1) = l
          BY <1>1, <3>2 DEF MovedUp
        <4>2. QED
          BY <4>1
      <3>3. QED
        BY <1>1, <2>3, <3>1, <3>2
    <2>5. p[i] = g[o[l]]
      BY <1>1, <2>4
    <2>6. QED
      BY <1>3, <2>1, <2>2, <2>4, <2>5
  <1>9. ASSUME NEW i \in DOMAIN p, NEW j \in DOMAIN p, i < j
        PROVE  p[i] < p[j]
    <2>1. MovedUp(m, i) < MovedUp(m, j)
      BY <1>2, <1>3, <1>9 DEF MovedUp
    <2>2. PICK a, b : a = MovedUp(m, i) /\ b = MovedUp(m, j)
      OBVIOUS
    <2>3. a \in DOMAIN o /\ b \in DOMAIN o /\ a # m /\ b # m /\ a < b /\ p[i] = g[o[a]] /\ p[j] = g[o[b]]
      BY <1>5, <2>1, <2>2
    <2>4. o[a] \in S \ {o[m]} /\ o[b] \in S \ {o[m]} /\ o[a] < o[b]
      BY <1>6, <2>3 DEF Sorts
    <2>5. QED
      BY <2>3, <2>4 DEF Moves
  <1>10. QED
    BY <1>3, <1>4, <1>7, <1>8, <1>9 DEF Sorts

-----------------------------------------------------------------------------
(***************************************************************************)
(* The order of a namespace: every tag once, and the tags of a loop after  *)
(* one another as its header has them.  reorder_loop_tags relies on it.    *)
(***************************************************************************)
RunAt(o, h, s) == \A k \in DOMAIN h : s + k \in DOMAIN o /\ o[s + k] = h[k]
Run(o, h) == 1 \in DOMAIN h /\ \E s \in Nat : RunAt(o, h, s)

Listed(o, T) ==
    /\ IsList(o) /\ \A j, k \in DOMAIN o : o[j] = o[k] => j = k
    /\ (\A k \in DOMAIN o : o[k] \in DOMAIN T) /\ \A t \in DOMAIN T : \E k \in DOMAIN o : o[k] = t
Together(o, L) == \A i \in DOMAIN L : Run(o, L[i])

Placed(d) == Listed(d.order, d.tags) /\ Together(d.order, d.loops)

LEMMA ListIn ==
    ASSUME NEW s, IsList(s), NEW S, {s[i] : i \in DOMAIN s} \subseteq S
    PROVE  s \in Seq(S)
  <1>1. \A i \in DOMAIN s : s[i] \in S
    OBVIOUS
  <1>2. Len(s) \in Nat /\ DOMAIN s = 1 .. Len(s) /\ s = [i \in 1 .. Len(s) |-> s[i]]
    BY ListFacts
  <1>3. s \in [1 .. Len(s) -> S]
    BY <1>1, <1>2
  <1>4. QED
    BY <1>2, <1>3

LEMMA Concatenated ==
    ASSUME NEW o, IsList(o), NEW h, IsList(h), NEW p, p = o \o h
    PROVE  IsList(p) /\ Joined(o, h, p)
  <1>1. PICK S : S = {o[i] : i \in DOMAIN o} \cup {h[i] : i \in DOMAIN h}
    OBVIOUS
  <1>2. o \in Seq(S)
    BY <1>1, ListIn
  <1>3. h \in Seq(S)
    BY <1>1, ListIn
  <1>4. p \in Seq(S) /\ Joined(o, h, p)
    BY <1>2, <1>3, JoinedLists
  <1>5. \A r \in Seq(S) : IsList(r)
    BY IsListOver
  <1>6. QED
    BY <1>4, <1>5

\* A list p that has t behind place q of o, and else what o has.
Inserted(o, p, q, t) ==
    /\ IsList(p) /\ DOMAIN p = 1 .. Len(o) + 1 /\ p[q + 1] = t
    /\ \A k \in DOMAIN o : p[Behind(q, k)] = o[k]

LEMMA InsertedBehind ==
    ASSUME NEW o, IsList(o), NEW q \in DOMAIN o, NEW t, NEW p, p = InsertAt(o, q + 1, t)
    PROVE  Inserted(o, p, q, t)
  <1>1. PICK S : S = {o[i] : i \in DOMAIN o} \cup {t}
    OBVIOUS
  <1>2. o \in Seq(S)
    BY <1>1, ListIn
  <1>3. DOMAIN o = 1 .. Len(o) /\ q \in 1 .. Len(o) /\ (q + 1) - 1 = q /\ t \in S
    BY <1>1, ListFacts
  <1>4. p = SubSeq(o, 1, q) \o <<t>> \o SubSeq(o, q + 1, Len(o))
    <2>1. p = SubSeq(o, 1, (q + 1) - 1) \o <<t>> \o SubSeq(o, q + 1, Len(o))
      BY DEF InsertAt
    <2>2. QED
      BY <1>3, <2>1
  <1>5. p \in Seq(S) /\ Widened(o, p, q, t)
    BY <1>2, <1>3, <1>4, WithOneMore
  <1>6. \A r \in Seq(S) : IsList(r) /\ DOMAIN r = 1 .. Len(r)
    BY IsListOver
  <1>7. QED
    BY <1>3, <1>5, <1>6 DEF Inserted, Widened

\* A tag, or the header of a loop, at the end.
LEMMA GrownOrder ==
    ASSUME NEW o, NEW T, Listed(o, T), NEW h, IsList(h),
           \A k \in DOMAIN h : h[k] \notin DOMAIN T,
           \A k, l \in DOMAIN h : h[k] = h[l] => k = l,
           NEW N, DOMAIN N = DOMAIN T \cup {h[k] : k \in DOMAIN h}, NEW p, p = o \o h
    PROVE  Listed(p, N) /\ RunAt(p, h, Len(o)) /\ \A g : Run(o, g) => Run(p, g)
  <1>2. PICK n \in Nat : n = Len(o) /\ DOMAIN o = 1 .. n
    BY ListFacts DEF Listed
  <1>3. PICK m \in Nat : m = Len(h) /\ DOMAIN h = 1 .. m
    BY ListFacts
  <1>4. /\ IsList(p) /\ DOMAIN p = 1 .. n + m
        /\ \A k \in 1 .. n : p[k] = o[k]
        /\ \A k \in 1 .. m : p[n + k] = h[k]
    <2>1. IsList(p) /\ Joined(o, h, p)
      BY Concatenated DEF Listed
    <2>2. QED
      BY <1>2, <1>3, <2>1 DEF Joined
  <1>5. \A k \in 1 .. n + m : k \in 1 .. n \/ (k - n \in 1 .. m /\ k = n + (k - n) /\ p[k] = h[k - n])
    <2>1. \A k \in 1 .. n + m : k \in 1 .. n \/ (k - n \in 1 .. m /\ k = n + (k - n))
      OBVIOUS
    <2>2. QED
      BY <1>4, <2>1
  <1>6. \A k \in 1 .. m : n + k \in 1 .. n + m
    OBVIOUS
  <1>7. ASSUME NEW j \in DOMAIN p, NEW k \in DOMAIN p, p[j] = p[k]
        PROVE  j = k
    <2>1. CASE j \in 1 .. n /\ k \in 1 .. n
      BY <1>2, <1>4, <1>7, <2>1 DEF Listed
    <2>2. CASE j \in 1 .. n /\ k \notin 1 .. n
      <3>1. p[j] \in DOMAIN T
        BY <1>2, <1>4, <2>2 DEF Listed
      <3>2. p[k] \notin DOMAIN T
        BY <1>3, <1>4, <1>5, <2>2
      <3>3. QED
        BY <1>7, <3>1, <3>2
    <2>3. CASE j \notin 1 .. n /\ k \in 1 .. n
      <3>1. p[k] \in DOMAIN T
        BY <1>2, <1>4, <2>3 DEF Listed
      <3>2. p[j] \notin DOMAIN T
        BY <1>3, <1>4, <1>5, <2>3
      <3>3. QED
        BY <1>7, <3>1, <3>2
    <2>4. CASE j \notin 1 .. n /\ k \notin 1 .. n
      <3>1. /\ j - n \in 1 .. m /\ k - n \in 1 .. m /\ j = n + (j - n) /\ k = n + (k - n)
            /\ h[j - n] = p[j] /\ h[k - n] = p[k]
        BY <1>4, <1>5, <2>4
      <3>2. j - n = k - n
        BY <1>3, <1>7, <3>1
      <3>3. QED
        BY <3>1, <3>2
    <2>5. QED
      BY <2>1, <2>2, <2>3, <2>4
  <1>8. ASSUME NEW k \in DOMAIN p PROVE p[k] \in DOMAIN N
    <2>1. CASE k \in 1 .. n
      BY <1>2, <1>4, <2>1 DEF Listed
    <2>2. CASE k \notin 1 .. n
      BY <1>3, <1>4, <1>5, <2>2
    <2>3. QED
      BY <2>1, <2>2
  <1>9. ASSUME NEW t \in DOMAIN N PROVE \E k \in DOMAIN p : p[k] = t
    <2>1. CASE t \in DOMAIN T
      <3>1. PICK k \in DOMAIN o : o[k] = t
        BY <2>1 DEF Listed
      <3>2. k \in DOMAIN p /\ p[k] = t
        BY <1>2, <1>4, <3>1
      <3>3. QED
        BY <3>2
    <2>2. CASE t \notin DOMAIN T
      <3>1. PICK k \in DOMAIN h : h[k] = t
        BY <2>2
      <3>2. n + k \in DOMAIN p /\ p[n + k] = t
        BY <1>3, <1>4, <1>6, <3>1
      <3>3. QED
        BY <3>2
    <2>3. QED
      BY <2>1, <2>2
  <1>10. Listed(p, N)
    BY <1>4, <1>7, <1>8, <1>9 DEF Listed
  <1>11. RunAt(p, h, n)
    BY <1>3, <1>4, <1>6 DEF RunAt
  <1>12. ASSUME NEW g, Run(o, g) PROVE Run(p, g)
    <2>1. PICK s \in Nat : RunAt(o, g, s)
      BY <1>12 DEF Run
    <2>2. RunAt(p, g, s)
      BY <1>2, <1>4, <2>1 DEF RunAt
    <2>3. QED
      BY <1>12, <2>2 DEF Run
  <1>13. QED
    BY <1>2, <1>10, <1>11, <1>12

\* A new tag behind place q: the runs beyond it move up by one place.
LEMMA RunPushed ==
    ASSUME NEW o, IsList(o), NEW q \in DOMAIN o, NEW t, NEW p, Inserted(o, p, q, t),
           NEW g, IsList(g), Run(o, g), \A k \in DOMAIN g : g[k] # o[q]
    PROVE  Run(p, g)
  <1>1. PICK s \in Nat : RunAt(o, g, s) /\ 1 \in DOMAIN g
    BY DEF Run
  <1>2. PICK n \in Nat : n = Len(o) /\ DOMAIN o = 1 .. n /\ q \in 1 .. n
    BY ListFacts
  <1>3. PICK m \in Nat : m = Len(g) /\ DOMAIN g = 1 .. m
    BY ListFacts
  <1>4. \A k \in 1 .. m : s + k \in 1 .. n /\ o[s + k] = g[k] /\ s + k # q
    BY <1>1, <1>2, <1>3 DEF RunAt
  <1>5. DOMAIN p = 1 .. n + 1 /\ \A k \in 1 .. n : p[Behind(q, k)] = o[k]
    BY <1>2 DEF Inserted
  <1>6. CASE q <= s
    <2>1. ASSUME NEW k \in 1 .. m
          PROVE  Behind(q, s + k) = (s + 1) + k /\ (s + 1) + k \in 1 .. n + 1
      <3>1. s + k \in 1 .. n
        BY <1>4
      <3>2. QED
        BY <1>2, <1>6, <3>1 DEF Behind
    <2>2. RunAt(p, g, s + 1)
      BY <1>3, <1>4, <1>5, <2>1 DEF RunAt
    <2>3. QED
      BY <1>1, <2>2 DEF Run
  <1>7. CASE ~(q <= s)
    <2>1. ~(q - s \in 1 .. m)
      BY <1>2, <1>4, <1>7
    <2>2. \A k \in 1 .. m : Behind(q, s + k) = s + k /\ s + k \in 1 .. n + 1
      BY <1>2, <1>4, <1>7, <2>1 DEF Behind
    <2>3. RunAt(p, g, s)
      BY <1>3, <1>4, <1>5, <2>2 DEF RunAt
    <2>4. QED
      BY <1>1, <2>3 DEF Run
  <1>8. QED
    BY <1>6, <1>7

\* The new tag is behind the last tag of its own loop.
LEMMA RunLonger ==
    ASSUME NEW o, IsList(o), NEW s \in Nat, NEW h, IsList(h), RunAt(o, h, s), 1 \in DOMAIN h,
           NEW t, NEW p, Inserted(o, p, s + Len(h), t), NEW g, g = Append(h, t)
    PROVE  Run(p, g) /\ RunAt(p, g, s)
  <1>1. PICK n \in Nat : n = Len(o) /\ DOMAIN o = 1 .. n
    BY ListFacts
  <1>2. PICK m \in Nat : m = Len(h) /\ DOMAIN h = 1 .. m
    BY ListFacts
  <1>3. \A k \in 1 .. m : s + k \in 1 .. n /\ o[s + k] = h[k]
    BY <1>1, <1>2 DEF RunAt
  <1>4. DOMAIN p = 1 .. n + 1 /\ p[s + m + 1] = t /\ \A k \in 1 .. n : p[Behind(s + m, k)] = o[k]
    BY <1>1, <1>2 DEF Inserted
  <1>5. DOMAIN g = 1 .. m + 1 /\ g[m + 1] = t /\ \A k \in 1 .. m : g[k] = h[k]
    BY <1>2, Appended
  <1>6. \A k \in 1 .. m : Behind(s + m, s + k) = s + k
    BY DEF Behind
  <1>7. ASSUME NEW k \in 1 .. m
        PROVE  s + k \in 1 .. n + 1 /\ p[s + k] = g[k]
    <2>1. s + k \in 1 .. n /\ o[s + k] = h[k]
      BY <1>3
    <2>2. p[Behind(s + m, s + k)] = o[s + k]
      BY <1>4, <2>1
    <2>3. p[s + k] = o[s + k]
      BY <1>6, <2>2
    <2>4. g[k] = h[k]
      BY <1>5
    <2>5. s + k \in 1 .. n + 1
      BY <2>1
    <2>6. QED
      BY <2>1, <2>3, <2>4, <2>5
  <1>8. s + (m + 1) \in 1 .. n + 1 /\ p[s + (m + 1)] = t
    <2>1. m \in 1 .. m /\ s + (m + 1) = s + m + 1
      BY <1>2
    <2>2. s + m \in 1 .. n
      BY <1>3, <2>1
    <2>3. QED
      BY <1>4, <2>1, <2>2
  <1>9. \A k \in 1 .. m + 1 : k \in 1 .. m \/ k = m + 1
    OBVIOUS
  <1>10. RunAt(p, g, s)
    BY <1>4, <1>5, <1>7, <1>8, <1>9 DEF RunAt
  <1>11. 1 \in DOMAIN g
    BY <1>5
  <1>12. QED
    BY <1>10, <1>11 DEF Run

LEMMA WidenedOrder ==
    ASSUME NEW o, NEW T, Listed(o, T), NEW q \in DOMAIN o, NEW t, t \notin DOMAIN T,
           NEW p, Inserted(o, p, q, t), NEW N, DOMAIN N = DOMAIN T \cup {t}
    PROVE  Listed(p, N)
  <1>1. PICK n \in Nat : n = Len(o) /\ DOMAIN o = 1 .. n /\ q \in 1 .. n
    BY ListFacts DEF Listed
  <1>2. IsList(p) /\ DOMAIN p = 1 .. n + 1 /\ p[q + 1] = t /\ \A k \in 1 .. n : p[Behind(q, k)] = o[k]
    BY <1>1 DEF Inserted
  <1>3. \A k \in 1 .. n : o[k] \in DOMAIN T /\ o[k] # t /\ Behind(q, k) \in 1 .. n + 1
    BY <1>1 DEF Listed, Behind
  <1>4. ASSUME NEW k \in 1 .. n + 1
        PROVE  \/ k = q + 1 /\ p[k] = t
               \/ \E j \in 1 .. n : k = Behind(q, j) /\ p[k] = o[j]
    <2>1. CASE k <= q
      <3>1. k \in 1 .. n /\ Behind(q, k) = k
        BY <1>1, <2>1 DEF Behind
      <3>2. QED
        BY <1>2, <3>1
    <2>2. CASE k = q + 1
      BY <1>2, <2>2
    <2>3. CASE k > q + 1
      <3>1. k - 1 \in 1 .. n /\ Behind(q, k - 1) = k
        BY <1>1, <2>3 DEF Behind
      <3>2. QED
        BY <1>2, <3>1
    <2>4. QED
      BY <1>1, <2>1, <2>2, <2>3
  <1>5. ASSUME NEW j \in DOMAIN p, NEW k \in DOMAIN p, p[j] = p[k]
        PROVE  j = k
    <2>1. CASE p[j] = t
      BY <1>2, <1>3, <1>4, <1>5, <2>1
    <2>2. CASE p[j] # t
      <3>1. PICK a \in 1 .. n : j = Behind(q, a) /\ p[j] = o[a]
        BY <1>2, <1>4, <2>2
      <3>2. PICK b \in 1 .. n : k = Behind(q, b) /\ p[k] = o[b]
        BY <1>2, <1>4, <1>5, <2>2
      <3>3. a = b
        BY <1>1, <1>5, <3>1, <3>2 DEF Listed
      <3>4. QED
        BY <3>1, <3>2, <3>3
    <2>3. QED
      BY <2>1, <2>2
  <1>6. \A k \in DOMAIN p : p[k] \in DOMAIN N
    BY <1>2, <1>3, <1>4
  <1>7. ASSUME NEW u \in DOMAIN N PROVE \E k \in DOMAIN p : p[k] = u
    <2>1. CASE u = t
      <3>1. q + 1 \in DOMAIN p
        BY <1>1, <1>2
      <3>2. QED
        BY <1>2, <2>1, <3>1
    <2>2. CASE u # t
      <3>1. PICK k \in 1 .. n : o[k] = u
        BY <1>1, <2>2 DEF Listed
      <3>2. QED
        BY <1>2, <1>3, <3>1
    <2>3. QED
      BY <2>1, <2>2
  <1>8. QED
    BY <1>2, <1>5, <1>6, <1>7 DEF Listed

\* A list p that has lost what o has at place q.
Removed(o, p, q) ==
    /\ IsList(p) /\ Len(p) = Len(o) - 1
    /\ \A l \in DOMAIN p : MovedUp(q, l) \in DOMAIN o /\ MovedUp(q, l) # q /\ p[l] = o[MovedUp(q, l)]
    /\ \A l \in DOMAIN o : l # q => \E m \in DOMAIN p : MovedUp(q, m) = l

\* A tag less at place q: the runs beyond it move down by one place.
LEMMA RunPulled ==
    ASSUME NEW o, IsList(o), NEW q \in DOMAIN o, NEW p, Removed(o, p, q),
           NEW g, IsList(g), Run(o, g), \A k \in DOMAIN g : g[k] # o[q]
    PROVE  Run(p, g)
  <1>1. PICK s \in Nat : RunAt(o, g, s) /\ 1 \in DOMAIN g
    BY DEF Run
  <1>2. PICK n \in Nat : n = Len(o) /\ DOMAIN o = 1 .. n /\ q \in 1 .. n
    BY ListFacts
  <1>3. PICK m \in Nat : m = Len(g) /\ DOMAIN g = 1 .. m
    BY ListFacts
  <1>4. \A k \in 1 .. m : s + k \in 1 .. n /\ o[s + k] = g[k] /\ s + k # q
    BY <1>1, <1>2, <1>3 DEF RunAt
  <1>5. DOMAIN p = 1 .. n - 1 /\ \A k \in 1 .. n - 1 : p[k] = o[MovedUp(q, k)]
    <2>1. IsList(p) /\ Len(p) = n - 1 /\ \A l \in DOMAIN p : p[l] = o[MovedUp(q, l)]
      BY <1>2 DEF Removed
    <2>2. QED
      BY <2>1, ListFacts
  <1>6. CASE q <= s
    <2>1. s - 1 \in Nat
      BY <1>2, <1>6
    <2>2. \A k \in 1 .. m : MovedUp(q, (s - 1) + k) = s + k /\ (s - 1) + k \in 1 .. n - 1
      BY <1>2, <1>4, <1>6 DEF MovedUp
    <2>3. RunAt(p, g, s - 1)
      BY <1>3, <1>4, <1>5, <2>2 DEF RunAt
    <2>4. QED
      BY <1>1, <2>1, <2>3 DEF Run
  <1>7. CASE ~(q <= s)
    <2>1. ~(q - s \in 1 .. m)
      BY <1>2, <1>4, <1>7
    <2>2. \A k \in 1 .. m : MovedUp(q, s + k) = s + k /\ s + k \in 1 .. n - 1
      BY <1>2, <1>4, <1>7, <2>1 DEF MovedUp
    <2>3. RunAt(p, g, s)
      BY <1>3, <1>4, <1>5, <2>2 DEF RunAt
    <2>4. QED
      BY <1>1, <2>3 DEF Run
  <1>8. QED
    BY <1>6, <1>7

LEMMA RunShorter ==
    ASSUME NEW o, IsList(o), NEW s \in Nat, NEW h, IsList(h), RunAt(o, h, s), NEW k \in DOMAIN h,
           NEW p, Removed(o, p, s + k), NEW r, Removed(h, r, k), 1 \in DOMAIN r
    PROVE  Run(p, r) /\ RunAt(p, r, s)
  <1>1. PICK n \in Nat : n = Len(o) /\ DOMAIN o = 1 .. n
    BY ListFacts
  <1>2. PICK m \in Nat : m = Len(h) /\ DOMAIN h = 1 .. m /\ k \in 1 .. m
    BY ListFacts
  <1>3. \A l \in 1 .. m : s + l \in 1 .. n /\ o[s + l] = h[l]
    BY <1>1, <1>2 DEF RunAt
  <1>4. DOMAIN p = 1 .. n - 1 /\ \A l \in 1 .. n - 1 : p[l] = o[MovedUp(s + k, l)]
    <2>1. IsList(p) /\ Len(p) = n - 1 /\ \A l \in DOMAIN p : p[l] = o[MovedUp(s + k, l)]
      BY <1>1 DEF Removed
    <2>2. QED
      BY <2>1, ListFacts
  <1>5. DOMAIN r = 1 .. m - 1 /\ \A l \in 1 .. m - 1 : MovedUp(k, l) \in 1 .. m /\ r[l] = h[MovedUp(k, l)]
    <2>1. /\ IsList(r) /\ Len(r) = m - 1
          /\ \A l \in DOMAIN r : MovedUp(k, l) \in DOMAIN h /\ r[l] = h[MovedUp(k, l)]
      BY <1>2 DEF Removed
    <2>2. QED
      BY <1>2, <2>1, ListFacts
  <1>6. ASSUME NEW l \in 1 .. m - 1
        PROVE  s + l \in 1 .. n - 1 /\ p[s + l] = r[l]
    <2>1. m \in 1 .. m
      BY <1>2
    <2>2. s + m \in 1 .. n
      BY <1>3, <2>1
    <2>3. s + l \in 1 .. n - 1 /\ MovedUp(s + k, s + l) = s + MovedUp(k, l)
      BY <1>2, <2>2 DEF MovedUp
    <2>4. p[s + l] = o[s + MovedUp(k, l)]
      BY <1>4, <2>3
    <2>5. o[s + MovedUp(k, l)] = h[MovedUp(k, l)]
      BY <1>3, <1>5
    <2>6. QED
      BY <1>5, <2>3, <2>4, <2>5
  <1>7. RunAt(p, r, s)
    BY <1>4, <1>5, <1>6 DEF RunAt
  <1>8. QED
    BY <1>7 DEF Run

LEMMA ShrunkOrder ==
    ASSUME NEW o, NEW T, Listed(o, T), NEW q \in DOMAIN o, NEW p, Removed(o, p, q),
           NEW N, DOMAIN N = DOMAIN T \ {o[q]}
    PROVE  Listed(p, N)
  <1>1. PICK n \in Nat : n = Len(o) /\ DOMAIN o = 1 .. n /\ q \in 1 .. n
    BY ListFacts DEF Listed
  <1>2. /\ IsList(p) /\ DOMAIN p = 1 .. n - 1
        /\ \A l \in DOMAIN p : MovedUp(q, l) \in 1 .. n /\ MovedUp(q, l) # q /\ p[l] = o[MovedUp(q, l)]
        /\ \A l \in 1 .. n : l # q => \E m \in DOMAIN p : MovedUp(q, m) = l
    BY <1>1, ListFacts DEF Removed
  <1>3. \A j, k \in 1 .. n : o[j] = o[k] => j = k
    BY <1>1 DEF Listed
  <1>4. \A j, k \in DOMAIN p : MovedUp(q, j) = MovedUp(q, k) => j = k
    BY <1>1, <1>2 DEF MovedUp
  <1>5. \A j, k \in DOMAIN p : p[j] = p[k] => j = k
    BY <1>2, <1>3, <1>4
  <1>6. \A k \in DOMAIN p : p[k] \in DOMAIN N
    <2>1. \A k \in 1 .. n : o[k] \in DOMAIN T /\ (k # q => o[k] # o[q])
      BY <1>1, <1>3 DEF Listed
    <2>2. QED
      BY <1>2, <2>1
  <1>7. ASSUME NEW u \in DOMAIN N PROVE \E k \in DOMAIN p : p[k] = u
    <2>1. PICK k \in 1 .. n : o[k] = u /\ k # q
      BY <1>1 DEF Listed
    <2>2. PICK m \in DOMAIN p : MovedUp(q, m) = k
      BY <1>2, <2>1
    <2>3. QED
      BY <1>2, <2>1, <2>2
  <1>8. QED
    BY <1>2, <1>5, <1>6, <1>7 DEF Listed

\* The tags of a header that are all new, each once.
LEMMA AllNew ==
    ASSUME NEW d, NEW h, NEW m \in Nat, h = [k \in 1 .. m |-> h[k]],
           \A k \in DOMAIN h : h[k] \notin DOMAIN d.tags,
           \A k, l \in DOMAIN h : h[k] = h[l] => k = l
    PROVE  NewTags(d, h) = h
  <1>1. DOMAIN h = 1 .. m
    OBVIOUS
  <1>2. PICK new : new = {k \in DOMAIN h : /\ h[k] \notin DOMAIN d.tags
                                           /\ \A j \in 1 .. k - 1 : h[j] # h[k]}
    OBVIOUS
  <1>3. new = 1 .. m
    <2>1. \A k \in 1 .. m : \A j \in 1 .. k - 1 : j \in 1 .. m /\ j # k
      OBVIOUS
    <2>2. QED
      BY <1>1, <1>2, <2>1
  <1>4. PICK o : o = InOrder(new)
    OBVIOUS
  <1>5. o = [k \in 1 .. m |-> k]
    BY <1>3, <1>4, AllInOrder
  <1>6. NewTags(d, h) = [n \in DOMAIN o |-> h[o[n]]]
    BY <1>2, <1>4 DEF NewTags
  <1>7. QED
    BY <1>5, <1>6

\* Where a loop stands in the order, as the code looks for it.
LEMMA StartOfRun ==
    ASSUME NEW o, IsList(o), \A j, k \in DOMAIN o : o[j] = o[k] => j = k,
           NEW g, IsList(g), 1 \in DOMAIN g, NEW s \in Nat, RunAt(o, g, s),
           NEW I, I = {k \in 1 .. Len(o) : o[k] \in ToSet(g)}
    PROVE  I # {} /\ Min(I) = s + 1
  <1>1. PICK n \in Nat : n = Len(o) /\ DOMAIN o = 1 .. n
    BY ListFacts
  <1>2. PICK m \in Nat : m = Len(g) /\ DOMAIN g = 1 .. m
    BY ListFacts
  <1>3. s + 1 \in I
    <2>1. s + 1 \in 1 .. n /\ o[s + 1] = g[1]
      BY <1>1 DEF RunAt
    <2>2. g[1] \in ToSet(g)
      BY DEF ToSet
    <2>3. QED
      BY <1>1, <2>1, <2>2
  <1>4. ASSUME NEW k \in I PROVE s + 1 <= k
    <2>1. PICK l \in 1 .. m : o[k] = g[l]
      BY <1>2 DEF ToSet
    <2>2. s + l \in DOMAIN o /\ o[s + l] = g[l]
      BY <1>2 DEF RunAt
    <2>3. k \in DOMAIN o
      BY <1>1
    <2>4. k = s + l
      BY <2>1, <2>2, <2>3
    <2>5. QED
      BY <2>4
  <1>5. I \subseteq Nat /\ I # {}
    BY <1>1, <1>3
  <1>6. Min(I) \in I /\ Min(I) <= s + 1
    BY <1>3, <1>5, MinIsLeast
  <1>7. Min(I) = s + 1
    <2>1. s + 1 <= Min(I) /\ Min(I) \in Nat
      BY <1>4, <1>5, <1>6
    <2>2. QED
      BY <1>6, <2>1
  <1>8. QED
    BY <1>5, <1>7

LEMMA EndOfRun ==
    ASSUME NEW o, IsList(o), \A j, k \in DOMAIN o : o[j] = o[k] => j = k,
           NEW g, IsList(g), 1 \in DOMAIN g, NEW s \in Nat, RunAt(o, g, s),
           NEW I, I = {k \in 1 .. Len(o) : o[k] = Last(g)}
    PROVE  I # {} /\ Max(I) = s + Len(g) /\ s + Len(g) \in DOMAIN o
  <1>1. PICK n \in Nat : n = Len(o) /\ DOMAIN o = 1 .. n
    BY ListFacts
  <1>2. PICK m \in Nat : m = Len(g) /\ DOMAIN g = 1 .. m
    BY ListFacts
  <1>3. m \in DOMAIN g /\ Last(g) = g[m]
    BY <1>2 DEF Last
  <1>4. s + m \in DOMAIN o /\ o[s + m] = g[m]
    BY <1>3 DEF RunAt
  <1>5. I = {s + m}
    BY <1>1, <1>3, <1>4
  <1>6. {s + m} \subseteq 0 .. n /\ {s + m} # {}
    BY <1>1, <1>4
  <1>7. Max({s + m}) \in {s + m}
    BY <1>6, MaxIsGreatest
  <1>8. Max(I) = s + m /\ I # {}
    BY <1>5, <1>7
  <1>9. QED
    BY <1>2, <1>4, <1>8

\* reorder_loop_tags: a list p that has h from behind place s on, and else what o has.
Overwritten(o, p, h, s) ==
    /\ IsList(p) /\ DOMAIN p = DOMAIN o
    /\ \A k \in DOMAIN h : p[s + k] = h[k]
    /\ \A k \in DOMAIN o : k - s \notin DOMAIN h => p[k] = o[k]

LEMMA OverwrittenAt ==
    ASSUME NEW o, IsList(o), NEW h, IsList(h), NEW s \in Nat, NEW g, RunAt(o, g, s), DOMAIN g = DOMAIN h,
           NEW p,
           p = [k \in DOMAIN o |-> IF k \in s + 1 .. s + 1 + Len(h) - 1 THEN h[k - (s + 1) + 1] ELSE o[k]]
    PROVE  Overwritten(o, p, h, s)
  <1>1. PICK n \in Nat : n = Len(o) /\ DOMAIN o = 1 .. n
    BY ListFacts
  <1>2. PICK m \in Nat : m = Len(h) /\ DOMAIN h = 1 .. m
    BY ListFacts
  <1>3. DOMAIN p = 1 .. n /\ p = [k \in 1 .. n |-> p[k]]
    BY <1>1
  <1>4. IsList(p)
    BY <1>3, ListOverPlaces
  <1>5. ASSUME NEW k \in DOMAIN h PROVE p[s + k] = h[k]
    <2>1. s + k \in DOMAIN o
      BY DEF RunAt
    <2>2. s + k \in s + 1 .. s + 1 + Len(h) - 1 /\ (s + k) - (s + 1) + 1 = k
      BY <1>2
    <2>3. QED
      BY <2>1, <2>2
  <1>6. ASSUME NEW k \in DOMAIN o, k - s \notin DOMAIN h PROVE p[k] = o[k]
    <2>1. k \notin s + 1 .. s + 1 + Len(h) - 1
      BY <1>1, <1>2, <1>6
    <2>2. QED
      BY <2>1
  <1>7. QED
    BY <1>1, <1>3, <1>4, <1>5, <1>6 DEF Overwritten

LEMMA ReorderedOrder ==
    ASSUME NEW o, NEW T, Listed(o, T), NEW s \in Nat, NEW g, IsList(g), RunAt(o, g, s),
           NEW h, Permuted(g, h), NEW p, Overwritten(o, p, h, s)
    PROVE  Listed(p, T) /\ RunAt(p, h, s)
  <1>1. PICK n \in Nat : n = Len(o) /\ DOMAIN o = 1 .. n
    BY ListFacts DEF Listed
  <1>2. PICK m \in Nat : m = Len(g) /\ DOMAIN g = 1 .. m /\ DOMAIN h = 1 .. m
    BY ListFacts DEF Permuted
  <1>12. ASSUME NEW k \in 1 .. m PROVE \E l \in 1 .. m : h[k] = g[l]
    BY <1>2 DEF Permuted
  <1>3. /\ IsList(p) /\ DOMAIN p = 1 .. n
        /\ \A k \in 1 .. m : p[s + k] = h[k]
        /\ \A k \in 1 .. n : k - s \notin 1 .. m => p[k] = o[k]
    BY <1>1, <1>2 DEF Overwritten
  <1>4. \A k \in 1 .. m : s + k \in 1 .. n /\ o[s + k] = g[k]
    BY <1>1, <1>2 DEF RunAt
  \* A place is one of the header's, or has what it had, which no place of the header has.
  <1>5. ASSUME NEW k \in 1 .. n
        PROVE  \/ k - s \in 1 .. m /\ k = s + (k - s) /\ p[k] = h[k - s]
               \/ k - s \notin 1 .. m /\ p[k] = o[k] /\ \A l \in 1 .. m : p[k] # h[l]
    <2>1. CASE k - s \in 1 .. m
      <3>1. k = s + (k - s)
        BY <1>1
      <3>2. QED
        BY <1>3, <2>1, <3>1
    <2>2. CASE k - s \notin 1 .. m
      <3>1. \A l \in 1 .. m : k # s + l
        BY <1>1, <2>2
      <3>2. \A l \in 1 .. m : o[k] # g[l]
        BY <1>1, <1>4, <3>1 DEF Listed
      <3>3. ASSUME NEW l \in 1 .. m PROVE o[k] # h[l]
        <4>1. PICK a \in 1 .. m : h[l] = g[a]
          BY <1>12
        <4>2. QED
          BY <3>2, <4>1
      <3>4. p[k] = o[k]
        BY <1>3, <2>2
      <3>5. QED
        BY <2>2, <3>3, <3>4
    <2>3. QED
      BY <2>1, <2>2
  <1>6. ASSUME NEW j \in 1 .. n, NEW k \in 1 .. n, p[j] = p[k]
        PROVE  j = k
    <2>1. CASE j - s \in 1 .. m
      <3>1. j = s + (j - s) /\ p[j] = h[j - s]
        BY <1>5, <2>1
      <3>2. k - s \in 1 .. m /\ k = s + (k - s) /\ p[k] = h[k - s]
        BY <1>5, <1>6, <2>1, <3>1
      <3>3. j - s = k - s
        <4>1. h[j - s] = h[k - s]
          BY <1>6, <3>1, <3>2
        <4>2. \A a, b \in 1 .. m : h[a] = h[b] => a = b
          BY <1>2 DEF Permuted
        <4>3. QED
          BY <2>1, <3>2, <4>1, <4>2
      <3>4. j \in Nat /\ k \in Nat
        BY <1>1
      <3>5. QED
        BY <3>3, <3>4
    <2>2. CASE j - s \notin 1 .. m
      <3>1. p[j] = o[j] /\ \A l \in 1 .. m : p[j] # h[l]
        BY <1>5, <2>2
      <3>2. p[k] = o[k]
        BY <1>5, <1>6, <3>1
      <3>3. QED
        BY <1>1, <1>6, <3>1, <3>2 DEF Listed
    <2>3. QED
      BY <2>1, <2>2
  <1>7. ASSUME NEW k \in 1 .. n PROVE p[k] \in DOMAIN T
    <2>1. CASE k - s \in 1 .. m
      <3>1. PICK l \in 1 .. m : p[k] = g[l]
        <4>1. p[k] = h[k - s]
          BY <1>5, <2>1
        <4>2. PICK a \in 1 .. m : a = k - s
          BY <2>1
        <4>3. QED
          BY <1>12, <4>1, <4>2
      <3>2. s + l \in DOMAIN o /\ o[s + l] = g[l]
        BY <1>1, <1>4
      <3>3. o[s + l] \in DOMAIN T
        BY <3>2 DEF Listed
      <3>4. QED
        BY <3>1, <3>2, <3>3
    <2>2. CASE k - s \notin 1 .. m
      BY <1>1, <1>5, <2>2 DEF Listed
    <2>3. QED
      BY <2>1, <2>2
  <1>8. ASSUME NEW t \in DOMAIN T PROVE \E k \in 1 .. n : p[k] = t
    <2>1. PICK k \in 1 .. n : o[k] = t
      BY <1>1 DEF Listed
    <2>2. CASE k - s \in 1 .. m
      <3>1. k = s + (k - s)
        BY <1>1
      <3>2. o[k] = g[k - s]
        BY <1>4, <2>2, <3>1
      <3>3. PICK l \in 1 .. m : h[l] = t
        <4>1. PICK a \in 1 .. m : a = k - s
          BY <2>2
        <4>2. g[a] = t
          BY <2>1, <3>2, <4>1
        <4>3. \E l \in 1 .. m : h[l] = g[a]
          BY <1>2 DEF Permuted
        <4>4. QED
          BY <4>2, <4>3
      <3>4. QED
        BY <1>3, <1>4, <3>3
    <2>3. CASE k - s \notin 1 .. m
      BY <1>3, <2>1, <2>3
    <2>4. QED
      BY <2>2, <2>3
  <1>9. Listed(p, T)
    BY <1>3, <1>6, <1>7, <1>8 DEF Listed
  <1>10. RunAt(p, h, s)
    BY <1>2, <1>3, <1>4 DEF RunAt
  <1>11. QED
    BY <1>9, <1>10

LEMMA RunKept ==
    ASSUME NEW o, NEW s \in Nat, NEW g, RunAt(o, g, s), NEW h, DOMAIN h = DOMAIN g,
           NEW p, Overwritten(o, p, h, s), IsList(o),
           NEW f, IsList(f), Run(o, f), \A k \in DOMAIN f : \A l \in DOMAIN g : f[k] # g[l]
    PROVE  Run(p, f)
  <1>1. PICK r \in Nat : RunAt(o, f, r) /\ 1 \in DOMAIN f
    BY DEF Run
  <1>2. ASSUME NEW k \in DOMAIN f
        PROVE  r + k \in DOMAIN p /\ p[r + k] = f[k]
    <2>1. r + k \in DOMAIN o /\ o[r + k] = f[k]
      BY <1>1 DEF RunAt
    <2>2. ASSUME (r + k) - s \in DOMAIN g PROVE FALSE
      <3>1. PICK l \in DOMAIN g : l = (r + k) - s
        BY <2>2
      <3>2. o[s + l] = g[l]
        BY DEF RunAt
      <3>3. r + k \in Nat
        BY <2>1, ListFacts
      <3>4. s + l = r + k
        BY <3>1, <3>3
      <3>5. QED
        BY <2>1, <3>2, <3>4
    <2>3. QED
      BY <2>1, <2>2 DEF Overwritten
  <1>3. RunAt(p, f, r)
    BY <1>2 DEF RunAt
  <1>4. QED
    BY <1>1, <1>3 DEF Run

LEMMA NotEmpty ==
    ASSUME NEW h, IsList(h), h # <<>>
    PROVE  1 \in DOMAIN h
  <1>1. h \in Seq({h[i] : i \in DOMAIN h}) /\ Len(h) \in Nat /\ DOMAIN h = 1 .. Len(h)
    BY ListFacts DEF IsList
  <1>2. Len(h) # 0
    BY <1>1, EmptySeq
  <1>3. QED
    BY <1>1, <1>2

LEMMA SetTagPlaced ==
    ASSUME NEW even, NEW d, Balanced(d, even), Placed(d), NEW t, CanSetTag(d, t), NEW v
    PROVE  Placed(SetTag(d, t, v))
  <1>1. PICK o : o = d.order
    OBVIOUS
  <1>2. PICK T : T = [u \in DOMAIN d.tags \cup {t} |-> IF u = t THEN <<v>> ELSE d.tags[u]]
    OBVIOUS
  <1>3. PICK p : p = Append(o, t)
    OBVIOUS
  <1>4. d = [order |-> d.order, tags |-> d.tags, loops |-> d.loops] /\ t \notin DOMAIN d.tags
    BY DEF Balanced, CanSetTag
  <1>5. SetTag(d, t, v) = [order |-> p, tags |-> T, loops |-> d.loops]
    BY <1>1, <1>2, <1>3, <1>4 DEF SetTag, AppendValue
  <1>6. PICK h : h = <<t>>
    OBVIOUS
  <1>7. IsList(h) /\ DOMAIN h = {1} /\ h[1] = t
    BY <1>6, ListOfOne
  <1>8. p = o \o h
    <2>1. PICK S : S = {o[i] : i \in DOMAIN o} \cup {t}
      OBVIOUS
    <2>2. o \in Seq(S)
      BY <1>1, <2>1, ListIn DEF Placed, Listed
    <2>3. t \in S
      BY <2>1
    <2>4. QED
      BY <1>3, <1>6, <2>2, <2>3, AppendIsConcat
  <1>9. DOMAIN T = DOMAIN d.tags \cup {h[k] : k \in DOMAIN h}
    BY <1>2, <1>7
  <1>10. Listed(o, d.tags) /\ Together(o, d.loops)
    BY <1>1 DEF Placed
  <1>11. \A k \in DOMAIN h : h[k] \notin DOMAIN d.tags
    BY <1>4, <1>7
  <1>12. \A k, l \in DOMAIN h : h[k] = h[l] => k = l
    BY <1>7
  <1>13. Listed(p, T) /\ \A g : Run(o, g) => Run(p, g)
    BY <1>7, <1>8, <1>9, <1>10, <1>11, <1>12, GrownOrder
  <1>14. QED
    BY <1>5, <1>10, <1>13 DEF Placed, Together

LEMMA AddLoopPlaced ==
    ASSUME NEW even, NEW d, Balanced(d, even), Placed(d), NEW h, IsList(h),
           \A k, l \in DOMAIN h : h[k] = h[l] => k = l, NEW C, CanAddLoop(d, h, C)
    PROVE  Placed(AddLoop(d, h, C))
  <1>1. PICK o : o = d.order
    OBVIOUS
  <1>2. PICK T : T = [t \in DOMAIN d.tags \cup {h[k] : k \in DOMAIN h} |->
                        IF t \in {h[k] : k \in DOMAIN h} THEN C[t] ELSE d.tags[t]]
    OBVIOUS
  <1>3. PICK L : L = Append(d.loops, h)
    OBVIOUS
  <1>4. PICK p : p = o \o h
    OBVIOUS
  <1>5. \A k \in DOMAIN h : h[k] \notin DOMAIN d.tags
    <2>1. \A k \in DOMAIN h : h[k] \in ToSet(h)
      BY DEF ToSet
    <2>2. QED
      BY <2>1 DEF CanAddLoop
  <1>6. NewTags(d, h) = h
    BY <1>5, ListFacts, AllNew
  <1>7. AddLoop(d, h, C) = [order |-> p, tags |-> T, loops |-> L]
    BY <1>1, <1>2, <1>3, <1>4, <1>6 DEF AddLoop
  <1>8. Listed(o, d.tags) /\ Together(o, d.loops)
    BY <1>1 DEF Placed
  <1>9. DOMAIN T = DOMAIN d.tags \cup {h[k] : k \in DOMAIN h}
    BY <1>2
  <1>10. Listed(p, T) /\ RunAt(p, h, Len(o)) /\ \A g : Run(o, g) => Run(p, g)
    BY <1>4, <1>5, <1>8, <1>9, GrownOrder
  <1>11. Run(p, h)
    <2>1. Len(o) \in Nat
      BY <1>8, ListFacts DEF Listed
    <2>2. 1 \in DOMAIN h
      BY NotEmpty DEF CanAddLoop
    <2>3. QED
      BY <1>10, <2>1, <2>2 DEF Run
  <1>12. \A i \in DOMAIN L : L[i] = h \/ (i \in DOMAIN d.loops /\ L[i] = d.loops[i])
    BY <1>3, Appended, ListFacts DEF Balanced, Shaped, Columned
  <1>13. Together(p, L)
    BY <1>8, <1>10, <1>11, <1>12 DEF Together
  <1>14. QED
    BY <1>7, <1>10, <1>13 DEF Placed

\* add_loop_column: the tag behind the loop, which begins behind place s.
WithColumn(d, i, t, c, s, e) ==
    /\ RunAt(d.order, d.loops[i], s) /\ 1 \in DOMAIN d.loops[i]
    /\ s + Len(d.loops[i]) \in DOMAIN d.order
    /\ Inserted(d.order, e.order, s + Len(d.loops[i]), t)
    /\ e.tags = [u \in DOMAIN d.tags \cup {t} |-> IF u = t THEN c ELSE d.tags[u]]
    /\ e.loops = [d.loops EXCEPT ![i] = Append(d.loops[i], t)]

LEMMA AddLoopColumnMakes ==
    ASSUME NEW even, NEW d, Balanced(d, even), Placed(d), NEW i \in DOMAIN d.loops, NEW t, NEW c,
           CanAddLoopColumn(d, i, t, c)
    PROVE  \E s \in Nat : WithColumn(d, i, t, c, s, AddLoopColumn(d, i, t, c))
  <1>1. PICK o : o = d.order
    OBVIOUS
  <1>2. PICK T : T = [u \in DOMAIN d.tags \cup {t} |-> IF u = t THEN c ELSE d.tags[u]]
    OBVIOUS
  <1>3. PICK g : g = d.loops[i]
    OBVIOUS
  <1>4. PICK L : L = [d.loops EXCEPT ![i] = Append(@, t)]
    OBVIOUS
  <1>5. Listed(o, d.tags) /\ Together(o, d.loops) /\ IsList(o)
    BY <1>1 DEF Placed, Listed
  <1>6. IsList(g) /\ IsList(d.loops) /\ OnceEach(d.loops) /\ \A j \in DOMAIN d.loops : IsList(d.loops[j])
    BY <1>3 DEF Balanced, Shaped, Columned
  <1>7. PICK s \in Nat : RunAt(o, g, s) /\ 1 \in DOMAIN g
    BY <1>3, <1>5 DEF Together, Run
  <1>8. PICK q : q = SelectLastInSeq(d.order, LAMBDA u : u = Last(d.loops[i]))
    OBVIOUS
  <1>9. q = s + Len(g) /\ q \in DOMAIN o
    <2>1. PICK I : I = {k \in 1 .. Len(d.order) : d.order[k] = Last(d.loops[i])}
      OBVIOUS
    <2>2. I = {k \in 1 .. Len(o) : o[k] = Last(g)}
      BY <1>1, <1>3, <2>1
    <2>3. \A j, k \in DOMAIN o : o[j] = o[k] => j = k
      BY <1>5 DEF Listed
    <2>4. I # {} /\ Max(I) = s + Len(g) /\ s + Len(g) \in DOMAIN o
      BY <1>5, <1>6, <1>7, <2>2, <2>3, EndOfRun
    <2>5. q = Max(I)
      BY <1>8, <2>1, <2>4 DEF SelectLastInSeq
    <2>6. QED
      BY <2>4, <2>5
  <1>10. PICK p : p = InsertAt(o, q + 1, t)
    OBVIOUS
  <1>11. AddLoopColumn(d, i, t, c) = [order |-> p, tags |-> T, loops |-> L]
    BY <1>1, <1>2, <1>4, <1>8, <1>10 DEF AddLoopColumn
  <1>12. Inserted(o, p, q, t)
    BY <1>5, <1>9, <1>10, InsertedBehind
  <1>13. PICK e : e = AddLoopColumn(d, i, t, c)
    OBVIOUS
  <1>14. e.order = p /\ e.tags = T /\ e.loops = L
    BY <1>11, <1>13
  <1>15. WithColumn(d, i, t, c, s, e)
    BY <1>1, <1>2, <1>3, <1>4, <1>7, <1>9, <1>12, <1>14 DEF WithColumn
  <1>16. QED
    BY <1>13, <1>15

LEMMA AddLoopColumnPlaced ==
    ASSUME NEW even, NEW d, Balanced(d, even), Placed(d), NEW i \in DOMAIN d.loops, NEW t, NEW c,
           CanAddLoopColumn(d, i, t, c)
    PROVE  Placed(AddLoopColumn(d, i, t, c))
  <1>1. PICK o : o = d.order
    OBVIOUS
  <1>2. PICK g : g = d.loops[i]
    OBVIOUS
  <1>3. Listed(o, d.tags) /\ Together(o, d.loops) /\ IsList(o)
    BY <1>1 DEF Placed, Listed
  <1>4. IsList(g) /\ IsList(d.loops) /\ OnceEach(d.loops) /\ \A j \in DOMAIN d.loops : IsList(d.loops[j])
    BY <1>2 DEF Balanced, Shaped, Columned
  <1>5. PICK e : e = AddLoopColumn(d, i, t, c)
    OBVIOUS
  <1>6. PICK s \in Nat : WithColumn(d, i, t, c, s, e)
    BY <1>5, AddLoopColumnMakes
  <1>7. PICK p, T, L : p = e.order /\ T = e.tags /\ L = e.loops
    OBVIOUS
  <1>8. /\ RunAt(o, g, s) /\ 1 \in DOMAIN g /\ s + Len(g) \in DOMAIN o
        /\ Inserted(o, p, s + Len(g), t)
        /\ T = [u \in DOMAIN d.tags \cup {t} |-> IF u = t THEN c ELSE d.tags[u]]
        /\ L = [d.loops EXCEPT ![i] = Append(g, t)]
    BY <1>1, <1>2, <1>6, <1>7 DEF WithColumn
  <1>9. PICK q : q = s + Len(g)
    OBVIOUS
  <1>10. Inserted(o, p, q, t) /\ q \in DOMAIN o
    BY <1>8, <1>9
  <1>11. Listed(p, T)
    <2>1. DOMAIN T = DOMAIN d.tags \cup {t} /\ t \notin DOMAIN d.tags
      BY <1>8 DEF CanAddLoopColumn
    <2>2. QED
      BY <1>3, <1>10, <2>1, WidenedOrder
  <1>12. PICK longer : longer = Append(g, t)
    OBVIOUS
  <1>13. DOMAIN L = DOMAIN d.loops /\ L[i] = longer /\ \A j \in DOMAIN d.loops : j # i => L[j] = d.loops[j]
    BY <1>2, <1>4, <1>8, <1>12, Replaced
  <1>14. Run(p, longer)
    BY <1>3, <1>4, <1>8, <1>9, <1>10, <1>12, RunLonger
  <1>15. ASSUME NEW j \in DOMAIN d.loops, j # i
         PROVE  Run(p, d.loops[j])
    <2>1. Len(g) \in DOMAIN g /\ o[q] = g[Len(g)]
      <3>1. Len(g) \in Nat /\ DOMAIN g = 1 .. Len(g)
        BY <1>4, ListFacts
      <3>2. Len(g) \in DOMAIN g
        BY <1>8, <3>1
      <3>3. QED
        BY <1>8, <1>9, <3>2 DEF RunAt
    <2>2. \A k \in DOMAIN d.loops[j] : d.loops[j][k] # o[q]
      BY <1>2, <1>4, <1>15, <2>1, OnlyOnce
    <2>3. IsList(d.loops[j]) /\ Run(o, d.loops[j])
      BY <1>3, <1>4 DEF Together
    <2>4. QED
      BY <1>3, <1>10, <2>2, <2>3, RunPushed
  <1>16. Together(p, L)
    BY <1>13, <1>14, <1>15 DEF Together
  <1>17. QED
    BY <1>11, <1>16, <1>5, <1>7 DEF Placed

\* reorder_loop_tags: the header over the loop's places.
Rewritten(d, i, h, s, e) ==
    /\ RunAt(d.order, d.loops[i], s) /\ 1 \in DOMAIN d.loops[i]
    /\ Overwritten(d.order, e.order, h, s)
    /\ e.tags = d.tags /\ e.loops = [d.loops EXCEPT ![i] = h]

LEMMA ReorderMakes ==
    ASSUME NEW even, NEW d, Balanced(d, even), Placed(d), NEW i \in DOMAIN d.loops, NEW h, IsList(h),
           Permuted(d.loops[i], h)
    PROVE  \E s \in Nat : Rewritten(d, i, h, s, ReorderLoopTags(d, i, h))
  <1>1. PICK start : start = SelectInSeq(d.order, LAMBDA t : t \in ToSet(d.loops[i]))
    OBVIOUS
  <1>2. PICK p : p = [k \in DOMAIN d.order |-> IF k \in start .. start + Len(h) - 1
                                              THEN h[k - start + 1] ELSE d.order[k]]
    OBVIOUS
  <1>3. PICK L : L = [d.loops EXCEPT ![i] = h]
    OBVIOUS
  <1>4. ReorderLoopTags(d, i, h) = [order |-> p, tags |-> d.tags, loops |-> L]
    <2>1. ReorderLoopTags(d, i, h) = [d EXCEPT !.order = p, !.loops[i] = h]
      BY <1>1, <1>2 DEF ReorderLoopTags
    <2>2. d = [order |-> d.order, tags |-> d.tags, loops |-> d.loops]
      BY DEF Balanced
    <2>3. QED
      BY <1>3, <2>1, <2>2
  <1>5. PICK o : o = d.order
    OBVIOUS
  <1>6. PICK g : g = d.loops[i]
    OBVIOUS
  <1>7. /\ Listed(o, d.tags) /\ Together(o, d.loops) /\ IsList(o)
        /\ \A j, k \in DOMAIN o : o[j] = o[k] => j = k
    BY <1>5 DEF Placed, Listed
  <1>8. IsList(g) /\ IsList(d.loops) /\ OnceEach(d.loops) /\ \A j \in DOMAIN d.loops : IsList(d.loops[j])
    BY <1>6 DEF Balanced, Shaped, Columned
  <1>9. PICK s \in Nat : RunAt(o, g, s) /\ 1 \in DOMAIN g
    BY <1>6, <1>7 DEF Together, Run
  <1>10. start = s + 1
    <2>1. PICK I : I = {k \in 1 .. Len(d.order) : d.order[k] \in ToSet(d.loops[i])}
      OBVIOUS
    <2>2. I = {k \in 1 .. Len(o) : o[k] \in ToSet(g)}
      BY <1>5, <1>6, <2>1
    <2>3. I # {} /\ Min(I) = s + 1
      BY <1>7, <1>8, <1>9, <2>2, StartOfRun
    <2>4. start = Min(I)
      BY <1>1, <2>1, <2>3 DEF SelectInSeq
    <2>5. QED
      BY <2>3, <2>4
  <1>11. Permuted(g, h) /\ DOMAIN g = DOMAIN h
    BY <1>6 DEF Permuted
  <1>12. Overwritten(o, p, h, s)
    <2>1. p = [k \in DOMAIN o |-> IF k \in s + 1 .. s + 1 + Len(h) - 1 THEN h[k - (s + 1) + 1] ELSE o[k]]
      BY <1>2, <1>5, <1>10
    <2>2. QED
      BY <1>7, <1>9, <1>11, <2>1, OverwrittenAt
  <1>13. PICK e : e = ReorderLoopTags(d, i, h)
    OBVIOUS
  <1>14. e.order = p /\ e.tags = d.tags /\ e.loops = L
    BY <1>4, <1>13
  <1>15. Rewritten(d, i, h, s, e)
    BY <1>3, <1>5, <1>6, <1>9, <1>12, <1>14 DEF Rewritten
  <1>16. QED
    BY <1>13, <1>15

LEMMA ReorderPlaced ==
    ASSUME NEW even, NEW d, Balanced(d, even), Placed(d), NEW i \in DOMAIN d.loops, NEW h, IsList(h),
           Permuted(d.loops[i], h)
    PROVE  Placed(ReorderLoopTags(d, i, h))
  <1>1. PICK o : o = d.order
    OBVIOUS
  <1>2. PICK g : g = d.loops[i]
    OBVIOUS
  <1>3. /\ Listed(o, d.tags) /\ Together(o, d.loops) /\ IsList(o)
        /\ \A j, k \in DOMAIN o : o[j] = o[k] => j = k
    BY <1>1 DEF Placed, Listed
  <1>4. IsList(g) /\ IsList(d.loops) /\ OnceEach(d.loops) /\ \A j \in DOMAIN d.loops : IsList(d.loops[j])
    BY <1>2 DEF Balanced, Shaped, Columned
  <1>5. PICK e : e = ReorderLoopTags(d, i, h)
    OBVIOUS
  <1>6. PICK s \in Nat : Rewritten(d, i, h, s, e)
    BY <1>5, ReorderMakes
  <1>7. PICK p, L : p = e.order /\ L = e.loops
    OBVIOUS
  <1>8. /\ RunAt(o, g, s) /\ 1 \in DOMAIN g /\ Overwritten(o, p, h, s)
        /\ L = [d.loops EXCEPT ![i] = h] /\ e.tags = d.tags
    BY <1>1, <1>2, <1>6, <1>7 DEF Rewritten
  <1>9. Permuted(g, h) /\ DOMAIN g = DOMAIN h
    BY <1>2 DEF Permuted
  <1>10. Listed(p, d.tags) /\ RunAt(p, h, s)
    BY <1>3, <1>4, <1>8, <1>9, ReorderedOrder
  <1>11. DOMAIN L = DOMAIN d.loops /\ L[i] = h /\ \A j \in DOMAIN d.loops : j # i => L[j] = d.loops[j]
    BY <1>4, <1>8, Replaced
  <1>12. ASSUME NEW j \in DOMAIN d.loops, j # i
         PROVE  Run(p, d.loops[j])
    <2>1. \A k \in DOMAIN d.loops[j] : \A l \in DOMAIN g : d.loops[j][k] # g[l]
      BY <1>2, <1>4, <1>12, OnlyOnce
    <2>2. IsList(d.loops[j]) /\ Run(o, d.loops[j])
      BY <1>3, <1>4 DEF Together
    <2>3. QED
      BY <1>3, <1>8, <1>9, <2>1, <2>2, RunKept
  <1>13. Run(p, h)
    BY <1>8, <1>9, <1>10 DEF Run
  <1>14. Together(p, L)
    BY <1>11, <1>12, <1>13 DEF Together
  <1>15. QED
    BY <1>8, <1>10, <1>14, <1>5, <1>7 DEF Placed

\* Calls that give tags other values leave the order and the loops alone.
LEMMA ValuesPlaced ==
    ASSUME NEW d, Placed(d), NEW T, DOMAIN T = DOMAIN d.tags, NEW e,
           e = [order |-> d.order, tags |-> T, loops |-> d.loops]
    PROVE  Placed(e)
  <1>1. e.order = d.order /\ e.tags = T /\ e.loops = d.loops
    OBVIOUS
  <1>2. QED
    BY <1>1 DEF Placed, Listed

LEMMA AddLoopRowPlaced ==
    ASSUME NEW even, NEW d, Balanced(d, even), Placed(d), NEW i, NEW row
    PROVE  Placed(AddLoopRow(d, i, row))
  <1>1. PICK T : T = [t \in DOMAIN d.tags |-> IF t \in ToSet(d.loops[i])
                        THEN Append(d.tags[t], row[FirstPlace(d.loops[i], t)]) ELSE d.tags[t]]
    OBVIOUS
  <1>2. d = [order |-> d.order, tags |-> d.tags, loops |-> d.loops]
    BY DEF Balanced
  <1>3. AddLoopRow(d, i, row) = [d EXCEPT !.tags = T]
    BY <1>1 DEF AddLoopRow
  <1>4. AddLoopRow(d, i, row) = [order |-> d.order, tags |-> T, loops |-> d.loops]
    BY <1>2, <1>3
  <1>5. QED
    BY <1>1, <1>4, ValuesPlaced

LEMMA ReassignPlaced ==
    ASSUME NEW even, NEW d, Balanced(d, even), Placed(d), NEW t, NEW values
    PROVE  Placed(ReassignTag(d, t, values))
  <1>1. PICK c : c = IF t \in LoopTags(d) \/ Len(values) = 1 THEN values ELSE <<Container>>
    OBVIOUS
  <1>2. PICK T : T = [d.tags EXCEPT ![t] = c]
    OBVIOUS
  <1>3. d = [order |-> d.order, tags |-> d.tags, loops |-> d.loops]
    BY DEF Balanced
  <1>4. ReassignTag(d, t, values) = [order |-> d.order, tags |-> T, loops |-> d.loops]
    BY <1>1, <1>2, <1>3 DEF ReassignTag
  <1>5. DOMAIN T = DOMAIN d.tags
    BY <1>2
  <1>6. QED
    BY <1>4, <1>5, ValuesPlaced

LEMMA TakenOut ==
    ASSUME NEW h, IsList(h), NEW k \in DOMAIN h, \A l \in DOMAIN h : h[l] = h[k] => l = k,
           NEW p, p = RemoveAt(h, k)
    PROVE  RemoveFirst(h, h[k]) = p /\ Removed(h, p, k)
  BY HeaderWithout DEF Removed

\* What is left of the headers when one of them is taken out of the list.
LEMMA OthersStay ==
    ASSUME NEW L, IsList(L), NEW i \in DOMAIN L, NEW M, M = RemoveAt(L, i)
    PROVE  \A j \in DOMAIN M : \E m \in DOMAIN L : m # i /\ M[j] = L[m]
  <1>1. PICK n \in Nat : n = Len(L) /\ DOMAIN L = 1 .. n
    BY ListFacts
  <1>2. PICK S : S = {L[j] : j \in DOMAIN L}
    OBVIOUS
  <1>3. L \in Seq(S)
    BY <1>2 DEF IsList
  <1>4. M \in Seq(S) /\ Len(M) = n - 1 /\ \A j \in 1 .. n - 1 : M[j] = IF j < i THEN L[j] ELSE L[j + 1]
    BY <1>1, <1>3, RemovedAt
  <1>5. DOMAIN M = 1 .. n - 1
    BY <1>1, <1>4
  <1>6. \A j \in DOMAIN M : MovedUp(i, j) \in DOMAIN L /\ MovedUp(i, j) # i /\ M[j] = L[MovedUp(i, j)]
    BY <1>1, <1>4, <1>5 DEF MovedUp
  <1>7. QED
    BY <1>6

\* _remove_loop_tag_impl: the tag is gone from the order and the header, r afterwards.
TagRemoved(d, i, k, s, r, e) ==
    /\ s \in Nat /\ RunAt(d.order, d.loops[i], s)
    /\ s + k \in DOMAIN d.order /\ d.order[s + k] = d.loops[i][k]
    /\ Removed(d.order, e.order, s + k) /\ Removed(d.loops[i], r, k)
    /\ e.tags = [u \in DOMAIN d.tags \ {d.loops[i][k]} |-> d.tags[u]]
    /\ e.loops = IF r = <<>> THEN RemoveAt(d.loops, i) ELSE [d.loops EXCEPT ![i] = r]

LEMMA RemoveLoopTagMakes ==
    ASSUME NEW even, NEW d, Balanced(d, even), Placed(d), NEW i \in DOMAIN d.loops, NEW k \in DOMAIN d.loops[i]
    PROVE  \E s, r : TagRemoved(d, i, k, s, r, RemoveLoopTag(d, i, d.loops[i][k]))
  <1>1. PICK o : o = d.order
    OBVIOUS
  <1>2. PICK h : h = d.loops[i]
    OBVIOUS
  <1>3. PICK t : t = h[k]
    OBVIOUS
  <1>4. PICK T : T = [u \in DOMAIN d.tags \ {t} |-> d.tags[u]]
    OBVIOUS
  <1>5. PICK r : r = RemoveAt(h, k)
    OBVIOUS
  <1>6. PICK L : L = IF r = <<>> THEN RemoveAt(d.loops, i) ELSE [d.loops EXCEPT ![i] = r]
    OBVIOUS
  <1>7. /\ Listed(o, d.tags) /\ Together(o, d.loops) /\ IsList(o)
        /\ \A j, l \in DOMAIN o : o[j] = o[l] => j = l
    BY <1>1 DEF Placed, Listed
  <1>8. IsList(h) /\ IsList(d.loops) /\ OnceEach(d.loops) /\ \A j \in DOMAIN d.loops : IsList(d.loops[j])
    BY <1>2 DEF Balanced, Shaped, Columned
  <1>9. PICK s \in Nat : RunAt(o, h, s)
    BY <1>2, <1>7 DEF Together, Run
  <1>10. PICK q : q = s + k
    OBVIOUS
  <1>11. q \in DOMAIN o /\ o[q] = t
    BY <1>2, <1>3, <1>9, <1>10 DEF RunAt
  <1>12. PICK p : p = RemoveAt(o, q)
    OBVIOUS
  <1>13. RemoveFirst(o, t) = p /\ Removed(o, p, q)
    <2>1. RemoveFirst(o, o[q]) = p /\ Removed(o, p, q)
      BY <1>7, <1>11, <1>12, TakenOut
    <2>2. QED
      BY <1>11, <2>1
  <1>14. k \in DOMAIN h /\ \A l \in DOMAIN h : h[l] = h[k] => l = k
    BY <1>2, <1>8 DEF OnceEach
  <1>15. RemoveFirst(h, t) = r /\ Removed(h, r, k)
    <2>1. RemoveFirst(h, h[k]) = r /\ Removed(h, r, k)
      BY <1>5, <1>8, <1>14, TakenOut
    <2>2. QED
      BY <1>3, <2>1
  <1>16. RemoveLoopTag(d, i, t) = [order |-> p, tags |-> T, loops |-> L]
    <2>1. ~OrderHasLost(d, t)
      BY <1>1, <1>11 DEF OrderHasLost, ToSet
    <2>2. QED
      BY <1>1, <1>2, <1>4, <1>6, <1>13, <1>15, <2>1 DEF RemoveLoopTag, Without
  <1>17. PICK e : e = RemoveLoopTag(d, i, d.loops[i][k])
    OBVIOUS
  <1>18. e.order = p /\ e.tags = T /\ e.loops = L
    BY <1>2, <1>3, <1>16, <1>17
  <1>19. TagRemoved(d, i, k, s, r, e)
    BY <1>1, <1>2, <1>3, <1>4, <1>6, <1>9, <1>10, <1>11, <1>13, <1>15, <1>18 DEF TagRemoved
  <1>20. QED
    BY <1>17, <1>19

LEMMA RemoveLoopTagPlaced ==
    ASSUME NEW even, NEW d, Balanced(d, even), Placed(d), NEW i \in DOMAIN d.loops, NEW k \in DOMAIN d.loops[i]
    PROVE  Placed(RemoveLoopTag(d, i, d.loops[i][k]))
  <1>1. PICK o : o = d.order
    OBVIOUS
  <1>2. PICK h : h = d.loops[i]
    OBVIOUS
  <1>3. PICK t : t = h[k]
    OBVIOUS
  <1>4. /\ Listed(o, d.tags) /\ Together(o, d.loops) /\ IsList(o)
        /\ \A j, l \in DOMAIN o : o[j] = o[l] => j = l
    BY <1>1 DEF Placed, Listed
  <1>5. IsList(h) /\ IsList(d.loops) /\ OnceEach(d.loops) /\ \A j \in DOMAIN d.loops : IsList(d.loops[j])
    BY <1>2 DEF Balanced, Shaped, Columned
  <1>6. PICK e : e = RemoveLoopTag(d, i, d.loops[i][k])
    OBVIOUS
  <1>7. PICK s, r : TagRemoved(d, i, k, s, r, e)
    BY <1>6, RemoveLoopTagMakes
  <1>8. PICK p, T, L : p = e.order /\ T = e.tags /\ L = e.loops
    OBVIOUS
  <1>9. /\ s \in Nat /\ RunAt(o, h, s)
        /\ s + k \in DOMAIN o /\ o[s + k] = t
        /\ Removed(o, p, s + k) /\ Removed(h, r, k)
        /\ T = [u \in DOMAIN d.tags \ {t} |-> d.tags[u]]
        /\ L = IF r = <<>> THEN RemoveAt(d.loops, i) ELSE [d.loops EXCEPT ![i] = r]
    BY <1>1, <1>2, <1>3, <1>7, <1>8 DEF TagRemoved
  <1>10. PICK q : q = s + k
    OBVIOUS
  <1>11. q \in DOMAIN o /\ o[q] = t /\ Removed(o, p, q)
    BY <1>9, <1>10
  <1>12. k \in DOMAIN h
    BY <1>2
  <1>13. Listed(p, T)
    <2>1. DOMAIN T = DOMAIN d.tags \ {o[q]}
      BY <1>9, <1>11
    <2>2. QED
      BY <1>4, <1>11, <2>1, ShrunkOrder
  <1>14. ASSUME NEW j \in DOMAIN d.loops, j # i
         PROVE  Run(p, d.loops[j])
    <2>1. \A l \in DOMAIN d.loops[j] : d.loops[j][l] # o[q]
      BY <1>2, <1>3, <1>5, <1>11, <1>12, <1>14, OnlyOnce
    <2>2. IsList(d.loops[j]) /\ Run(o, d.loops[j])
      BY <1>4, <1>5 DEF Together
    <2>3. QED
      BY <1>4, <1>11, <2>1, <2>2, RunPulled
  <1>15. CASE r = <<>>
    <2>1. L = RemoveAt(d.loops, i)
      BY <1>9, <1>15
    <2>2. \A j \in DOMAIN L : \E m \in DOMAIN d.loops : m # i /\ L[j] = d.loops[m]
      BY <1>5, <2>1, OthersStay
    <2>3. Together(p, L)
      BY <1>14, <2>2 DEF Together
    <2>4. QED
      BY <1>13, <1>6, <1>8, <2>3 DEF Placed
  <1>16. CASE r # <<>>
    <2>1. L = [d.loops EXCEPT ![i] = r]
      BY <1>9, <1>16
    <2>2. DOMAIN L = DOMAIN d.loops /\ L[i] = r /\ \A j \in DOMAIN d.loops : j # i => L[j] = d.loops[j]
      BY <1>5, <2>1, Replaced
    <2>3. 1 \in DOMAIN r
      BY <1>9, <1>16, NotEmpty DEF Removed
    <2>4. Run(p, r)
      BY <1>4, <1>5, <1>9, <1>12, <2>3, RunShorter
    <2>5. Together(p, L)
      BY <1>14, <2>2, <2>4 DEF Together
    <2>6. QED
      BY <1>13, <1>6, <1>8, <2>5 DEF Placed
  <1>17. QED
    BY <1>15, <1>16

LEMMA DeleteTagMakes ==
    ASSUME NEW even, NEW d, Balanced(d, even), Placed(d), NEW t, CanDeleteTag(d, t), ~InLoop(d.loops, t)
    PROVE  \E p, T : \E q \in DOMAIN d.order :
            /\ DeleteTag(d, t) = [order |-> p, tags |-> T, loops |-> d.loops]
            /\ d.order[q] = t /\ Removed(d.order, p, q)
            /\ T = [u \in DOMAIN d.tags \ {t} |-> d.tags[u]]
  <1>1. PICK o : o = d.order
    OBVIOUS
  <1>2. PICK T : T = [u \in DOMAIN d.tags \ {t} |-> d.tags[u]]
    OBVIOUS
  <1>3. /\ Listed(o, d.tags) /\ Together(o, d.loops) /\ IsList(o)
        /\ \A j, l \in DOMAIN o : o[j] = o[l] => j = l
    BY <1>1 DEF Placed, Listed
  <1>4. PICK q \in DOMAIN o : o[q] = t
    BY <1>3 DEF Listed, CanDeleteTag
  <1>5. PICK p : p = RemoveAt(o, q)
    OBVIOUS
  <1>6. RemoveFirst(o, t) = p /\ Removed(o, p, q)
    <2>1. RemoveFirst(o, o[q]) = p /\ Removed(o, p, q)
      BY <1>3, <1>5, TakenOut
    <2>2. QED
      BY <1>4, <2>1
  <1>7. DeleteTag(d, t) = [order |-> p, tags |-> T, loops |-> d.loops]
    <2>1. t \notin LoopTags(d)
      BY DEF LoopTags, InLoop
    <2>2. d = [order |-> d.order, tags |-> d.tags, loops |-> d.loops]
      BY DEF Balanced
    <2>3. QED
      BY <1>1, <1>2, <1>6, <2>1, <2>2 DEF DeleteTag, Without
  <1>8. QED
    BY <1>1, <1>2, <1>4, <1>6, <1>7

LEMMA DeleteTagPlaced ==
    ASSUME NEW even, NEW d, Balanced(d, even), Placed(d), NEW t, CanDeleteTag(d, t)
    PROVE  Placed(DeleteTag(d, t))
  <1>1. IsList(d.loops) /\ OnceEach(d.loops) /\ \A j \in DOMAIN d.loops : IsList(d.loops[j])
    BY DEF Balanced, Shaped, Columned
  <1>2. CASE InLoop(d.loops, t)
    <2>1. PICK i, k : /\ i \in DOMAIN d.loops /\ k \in DOMAIN d.loops[i] /\ d.loops[i][k] = t
                      /\ DeleteTag(d, t) = RemoveLoopTag(d, i, t)
      BY <1>1, <1>2, LoopOfTag
    <2>2. QED
      BY <2>1, RemoveLoopTagPlaced
  <1>3. CASE ~InLoop(d.loops, t)
    <2>1. PICK o : o = d.order
      OBVIOUS
    <2>2. /\ Listed(o, d.tags) /\ Together(o, d.loops) /\ IsList(o)
          /\ \A j, l \in DOMAIN o : o[j] = o[l] => j = l
      BY <2>1 DEF Placed, Listed
    <2>3. PICK p, T : \E q \in DOMAIN o :
            /\ DeleteTag(d, t) = [order |-> p, tags |-> T, loops |-> d.loops]
            /\ o[q] = t /\ Removed(o, p, q)
            /\ T = [u \in DOMAIN d.tags \ {t} |-> d.tags[u]]
      BY <1>3, <2>1, DeleteTagMakes
    <2>4. PICK q \in DOMAIN o :
            /\ DeleteTag(d, t) = [order |-> p, tags |-> T, loops |-> d.loops]
            /\ o[q] = t /\ Removed(o, p, q)
            /\ T = [u \in DOMAIN d.tags \ {t} |-> d.tags[u]]
      BY <2>3
    <2>5. Listed(p, T)
      <3>1. DOMAIN T = DOMAIN d.tags \ {o[q]}
        BY <2>4
      <3>2. QED
        BY <2>2, <2>4, <3>1, ShrunkOrder
    <2>6. ASSUME NEW j \in DOMAIN d.loops PROVE Run(p, d.loops[j])
      <3>1. \A l \in DOMAIN d.loops[j] : d.loops[j][l] # o[q]
        BY <1>3, <2>4 DEF InLoop
      <3>2. IsList(d.loops[j]) /\ Run(o, d.loops[j])
        BY <1>1, <2>2 DEF Together
      <3>3. QED
        BY <2>2, <2>4, <3>1, <3>2, RunPulled
    <2>7. QED
      BY <2>4, <2>5, <2>6 DEF Placed, Together
  <1>4. QED
    BY <1>2, <1>3

-----------------------------------------------------------------------------
(***************************************************************************)
(* Loops in the order of their tags, and a value at least for every tag    *)
(* that is in no loop: what is written can be read back.                   *)
(***************************************************************************)
At(o, k, h) == \E m \in DOMAIN h : o[k] = h[m]

Ranked(o, L) ==
    \A i, j \in DOMAIN L : \A k, l \in DOMAIN o : i < j /\ At(o, k, L[i]) /\ At(o, l, L[j]) => k < l
Filled(T, L) == \A t \in DOMAIN T : InLoop(L, t) \/ 1 \in DOMAIN T[t]

InTurn(d) == Ranked(d.order, d.loops) /\ Filled(d.tags, d.loops)

\* Places and loops of p and M that come from those of o and L, each in the same order.
InPlaces(p, a) ==
    /\ \A k \in DOMAIN p : a[k] \in Nat
    /\ \A k, l \in DOMAIN p : k \in Nat /\ (k <= l => a[k] <= a[l])
Comes(o, L, p, M, a, b) ==
    /\ \A j \in DOMAIN M : b[j] \in DOMAIN L
    /\ \A i, j \in DOMAIN M : i < j => b[i] < b[j]
    /\ \A j \in DOMAIN M : \A k \in DOMAIN p : At(p, k, M[j]) => a[k] \in DOMAIN o /\ At(o, a[k], L[b[j]])

LEMMA RanksKept ==
    ASSUME NEW o, NEW L, Ranked(o, L), NEW p, NEW M, NEW a, NEW b,
           InPlaces(p, a), Comes(o, L, p, M, a, b)
    PROVE  Ranked(p, M)
  <1> SUFFICES ASSUME NEW i \in DOMAIN M, NEW j \in DOMAIN M, NEW k \in DOMAIN p, NEW l \in DOMAIN p,
                      i < j, At(p, k, M[i]), At(p, l, M[j])
               PROVE  k < l
    BY DEF Ranked
  <1>1. b[i] \in DOMAIN L /\ b[j] \in DOMAIN L /\ b[i] < b[j]
    BY DEF Comes
  <1>2. a[k] \in DOMAIN o /\ a[l] \in DOMAIN o /\ At(o, a[k], L[b[i]]) /\ At(o, a[l], L[b[j]])
    BY DEF Comes
  <1>3. a[k] < a[l]
    BY <1>1, <1>2 DEF Ranked
  <1>4. a[k] \in Nat /\ a[l] \in Nat /\ k \in Nat /\ l \in Nat /\ (l <= k => a[l] <= a[k])
    BY DEF InPlaces
  <1>5. QED
    BY <1>3, <1>4

\* No two of the loops change places, and none of their tags.
LEMMA RanksSame ==
    ASSUME NEW o, NEW L, Ranked(o, L), NEW p, IsList(p), NEW M, DOMAIN M = DOMAIN L,
           \A j \in DOMAIN M : \A k \in DOMAIN p : At(p, k, M[j]) => k \in DOMAIN o /\ At(o, k, L[j])
    PROVE  Ranked(p, M)
  <1>1. PICK a : a = [k \in DOMAIN p |-> k]
    OBVIOUS
  <1>2. PICK b : b = [j \in DOMAIN M |-> j]
    OBVIOUS
  <1>3. \A k \in DOMAIN p : k \in Nat
    BY ListFacts
  <1>4. InPlaces(p, a)
    BY <1>1, <1>3 DEF InPlaces
  <1>5. Comes(o, L, p, M, a, b)
    BY <1>1, <1>2 DEF Comes
  <1>6. QED
    BY <1>4, <1>5, RanksKept

LEMMA SetTagInTurn ==
    ASSUME NEW even, NEW d, Balanced(d, even), Placed(d), InTurn(d), NEW t, CanSetTag(d, t), NEW v
    PROVE  InTurn(SetTag(d, t, v))
  <1>1. PICK o : o = d.order
    OBVIOUS
  <1>2. PICK T : T = [u \in DOMAIN d.tags \cup {t} |-> IF u = t THEN <<v>> ELSE d.tags[u]]
    OBVIOUS
  <1>3. PICK p : p = Append(o, t)
    OBVIOUS
  <1>4. d = [order |-> d.order, tags |-> d.tags, loops |-> d.loops] /\ t \notin DOMAIN d.tags
    BY DEF Balanced, CanSetTag
  <1>5. SetTag(d, t, v) = [order |-> p, tags |-> T, loops |-> d.loops]
    BY <1>1, <1>2, <1>3, <1>4 DEF SetTag, AppendValue
  <1>6. IsList(o)
    BY <1>1 DEF Placed, Listed
  <1>7. PICK n \in Nat : n = Len(o) /\ DOMAIN o = 1 .. n
    BY <1>6, ListFacts
  <1>8. IsList(p) /\ DOMAIN p = 1 .. n + 1 /\ p[n + 1] = t /\ \A k \in DOMAIN o : p[k] = o[k]
    BY <1>3, <1>6, <1>7, Appended
  <1>9. ASSUME NEW j \in DOMAIN d.loops, NEW k \in DOMAIN p, At(p, k, d.loops[j])
        PROVE  k \in DOMAIN o /\ At(o, k, d.loops[j])
    <2>1. PICK m \in DOMAIN d.loops[j] : p[k] = d.loops[j][m]
      BY <1>9 DEF At
    <2>2. p[k] # t
      BY <1>4, <2>1 DEF Balanced, Shaped, Columned
    <2>3. k \in DOMAIN o
      BY <1>7, <1>8, <2>2
    <2>4. QED
      BY <1>8, <2>1, <2>3 DEF At
  <1>10. Ranked(o, d.loops)
    BY <1>1 DEF InTurn
  <1>11. Ranked(p, d.loops)
    BY <1>8, <1>9, <1>10, RanksSame
  <1>12. Filled(T, d.loops)
    <2>1. ASSUME NEW u \in DOMAIN T PROVE InLoop(d.loops, u) \/ 1 \in DOMAIN T[u]
      <3>1. CASE u = t
        <4>1. T[u] = <<v>>
          BY <1>2, <3>1
        <4>2. QED
          BY <4>1
      <3>2. CASE u # t
        <4>1. u \in DOMAIN d.tags /\ T[u] = d.tags[u]
          BY <1>2, <3>2
        <4>2. QED
          BY <4>1 DEF InTurn, Filled
      <3>3. QED
        BY <3>1, <3>2
    <2>2. QED
      BY <2>1 DEF Filled
  <1>13. QED
    BY <1>5, <1>11, <1>12 DEF InTurn

LEMMA AddLoopInTurn ==
    ASSUME NEW even, NEW d, Balanced(d, even), Placed(d), InTurn(d), NEW h, IsList(h),
           \A k, l \in DOMAIN h : h[k] = h[l] => k = l, NEW C, CanAddLoop(d, h, C)
    PROVE  InTurn(AddLoop(d, h, C))
  <1>1. PICK o : o = d.order
    OBVIOUS
  <1>2. PICK T : T = [t \in DOMAIN d.tags \cup {h[k] : k \in DOMAIN h} |->
                        IF t \in {h[k] : k \in DOMAIN h} THEN C[t] ELSE d.tags[t]]
    OBVIOUS
  <1>3. PICK L : L = Append(d.loops, h)
    OBVIOUS
  <1>4. PICK p : p = o \o h
    OBVIOUS
  <1>5. \A k \in DOMAIN h : h[k] \notin DOMAIN d.tags
    <2>1. \A k \in DOMAIN h : h[k] \in ToSet(h)
      BY DEF ToSet
    <2>2. QED
      BY <2>1 DEF CanAddLoop
  <1>6. NewTags(d, h) = h
    BY <1>5, ListFacts, AllNew
  <1>7. AddLoop(d, h, C) = [order |-> p, tags |-> T, loops |-> L]
    BY <1>1, <1>2, <1>3, <1>4, <1>6 DEF AddLoop
  <1>8. IsList(o) /\ \A k \in DOMAIN o : o[k] \in DOMAIN d.tags
    BY <1>1 DEF Placed, Listed
  <1>9. PICK n \in Nat : n = Len(o) /\ DOMAIN o = 1 .. n
    BY <1>8, ListFacts
  <1>10. PICK w \in Nat : w = Len(h) /\ DOMAIN h = 1 .. w
    BY ListFacts
  <1>11. /\ DOMAIN p = 1 .. n + w
         /\ \A k \in 1 .. n : p[k] = o[k]
         /\ \A k \in 1 .. w : p[n + k] = h[k]
    <2>1. Joined(o, h, p)
      BY <1>4, <1>8, Concatenated
    <2>2. QED
      BY <1>9, <1>10, <2>1 DEF Joined
  <1>12. \A k \in DOMAIN p : k \in 1 .. n \/ (k > n /\ \E m \in DOMAIN h : p[k] = h[m])
    <2> SUFFICES ASSUME NEW k \in 1 .. n + w, k \notin 1 .. n
                 PROVE  k > n /\ \E m \in DOMAIN h : p[k] = h[m]
      BY <1>11
    <2>1. k > n /\ k - n \in 1 .. w /\ k = n + (k - n)
      OBVIOUS
    <2>2. p[k] = h[k - n]
      BY <1>11, <2>1
    <2>3. QED
      BY <1>10, <2>1, <2>2
  <1>13. PICK c \in Nat : c = Len(d.loops) /\ DOMAIN d.loops = 1 .. c
    BY ListFacts DEF Balanced, Shaped, Columned
  <1>14. /\ DOMAIN L = 1 .. c + 1 /\ L[c + 1] = h /\ \A i \in 1 .. c : L[i] = d.loops[i]
    BY <1>3, <1>13, Appended DEF Balanced, Shaped, Columned
  <1>15. ASSUME NEW i \in 1 .. c, NEW k \in DOMAIN p, At(p, k, L[i])
         PROVE  k \in 1 .. n /\ At(o, k, d.loops[i])
    <2>1. PICK m \in DOMAIN d.loops[i] : p[k] = d.loops[i][m]
      BY <1>14, <1>15 DEF At
    <2>2. p[k] \in DOMAIN d.tags
      BY <1>13, <2>1 DEF Balanced, Shaped, Columned
    <2>3. k \in 1 .. n
      BY <1>5, <1>12, <2>2
    <2>4. QED
      BY <1>11, <2>1, <2>3 DEF At
  <1>16. ASSUME NEW k \in DOMAIN p, At(p, k, h)
         PROVE  k > n
    <2>1. p[k] \notin DOMAIN d.tags
      BY <1>5, <1>16 DEF At
    <2>2. QED
      BY <1>8, <1>9, <1>11, <1>12, <2>1
  <1>17. Ranked(p, L)
    <2> SUFFICES ASSUME NEW i \in DOMAIN L, NEW j \in DOMAIN L, NEW k \in DOMAIN p, NEW l \in DOMAIN p,
                        i < j, At(p, k, L[i]), At(p, l, L[j])
                 PROVE  k < l
      BY DEF Ranked
    <2>1. i \in 1 .. c
      BY <1>14
    <2>2. k \in 1 .. n /\ At(o, k, d.loops[i])
      BY <1>15, <2>1
    <2>3. CASE j \in 1 .. c
      <3>1. l \in 1 .. n /\ At(o, l, d.loops[j])
        BY <1>15, <2>3
      <3>2. QED
        BY <1>1, <1>9, <1>13, <2>1, <2>2, <2>3, <3>1 DEF InTurn, Ranked
    <2>4. CASE j \notin 1 .. c
      <3>1. l > n
        BY <1>14, <1>16, <2>4
      <3>2. QED
        BY <1>11, <2>2, <3>1
    <2>5. QED
      BY <2>3, <2>4
  <1>18. Filled(T, L)
    <2>1. ASSUME NEW u \in DOMAIN T PROVE InLoop(L, u) \/ 1 \in DOMAIN T[u]
      <3>1. CASE \E k \in DOMAIN h : u = h[k]
        BY <1>14, <3>1 DEF InLoop
      <3>2. CASE \A k \in DOMAIN h : u # h[k]
        <4>1. u \in DOMAIN d.tags /\ T[u] = d.tags[u]
          BY <1>2, <3>2
        <4>2. InLoop(d.loops, u) => InLoop(L, u)
          BY <1>13, <1>14 DEF InLoop
        <4>3. QED
          BY <4>1, <4>2 DEF InTurn, Filled
      <3>3. QED
        BY <3>1, <3>2
    <2>2. QED
      BY <2>1 DEF Filled
  <1>19. QED
    BY <1>7, <1>17, <1>18 DEF InTurn

LEMMA AddLoopColumnInTurn ==
    ASSUME NEW even, NEW d, Balanced(d, even), Placed(d), InTurn(d), NEW i \in DOMAIN d.loops, NEW t, NEW c,
           CanAddLoopColumn(d, i, t, c)
    PROVE  InTurn(AddLoopColumn(d, i, t, c))
  <1>1. PICK o, g : o = d.order /\ g = d.loops[i]
    OBVIOUS
  <1>2. PICK e : e = AddLoopColumn(d, i, t, c)
    OBVIOUS
  <1>3. PICK s \in Nat : WithColumn(d, i, t, c, s, e)
    BY <1>2, AddLoopColumnMakes
  <1>4. PICK p, T, L : p = e.order /\ T = e.tags /\ L = e.loops
    OBVIOUS
  <1>5. PICK q : q = s + Len(g)
    OBVIOUS
  <1>6. /\ RunAt(o, g, s) /\ 1 \in DOMAIN g /\ q \in DOMAIN o
        /\ Inserted(o, p, q, t)
        /\ T = [u \in DOMAIN d.tags \cup {t} |-> IF u = t THEN c ELSE d.tags[u]]
        /\ L = [d.loops EXCEPT ![i] = Append(g, t)]
    BY <1>1, <1>3, <1>4, <1>5 DEF WithColumn
  <1>7. IsList(g) /\ IsList(d.loops) /\ \A j \in DOMAIN d.loops : \A m \in DOMAIN d.loops[j] : d.loops[j][m] \in DOMAIN d.tags
    BY <1>1 DEF Balanced, Shaped, Columned
  <1>8. t \notin DOMAIN d.tags
    BY DEF CanAddLoopColumn
  <1>9. PICK n \in Nat : n = Len(o) /\ DOMAIN o = 1 .. n /\ q \in 1 .. n
    <2>1. IsList(o)
      BY <1>1 DEF Placed, Listed
    <2>2. QED
      BY <1>6, <2>1, ListFacts
  <1>10. PICK w \in Nat : w = Len(g) /\ DOMAIN g = 1 .. w
    BY <1>7, ListFacts
  <1>11. PICK longer : longer = Append(g, t)
    OBVIOUS
  <1>12. DOMAIN L = DOMAIN d.loops /\ L[i] = longer /\ \A j \in DOMAIN d.loops : j # i => L[j] = d.loops[j]
    BY <1>6, <1>7, <1>11, Replaced
  <1>13. DOMAIN longer = 1 .. w + 1 /\ longer[w + 1] = t /\ \A m \in 1 .. w : longer[m] = g[m]
    BY <1>7, <1>10, <1>11, Appended
  <1>14. At(o, q, g)
    <2>1. w \in DOMAIN g /\ o[q] = g[w]
      BY <1>5, <1>6, <1>10 DEF RunAt
    <2>2. QED
      BY <2>1 DEF At
  <1>15. PICK a : a = [k \in DOMAIN p |-> IF k <= q THEN k ELSE k - 1]
    OBVIOUS
  <1>16. DOMAIN p = 1 .. n + 1 /\ p[q + 1] = t
    BY <1>6, <1>9 DEF Inserted
  <1>17. InPlaces(p, a)
    <2>1. \A k \in 1 .. n + 1 : k \in Nat /\ a[k] = IF k <= q THEN k ELSE k - 1
      BY <1>15, <1>16
    <2>2. ASSUME NEW k \in 1 .. n + 1 PROVE a[k] \in Nat
      BY <1>9, <2>1
    <2>3. ASSUME NEW k \in 1 .. n + 1, NEW l \in 1 .. n + 1, k <= l
          PROVE  a[k] <= a[l]
      <3>1. k \in Nat /\ l \in Nat /\ q \in Nat
        BY <1>9
      <3>2. QED
        BY <2>1, <2>3, <3>1
    <2>4. QED
      BY <1>16, <2>1, <2>2, <2>3 DEF InPlaces
  <1>18. ASSUME NEW k \in DOMAIN p, p[k] # t
         PROVE  a[k] \in DOMAIN o /\ p[k] = o[a[k]]
    <2>1. k # q + 1
      BY <1>16, <1>18
    <2>2. a[k] \in 1 .. n /\ Behind(q, a[k]) = k
      BY <1>9, <1>15, <1>16, <2>1 DEF Behind
    <2>3. p[Behind(q, a[k])] = o[a[k]]
      BY <1>6, <1>9, <2>2 DEF Inserted
    <2>4. QED
      BY <1>9, <2>2, <2>3
  <1>19. ASSUME NEW k \in DOMAIN p, p[k] = t
         PROVE  a[k] = q
    <2>1. CASE k = q + 1
      BY <1>9, <1>15, <2>1
    <2>2. CASE k # q + 1
      <3>1. a[k] \in 1 .. n /\ Behind(q, a[k]) = k
        BY <1>9, <1>15, <1>16, <2>2 DEF Behind
      <3>2. p[k] = o[a[k]]
        BY <1>6, <1>9, <3>1 DEF Inserted
      <3>3. p[k] \in DOMAIN d.tags
        BY <1>1, <1>9, <3>1, <3>2 DEF Placed, Listed
      <3>4. QED
        BY <1>8, <1>19, <3>3
    <2>3. QED
      BY <2>1, <2>2
  <1>20. PICK b : b = [j \in DOMAIN L |-> j]
    OBVIOUS
  <1>21. ASSUME NEW j \in DOMAIN L, NEW k \in DOMAIN p, At(p, k, L[j])
         PROVE  a[k] \in DOMAIN o /\ At(o, a[k], d.loops[j])
    <2>1. PICK m \in DOMAIN L[j] : p[k] = L[j][m]
      BY <1>21 DEF At
    <2>2. CASE p[k] = t
      <3>1. j = i
        BY <1>7, <1>8, <1>12, <2>1, <2>2
      <3>2. QED
        BY <1>1, <1>6, <1>14, <1>19, <2>2, <3>1
    <2>3. CASE p[k] # t
      <3>1. \E x \in DOMAIN d.loops[j] : p[k] = d.loops[j][x]
        <4>1. CASE j = i
          <5>1. m \in DOMAIN longer /\ p[k] = longer[m]
            BY <1>12, <2>1, <4>1
          <5>2. m \in 1 .. w
            BY <1>13, <2>3, <5>1
          <5>3. QED
            BY <1>1, <1>10, <1>13, <4>1, <5>1, <5>2
        <4>2. CASE j # i
          BY <1>12, <2>1, <4>2
        <4>3. QED
          BY <4>1, <4>2
      <3>2. QED
        BY <1>18, <2>3, <3>1 DEF At
    <2>4. QED
      BY <2>2, <2>3
  <1>22. Comes(o, d.loops, p, L, a, b)
    BY <1>12, <1>20, <1>21 DEF Comes
  <1>23. Ranked(p, L)
    <2>1. Ranked(o, d.loops)
      BY <1>1 DEF InTurn
    <2>2. QED
      BY <1>17, <1>22, <2>1, RanksKept
  <1>24. Filled(T, L)
    <2>1. ASSUME NEW u \in DOMAIN T PROVE InLoop(L, u) \/ 1 \in DOMAIN T[u]
      <3>1. CASE u = t
        <4>1. w + 1 \in DOMAIN L[i] /\ L[i][w + 1] = t
          BY <1>12, <1>13
        <4>2. QED
          BY <1>12, <3>1, <4>1 DEF InLoop
      <3>2. CASE u # t
        <4>1. u \in DOMAIN d.tags /\ T[u] = d.tags[u]
          BY <1>6, <3>2
        <4>2. \A j \in DOMAIN d.loops : \A m \in DOMAIN d.loops[j] : m \in DOMAIN L[j] /\ L[j][m] = d.loops[j][m]
          <5>1. \A m \in DOMAIN g : m \in DOMAIN longer /\ longer[m] = g[m]
            BY <1>10, <1>13
          <5>2. QED
            BY <1>1, <1>12, <5>1
        <4>3. InLoop(d.loops, u) => InLoop(L, u)
          BY <1>12, <4>2 DEF InLoop
        <4>4. QED
          BY <4>1, <4>3 DEF InTurn, Filled
      <3>3. QED
        BY <3>1, <3>2
    <2>2. QED
      BY <2>1 DEF Filled
  <1>25. QED
    BY <1>2, <1>4, <1>23, <1>24 DEF InTurn

LEMMA ReorderInTurn ==
    ASSUME NEW even, NEW d, Balanced(d, even), Placed(d), InTurn(d), NEW i \in DOMAIN d.loops, NEW h, IsList(h),
           Permuted(d.loops[i], h)
    PROVE  InTurn(ReorderLoopTags(d, i, h))
  <1>1. PICK o, g : o = d.order /\ g = d.loops[i]
    OBVIOUS
  <1>2. PICK e : e = ReorderLoopTags(d, i, h)
    OBVIOUS
  <1>3. PICK s \in Nat : Rewritten(d, i, h, s, e)
    BY <1>2, ReorderMakes
  <1>4. PICK p, L : p = e.order /\ L = e.loops
    OBVIOUS
  <1>5. /\ RunAt(o, g, s) /\ Overwritten(o, p, h, s)
        /\ L = [d.loops EXCEPT ![i] = h] /\ e.tags = d.tags
    BY <1>1, <1>3, <1>4 DEF Rewritten
  <1>6. IsList(o) /\ IsList(d.loops) /\ OnceEach(d.loops)
    BY <1>1 DEF Placed, Listed, Balanced, Shaped, Columned
  <1>7. DOMAIN L = DOMAIN d.loops /\ L[i] = h /\ \A j \in DOMAIN d.loops : j # i => L[j] = d.loops[j]
    BY <1>5, <1>6, Replaced
  <1>8. /\ DOMAIN h = DOMAIN g
        /\ \A m \in DOMAIN h : \E l \in DOMAIN g : h[m] = g[l]
        /\ \A l \in DOMAIN g : \E m \in DOMAIN h : h[m] = g[l]
    BY <1>1 DEF Permuted
  <1>9. ASSUME NEW j \in DOMAIN L, NEW k \in DOMAIN p, At(p, k, L[j])
        PROVE  k \in DOMAIN o /\ At(o, k, d.loops[j])
    <2>1. k \in DOMAIN o
      BY <1>5 DEF Overwritten
    <2>2. PICK m \in DOMAIN L[j] : p[k] = L[j][m]
      BY <1>9 DEF At
    <2>3. \E l \in DOMAIN d.loops[j] : p[k] = d.loops[j][l]
      BY <1>1, <1>7, <1>8, <2>2
    <2>4. CASE k - s \in DOMAIN h
      <3>1. PICK x : x = k - s
        OBVIOUS
      <3>2. k \in Nat /\ s + x = k
        BY <1>6, <2>1, <3>1, ListFacts
      <3>3. p[k] = h[x] /\ o[k] = g[x] /\ x \in DOMAIN g
        BY <1>5, <1>8, <2>4, <3>1, <3>2 DEF Overwritten, RunAt
      <3>4. j = i
        <4>1. PICK l \in DOMAIN g : h[x] = g[l]
          BY <1>8, <3>3
        <4>2. PICK y \in DOMAIN d.loops[j] : p[k] = d.loops[j][y]
          BY <2>3
        <4>3. d.loops[j][y] = d.loops[i][l] /\ l \in DOMAIN d.loops[i] /\ j \in DOMAIN d.loops
          BY <1>1, <1>7, <3>3, <4>1, <4>2
        <4>4. QED
          BY <1>6, <4>3, OnlyOnce
      <3>5. QED
        BY <1>1, <2>1, <3>3, <3>4 DEF At
    <2>5. CASE k - s \notin DOMAIN h
      <3>1. p[k] = o[k]
        BY <1>5, <2>1, <2>5 DEF Overwritten
      <3>2. QED
        BY <2>1, <2>3, <3>1 DEF At
    <2>6. QED
      BY <2>4, <2>5
  <1>10. Ranked(p, L)
    <2>1. Ranked(o, d.loops) /\ IsList(p)
      BY <1>1, <1>5 DEF InTurn, Overwritten
    <2>2. QED
      BY <1>7, <1>9, <2>1, RanksSame
  <1>11. \A u : InLoop(d.loops, u) => InLoop(L, u)
    <2> SUFFICES ASSUME NEW u, NEW j \in DOMAIN d.loops, NEW l \in DOMAIN d.loops[j], d.loops[j][l] = u
                 PROVE  InLoop(L, u)
      BY DEF InLoop
    <2>1. \E m \in DOMAIN L[j] : L[j][m] = u
      BY <1>1, <1>7, <1>8
    <2>2. QED
      BY <1>7, <2>1 DEF InLoop
  <1>12. Filled(e.tags, L)
    BY <1>5, <1>11 DEF InTurn, Filled
  <1>13. QED
    BY <1>2, <1>4, <1>10, <1>12 DEF InTurn

\* Calls that give tags other values, and none to a tag that is in no loop.
LEMMA ValuesInTurn ==
    ASSUME NEW d, InTurn(d), NEW T, DOMAIN T = DOMAIN d.tags,
           \A t \in DOMAIN T : ~InLoop(d.loops, t) /\ 1 \in DOMAIN d.tags[t] => 1 \in DOMAIN T[t],
           NEW e, e = [order |-> d.order, tags |-> T, loops |-> d.loops]
    PROVE  InTurn(e)
  <1>1. e.order = d.order /\ e.tags = T /\ e.loops = d.loops
    OBVIOUS
  <1>2. QED
    BY <1>1 DEF InTurn, Filled

LEMMA AddLoopRowInTurn ==
    ASSUME NEW even, NEW d, Balanced(d, even), InTurn(d), NEW i \in DOMAIN d.loops, NEW row
    PROVE  InTurn(AddLoopRow(d, i, row))
  <1>1. PICK T : T = [t \in DOMAIN d.tags |-> IF t \in ToSet(d.loops[i])
                        THEN Append(d.tags[t], row[FirstPlace(d.loops[i], t)]) ELSE d.tags[t]]
    OBVIOUS
  <1>2. d = [order |-> d.order, tags |-> d.tags, loops |-> d.loops]
    BY DEF Balanced
  <1>3. AddLoopRow(d, i, row) = [d EXCEPT !.tags = T]
    BY <1>1 DEF AddLoopRow
  <1>4. AddLoopRow(d, i, row) = [order |-> d.order, tags |-> T, loops |-> d.loops]
    BY <1>2, <1>3
  <1>5. ASSUME NEW t \in DOMAIN T, ~InLoop(d.loops, t)
        PROVE  T[t] = d.tags[t]
    <2>1. t \notin ToSet(d.loops[i])
      BY <1>5 DEF InLoop, ToSet
    <2>2. QED
      BY <1>1, <2>1
  <1>6. DOMAIN T = DOMAIN d.tags
    BY <1>1
  <1>7. QED
    BY <1>4, <1>5, <1>6, ValuesInTurn

LEMMA ReassignInTurn ==
    ASSUME NEW even, NEW d, Balanced(d, even), InTurn(d), NEW t, NEW values, IsList(values)
    PROVE  InTurn(ReassignTag(d, t, values))
  <1>1. PICK c : c = IF t \in LoopTags(d) \/ Len(values) = 1 THEN values ELSE <<Container>>
    OBVIOUS
  <1>2. PICK T : T = [d.tags EXCEPT ![t] = c]
    OBVIOUS
  <1>3. d = [order |-> d.order, tags |-> d.tags, loops |-> d.loops]
    BY DEF Balanced
  <1>4. ReassignTag(d, t, values) = [order |-> d.order, tags |-> T, loops |-> d.loops]
    BY <1>1, <1>2, <1>3 DEF ReassignTag
  <1>5. DOMAIN T = DOMAIN d.tags
    BY <1>2
  <1>6. ~InLoop(d.loops, t) => 1 \in DOMAIN c
    <2> SUFFICES ASSUME ~InLoop(d.loops, t) PROVE 1 \in DOMAIN c
      OBVIOUS
    <2>1. t \notin LoopTags(d)
      BY DEF InLoop, LoopTags
    <2>2. CASE Len(values) = 1
      BY <1>1, <2>2, ListFacts
    <2>3. CASE Len(values) # 1
      <3>1. c = <<Container>>
        BY <1>1, <2>1, <2>3
      <3>2. QED
        BY <3>1
    <2>4. QED
      BY <2>2, <2>3
  <1>7. \A u \in DOMAIN T : ~InLoop(d.loops, u) /\ 1 \in DOMAIN d.tags[u] => 1 \in DOMAIN T[u]
    BY <1>2, <1>5, <1>6
  <1>8. QED
    BY <1>4, <1>5, <1>7, ValuesInTurn

\* A tag less at place q, and what is left of the loops: nothing that was not there.
Thinned(L, M, b) ==
    /\ \A j \in DOMAIN M : b[j] \in DOMAIN L
    /\ \A i, j \in DOMAIN M : i < j => b[i] < b[j]
    /\ \A j \in DOMAIN M : \A m \in DOMAIN M[j] : \E l \in DOMAIN L[b[j]] : M[j][m] = L[b[j]][l]

LEMMA RanksWithout ==
    ASSUME NEW o, IsList(o), NEW L, Ranked(o, L), NEW q \in DOMAIN o, NEW p, Removed(o, p, q), NEW M, NEW b,
           Thinned(L, M, b)
    PROVE  Ranked(p, M)
  <1>1. PICK a : a = [k \in DOMAIN p |-> MovedUp(q, k)]
    OBVIOUS
  <1>2. PICK n \in Nat : n = Len(o) /\ DOMAIN o = 1 .. n /\ q \in 1 .. n
    BY ListFacts
  <1>3. \A k \in DOMAIN p : k \in Nat /\ a[k] \in DOMAIN o /\ a[k] \in Nat /\ p[k] = o[a[k]]
    <2>1. \A k \in DOMAIN p : k \in Nat
      BY ListFacts DEF Removed
    <2>2. \A k \in DOMAIN p : a[k] \in DOMAIN o /\ p[k] = o[a[k]]
      BY <1>1 DEF Removed
    <2>3. QED
      BY <1>2, <2>1, <2>2
  <1>4. ASSUME NEW k \in DOMAIN p, NEW l \in DOMAIN p, k <= l
        PROVE  a[k] <= a[l]
    <2>1. k \in Nat /\ l \in Nat /\ q \in Nat
      BY <1>2, <1>3
    <2>2. QED
      BY <1>1, <1>4, <2>1 DEF MovedUp
  <1>5. InPlaces(p, a)
    BY <1>3, <1>4 DEF InPlaces
  <1>6. ASSUME NEW j \in DOMAIN M, NEW k \in DOMAIN p, At(p, k, M[j])
        PROVE  a[k] \in DOMAIN o /\ At(o, a[k], L[b[j]])
    <2>1. PICK m \in DOMAIN M[j] : p[k] = M[j][m]
      BY <1>6 DEF At
    <2>2. PICK l \in DOMAIN L[b[j]] : M[j][m] = L[b[j]][l]
      BY DEF Thinned
    <2>3. QED
      BY <1>3, <2>1, <2>2 DEF At
  <1>7. Comes(o, L, p, M, a, b)
    BY <1>6 DEF Comes, Thinned
  <1>8. QED
    BY <1>5, <1>7, RanksKept

LEMMA FilledWithout ==
    ASSUME NEW T, NEW L, Filled(T, L), NEW t, NEW M,
           \A i \in DOMAIN L : \A k \in DOMAIN L[i] : L[i][k] = t \/ InLoop(M, L[i][k]),
           NEW N, N = [u \in DOMAIN T \ {t} |-> T[u]]
    PROVE  Filled(N, M)
  <1>1. ASSUME NEW u \in DOMAIN N
        PROVE  InLoop(M, u) \/ 1 \in DOMAIN N[u]
    <2>1. u \in DOMAIN T /\ u # t /\ N[u] = T[u]
      OBVIOUS
    <2>2. InLoop(L, u) => InLoop(M, u)
      BY <2>1 DEF InLoop
    <2>3. QED
      BY <2>1, <2>2 DEF Filled
  <1>2. QED
    BY <1>1 DEF Filled

LEMMA RemoveLoopTagInTurn ==
    ASSUME NEW even, NEW d, Balanced(d, even), Placed(d), InTurn(d),
           NEW i \in DOMAIN d.loops, NEW k \in DOMAIN d.loops[i]
    PROVE  InTurn(RemoveLoopTag(d, i, d.loops[i][k]))
  <1>1. PICK o, h : o = d.order /\ h = d.loops[i]
    OBVIOUS
  <1>2. PICK t : t = h[k]
    OBVIOUS
  <1>3. PICK e : e = RemoveLoopTag(d, i, d.loops[i][k])
    OBVIOUS
  <1>4. PICK s, r : TagRemoved(d, i, k, s, r, e)
    BY <1>3, RemoveLoopTagMakes
  <1>5. PICK p, T, M, L : p = e.order /\ T = e.tags /\ M = e.loops /\ L = d.loops
    OBVIOUS
  <1>6. PICK q : q = s + k
    OBVIOUS
  <1>7. /\ q \in DOMAIN o /\ Removed(o, p, q) /\ Removed(h, r, k)
        /\ T = [u \in DOMAIN d.tags \ {t} |-> d.tags[u]]
        /\ M = IF r = <<>> THEN RemoveAt(L, i) ELSE [L EXCEPT ![i] = r]
    BY <1>1, <1>2, <1>4, <1>5, <1>6 DEF TagRemoved
  <1>8. IsList(o) /\ IsList(h) /\ IsList(L) /\ Ranked(o, L) /\ Filled(d.tags, L) /\ i \in DOMAIN L /\ L[i] = h
    BY <1>1, <1>5 DEF Placed, Listed, Balanced, Shaped, Columned, InTurn
  <1>9. k \in DOMAIN h
    BY <1>1
  <1>10. /\ \A m \in DOMAIN r : \E l \in DOMAIN h : r[m] = h[l]
         /\ \A l \in DOMAIN h : l = k \/ \E m \in DOMAIN r : r[m] = h[l]
    BY <1>7 DEF Removed
  <1>11. PICK c \in Nat : c = Len(L) /\ DOMAIN L = 1 .. c /\ i \in 1 .. c
    BY <1>8, ListFacts
  <1>12. CASE r = <<>>
    <2>1. PICK S : S = {L[j] : j \in DOMAIN L}
      OBVIOUS
    <2>2. c - 1 \in Nat /\ DOMAIN M = 1 .. c - 1 /\ \A j \in 1 .. c - 1 : M[j] = L[MovedUp(i, j)]
      <3>1. L \in Seq(S) /\ M = RemoveAt(L, i)
        BY <1>7, <1>8, <1>12, <2>1 DEF IsList
      <3>2. M \in Seq(S) /\ Len(M) = c - 1 /\ \A j \in 1 .. c - 1 : M[j] = IF j < i THEN L[j] ELSE L[j + 1]
        BY <1>11, <3>1, RemovedAt
      <3>3. QED
        BY <1>11, <3>2 DEF MovedUp
    <2>3. PICK b : b = [j \in DOMAIN M |-> MovedUp(i, j)]
      OBVIOUS
    <2>4. \A j \in DOMAIN M : b[j] \in DOMAIN L /\ M[j] = L[b[j]]
      BY <1>11, <2>2, <2>3 DEF MovedUp
    <2>5. \A j, l \in DOMAIN M : j < l => b[j] < b[l]
      BY <1>11, <2>2, <2>3 DEF MovedUp
    <2>6. Ranked(p, M)
      <3>1. Thinned(L, M, b)
        BY <2>4, <2>5 DEF Thinned
      <3>2. QED
        BY <1>7, <1>8, <3>1, RanksWithout
    <2>7. ASSUME NEW j \in DOMAIN L, NEW l \in DOMAIN L[j], L[j][l] # t
          PROVE  InLoop(M, L[j][l])
      <3>1. j # i
        <4>1. \A m \in DOMAIN r : FALSE
          BY <1>12
        <4>2. QED
          BY <1>2, <1>8, <1>10, <2>7, <4>1
      <3>2. PICK m \in DOMAIN M : MovedUp(i, m) = j
        <4>1. CASE j < i
          BY <1>11, <2>2, <4>1 DEF MovedUp
        <4>2. CASE j > i
          <5>1. j - 1 \in DOMAIN M /\ MovedUp(i, j - 1) = j
            BY <1>11, <2>2, <4>2 DEF MovedUp
          <5>2. QED
            BY <5>1
        <4>3. QED
          BY <1>11, <3>1, <4>1, <4>2
      <3>3. M[m] = L[j]
        BY <2>3, <2>4, <3>2
      <3>4. QED
        BY <3>3 DEF InLoop
    <2>8. Filled(T, M)
      BY <1>7, <1>8, <2>7, FilledWithout
    <2>9. QED
      BY <1>3, <1>5, <2>6, <2>8 DEF InTurn
  <1>13. CASE r # <<>>
    <2>1. M = [L EXCEPT ![i] = r]
      BY <1>7, <1>13
    <2>2. DOMAIN M = DOMAIN L /\ M[i] = r /\ \A j \in DOMAIN L : j # i => M[j] = L[j]
      BY <1>8, <2>1, Replaced
    <2>3. PICK b : b = [j \in DOMAIN M |-> j]
      OBVIOUS
    <2>4. \A j \in DOMAIN M : b[j] \in DOMAIN L
      BY <2>2, <2>3
    <2>5. \A j, l \in DOMAIN M : j < l => b[j] < b[l]
      BY <2>3
    <2>6. \A j \in DOMAIN M : \A m \in DOMAIN M[j] : \E l \in DOMAIN L[b[j]] : M[j][m] = L[b[j]][l]
      BY <1>8, <1>10, <2>2, <2>3
    <2>7. Ranked(p, M)
      <3>1. Thinned(L, M, b)
        BY <2>4, <2>5, <2>6 DEF Thinned
      <3>2. QED
        BY <1>7, <1>8, <3>1, RanksWithout
    <2>8. ASSUME NEW j \in DOMAIN L, NEW l \in DOMAIN L[j], L[j][l] # t
          PROVE  InLoop(M, L[j][l])
      <3>1. \E m \in DOMAIN M[j] : M[j][m] = L[j][l]
        BY <1>2, <1>8, <1>10, <2>2, <2>8
      <3>2. QED
        BY <2>2, <3>1 DEF InLoop
    <2>9. Filled(T, M)
      BY <1>7, <1>8, <2>8, FilledWithout
    <2>10. QED
      BY <1>3, <1>5, <2>7, <2>9 DEF InTurn
  <1>14. QED
    BY <1>12, <1>13

LEMMA DeleteTagInTurn ==
    ASSUME NEW even, NEW d, Balanced(d, even), Placed(d), InTurn(d), NEW t, CanDeleteTag(d, t)
    PROVE  InTurn(DeleteTag(d, t))
  <1>1. IsList(d.loops) /\ OnceEach(d.loops) /\ \A j \in DOMAIN d.loops : IsList(d.loops[j])
    BY DEF Balanced, Shaped, Columned
  <1>2. CASE InLoop(d.loops, t)
    <2>1. PICK i, k : /\ i \in DOMAIN d.loops /\ k \in DOMAIN d.loops[i] /\ d.loops[i][k] = t
                      /\ DeleteTag(d, t) = RemoveLoopTag(d, i, t)
      BY <1>1, <1>2, LoopOfTag
    <2>2. QED
      BY <2>1, RemoveLoopTagInTurn
  <1>3. CASE ~InLoop(d.loops, t)
    <2>1. PICK o, L : o = d.order /\ L = d.loops
      OBVIOUS
    <2>2. IsList(o) /\ Ranked(o, L) /\ Filled(d.tags, L)
      BY <2>1 DEF Placed, Listed, InTurn
    <2>3. PICK p, T : \E q \in DOMAIN o :
            /\ DeleteTag(d, t) = [order |-> p, tags |-> T, loops |-> L]
            /\ o[q] = t /\ Removed(o, p, q)
            /\ T = [u \in DOMAIN d.tags \ {t} |-> d.tags[u]]
      BY <1>3, <2>1, DeleteTagMakes
    <2>4. PICK q \in DOMAIN o :
            /\ DeleteTag(d, t) = [order |-> p, tags |-> T, loops |-> L]
            /\ o[q] = t /\ Removed(o, p, q)
            /\ T = [u \in DOMAIN d.tags \ {t} |-> d.tags[u]]
      BY <2>3
    <2>5. PICK b : b = [j \in DOMAIN L |-> j]
      OBVIOUS
    <2>6. Thinned(L, L, b)
      BY <2>5 DEF Thinned
    <2>7. Ranked(p, L)
      BY <2>2, <2>4, <2>6, RanksWithout
    <2>8. \A i \in DOMAIN L : \A k \in DOMAIN L[i] : InLoop(L, L[i][k])
      BY DEF InLoop
    <2>9. Filled(T, L)
      BY <2>2, <2>4, <2>8, FilledWithout
    <2>10. QED
      BY <2>4, <2>7, <2>9 DEF InTurn
  <1>4. QED
    BY <1>2, <1>3

===============================================================================

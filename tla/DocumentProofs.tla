---------------------------- MODULE DocumentProofs ----------------------------
(***************************************************************************)
(* Theorems about what a file holds for its reader: the edits of a         *)
(* namespace are edits of its sequence of items, and the calls of a writer *)
(* are steps of Document, in files of any size.                            *)
(***************************************************************************)
EXTENDS WriterProofs
LOCAL INSTANCE SequencesExt
LOCAL INSTANCE FiniteSetsExt

-----------------------------------------------------------------------------
(***************************************************************************)
(* What an edit leaves of the items, by what it does to order and loops.   *)
(***************************************************************************)
Has(h, t) == \E k \in DOMAIN h : h[k] = t

\* The same loops have the tag.
SameLoops(L, M, t) ==
    /\ \A i \in DOMAIN L : Has(L[i], t) => \E j \in DOMAIN M : M[j] = L[i]
    /\ \A j \in DOMAIN M : Has(M[j], t) => \E i \in DOMAIN L : L[i] = M[j]

LEMMA LeadsSame ==
    ASSUME NEW L, NEW M, NEW t, SameLoops(L, M, t)
    PROVE  Leads(L, t) <=> Leads(M, t)
  <1>1. ASSUME Leads(L, t), NEW j \in DOMAIN M, NEW k \in DOMAIN M[j], M[j][k] = t
        PROVE  k = 1
    <2>1. PICK i \in DOMAIN L : L[i] = M[j]
      BY <1>1 DEF SameLoops, Has
    <2>2. QED
      BY <1>1, <2>1 DEF Leads
  <1>2. ASSUME Leads(M, t), NEW i \in DOMAIN L, NEW k \in DOMAIN L[i], L[i][k] = t
        PROVE  k = 1
    <2>1. PICK j \in DOMAIN M : M[j] = L[i]
      BY <1>2 DEF SameLoops, Has
    <2>2. QED
      BY <1>2, <2>1 DEF Leads
  <1>3. QED
    BY <1>1, <1>2 DEF Leads

LEMMA LeadsAt ==
    ASSUME NEW L, Apart(L), NEW i \in DOMAIN L, NEW k \in DOMAIN L[i]
    PROVE  Leads(L, L[i][k]) <=> k = 1
  <1>1. OnceEach(L)
    BY DEF Apart
  <1>2. ASSUME k = 1, NEW j \in DOMAIN L, NEW l \in DOMAIN L[j], L[j][l] = L[i][k]
        PROVE  l = 1
    BY <1>1, <1>2, OnlyOnce
  <1>3. QED
    BY <1>2 DEF Leads

LEMMA SameForTag ==
    ASSUME NEW d, NEW e, NEW t, SameLoops(d.loops, e.loops, t), e.tags[t] = d.tags[t],
           \A i \in DOMAIN d.loops : Has(d.loops[i], t) =>
                \A l \in DOMAIN d.loops[i] : e.tags[d.loops[i][l]] = d.tags[d.loops[i][l]]
    PROVE  SameFor(d, e, t)
  <1>1. ASSUME NEW i \in DOMAIN d.loops, NEW k \in DOMAIN d.loops[i], d.loops[i][k] = t
        PROVE  /\ \E j \in DOMAIN e.loops : e.loops[j] = d.loops[i]
               /\ \A l \in DOMAIN d.loops[i] : e.tags[d.loops[i][l]] = d.tags[d.loops[i][l]]
    <2>1. Has(d.loops[i], t)
      BY <1>1 DEF Has
    <2>2. QED
      BY <2>1 DEF SameLoops
  <1>2. ASSUME ~InLoop(d.loops, t)
        PROVE  ~InLoop(e.loops, t)
    <2>1. SUFFICES ASSUME InLoop(e.loops, t) PROVE FALSE
      OBVIOUS
    <2>2. PICK j \in DOMAIN e.loops : Has(e.loops[j], t)
      BY <2>1 DEF InLoop, Has
    <2>3. PICK i \in DOMAIN d.loops : d.loops[i] = e.loops[j]
      BY <2>2 DEF SameLoops
    <2>4. QED
      BY <1>2, <2>2, <2>3 DEF InLoop, Has
  <1>3. QED
    BY <1>1, <1>2 DEF SameFor

\* Something more behind it all: a tag, or the header of a loop.
LEMMA ItemPutBehind ==
    ASSUME NEW d, Apart(d.loops), Placed(d), NEW e, Apart(e.loops), Placed(e),
           NEW h, 1 \in DOMAIN h, RunAt(e.order, h, Len(d.order)),
           Len(e.order) = Len(d.order) + Len(h), IsList(h),
           \A k \in DOMAIN h : Leads(e.loops, h[k]) <=> k = 1,
           \A k \in DOMAIN d.order : e.order[k] = d.order[k],
           \A t \in DOMAIN d.tags : e.tags[t] = d.tags[t] /\ SameLoops(d.loops, e.loops, t),
           \A i \in DOMAIN d.loops : \A l \in DOMAIN d.loops[i] : d.loops[i][l] \in DOMAIN d.tags
    PROVE  D!NamespaceEdit(Items(d), Items(e))
  <1>1. PICK o, p : o = d.order /\ p = e.order
    OBVIOUS
  <1>2. PICK n \in Nat, m \in Nat : n = Len(o) /\ DOMAIN o = 1 .. n /\ m = Len(h) /\ DOMAIN h = 1 .. m
    BY <1>1, ListFacts DEF Placed, Listed
  <1>3. DOMAIN p = 1 .. n + m
    BY <1>1, <1>2, ListFacts DEF Placed, Listed
  <1>4. \A k \in 1 .. n : p[k] = o[k] /\ o[k] \in DOMAIN d.tags
    BY <1>1, <1>2 DEF Placed, Listed
  <1>5. \A k \in 1 .. m : p[n + k] = h[k]
    BY <1>1, <1>2 DEF RunAt
  <1>6. \A k \in 1 .. n : Leads(d.loops, o[k]) <=> Leads(e.loops, p[k])
    BY <1>4, LeadsSame
  <1>7. \A k \in 1 .. m : Leads(e.loops, p[n + k]) <=> k = 1
    BY <1>2, <1>5
  <1>8. Starts(d) = {k \in 1 .. n : Leads(d.loops, o[k])}
    BY <1>1, <1>2, StartsAre
  <1>9. Starts(e) = {k \in 1 .. n + m : Leads(e.loops, p[k])}
    BY <1>1, <1>3, StartsAre
  <1>10. Starts(e) = Starts(d) \cup {n + 1}
    <2>1. \A k \in 1 .. n + m : k \in 1 .. n \/ (k - n \in 1 .. m /\ k = n + (k - n))
      OBVIOUS
    <2>2. ASSUME NEW k \in Starts(e) PROVE k \in Starts(d) \cup {n + 1}
      <3>1. CASE k \in 1 .. n
        BY <1>6, <1>8, <1>9, <2>2, <3>1
      <3>2. CASE k \notin 1 .. n
        <4>1. k - n \in 1 .. m /\ k = n + (k - n)
          BY <1>9, <2>1, <2>2, <3>2
        <4>2. k - n = 1
          BY <1>7, <1>9, <2>2, <4>1
        <4>3. QED
          BY <4>1, <4>2
      <3>3. QED
        BY <3>1, <3>2
    <2>3. ASSUME NEW k \in Starts(d) PROVE k \in Starts(e)
      <3>1. k \in 1 .. n /\ Leads(e.loops, p[k])
        BY <1>6, <1>8, <2>3
      <3>2. k \in 1 .. n + m
        BY <3>1
      <3>3. QED
        BY <1>9, <3>1, <3>2
    <2>4. n + 1 \in Starts(e)
      <3>1. 1 \in 1 .. m
        BY <1>2
      <3>2. Leads(e.loops, p[n + 1]) /\ n + 1 \in 1 .. n + m
        BY <1>7, <3>1
      <3>3. QED
        BY <1>9, <3>2
    <2>5. QED
      BY <2>2, <2>3, <2>4
  <1>11. \A k \in Starts(d) : k < n + 1
    BY <1>8
  <1>12. Kept(d, e)
    <2>1. ASSUME NEW k \in Starts(d)
          PROVE  e.order[k] = d.order[k] /\ SameFor(d, e, d.order[k])
      <3>1. k \in 1 .. n
        BY <1>8
      <3>2. PICK t \in DOMAIN d.tags : t = d.order[k] /\ e.order[k] = t
        BY <1>1, <1>4, <3>1
      <3>3. SameFor(d, e, t)
        BY SameForTag
      <3>4. QED
        BY <3>2, <3>3
    <2>2. QED
      BY <2>1 DEF Kept
  <1>13. n + 1 \in Nat
    OBVIOUS
  <1>14. StartsAt(e, Starts(d) \cup {n + 1})
    BY <1>10 DEF StartsAt
  <1>15. QED
    BY <1>11, <1>12, <1>13, <1>14, ItemAppended

\* Where the places go that the header h of a loop, r afterwards, has nothing to do with.
Relocates(g, o, p, h, r) ==
    /\ g \in [DOMAIN o -> Nat]
    /\ \A k \in DOMAIN o : ~Has(h, o[k]) => g[k] \in DOMAIN p /\ p[g[k]] = o[k]
    /\ \A n \in DOMAIN p : ~Has(r, p[n]) => \E k \in DOMAIN o : g[k] = n /\ ~Has(h, o[k]) /\ o[k] = p[n]

Ascends(g, S) == \A j, k \in S : j < k => g[j] < g[k]

\* What an edit of a loop leaves alone.
Untouched(d, e, h, r) ==
    \A t \in DOMAIN d.tags : ~Has(h, t) =>
        ~Has(r, t) /\ e.tags[t] = d.tags[t] /\ SameLoops(d.loops, e.loops, t)

\* A place at which an item starts belongs to the loop if it is the loop's first.
LEMMA StartInLoop ==
    ASSUME NEW d, Apart(d.loops), Placed(d), NEW i \in DOMAIN d.loops, NEW s \in Nat,
           RunAt(d.order, d.loops[i], s), NEW k \in DOMAIN d.order, Leads(d.loops, d.order[k]),
           Has(d.loops[i], d.order[k])
    PROVE  k = s + 1
  <1>1. PICK l \in DOMAIN d.loops[i] : d.loops[i][l] = d.order[k]
    BY DEF Has
  <1>2. l = 1
    BY <1>1 DEF Leads
  <1>3. s + 1 \in DOMAIN d.order /\ d.order[s + 1] = d.order[k]
    BY <1>1, <1>2 DEF RunAt
  <1>4. Listed(d.order, d.tags)
    BY DEF Placed
  <1>5. QED
    BY <1>3, <1>4, OnePlace

LEMMA LoopStarts ==
    ASSUME NEW d, Apart(d.loops), Placed(d), NEW i \in DOMAIN d.loops, 1 \in DOMAIN d.loops[i],
           NEW s \in Nat, RunAt(d.order, d.loops[i], s)
    PROVE  s + 1 \in Starts(d) /\ ItemAt(d, s + 1) = ItemOf(d, d.loops[i], TRUE)
  <1>1. s + 1 \in DOMAIN d.order /\ d.order[s + 1] = d.loops[i][1]
    BY DEF RunAt
  <1>2. Leads(d.loops, d.order[s + 1])
    BY <1>1, LeadsAt
  <1>3. s + 1 \in Starts(d)
    BY <1>1, <1>2, StartsAre
  <1>4. ItemAt(d, s + 1) = ItemOf(d, d.loops[i], TRUE)
    BY <1>1, LoopItem
  <1>5. QED
    BY <1>3, <1>4

\* A loop that has other tags, or others first, or other values; its place is the same.
LEMMA LoopChanged ==
    ASSUME NEW d, Apart(d.loops), Placed(d), NEW e, Apart(e.loops), Placed(e),
           NEW i \in DOMAIN d.loops, NEW h, h = d.loops[i], 1 \in DOMAIN h,
           NEW j \in DOMAIN e.loops, NEW r, r = e.loops[j], 1 \in DOMAIN r,
           NEW s \in Nat, RunAt(d.order, h, s), RunAt(e.order, r, s),
           NEW g, Relocates(g, d.order, e.order, h, r), g[s + 1] = s + 1, Ascends(g, Starts(d)),
           Untouched(d, e, h, r), D!ItemEdit(ItemOf(d, h, TRUE), ItemOf(e, r, TRUE))
    PROVE  D!NamespaceEdit(Items(d), Items(e))
  <1>1. PICK o, p : o = d.order /\ p = e.order
    OBVIOUS
  <1>2. PICK L, M : L = d.loops /\ M = e.loops
    OBVIOUS
  <1>3. Starts(d) = {k \in DOMAIN o : Leads(L, o[k])}
    BY <1>1, <1>2, StartsAre
  <1>4. Starts(e) = {k \in DOMAIN p : Leads(M, p[k])}
    BY <1>1, <1>2, StartsAre
  <1>5. s + 1 \in Starts(d) /\ ItemAt(d, s + 1) = ItemOf(d, h, TRUE)
    BY LoopStarts
  <1>6. s + 1 \in Starts(e) /\ ItemAt(e, s + 1) = ItemOf(e, r, TRUE)
    BY LoopStarts
  <1>7. \A k \in DOMAIN o : o[k] \in DOMAIN d.tags
    BY <1>1 DEF Placed, Listed
  <1>8. ASSUME NEW k \in DOMAIN o, ~Has(h, o[k])
        PROVE  /\ g[k] \in DOMAIN p /\ p[g[k]] = o[k] /\ SameFor(d, e, o[k])
               /\ Leads(L, o[k]) <=> Leads(M, p[g[k]])
    <2>1. g[k] \in DOMAIN p /\ p[g[k]] = o[k]
      BY <1>1, <1>8 DEF Relocates
    <2>2. e.tags[o[k]] = d.tags[o[k]] /\ SameLoops(d.loops, e.loops, o[k])
      BY <1>7, <1>8 DEF Untouched
    <2>3. ASSUME NEW m \in DOMAIN d.loops, Has(d.loops[m], o[k]), NEW l \in DOMAIN d.loops[m]
          PROVE  e.tags[d.loops[m][l]] = d.tags[d.loops[m][l]]
      <3>1. m # i
        BY <1>8, <2>3
      <3>2. ~Has(h, d.loops[m][l])
        BY <2>3, <3>1, OnlyOnce DEF Apart, Has
      <3>3. d.loops[m][l] \in DOMAIN d.tags
        <4>1. Run(d.order, d.loops[m])
          BY DEF Placed, Together
        <4>2. PICK x \in DOMAIN o : o[x] = d.loops[m][l]
          BY <1>1, <2>3, <4>1 DEF Run, RunAt
        <4>3. QED
          BY <1>7, <4>2
      <3>4. QED
        BY <3>2, <3>3 DEF Untouched
    <2>4. SameFor(d, e, o[k])
      BY <2>2, <2>3, SameForTag
    <2>5. Leads(L, o[k]) <=> Leads(M, o[k])
      BY <1>2, <2>2, LeadsSame
    <2>6. QED
      BY <2>1, <2>4, <2>5
  <1>9. \A k \in Starts(d) \ {s + 1} : k \in DOMAIN o /\ ~Has(h, o[k])
    <2>1. ASSUME NEW k \in Starts(d), Has(h, o[k])
          PROVE  k = s + 1
      <3>1. k \in DOMAIN d.order /\ Leads(d.loops, d.order[k]) /\ Has(d.loops[i], d.order[k])
        BY <1>1, <1>2, <1>3, <2>1
      <3>2. RunAt(d.order, d.loops[i], s)
        OBVIOUS
      <3>3. QED
        BY <3>1, <3>2, StartInLoop
    <2>2. QED
      BY <1>3, <2>1
  <1>10. PICK f : f = [k \in Starts(d) |-> g[k]]
    OBVIOUS
  <1>11. Moves(f, Starts(d))
    <2>1. \A k \in Starts(d) : g[k] \in Nat
      BY <1>1, <1>3 DEF Relocates
    <2>2. \A k, l \in Starts(d) : k < l => g[k] < g[l]
      BY DEF Ascends
    <2>3. QED
      BY <1>10, <2>1, <2>2 DEF Moves
  <1>12. Starts(e) = {f[k] : k \in Starts(d)}
    <2>1. ASSUME NEW n \in Starts(e), n # s + 1
          PROVE  \E k \in Starts(d) : n = f[k]
      <3>1. n \in DOMAIN p /\ Leads(M, p[n])
        BY <1>4
      <3>2. ~Has(r, p[n])
        <4>1. RunAt(e.order, e.loops[j], s)
          OBVIOUS
        <4>2. Has(e.loops[j], e.order[n]) => n = s + 1
          BY <1>1, <1>2, <3>1, <4>1, StartInLoop
        <4>3. QED
          BY <1>1, <2>1, <4>2
      <3>3. PICK k \in DOMAIN o : g[k] = n /\ ~Has(h, o[k]) /\ o[k] = p[n]
        BY <1>1, <3>1, <3>2 DEF Relocates
      <3>4. Leads(L, o[k])
        BY <1>8, <3>1, <3>3
      <3>5. k \in Starts(d)
        BY <1>3, <3>4
      <3>6. QED
        BY <1>10, <3>3, <3>5
    <2>2. ASSUME NEW k \in Starts(d), k # s + 1
          PROVE  f[k] \in Starts(e)
      <3>1. k \in DOMAIN o /\ ~Has(h, o[k]) /\ Leads(L, o[k])
        BY <1>3, <1>9, <2>2
      <3>2. g[k] \in DOMAIN p /\ Leads(M, p[g[k]])
        BY <1>8, <3>1
      <3>3. QED
        BY <1>4, <1>10, <3>2
    <2>3. f[s + 1] = s + 1
      BY <1>5, <1>10
    <2>4. \A n \in Starts(e) : \E k \in Starts(d) : n = f[k]
      BY <1>5, <2>1, <2>3
    <2>5. \A k \in Starts(d) : f[k] \in Starts(e)
      BY <1>6, <2>2, <2>3
    <2>6. QED
      BY <2>4, <2>5
  <1>13. Carried(d, e, f, Starts(d) \ {s + 1})
    <2>1. ASSUME NEW k \in Starts(d) \ {s + 1}
          PROVE  e.order[f[k]] = d.order[k] /\ SameFor(d, e, d.order[k])
      <3>1. k \in DOMAIN o /\ ~Has(h, o[k]) /\ f[k] = g[k]
        BY <1>9, <1>10
      <3>2. QED
        BY <1>1, <1>8, <3>1
    <2>2. QED
      BY <2>1 DEF Carried
  <1>14. D!ItemEdit(ItemAt(d, s + 1), ItemAt(e, f[s + 1]))
    <2>1. f[s + 1] = s + 1
      BY <1>5, <1>10
    <2>2. QED
      BY <1>5, <1>6, <2>1
  <1>15. StartsAt(e, {f[k] : k \in Starts(d)})
    BY <1>12 DEF StartsAt
  <1>16. QED
    BY <1>5, <1>11, <1>13, <1>14, <1>15, ItemChanged

Ahead(q, k) == IF k < q THEN k ELSE k - 1

LEMMA AheadOf ==
    ASSUME NEW o, IsList(o), NEW q \in DOMAIN o, NEW p, Removed(o, p, q)
    PROVE  /\ \A k \in DOMAIN o : Ahead(q, k) \in Nat
           /\ \A k \in DOMAIN o \ {q} : Ahead(q, k) \in DOMAIN p /\ p[Ahead(q, k)] = o[k]
           /\ \A n \in DOMAIN p : \E k \in DOMAIN o \ {q} : Ahead(q, k) = n /\ o[k] = p[n]
           /\ \A j, k \in DOMAIN o \ {q} : j < k => Ahead(q, j) < Ahead(q, k)
  <1>1. PICK n \in Nat : n = Len(o) /\ DOMAIN o = 1 .. n /\ q \in 1 .. n
    BY ListFacts
  <1>2. DOMAIN p = 1 .. n - 1
    BY <1>1, ListFacts DEF Removed
  <1>3. \A l \in 1 .. n - 1 : p[l] = o[MovedUp(q, l)]
    BY <1>2 DEF Removed
  <1>4. ASSUME NEW k \in 1 .. n, k # q
        PROVE  Ahead(q, k) \in 1 .. n - 1 /\ MovedUp(q, Ahead(q, k)) = k
    BY <1>1, <1>4 DEF Ahead, MovedUp
  <1>5. ASSUME NEW m \in 1 .. n - 1
        PROVE  MovedUp(q, m) \in 1 .. n /\ MovedUp(q, m) # q /\ Ahead(q, MovedUp(q, m)) = m
    BY <1>1 DEF Ahead, MovedUp
  <1>6. \A k \in 1 .. n : Ahead(q, k) \in Nat
    BY <1>1 DEF Ahead
  <1>7. \A j, k \in 1 .. n : j # q /\ k # q /\ j < k => Ahead(q, j) < Ahead(q, k)
    BY <1>1 DEF Ahead
  <1>8. \A k \in 1 .. n : k # q => Ahead(q, k) \in 1 .. n - 1 /\ p[Ahead(q, k)] = o[k]
    BY <1>3, <1>4
  <1>9. ASSUME NEW m \in 1 .. n - 1
        PROVE  \E k \in (1 .. n) \ {q} : Ahead(q, k) = m /\ o[k] = p[m]
    BY <1>3, <1>5
  <1>10. QED
    BY <1>1, <1>2, <1>6, <1>7, <1>8, <1>9

\* A scalar, or a loop of one tag, that is gone.
LEMMA ItemTakenOut ==
    ASSUME NEW d, Apart(d.loops), Placed(d), NEW e, Apart(e.loops), Placed(e),
           NEW q \in Starts(d), Removed(d.order, e.order, q), NEW u, u = d.order[q],
           \A t \in DOMAIN d.tags \ {u} : e.tags[t] = d.tags[t] /\ SameLoops(d.loops, e.loops, t),
           \A i \in DOMAIN d.loops : Has(d.loops[i], u) => \A l \in DOMAIN d.loops[i] : d.loops[i][l] = u
    PROVE  D!NamespaceEdit(Items(d), Items(e))
  <1>1. PICK o, p : o = d.order /\ p = e.order
    OBVIOUS
  <1>2. PICK L, M : L = d.loops /\ M = e.loops
    OBVIOUS
  <1>3. Starts(d) = {k \in DOMAIN o : Leads(L, o[k])}
    BY <1>1, <1>2, StartsAre
  <1>4. Starts(e) = {k \in DOMAIN p : Leads(M, p[k])}
    BY <1>1, <1>2, StartsAre
  <1>5. q \in DOMAIN o /\ u = o[q] /\ IsList(o) /\ Removed(o, p, q) /\ Listed(o, d.tags)
    BY <1>1, <1>3 DEF Placed, Listed
  <1>6. \A k \in DOMAIN o : o[k] \in DOMAIN d.tags /\ (k # q => o[k] # u)
    BY <1>1, <1>5 DEF Listed
  <1>7. ASSUME NEW k \in DOMAIN o, k # q
        PROVE  (Leads(L, o[k]) <=> Leads(M, o[k])) /\ SameFor(d, e, o[k])
    <2>1. o[k] \in DOMAIN d.tags \ {u}
      BY <1>6, <1>7
    <2>2. e.tags[o[k]] = d.tags[o[k]] /\ SameLoops(d.loops, e.loops, o[k])
      BY <2>1
    <2>3. ASSUME NEW i \in DOMAIN d.loops, Has(d.loops[i], o[k]), NEW l \in DOMAIN d.loops[i]
          PROVE  e.tags[d.loops[i][l]] = d.tags[d.loops[i][l]]
      <3>1. d.loops[i][l] # u
        BY <2>1, <2>3 DEF Has
      <3>2. Run(d.order, d.loops[i])
        BY DEF Placed, Together
      <3>3. PICK x \in DOMAIN o : o[x] = d.loops[i][l]
        BY <1>1, <2>3, <3>2 DEF Run, RunAt
      <3>4. d.loops[i][l] \in DOMAIN d.tags \ {u}
        BY <1>6, <3>1, <3>3
      <3>5. QED
        BY <3>4
    <2>4. SameFor(d, e, o[k])
      BY <2>2, <2>3, SameForTag
    <2>5. Leads(L, o[k]) <=> Leads(M, o[k])
      BY <1>2, <2>2, LeadsSame
    <2>6. QED
      BY <2>4, <2>5
  <1>8. PICK S : S = Starts(d) \ {q}
    OBVIOUS
  <1>9. PICK f : f = [k \in S |-> Ahead(q, k)]
    OBVIOUS
  <1>10. Starts(e) = {f[k] : k \in S}
    <2>1. ASSUME NEW n \in Starts(e)
          PROVE  \E k \in S : n = f[k]
      <3>1. n \in DOMAIN p /\ Leads(M, p[n])
        BY <1>4
      <3>2. PICK k \in DOMAIN o : k # q /\ Ahead(q, k) = n /\ o[k] = p[n]
        BY <1>5, <3>1, AheadOf
      <3>3. k \in Starts(d)
        BY <1>3, <1>7, <3>1, <3>2
      <3>4. QED
        BY <1>8, <1>9, <3>2, <3>3
    <2>2. ASSUME NEW k \in S
          PROVE  f[k] \in Starts(e)
      <3>1. k \in DOMAIN o /\ k # q /\ Leads(L, o[k]) /\ f[k] = Ahead(q, k)
        BY <1>3, <1>8, <1>9
      <3>2. Ahead(q, k) \in DOMAIN p /\ p[Ahead(q, k)] = o[k]
        BY <1>5, <3>1, AheadOf
      <3>3. QED
        BY <1>4, <1>7, <3>1, <3>2
    <2>3. QED
      BY <2>1, <2>2
  <1>11. Carried(d, e, f, S)
    <2>1. ASSUME NEW k \in S
          PROVE  e.order[f[k]] = d.order[k] /\ SameFor(d, e, d.order[k])
      <3>1. k \in DOMAIN o /\ k # q /\ f[k] = Ahead(q, k)
        BY <1>3, <1>8, <1>9
      <3>2. p[Ahead(q, k)] = o[k]
        BY <1>5, <3>1, AheadOf
      <3>3. QED
        BY <1>1, <1>7, <3>1, <3>2
    <2>2. QED
      BY <2>1 DEF Carried
  <1>12. Moves(f, S)
    <2>1. \A k \in S : Ahead(q, k) \in Nat
      BY <1>3, <1>5, <1>8, AheadOf
    <2>2. \A j, k \in S : j < k => Ahead(q, j) < Ahead(q, k)
      BY <1>3, <1>5, <1>8, AheadOf
    <2>3. QED
      BY <1>9, <2>1, <2>2 DEF Moves
  <1>13. StartsAt(e, {f[k] : k \in S})
    BY <1>10 DEF StartsAt
  <1>14. QED
    BY <1>8, <1>11, <1>12, <1>13, ItemRemoved

-----------------------------------------------------------------------------
(***************************************************************************)
(* Each edit touches one item of its namespace.                            *)
(***************************************************************************)
LEMMA BalancedApart ==
    ASSUME NEW even, NEW d, Balanced(d, even)
    PROVE  /\ Apart(d.loops)
           /\ \A i \in DOMAIN d.loops : \A l \in DOMAIN d.loops[i] : d.loops[i][l] \in DOMAIN d.tags
  BY DEF Balanced, Shaped, Columned, Apart

LEMMA LoopsAlike ==
    ASSUME NEW L, NEW t
    PROVE  SameLoops(L, L, t)
  BY DEF SameLoops

LEMMA SetTagEdits ==
    ASSUME NEW even, NEW d, Balanced(d, even), Placed(d), NEW t, CanSetTag(d, t),
           NEW v, NEW e, e = SetTag(d, t, v), Balanced(e, even), Placed(e)
    PROVE  D!NamespaceEdit(Items(d), Items(e))
  <1>1. d = [order |-> d.order, tags |-> d.tags, loops |-> d.loops] /\ t \notin DOMAIN d.tags
    BY DEF Balanced, CanSetTag
  <1>2. PICK T : T = [u \in DOMAIN d.tags \cup {t} |-> IF u = t THEN <<v>> ELSE d.tags[u]]
    OBVIOUS
  <1>3. e = [order |-> Append(d.order, t), tags |-> T, loops |-> d.loops]
    BY <1>1, <1>2 DEF SetTag, AppendValue
  <1>4. PICK h : h = <<t>>
    OBVIOUS
  <1>5. IsList(h) /\ Len(h) = 1 /\ DOMAIN h = {1} /\ h[1] = t
    BY <1>4, ListOfOne
  <1>6. PICK n \in Nat : n = Len(d.order) /\ DOMAIN d.order = 1 .. n /\ IsList(d.order)
    BY ListFacts DEF Placed, Listed
  <1>7. PICK p : p = Append(d.order, t)
    OBVIOUS
  <1>8. Len(p) = n + 1 /\ DOMAIN p = 1 .. n + 1 /\ p[n + 1] = t /\ \A k \in 1 .. n : p[k] = d.order[k]
    BY <1>6, <1>7, Appended
  <1>9. e.order = p /\ e.tags = T /\ e.loops = d.loops
    BY <1>3, <1>7
  <1>10. RunAt(e.order, h, Len(d.order))
    BY <1>5, <1>6, <1>8, <1>9 DEF RunAt
  <1>11. Leads(e.loops, t)
    BY <1>1, <1>9, BalancedApart DEF Leads
  <1>12. \A u \in DOMAIN d.tags : e.tags[u] = d.tags[u] /\ SameLoops(d.loops, e.loops, u)
    BY <1>1, <1>2, <1>9, LoopsAlike
  <1>13. \A k \in DOMAIN h : Leads(e.loops, h[k]) <=> k = 1
    BY <1>5, <1>11
  <1>14. \A k \in DOMAIN d.order : e.order[k] = d.order[k]
    BY <1>6, <1>8, <1>9
  <1>15. Len(e.order) = Len(d.order) + Len(h) /\ 1 \in DOMAIN h
    BY <1>5, <1>6, <1>8, <1>9
  <1>16. Apart(d.loops) /\ Apart(e.loops)
    BY BalancedApart
  <1>17. \A i \in DOMAIN d.loops : \A l \in DOMAIN d.loops[i] : d.loops[i][l] \in DOMAIN d.tags
    BY BalancedApart
  <1>18. QED
    BY <1>5, <1>10, <1>12, <1>13, <1>14, <1>15, <1>16, <1>17, ItemPutBehind

LEMMA AddLoopEdits ==
    ASSUME NEW even, NEW d, Balanced(d, even), Placed(d), NEW h, IsList(h),
           \A k, l \in DOMAIN h : h[k] = h[l] => k = l, NEW C, CanAddLoop(d, h, C),
           NEW e, e = AddLoop(d, h, C), Balanced(e, even), Placed(e)
    PROVE  D!NamespaceEdit(Items(d), Items(e))
  <1>1. PICK T : T = [t \in DOMAIN d.tags \cup {h[k] : k \in DOMAIN h} |->
                        IF t \in {h[k] : k \in DOMAIN h} THEN C[t] ELSE d.tags[t]]
    OBVIOUS
  <1>2. PICK L : L = Append(d.loops, h)
    OBVIOUS
  <1>3. PICK o, p : o = d.order /\ p = d.order \o h
    OBVIOUS
  <1>4. \A k \in DOMAIN h : h[k] \notin DOMAIN d.tags
    <2>1. \A k \in DOMAIN h : h[k] \in ToSet(h)
      BY DEF ToSet
    <2>2. QED
      BY <2>1 DEF CanAddLoop
  <1>5. NewTags(d, h) = h
    BY <1>4, ListFacts, AllNew
  <1>6. e = [order |-> p, tags |-> T, loops |-> L]
    BY <1>1, <1>2, <1>3, <1>5 DEF AddLoop
  <1>7. e.order = p /\ e.tags = T /\ e.loops = L
    BY <1>6
  <1>8. IsList(d.loops) /\ IsList(o)
    BY <1>3 DEF Balanced, Shaped, Columned, Placed, Listed
  <1>9. Joined(o, h, p)
    BY <1>3, <1>8, Concatenated
  <1>10. PICK n \in Nat, m \in Nat : n = Len(o) /\ DOMAIN o = 1 .. n /\ m = Len(h) /\ DOMAIN h = 1 .. m
    BY <1>8, ListFacts
  <1>11. /\ Len(p) = n + m /\ DOMAIN p = 1 .. n + m
         /\ (\A k \in 1 .. n : p[k] = o[k]) /\ \A k \in 1 .. m : p[n + k] = h[k]
    BY <1>9, <1>10 DEF Joined
  <1>12. RunAt(e.order, h, Len(d.order))
    <2>1. \A k \in 1 .. m : n + k \in 1 .. n + m
      OBVIOUS
    <2>2. RunAt(p, h, n)
      BY <1>10, <1>11, <2>1 DEF RunAt
    <2>3. QED
      BY <1>3, <1>7, <1>10, <2>2
  <1>13. 1 \in DOMAIN h
    BY NotEmpty DEF CanAddLoop
  <1>14. Len(e.order) = Len(d.order) + Len(h)
    BY <1>3, <1>7, <1>10, <1>11
  <1>15. \A k \in DOMAIN d.order : e.order[k] = d.order[k]
    BY <1>3, <1>7, <1>10, <1>11
  <1>16. Apart(d.loops) /\ Apart(L)
    BY <1>7, BalancedApart
  <1>17. \A i \in DOMAIN d.loops : \A l \in DOMAIN d.loops[i] : d.loops[i][l] \in DOMAIN d.tags
    BY BalancedApart
  <1>18. PICK x \in Nat : x = Len(d.loops) /\ DOMAIN d.loops = 1 .. x
    BY <1>8, ListFacts
  <1>19. DOMAIN L = 1 .. x + 1 /\ L[x + 1] = h /\ \A i \in 1 .. x : L[i] = d.loops[i]
    <2>1. /\ DOMAIN L = 1 .. Len(d.loops) + 1 /\ L[Len(d.loops) + 1] = h
          /\ \A i \in DOMAIN d.loops : L[i] = d.loops[i]
      BY <1>2, <1>8, Appended
    <2>2. QED
      BY <1>18, <2>1
  <1>20. PICK j \in DOMAIN L : L[j] = h
    <2>1. x + 1 \in DOMAIN L
      BY <1>19
    <2>2. QED
      BY <1>19, <2>1
  <1>21. \A i \in DOMAIN d.loops : i \in DOMAIN L /\ L[i] = d.loops[i]
    BY <1>18, <1>19
  <1>22. \A i \in DOMAIN L : L[i] = h \/ (i \in DOMAIN d.loops /\ L[i] = d.loops[i])
    BY <1>18, <1>19
  <1>23. \A k \in DOMAIN h : Leads(e.loops, h[k]) <=> k = 1
    BY <1>7, <1>16, <1>20, LeadsAt
  <1>24. ASSUME NEW t \in DOMAIN d.tags
         PROVE  e.tags[t] = d.tags[t] /\ SameLoops(d.loops, e.loops, t)
    <2>1. ~Has(h, t)
      BY <1>4 DEF Has
    <2>2. t \notin {h[k] : k \in DOMAIN h}
      BY <1>4
    <2>3. e.tags[t] = d.tags[t]
      BY <1>1, <1>7, <2>2
    <2>4. SameLoops(d.loops, L, t)
      BY <1>21, <1>22, <2>1 DEF SameLoops
    <2>5. QED
      BY <1>7, <2>3, <2>4
  <1>25. Apart(e.loops)
    BY <1>7, <1>16
  <1>26. QED
    BY <1>12, <1>13, <1>14, <1>15, <1>16, <1>17, <1>23, <1>24, <1>25, ItemPutBehind

LEMMA OtherLoops ==
    ASSUME NEW L, NEW i \in DOMAIN L, NEW M, DOMAIN M = DOMAIN L,
           \A j \in DOMAIN L : j # i => M[j] = L[j],
           NEW t, ~Has(L[i], t), ~Has(M[i], t)
    PROVE  SameLoops(L, M, t)
  BY DEF SameLoops

LEMMA PushedPlaces ==
    ASSUME NEW o, IsList(o), NEW q \in DOMAIN o, NEW t, NEW p, Inserted(o, p, q, t)
    PROVE  /\ \A k \in DOMAIN o : Behind(q, k) \in Nat /\ Behind(q, k) \in DOMAIN p /\ p[Behind(q, k)] = o[k]
           /\ \A m \in DOMAIN p : m = q + 1 \/ \E k \in DOMAIN o : Behind(q, k) = m /\ o[k] = p[m]
           /\ \A j, k \in DOMAIN o : j < k => Behind(q, j) < Behind(q, k)
  <1>1. PICK n \in Nat : n = Len(o) /\ DOMAIN o = 1 .. n /\ q \in 1 .. n
    BY ListFacts
  <1>2. DOMAIN p = 1 .. n + 1 /\ \A k \in 1 .. n : p[Behind(q, k)] = o[k]
    BY <1>1 DEF Inserted
  <1>3. \A k \in 1 .. n : Behind(q, k) \in Nat /\ Behind(q, k) \in 1 .. n + 1
    BY <1>1 DEF Behind
  <1>4. ASSUME NEW m \in 1 .. n + 1, m # q + 1
        PROVE  \E k \in 1 .. n : Behind(q, k) = m /\ o[k] = p[m]
    <2>1. CASE m <= q
      <3>1. m \in 1 .. n /\ Behind(q, m) = m
        BY <1>1, <2>1 DEF Behind
      <3>2. QED
        BY <1>2, <3>1
    <2>2. CASE ~(m <= q)
      <3>1. m - 1 \in 1 .. n /\ Behind(q, m - 1) = m
        BY <1>1, <1>4, <2>2 DEF Behind
      <3>2. QED
        BY <1>2, <3>1
    <2>3. QED
      BY <2>1, <2>2
  <1>5. \A j, k \in 1 .. n : j < k => Behind(q, j) < Behind(q, k)
    BY <1>1 DEF Behind
  <1>6. \A k \in DOMAIN o : Behind(q, k) \in Nat /\ Behind(q, k) \in DOMAIN p /\ p[Behind(q, k)] = o[k]
    BY <1>1, <1>2, <1>3
  <1>7. \A m \in DOMAIN p : m = q + 1 \/ \E k \in DOMAIN o : Behind(q, k) = m /\ o[k] = p[m]
    BY <1>1, <1>2, <1>4
  <1>8. \A j, k \in DOMAIN o : j < k => Behind(q, j) < Behind(q, k)
    BY <1>1, <1>5
  <1>9. QED
    BY <1>6, <1>7, <1>8

LEMMA AddLoopColumnEdits ==
    ASSUME NEW even, NEW d, Balanced(d, even), Placed(d), NEW i \in DOMAIN d.loops, NEW t, NEW c,
           CanAddLoopColumn(d, i, t, c),
           NEW e, e = AddLoopColumn(d, i, t, c), Balanced(e, even), Placed(e)
    PROVE  D!NamespaceEdit(Items(d), Items(e))
  <1>1. PICK s \in Nat : WithColumn(d, i, t, c, s, e)
    BY AddLoopColumnMakes
  <1>2. PICK o, p, h, r, q : /\ o = d.order /\ p = e.order /\ h = d.loops[i] /\ r = Append(h, t)
                             /\ q = s + Len(h)
    OBVIOUS
  <1>3. /\ RunAt(o, h, s) /\ 1 \in DOMAIN h /\ q \in DOMAIN o /\ Inserted(o, p, q, t)
        /\ e.tags = [u \in DOMAIN d.tags \cup {t} |-> IF u = t THEN c ELSE d.tags[u]]
        /\ e.loops = [d.loops EXCEPT ![i] = r]
    BY <1>1, <1>2 DEF WithColumn
  <1>4. /\ IsList(o) /\ IsList(h) /\ IsList(d.loops) /\ t \notin DOMAIN d.tags
        /\ \A k \in DOMAIN o : o[k] \in DOMAIN d.tags
    BY <1>2 DEF Balanced, Shaped, Columned, Placed, Listed, CanAddLoopColumn
  <1>5. /\ i \in DOMAIN e.loops /\ e.loops[i] = r /\ DOMAIN e.loops = DOMAIN d.loops
        /\ \A j \in DOMAIN d.loops : j # i => e.loops[j] = d.loops[j]
    BY <1>3, <1>4, Replaced
  <1>6. PICK m \in Nat : m = Len(h) /\ DOMAIN h = 1 .. m
    BY <1>4, ListFacts
  <1>7. Len(r) = m + 1 /\ DOMAIN r = 1 .. m + 1 /\ r[m + 1] = t /\ \A k \in 1 .. m : r[k] = h[k]
    BY <1>2, <1>4, <1>6, Appended
  <1>8. 1 \in DOMAIN r /\ RunAt(p, r, s)
    <2>1. Inserted(o, p, s + Len(h), t)
      BY <1>2, <1>3
    <2>2. RunAt(p, r, s)
      BY <1>2, <1>3, <1>4, <2>1, RunLonger
    <2>3. QED
      BY <1>7, <2>2
  <1>9. Has(r, t) /\ \A u : Has(r, u) <=> u = t \/ Has(h, u)
    <2>1. m + 1 \in DOMAIN r /\ \A k \in 1 .. m : k \in DOMAIN r
      BY <1>7
    <2>2. \A k \in DOMAIN r : k = m + 1 \/ k \in 1 .. m
      BY <1>7
    <2>3. QED
      BY <1>6, <1>7, <2>1, <2>2 DEF Has
  <1>10. PICK g : g = [k \in DOMAIN o |-> Behind(q, k)]
    OBVIOUS
  <1>11. /\ \A k \in DOMAIN o : g[k] \in Nat /\ g[k] \in DOMAIN p /\ p[g[k]] = o[k]
         /\ \A n \in DOMAIN p : n = q + 1 \/ \E k \in DOMAIN o : g[k] = n /\ o[k] = p[n]
         /\ \A j, k \in DOMAIN o : j < k => g[j] < g[k]
    BY <1>3, <1>4, <1>10, PushedPlaces
  <1>12. Relocates(g, o, p, h, r)
    <2>1. ASSUME NEW n \in DOMAIN p, ~Has(r, p[n])
          PROVE  \E k \in DOMAIN o : g[k] = n /\ ~Has(h, o[k]) /\ o[k] = p[n]
      <3>1. n # q + 1
        BY <1>3, <1>9, <2>1 DEF Inserted
      <3>2. PICK k \in DOMAIN o : g[k] = n /\ o[k] = p[n]
        BY <1>11, <3>1
      <3>3. QED
        BY <1>9, <2>1, <3>2
    <2>2. g \in [DOMAIN o -> Nat]
      BY <1>10, <1>11
    <2>3. QED
      BY <1>11, <2>1, <2>2 DEF Relocates
  <1>13. g[s + 1] = s + 1
    <2>1. s + 1 <= q
      BY <1>2, <1>3, <1>6
    <2>2. s + 1 \in DOMAIN o
      BY <1>3 DEF RunAt
    <2>3. QED
      BY <1>10, <2>1, <2>2 DEF Behind
  <1>14. Ascends(g, Starts(d))
    <2>1. Starts(d) \subseteq DOMAIN o
      BY <1>2 DEF Starts
    <2>2. QED
      BY <1>11, <2>1 DEF Ascends
  <1>15. Untouched(d, e, h, r)
    <2>1. ASSUME NEW u \in DOMAIN d.tags, ~Has(h, u)
          PROVE  ~Has(r, u) /\ e.tags[u] = d.tags[u] /\ SameLoops(d.loops, e.loops, u)
      <3>1. u # t
        BY <1>4
      <3>2. ~Has(r, u) /\ e.tags[u] = d.tags[u]
        BY <1>3, <1>9, <2>1, <3>1
      <3>3. SameLoops(d.loops, e.loops, u)
        BY <1>2, <1>5, <2>1, <3>2, OtherLoops
      <3>4. QED
        BY <3>2, <3>3
    <2>2. QED
      BY <2>1 DEF Untouched
  <1>16. D!ItemEdit(ItemOf(d, h, TRUE), ItemOf(e, r, TRUE))
    <2>1. PICK a, b : a = ItemOf(d, h, TRUE) /\ b = ItemOf(e, r, TRUE)
      OBVIOUS
    <2>2. /\ a.loop = TRUE /\ a.header = h /\ a.columns = [k \in DOMAIN h |-> d.tags[h[k]]]
          /\ b.loop = TRUE /\ b.header = r /\ b.columns = [k \in DOMAIN r |-> e.tags[r[k]]]
      BY <2>1 DEF ItemOf
    <2>3. D!Longer(a.header, b.header)
      BY <1>6, <1>7, <2>2 DEF D!Longer
    <2>4. \A k \in 1 .. m : e.tags[r[k]] = d.tags[h[k]]
      <3>1. \A k \in 1 .. m : h[k] \in DOMAIN d.tags
        BY <1>2, <1>6, BalancedApart
      <3>2. QED
        BY <1>3, <1>4, <1>7, <3>1
    <2>5. Len(a.columns) = m /\ Len(b.columns) = m + 1
      BY <1>6, <1>7, <2>2
    <2>6. D!Longer(a.columns, b.columns)
      BY <1>6, <1>7, <2>2, <2>4, <2>5 DEF D!Longer
    <2>7. QED
      BY <2>1, <2>2, <2>3, <2>6 DEF D!ItemEdit
  <1>17. Apart(d.loops) /\ Apart(e.loops)
    BY BalancedApart
  <1>18. Relocates(g, d.order, e.order, h, r) /\ RunAt(d.order, h, s) /\ RunAt(e.order, r, s)
    BY <1>2, <1>3, <1>8, <1>12
  <1>19. h = d.loops[i] /\ 1 \in DOMAIN h /\ i \in DOMAIN e.loops /\ r = e.loops[i] /\ 1 \in DOMAIN r
    BY <1>2, <1>3, <1>5, <1>8
  <1>20. QED
    BY <1>13, <1>14, <1>15, <1>16, <1>17, <1>18, <1>19, LoopChanged

LEMMA ReorderEdits ==
    ASSUME NEW even, NEW d, Balanced(d, even), Placed(d), NEW i \in DOMAIN d.loops, NEW h, IsList(h),
           Permuted(d.loops[i], h),
           NEW e, e = ReorderLoopTags(d, i, h), Balanced(e, even), Placed(e)
    PROVE  D!NamespaceEdit(Items(d), Items(e))
  <1>1. PICK s \in Nat : Rewritten(d, i, h, s, e)
    BY ReorderMakes
  <1>2. PICK o, p, g : o = d.order /\ p = e.order /\ g = d.loops[i]
    OBVIOUS
  <1>3. /\ RunAt(o, g, s) /\ 1 \in DOMAIN g /\ Overwritten(o, p, h, s) /\ Permuted(g, h)
        /\ e.tags = d.tags /\ e.loops = [d.loops EXCEPT ![i] = h]
    BY <1>1, <1>2 DEF Rewritten
  <1>4. IsList(o) /\ IsList(g) /\ IsList(d.loops) /\ Listed(o, d.tags)
    BY <1>2 DEF Balanced, Shaped, Columned, Placed, Listed
  <1>5. /\ i \in DOMAIN e.loops /\ e.loops[i] = h /\ DOMAIN e.loops = DOMAIN d.loops
        /\ \A j \in DOMAIN d.loops : j # i => e.loops[j] = d.loops[j]
    BY <1>3, <1>4, Replaced
  <1>6. DOMAIN h = DOMAIN g /\ \A u : Has(g, u) <=> Has(h, u)
    <2>1. DOMAIN h = DOMAIN g
      BY <1>3 DEF Permuted
    <2>2. ASSUME NEW u, Has(g, u)
          PROVE  Has(h, u)
      <3>1. PICK k \in DOMAIN g : g[k] = u
        BY <2>2 DEF Has
      <3>2. PICK l \in DOMAIN h : h[l] = g[k]
        BY <1>3 DEF Permuted
      <3>3. QED
        BY <3>1, <3>2 DEF Has
    <2>3. ASSUME NEW u, Has(h, u)
          PROVE  Has(g, u)
      <3>1. PICK k \in DOMAIN h : h[k] = u
        BY <2>3 DEF Has
      <3>2. PICK l \in DOMAIN g : h[k] = g[l]
        BY <1>3 DEF Permuted
      <3>3. QED
        BY <3>1, <3>2 DEF Has
    <2>4. QED
      BY <2>1, <2>2, <2>3
  <1>7. PICK n \in Nat, m \in Nat : n = Len(o) /\ DOMAIN o = 1 .. n /\ m = Len(g) /\ DOMAIN g = 1 .. m
    BY <1>4, ListFacts
  <1>8. RunAt(p, h, s)
    BY <1>3, <1>4, ReorderedOrder
  <1>9. DOMAIN p = 1 .. n /\ \A k \in 1 .. n : k - s \notin 1 .. m => p[k] = o[k]
    BY <1>3, <1>6, <1>7 DEF Overwritten
  <1>10. ASSUME NEW k \in 1 .. n, k - s \in 1 .. m
         PROVE  Has(g, o[k]) /\ Has(h, p[k])
    <2>1. s + (k - s) = k
      OBVIOUS
    <2>2. o[k] = g[k - s] /\ p[k] = h[k - s]
      BY <1>3, <1>6, <1>7, <1>8, <1>10, <2>1 DEF RunAt
    <2>3. QED
      BY <1>6, <1>7, <1>10, <2>2 DEF Has
  <1>11. PICK f : f = [k \in DOMAIN o |-> k]
    OBVIOUS
  <1>12. Relocates(f, o, p, g, h)
    <2>1. f \in [DOMAIN o -> Nat]
      BY <1>7, <1>11
    <2>2. ASSUME NEW k \in DOMAIN o, ~Has(g, o[k])
          PROVE  f[k] \in DOMAIN p /\ p[f[k]] = o[k]
      BY <1>7, <1>9, <1>10, <1>11, <2>2
    <2>3. ASSUME NEW k \in DOMAIN p, ~Has(h, p[k])
          PROVE  k \in DOMAIN o /\ f[k] = k /\ ~Has(g, o[k]) /\ o[k] = p[k]
      <3>1. k \in 1 .. n /\ k - s \notin 1 .. m
        BY <1>9, <1>10, <2>3
      <3>2. p[k] = o[k]
        BY <1>9, <3>1
      <3>3. QED
        BY <1>6, <1>7, <1>11, <2>3, <3>1, <3>2
    <2>4. QED
      BY <2>1, <2>2, <2>3 DEF Relocates
  <1>13. f[s + 1] = s + 1
    BY <1>3, <1>11 DEF RunAt
  <1>14. Ascends(f, Starts(d))
    <2>1. Starts(d) \subseteq DOMAIN o
      BY <1>2 DEF Starts
    <2>2. QED
      BY <1>11, <2>1 DEF Ascends
  <1>15. Untouched(d, e, g, h)
    <2>1. ASSUME NEW u \in DOMAIN d.tags, ~Has(g, u)
          PROVE  ~Has(h, u) /\ e.tags[u] = d.tags[u] /\ SameLoops(d.loops, e.loops, u)
      BY <1>2, <1>3, <1>5, <1>6, <2>1, OtherLoops
    <2>2. QED
      BY <2>1 DEF Untouched
  <1>16. D!ItemEdit(ItemOf(d, g, TRUE), ItemOf(e, h, TRUE))
    <2>1. PICK a, b : a = ItemOf(d, g, TRUE) /\ b = ItemOf(e, h, TRUE)
      OBVIOUS
    <2>2. /\ a.loop = TRUE /\ a.header = g /\ a.columns = [k \in DOMAIN g |-> d.tags[g[k]]]
          /\ b.loop = TRUE /\ b.header = h /\ b.columns = [k \in DOMAIN h |-> d.tags[h[k]]]
      BY <1>3, <2>1 DEF ItemOf
    <2>3. Len(a.header) = Len(b.header)
      <3>1. Len(h) \in Nat /\ DOMAIN h = 1 .. Len(h)
        BY ListFacts
      <3>2. Len(h) = m
        BY <1>6, <1>7, <3>1
      <3>3. QED
        BY <1>7, <2>2, <3>2
    <2>4. \A k \in DOMAIN g : D!Cell(a, k) = <<g[k], d.tags[g[k]]>>
      BY <2>2 DEF D!Cell
    <2>5. \A k \in DOMAIN h : D!Cell(b, k) = <<h[k], d.tags[h[k]]>>
      BY <2>2 DEF D!Cell
    <2>6. \A k \in DOMAIN g : \E l \in DOMAIN h : h[l] = g[k]
      BY <1>3 DEF Permuted
    <2>7. \A l \in DOMAIN h : \E k \in DOMAIN g : h[l] = g[k]
      BY <1>3 DEF Permuted
    <2>8. \A k \in DOMAIN g : \E l \in DOMAIN h : D!Cell(a, k) = D!Cell(b, l)
      BY <2>4, <2>5, <2>6
    <2>9. \A l \in DOMAIN h : \E k \in DOMAIN g : D!Cell(b, l) = D!Cell(a, k)
      BY <2>4, <2>5, <2>7
    <2>10. {D!Cell(a, k) : k \in DOMAIN a.header} = {D!Cell(b, l) : l \in DOMAIN b.header}
      <3>1. PICK A, B : /\ A = {D!Cell(a, k) : k \in DOMAIN g} /\ B = {D!Cell(b, l) : l \in DOMAIN h}
        OBVIOUS
      <3>2. A \subseteq B
        BY <3>1, <2>8
      <3>3. B \subseteq A
        BY <3>1, <2>9
      <3>4. A = B
        BY <3>2, <3>3
      <3>5. QED
        BY <2>2, <3>1, <3>4
    <2>11. D!ItemEdit(a, b)
      BY <2>2, <2>3, <2>10 DEF D!ItemEdit
    <2>12. QED
      BY <2>1, <2>11
  <1>17. Apart(d.loops) /\ Apart(e.loops)
    BY BalancedApart
  <1>18. Relocates(f, d.order, e.order, g, h) /\ RunAt(d.order, g, s) /\ RunAt(e.order, h, s)
    BY <1>2, <1>3, <1>8, <1>12
  <1>19. g = d.loops[i] /\ 1 \in DOMAIN g /\ i \in DOMAIN e.loops /\ h = e.loops[i] /\ 1 \in DOMAIN h
    BY <1>2, <1>3, <1>5, <1>6
  <1>20. QED
    BY <1>13, <1>14, <1>15, <1>16, <1>17, <1>18, <1>19, LoopChanged

\* Other values for tags of one loop.
LEMMA LoopValues ==
    ASSUME NEW d, Apart(d.loops), Placed(d), NEW e, Placed(e), e.order = d.order, e.loops = d.loops,
           NEW i \in DOMAIN d.loops, NEW h, h = d.loops[i],
           \A u \in DOMAIN d.tags : ~Has(h, u) => e.tags[u] = d.tags[u],
           D!ItemEdit(ItemOf(d, h, TRUE), ItemOf(e, h, TRUE))
    PROVE  D!NamespaceEdit(Items(d), Items(e))
  <1>1. PICK s \in Nat : RunAt(d.order, h, s) /\ 1 \in DOMAIN h
    BY DEF Placed, Together, Run
  <1>2. PICK o : o = d.order
    OBVIOUS
  <1>3. PICK n \in Nat : n = Len(o) /\ DOMAIN o = 1 .. n
    BY <1>2, ListFacts DEF Placed, Listed
  <1>4. PICK f : f = [k \in DOMAIN o |-> k]
    OBVIOUS
  <1>5. Relocates(f, o, o, h, h)
    <2>1. f \in [DOMAIN o -> Nat]
      BY <1>3, <1>4
    <2>2. QED
      BY <1>4, <2>1 DEF Relocates
  <1>6. f[s + 1] = s + 1
    BY <1>1, <1>2, <1>4 DEF RunAt
  <1>7. Ascends(f, Starts(d))
    <2>1. Starts(d) \subseteq DOMAIN o
      BY <1>2 DEF Starts
    <2>2. QED
      BY <1>4, <2>1 DEF Ascends
  <1>8. Untouched(d, e, h, h)
    BY LoopsAlike DEF Untouched
  <1>9. Apart(e.loops) /\ i \in DOMAIN e.loops /\ h = e.loops[i] /\ RunAt(e.order, h, s)
    BY <1>1
  <1>10. Relocates(f, d.order, e.order, h, h)
    BY <1>2, <1>5
  <1>11. QED
    BY <1>1, <1>6, <1>7, <1>8, <1>9, <1>10, LoopChanged

LEMMA AddLoopRowEdits ==
    ASSUME NEW even, NEW d, Balanced(d, even), Placed(d), NEW i \in DOMAIN d.loops, NEW row,
           NEW e, e = AddLoopRow(d, i, row), Balanced(e, even), Placed(e)
    PROVE  D!NamespaceEdit(Items(d), Items(e))
  <1>1. PICK h : h = d.loops[i]
    OBVIOUS
  <1>2. PICK w : w = [t \in DOMAIN d.tags |-> row[FirstPlace(d.loops[i], t)]]
    OBVIOUS
  <1>3. PICK T : T = [t \in DOMAIN d.tags |-> IF t \in ToSet(h) THEN Append(d.tags[t], w[t]) ELSE d.tags[t]]
    OBVIOUS
  <1>4. e = [d EXCEPT !.tags = T]
    <2>1. T = [t \in DOMAIN d.tags |-> IF t \in ToSet(d.loops[i])
                        THEN Append(d.tags[t], row[FirstPlace(d.loops[i], t)]) ELSE d.tags[t]]
      BY <1>1, <1>2, <1>3
    <2>2. QED
      BY <2>1 DEF AddLoopRow
  <1>5. e.order = d.order /\ e.loops = d.loops /\ e.tags = T
    <2>1. d = [order |-> d.order, tags |-> d.tags, loops |-> d.loops]
      BY DEF Balanced
    <2>2. QED
      BY <1>4, <2>1
  <1>6. \A u : u \in ToSet(h) <=> Has(h, u)
    BY DEF ToSet, Has
  <1>7. \A u \in DOMAIN d.tags : ~Has(h, u) => e.tags[u] = d.tags[u]
    BY <1>3, <1>5, <1>6
  <1>8. D!ItemEdit(ItemOf(d, h, TRUE), ItemOf(e, h, TRUE))
    <2>1. PICK a, b : a = ItemOf(d, h, TRUE) /\ b = ItemOf(e, h, TRUE)
      OBVIOUS
    <2>2. /\ a.loop = TRUE /\ a.header = h /\ a.columns = [k \in DOMAIN h |-> d.tags[h[k]]]
          /\ b.loop = TRUE /\ b.header = h /\ b.columns = [k \in DOMAIN h |-> T[h[k]]]
      BY <1>5, <2>1 DEF ItemOf
    <2>3. ASSUME NEW k \in DOMAIN h
          PROVE  D!Longer(a.columns[k], b.columns[k])
      <3>1. PICK t : t = h[k]
        OBVIOUS
      <3>2. t \in DOMAIN d.tags /\ Has(h, t)
        BY <1>1, <3>1, BalancedApart DEF Has
      <3>3. T[t] = Append(d.tags[t], w[t])
        BY <1>3, <1>6, <3>2
      <3>4. IsList(d.tags[t])
        BY <3>2 DEF Balanced, Shaped, Columned
      <3>5. D!Longer(d.tags[t], T[t])
        BY <3>3, <3>4, Appended DEF D!Longer
      <3>6. QED
        BY <2>2, <3>1, <3>5
    <2>4. QED
      BY <2>1, <2>2, <2>3 DEF D!ItemEdit
  <1>9. Apart(d.loops)
    BY BalancedApart
  <1>10. QED
    BY <1>1, <1>5, <1>7, <1>8, <1>9, LoopValues

\* A tag with other values: a scalar, or one column of a loop.
LEMMA ReassignEdits ==
    ASSUME NEW even, NEW d, Balanced(d, even), Placed(d), NEW t, CanReassignTag(d, t), NEW values,
           NEW e, e = ReassignTag(d, t, values), Balanced(e, even), Placed(e)
    PROVE  D!NamespaceEdit(Items(d), Items(e))
  <1>1. PICK c : c = IF t \in LoopTags(d) \/ Len(values) = 1 THEN values ELSE <<Container>>
    OBVIOUS
  <1>2. PICK T : T = [d.tags EXCEPT ![t] = c]
    OBVIOUS
  <1>3. d = [order |-> d.order, tags |-> d.tags, loops |-> d.loops]
    BY DEF Balanced
  <1>4. e = [order |-> d.order, tags |-> T, loops |-> d.loops]
    BY <1>1, <1>2, <1>3 DEF ReassignTag
  <1>5. e.order = d.order /\ e.tags = T /\ e.loops = d.loops
    BY <1>4
  <1>6. \A u \in DOMAIN d.tags : u # t => T[u] = d.tags[u]
    BY <1>2
  <1>7. Apart(d.loops) /\ Apart(e.loops)
    BY BalancedApart
  <1>8. CASE InLoop(d.loops, t)
    <2>1. PICK i, k : i \in DOMAIN d.loops /\ k \in DOMAIN d.loops[i] /\ d.loops[i][k] = t
      BY <1>8 DEF InLoop
    <2>2. PICK h : h = d.loops[i]
      OBVIOUS
    <2>3. \A u \in DOMAIN d.tags : ~Has(h, u) => e.tags[u] = d.tags[u]
      BY <1>5, <1>6, <2>1, <2>2 DEF Has
    <2>4. D!ItemEdit(ItemOf(d, h, TRUE), ItemOf(e, h, TRUE))
      <3>1. PICK a, b : a = ItemOf(d, h, TRUE) /\ b = ItemOf(e, h, TRUE)
        OBVIOUS
      <3>2. /\ a.loop = TRUE /\ a.header = h /\ a.columns = [l \in DOMAIN h |-> d.tags[h[l]]]
            /\ b.loop = TRUE /\ b.header = h /\ b.columns = [l \in DOMAIN h |-> T[h[l]]]
        BY <1>5, <3>1 DEF ItemOf
      <3>3. \A l \in DOMAIN h : h[l] \in DOMAIN d.tags /\ (l # k => h[l] # t)
        BY <2>1, <2>2, BalancedApart DEF Apart, OnceEach
      <3>4. IsList(h) /\ DOMAIN h = 1 .. Len(h)
        <4>1. i \in DOMAIN d.loops
          BY <2>1
        <4>2. IsList(h)
          BY <1>7, <2>2, <4>1 DEF Apart
        <4>3. QED
          BY <4>2, ListFacts
      <3>5. Len(a.columns) = Len(h) /\ Len(b.columns) = Len(h) /\ DOMAIN a.columns = DOMAIN h
        <4>1. Len(h) \in Nat
          BY <3>4, ListFacts
        <4>2. QED
          BY <3>2, <3>4, <4>1
      <3>6. D!DiffersAt(a.columns, b.columns, k)
        BY <1>6, <3>2, <3>3, <3>5 DEF D!DiffersAt
      <3>7. k \in DOMAIN h
        BY <2>1, <2>2
      <3>8. D!ItemEdit(a, b)
        BY <3>2, <3>6, <3>7 DEF D!ItemEdit
      <3>9. QED
        BY <3>1, <3>8
    <2>5. QED
      BY <1>5, <1>7, <2>1, <2>2, <2>3, <2>4, LoopValues
  <1>9. CASE ~InLoop(d.loops, t)
    <2>1. Listed(d.order, d.tags)
      BY DEF Placed
    <2>2. PICK q \in DOMAIN d.order : d.order[q] = t
      BY <2>1 DEF Listed, CanReassignTag
    <2>3. Leads(d.loops, t)
      BY <1>9 DEF Leads, InLoop
    <2>4. /\ Starts(d) = {k \in DOMAIN d.order : Leads(d.loops, d.order[k])}
          /\ Starts(d) \subseteq 1 .. Len(d.order) /\ Len(d.order) \in Nat
      BY <1>7, StartsAre
    <2>5. Starts(e) = {k \in DOMAIN e.order : Leads(e.loops, e.order[k])}
      BY <1>7, StartsAre
    <2>6. q \in Starts(d)
      BY <2>2, <2>3, <2>4
    <2>7. PICK g : g = [k \in Starts(d) |-> k]
      OBVIOUS
    <2>8. Moves(g, Starts(d))
      BY <2>4, <2>7 DEF Moves
    <2>9. StartsAt(e, {g[k] : k \in Starts(d)})
      <3>1. PICK S : S = Starts(d)
        OBVIOUS
      <3>2. Starts(e) = S
        BY <1>5, <2>4, <2>5, <3>1
      <3>3. S = {g[k] : k \in S}
        BY <2>7, <3>1
      <3>4. QED
        BY <3>1, <3>2, <3>3 DEF StartsAt
    <2>10. Carried(d, e, g, Starts(d) \ {q})
      <3>1. ASSUME NEW k \in Starts(d) \ {q}
            PROVE  e.order[g[k]] = d.order[k] /\ SameFor(d, e, d.order[k])
        <4>1. k \in DOMAIN d.order /\ g[k] = k
          BY <2>4, <2>7
        <4>2. d.order[k] \in DOMAIN d.tags /\ d.order[k] # t
          BY <2>1, <2>2, <3>1, <4>1 DEF Listed
        <4>3. ASSUME NEW i \in DOMAIN d.loops, NEW l \in DOMAIN d.loops[i]
              PROVE  e.tags[d.loops[i][l]] = d.tags[d.loops[i][l]]
          <5>1. d.loops[i][l] \in DOMAIN d.tags
            BY BalancedApart
          <5>2. d.loops[i][l] # t
            BY <1>9 DEF InLoop
          <5>3. QED
            BY <1>5, <1>6, <5>1, <5>2
        <4>4. SameLoops(d.loops, e.loops, d.order[k])
          BY <1>5, LoopsAlike
        <4>5. e.tags[d.order[k]] = d.tags[d.order[k]]
          BY <1>5, <1>6, <4>2
        <4>6. SameFor(d, e, d.order[k])
          BY <4>3, <4>4, <4>5, SameForTag
        <4>7. QED
          BY <1>5, <4>1, <4>6
      <3>2. QED
        BY <3>1 DEF Carried
    <2>11. D!ItemEdit(ItemAt(d, q), ItemAt(e, g[q]))
      <3>1. g[q] = q /\ e.order[q] = t
        BY <1>5, <2>2, <2>6, <2>7
      <3>2. ItemAt(d, q) = ItemOf(d, <<t>>, FALSE)
        BY <1>7, <1>9, <2>2, ScalarItem
      <3>3. ItemAt(e, q) = ItemOf(e, <<t>>, FALSE)
        BY <1>5, <1>7, <1>9, <3>1, ScalarItem
      <3>4. PICK h : h = <<t>>
        OBVIOUS
      <3>5. DOMAIN h = {1} /\ 1 \in DOMAIN h
        BY <3>4, ListOfOne
      <3>6. PICK a, b : a = ItemOf(d, h, FALSE) /\ b = ItemOf(e, h, FALSE)
        OBVIOUS
      <3>7. /\ a.loop = FALSE /\ a.header = h /\ a.columns = [l \in DOMAIN h |-> d.tags[h[l]]]
            /\ b.loop = FALSE /\ b.header = h /\ b.columns = [l \in DOMAIN h |-> T[h[l]]]
        BY <1>5, <3>6 DEF ItemOf
      <3>8. Len(a.columns) = 1 /\ Len(b.columns) = 1 /\ DOMAIN a.columns = {1}
        <4>1. Len(h) = 1 /\ DOMAIN h = 1 .. 1
          BY <3>4
        <4>2. QED
          BY <3>5, <3>7, <4>1
      <3>9. D!DiffersAt(a.columns, b.columns, 1)
        BY <3>8 DEF D!DiffersAt
      <3>10. D!ItemEdit(a, b)
        BY <3>5, <3>7, <3>9 DEF D!ItemEdit
      <3>11. QED
        BY <3>1, <3>2, <3>3, <3>4, <3>6, <3>10
    <2>12. QED
      BY <1>7, <2>6, <2>8, <2>9, <2>10, <2>11, ItemChanged
  <1>10. QED
    BY <1>8, <1>9

\* Every header but the i-th is still in the list without the i-th.
LEMMA OthersLeft ==
    ASSUME NEW L, IsList(L), NEW i \in DOMAIN L, NEW M, M = RemoveAt(L, i), NEW j \in DOMAIN L, j # i
    PROVE  \E m \in DOMAIN M : M[m] = L[j]
  <1>1. PICK n \in Nat : n = Len(L) /\ DOMAIN L = 1 .. n
    BY ListFacts
  <1>2. PICK S : S = {L[l] : l \in DOMAIN L}
    OBVIOUS
  <1>3. L \in Seq(S)
    BY <1>2 DEF IsList
  <1>4. M \in Seq(S) /\ Len(M) = n - 1 /\ \A l \in 1 .. n - 1 : M[l] = IF l < i THEN L[l] ELSE L[l + 1]
    BY <1>1, <1>3, RemovedAt
  <1>5. DOMAIN M = 1 .. n - 1
    BY <1>1, <1>4
  <1>6. CASE j < i
    <2>1. j \in DOMAIN M /\ M[j] = L[j]
      BY <1>1, <1>4, <1>5, <1>6
    <2>2. QED
      BY <2>1
  <1>7. CASE j > i
    <2>1. j - 1 \in 1 .. n - 1 /\ ~(j - 1 < i) /\ (j - 1) + 1 = j
      BY <1>1, <1>7
    <2>2. M[j - 1] = L[j]
      BY <1>4, <2>1
    <2>3. QED
      BY <1>5, <2>1, <2>2
  <1>8. QED
    BY <1>1, <1>6, <1>7

\* A loop without one of its tags, other tags being left to it.
LEMMA LoopShrinks ==
    ASSUME NEW even, NEW d, Balanced(d, even), Placed(d), NEW i \in DOMAIN d.loops, NEW k \in DOMAIN d.loops[i],
           NEW s \in Nat, NEW r, r # <<>>, NEW e, TagRemoved(d, i, k, s, r, e), Balanced(e, even), Placed(e)
    PROVE  D!NamespaceEdit(Items(d), Items(e))
  <1>1. PICK o, p, h, t, q : o = d.order /\ p = e.order /\ h = d.loops[i] /\ t = h[k] /\ q = s + k
    OBVIOUS
  <1>2. /\ RunAt(o, h, s) /\ q \in DOMAIN o /\ o[q] = t /\ Removed(o, p, q) /\ Removed(h, r, k)
        /\ e.tags = [u \in DOMAIN d.tags \ {t} |-> d.tags[u]]
        /\ e.loops = [d.loops EXCEPT ![i] = r]
    BY <1>1 DEF TagRemoved
  <1>3. Apart(d.loops) /\ Apart(e.loops)
    BY BalancedApart
  <1>4. /\ IsList(o) /\ IsList(h) /\ IsList(d.loops) /\ k \in DOMAIN h
        /\ \A l \in DOMAIN h : h[l] = t => l = k
    BY <1>1, <1>3 DEF Placed, Listed, Apart, OnceEach
  <1>5. /\ i \in DOMAIN e.loops /\ e.loops[i] = r /\ DOMAIN e.loops = DOMAIN d.loops
        /\ \A j \in DOMAIN d.loops : j # i => e.loops[j] = d.loops[j]
    BY <1>2, <1>4, Replaced
  <1>6. PICK m \in Nat, n \in Nat : m = Len(h) /\ DOMAIN h = 1 .. m /\ n = Len(o) /\ DOMAIN o = 1 .. n
    BY <1>4, ListFacts
  <1>7. 1 \in DOMAIN r /\ Len(r) = m - 1 /\ DOMAIN r = 1 .. m - 1
    <2>1. IsList(r) /\ Len(r) = m - 1
      BY <1>2, <1>6 DEF Removed
    <2>2. 1 \in DOMAIN r
      BY <2>1, NotEmpty
    <2>3. QED
      BY <2>1, <2>2, ListFacts
  <1>8. \A l \in DOMAIN r : MovedUp(k, l) \in DOMAIN h /\ MovedUp(k, l) # k /\ r[l] = h[MovedUp(k, l)]
    BY <1>2 DEF Removed
  <1>9. \A u : Has(r, u) => Has(h, u) /\ u # t
    BY <1>4, <1>8 DEF Has
  <1>10. \A u : Has(h, u) /\ u # t => Has(r, u)
    <2>1. ASSUME NEW u, Has(h, u), u # t
          PROVE  Has(r, u)
      <3>1. PICK l \in DOMAIN h : h[l] = u
        BY <2>1 DEF Has
      <3>2. l # k
        BY <1>1, <2>1, <3>1
      <3>3. PICK x \in DOMAIN r : MovedUp(k, x) = l
        BY <1>2, <3>2 DEF Removed
      <3>4. r[x] = u
        BY <1>8, <3>1, <3>3
      <3>5. QED
        BY <3>4 DEF Has
    <2>2. QED
      BY <2>1
  <1>11. RunAt(p, r, s)
    <2>1. s + k \in DOMAIN o /\ Removed(o, p, s + k)
      BY <1>1, <1>2
    <2>2. QED
      BY <1>2, <1>4, <1>7, <2>1, RunShorter
  <1>12. PICK g : g = [l \in DOMAIN o |-> IF l <= q THEN l ELSE l - 1]
    OBVIOUS
  <1>13. \A l \in DOMAIN o : l # q => g[l] = Ahead(q, l)
    BY <1>2, <1>6, <1>12 DEF Ahead
  <1>14. \A l \in DOMAIN o : g[l] \in Nat
    BY <1>2, <1>6, <1>12
  <1>15. /\ \A l \in DOMAIN o \ {q} : Ahead(q, l) \in DOMAIN p /\ p[Ahead(q, l)] = o[l]
         /\ \A x \in DOMAIN p : \E l \in DOMAIN o \ {q} : Ahead(q, l) = x /\ o[l] = p[x]
    BY <1>2, <1>4, AheadOf
  <1>16. Relocates(g, o, p, h, r)
    <2>1. g \in [DOMAIN o -> Nat]
      BY <1>12, <1>14
    <2>2. ASSUME NEW l \in DOMAIN o, ~Has(h, o[l])
          PROVE  g[l] \in DOMAIN p /\ p[g[l]] = o[l]
      <3>1. l # q
        BY <1>1, <1>2, <1>4, <2>2 DEF Has
      <3>2. QED
        BY <1>13, <1>15, <3>1
    <2>3. ASSUME NEW x \in DOMAIN p, ~Has(r, p[x])
          PROVE  \E l \in DOMAIN o : g[l] = x /\ ~Has(h, o[l]) /\ o[l] = p[x]
      <3>1. PICK l \in DOMAIN o \ {q} : Ahead(q, l) = x /\ o[l] = p[x]
        BY <1>15
      <3>2. o[l] # t
        BY <1>1, <1>2, <3>1 DEF Placed, Listed
      <3>3. ~Has(h, o[l])
        BY <1>10, <2>3, <3>1, <3>2
      <3>4. QED
        BY <1>13, <3>1, <3>3
    <2>4. QED
      BY <2>1, <2>2, <2>3 DEF Relocates
  <1>17. g[s + 1] = s + 1
    <2>1. s + 1 \in DOMAIN o
      BY <1>2, <1>6, <1>7 DEF RunAt
    <2>2. s + 1 <= q
      BY <1>1, <1>4, <1>6
    <2>3. QED
      BY <1>12, <2>1, <2>2
  <1>18. Ascends(g, Starts(d))
    <2>1. Starts(d) = {l \in DOMAIN o : Leads(d.loops, o[l])}
      BY <1>1, <1>3, StartsAre
    <2>2. q \in Starts(d) => q + 1 \notin Starts(d)
      <3>1. SUFFICES ASSUME q \in Starts(d), q + 1 \in Starts(d)
                     PROVE  FALSE
        OBVIOUS
      <3>2. k = 1
        BY <1>1, <1>2, <1>4, <2>1, <3>1 DEF Leads
      <3>3. 2 \in DOMAIN h
        BY <1>6, <1>7
      <3>4. o[s + 2] = h[2] /\ s + 2 = q + 1
        BY <1>1, <1>2, <3>2, <3>3 DEF RunAt
      <3>5. Leads(d.loops, h[2])
        BY <2>1, <3>1, <3>4
      <3>6. QED
        BY <1>1, <3>3, <3>5 DEF Leads
    <2>3. ASSUME NEW j \in Starts(d), NEW l \in Starts(d), j < l
          PROVE  g[j] < g[l]
      <3>1. j \in 1 .. n /\ l \in 1 .. n /\ q \in 1 .. n
        BY <1>2, <1>6, <2>1
      <3>2. ~(j = q /\ l = q + 1)
        BY <2>2
      <3>3. g[j] = (IF j <= q THEN j ELSE j - 1) /\ g[l] = (IF l <= q THEN l ELSE l - 1)
        BY <1>6, <1>12, <3>1
      <3>4. QED
        BY <2>3, <3>1, <3>2, <3>3
    <2>4. QED
      BY <2>3 DEF Ascends
  <1>19. Untouched(d, e, h, r)
    <2>1. ASSUME NEW u \in DOMAIN d.tags, ~Has(h, u)
          PROVE  ~Has(r, u) /\ e.tags[u] = d.tags[u] /\ SameLoops(d.loops, e.loops, u)
      <3>1. u # t
        BY <1>1, <1>4, <2>1 DEF Has
      <3>2. ~Has(r, u) /\ e.tags[u] = d.tags[u]
        BY <1>2, <1>9, <2>1, <3>1
      <3>3. SameLoops(d.loops, e.loops, u)
        BY <1>1, <1>5, <2>1, <3>2, OtherLoops
      <3>4. QED
        BY <3>2, <3>3
    <2>2. QED
      BY <2>1 DEF Untouched
  <1>20. D!ItemEdit(ItemOf(d, h, TRUE), ItemOf(e, r, TRUE))
    <2>1. PICK a, b : a = ItemOf(d, h, TRUE) /\ b = ItemOf(e, r, TRUE)
      OBVIOUS
    <2>2. /\ a.loop = TRUE /\ a.header = h /\ a.columns = [l \in DOMAIN h |-> d.tags[h[l]]]
          /\ b.loop = TRUE /\ b.header = r /\ b.columns = [l \in DOMAIN r |-> e.tags[r[l]]]
      BY <2>1 DEF ItemOf
    <2>3. D!Shorter(a.header, b.header, k)
      BY <1>6, <1>7, <1>8, <2>2 DEF D!Shorter, MovedUp
    <2>4. \A l \in DOMAIN r : e.tags[r[l]] = d.tags[h[MovedUp(k, l)]]
      <3>1. \A l \in DOMAIN h : h[l] \in DOMAIN d.tags
        BY <1>1, BalancedApart
      <3>2. \A l \in DOMAIN r : r[l] \in DOMAIN d.tags \ {t}
        BY <1>4, <1>8, <3>1
      <3>3. QED
        BY <1>2, <1>8, <3>2
    <2>5. Len(a.columns) = m /\ Len(b.columns) = m - 1
      <3>1. m - 1 \in Nat
        BY <1>7
      <3>2. QED
        BY <1>6, <1>7, <2>2, <3>1
    <2>6. D!Shorter(a.columns, b.columns, k)
      <3>1. \A l \in DOMAIN r : b.columns[l] = a.columns[MovedUp(k, l)]
        BY <1>8, <2>2, <2>4
      <3>2. QED
        BY <2>2, <2>5, <3>1 DEF D!Shorter, MovedUp
    <2>7. k \in DOMAIN a.header
      BY <1>4, <2>2
    <2>8. D!ItemEdit(a, b)
      BY <2>2, <2>3, <2>6, <2>7 DEF D!ItemEdit
    <2>9. QED
      BY <2>1, <2>8
  <1>21. Relocates(g, d.order, e.order, h, r) /\ RunAt(d.order, h, s) /\ RunAt(e.order, r, s)
    BY <1>1, <1>2, <1>11, <1>16
  <1>22. h = d.loops[i] /\ 1 \in DOMAIN h /\ i \in DOMAIN e.loops /\ r = e.loops[i] /\ 1 \in DOMAIN r
    BY <1>1, <1>5, <1>6, <1>7
  <1>23. QED
    BY <1>3, <1>17, <1>18, <1>19, <1>20, <1>21, <1>22, LoopChanged

\* A loop that loses its only tag.
LEMMA LoopVanishes ==
    ASSUME NEW even, NEW d, Balanced(d, even), Placed(d), NEW i \in DOMAIN d.loops, NEW k \in DOMAIN d.loops[i],
           NEW s \in Nat, NEW r, r = <<>>, NEW e, TagRemoved(d, i, k, s, r, e), Balanced(e, even), Placed(e)
    PROVE  D!NamespaceEdit(Items(d), Items(e))
  <1>1. PICK o, h, t : o = d.order /\ h = d.loops[i] /\ t = h[k]
    OBVIOUS
  <1>2. PICK L, M : L = d.loops /\ M = e.loops
    OBVIOUS
  <1>3. /\ RunAt(o, h, s) /\ o[s + k] = t /\ Removed(o, e.order, s + k) /\ Removed(h, r, k)
        /\ e.tags = [u \in DOMAIN d.tags \ {t} |-> d.tags[u]]
        /\ M = RemoveAt(L, i)
    BY <1>1, <1>2 DEF TagRemoved
  <1>4. Apart(d.loops) /\ Apart(e.loops)
    BY BalancedApart
  <1>5. DOMAIN h = {1} /\ k = 1
    <2>1. IsList(h)
      BY <1>1, <1>4 DEF Apart
    <2>2. Len(h) \in Nat /\ DOMAIN h = 1 .. Len(h)
      BY <2>1, ListFacts
    <2>3. Len(r) = 0 /\ Len(r) = Len(h) - 1
      BY <1>3 DEF Removed
    <2>4. Len(h) = 1
      BY <2>2, <2>3
    <2>5. k \in DOMAIN h
      BY <1>1
    <2>6. QED
      BY <2>2, <2>4, <2>5
  <1>6. s + 1 \in Starts(d)
    BY <1>1, <1>3, <1>4, <1>5, LoopStarts
  <1>7. Removed(d.order, e.order, s + 1) /\ t = d.order[s + 1]
    BY <1>1, <1>3, <1>5
  <1>8. \A u \in DOMAIN d.tags \ {t} : e.tags[u] = d.tags[u] /\ SameLoops(d.loops, e.loops, u)
    <2>1. ASSUME NEW u \in DOMAIN d.tags \ {t}
          PROVE  SameLoops(L, M, u)
      <3>1. ~Has(L[i], u)
        BY <1>1, <1>2, <1>5, <2>1 DEF Has
      <3>2. IsList(L)
        BY <1>2, <1>4 DEF Apart
      <3>3. \A j \in DOMAIN L : Has(L[j], u) => \E m \in DOMAIN M : M[m] = L[j]
        BY <1>2, <1>3, <3>1, <3>2, OthersLeft
      <3>4. \A j \in DOMAIN M : \E m \in DOMAIN L : M[j] = L[m]
        BY <1>2, <1>3, <3>2, OthersStay
      <3>5. QED
        BY <3>3, <3>4 DEF SameLoops
    <2>2. QED
      BY <1>2, <1>3, <2>1
  <1>9. \A j \in DOMAIN d.loops : Has(d.loops[j], t) => \A l \in DOMAIN d.loops[j] : d.loops[j][l] = t
    <2>1. ASSUME NEW j \in DOMAIN d.loops, Has(d.loops[j], t)
          PROVE  j = i
      <3>1. PICK l \in DOMAIN d.loops[j] : d.loops[j][l] = d.loops[i][k]
        BY <1>1, <2>1 DEF Has
      <3>2. QED
        BY <1>4, <3>1 DEF Apart, OnceEach
    <2>2. QED
      BY <1>1, <1>5, <2>1
  <1>10. QED
    BY <1>4, <1>6, <1>7, <1>8, <1>9, ItemTakenOut

LEMMA RemoveLoopTagEdits ==
    ASSUME NEW even, NEW d, Balanced(d, even), Placed(d), NEW i \in DOMAIN d.loops, NEW k \in DOMAIN d.loops[i],
           NEW e, e = RemoveLoopTag(d, i, d.loops[i][k]), Balanced(e, even), Placed(e)
    PROVE  D!NamespaceEdit(Items(d), Items(e))
  <1>1. PICK s, r : TagRemoved(d, i, k, s, r, e)
    BY RemoveLoopTagMakes
  <1>2. s \in Nat
    BY <1>1 DEF TagRemoved
  <1>3. CASE r = <<>>
    BY <1>1, <1>2, <1>3, LoopVanishes
  <1>4. CASE r # <<>>
    BY <1>1, <1>2, <1>4, LoopShrinks
  <1>5. QED
    BY <1>3, <1>4

LEMMA DeleteTagEdits ==
    ASSUME NEW even, NEW d, Balanced(d, even), Placed(d), NEW t, CanDeleteTag(d, t),
           NEW e, e = DeleteTag(d, t), Balanced(e, even), Placed(e)
    PROVE  D!NamespaceEdit(Items(d), Items(e))
  <1>1. Apart(d.loops) /\ Apart(e.loops)
    BY BalancedApart
  <1>2. CASE InLoop(d.loops, t)
    <2>1. PICK i, k : /\ i \in DOMAIN d.loops /\ k \in DOMAIN d.loops[i] /\ d.loops[i][k] = t
                      /\ DeleteTag(d, t) = RemoveLoopTag(d, i, t)
      BY <1>1, <1>2, LoopOfTag DEF Apart
    <2>2. e = RemoveLoopTag(d, i, d.loops[i][k])
      BY <2>1
    <2>3. QED
      BY <2>1, <2>2, RemoveLoopTagEdits
  <1>3. CASE ~InLoop(d.loops, t)
    <2>1. PICK p, T : \E q \in DOMAIN d.order :
            /\ DeleteTag(d, t) = [order |-> p, tags |-> T, loops |-> d.loops]
            /\ d.order[q] = t /\ Removed(d.order, p, q)
            /\ T = [u \in DOMAIN d.tags \ {t} |-> d.tags[u]]
      BY <1>3, DeleteTagMakes
    <2>2. PICK q \in DOMAIN d.order :
            /\ DeleteTag(d, t) = [order |-> p, tags |-> T, loops |-> d.loops]
            /\ d.order[q] = t /\ Removed(d.order, p, q)
            /\ T = [u \in DOMAIN d.tags \ {t} |-> d.tags[u]]
      BY <2>1
    <2>3. e.order = p /\ e.tags = T /\ e.loops = d.loops
      BY <2>2
    <2>4. Leads(d.loops, t)
      BY <1>3 DEF Leads, InLoop
    <2>5. q \in Starts(d)
      BY <1>1, <2>2, <2>4, StartsAre
    <2>6. \A u \in DOMAIN d.tags \ {t} : e.tags[u] = d.tags[u] /\ SameLoops(d.loops, e.loops, u)
      BY <2>2, <2>3, LoopsAlike
    <2>7. \A j \in DOMAIN d.loops : ~Has(d.loops[j], t)
      BY <1>3 DEF Has, InLoop
    <2>8. Removed(d.order, e.order, q) /\ t = d.order[q]
      BY <2>2, <2>3
    <2>9. QED
      BY <1>1, <2>5, <2>6, <2>7, <2>8, ItemTakenOut
  <1>4. QED
    BY <1>2, <1>3

-----------------------------------------------------------------------------
(***************************************************************************)
(* The calls, on the items of a namespace.                                 *)
(***************************************************************************)
\* An edit as it should be: the namespace is left tidy, and one of its items is edited.
TidyEdit(d, e, even, placed) ==
    Tidy(d, even, placed, FALSE) => /\ Tidy(e, even, placed, FALSE)
                                    /\ placed => D!NamespaceEdit(Items(d), Items(e))

LEMMA EditedItems ==
    ASSUME EditNamespace, NEW even, even => ~reassigned', NEW placed
    PROVE  \E p, d : /\ p \in NamespacesOf(file) /\ Edited(p, d)
                      /\ TidyEdit(DataAt(file, p), d, even, placed)
  <1>1. PICK p \in NamespacesOf(file) :
                 \/ CallSetTag(p) \/ CallAddLoop(p) \/ CallAddLoopColumn(p) \/ CallReorderLoopTags(p)
                 \/ CallAddLoopRow(p) \/ CallReassignTag(p) \/ CallDeleteTag(p) \/ CallRemoveLoopTag(p)
    BY DEF EditNamespace
  <1>2. PICK here : here = DataAt(file, p)
    OBVIOUS
  <1>3. CASE CallSetTag(p)
    <2>1. PICK t, v : CanSetTag(here, t) /\ Edited(p, SetTag(here, t, v)) /\ reassigned' = reassigned
      BY <1>2, <1>3 DEF CallSetTag
    <2>2. TidyEdit(here, SetTag(here, t, v), even, placed)
      BY <2>1, SetTagBalanced, SetTagPlaced, SetTagEdits DEF Tidy, TidyEdit
    <2>3. QED
      BY <1>2, <2>1, <2>2
  <1>4. CASE CallAddLoop(p)
    <2>1. PICK h \in HeadersOf(Given.tags) : \E C \in Columns(h) :
            CanAddLoop(here, h, C) /\ Edited(p, AddLoop(here, h, C)) /\ reassigned' = reassigned
      BY <1>2, <1>4 DEF CallAddLoop
    <2>2. PICK C \in Columns(h) :
            CanAddLoop(here, h, C) /\ Edited(p, AddLoop(here, h, C)) /\ reassigned' = reassigned
      BY <2>1
    <2>3. IsList(h) /\ \A k, l \in DOMAIN h : h[k] = h[l] => k = l
      BY HeaderFacts
    <2>4. \A k \in DOMAIN h : IsList(C[h[k]])
      BY ColumnsAreLists
    <2>5. TidyEdit(here, AddLoop(here, h, C), even, placed)
      BY <2>2, <2>3, <2>4, AddLoopBalanced, AddLoopPlaced, AddLoopEdits DEF Tidy, TidyEdit
    <2>6. QED
      BY <1>2, <2>2, <2>5
  <1>5. CASE CallAddLoopColumn(p)
    <2>1. PICK i, t, c : /\ i \in DOMAIN here.loops /\ c \in Column
                         /\ CanAddLoopColumn(here, i, t, c)
                         /\ Edited(p, AddLoopColumn(here, i, t, c)) /\ reassigned' = reassigned
      BY <1>2, <1>5 DEF CallAddLoopColumn
    <2>2. IsList(c)
      BY <2>1, ColumnIsList
    <2>3. TidyEdit(here, AddLoopColumn(here, i, t, c), even, placed)
      BY <2>1, <2>2, AddLoopColumnBalanced, AddLoopColumnPlaced, AddLoopColumnEdits DEF Tidy, TidyEdit
    <2>4. QED
      BY <1>2, <2>1, <2>3
  <1>6. CASE CallReorderLoopTags(p)
    <2>1. PICK i \in DOMAIN here.loops : \E h \in HeadersOf(ToSet(here.loops[i])) :
            /\ CanReorderLoopTags(here, i, h)
            /\ Edited(p, ReorderLoopTags(here, i, h)) /\ reassigned' = reassigned
      BY <1>2, <1>6 DEF CallReorderLoopTags
    <2>2. PICK h \in HeadersOf(ToSet(here.loops[i])) :
            /\ CanReorderLoopTags(here, i, h)
            /\ Edited(p, ReorderLoopTags(here, i, h)) /\ reassigned' = reassigned
      BY <2>1
    <2>3. /\ IsList(h) /\ \A k \in DOMAIN h : h[k] \in ToSet(here.loops[i])
          /\ \A k, l \in DOMAIN h : h[k] = h[l] => k = l
      BY HeaderFacts
    <2>4. TidyEdit(here, ReorderLoopTags(here, i, h), even, placed)
      <3> SUFFICES ASSUME Tidy(here, even, placed, FALSE)
                   PROVE  TidyEdit(here, ReorderLoopTags(here, i, h), even, placed)
        BY DEF TidyEdit
      <3>1. IsList(here.loops[i])
        BY DEF Tidy, Balanced, Shaped, Columned
      <3>2. Permuted(here.loops[i], h)
        BY <2>2, <2>3, <3>1, HeaderPermuted
      <3>3. QED
        BY <2>3, <3>2, ReorderBalanced, ReorderPlaced, ReorderEdits DEF Tidy, TidyEdit
    <2>5. QED
      BY <1>2, <2>2, <2>4
  <1>7. CASE CallAddLoopRow(p)
    <2>1. PICK i, row : /\ i \in DOMAIN here.loops
                        /\ Edited(p, AddLoopRow(here, i, row)) /\ reassigned' = reassigned
      BY <1>2, <1>7 DEF CallAddLoopRow
    <2>2. TidyEdit(here, AddLoopRow(here, i, row), even, placed)
      BY <2>1, AddLoopRowBalanced, AddLoopRowPlaced, AddLoopRowEdits DEF Tidy, TidyEdit
    <2>3. QED
      BY <1>2, <2>1, <2>2
  <1>8. CASE CallReassignTag(p)
    <2>1. PICK t, values : /\ values \in Column /\ CanReassignTag(here, t)
                           /\ Edited(p, ReassignTag(here, t, values)) /\ reassigned' = TRUE
      BY <1>2, <1>8 DEF CallReassignTag
    <2>2. IsList(values) /\ ~even
      BY <2>1, ColumnIsList
    <2>3. TidyEdit(here, ReassignTag(here, t, values), even, placed)
      BY <2>1, <2>2, ReassignBalanced, ReassignPlaced, ReassignEdits DEF Tidy, TidyEdit
    <2>4. QED
      BY <1>2, <2>1, <2>3
  <1>9. CASE CallDeleteTag(p)
    <2>1. PICK t : CanDeleteTag(here, t) /\ Edited(p, DeleteTag(here, t))
      BY <1>2, <1>9 DEF CallDeleteTag
    <2>2. TidyEdit(here, DeleteTag(here, t), even, placed)
      BY <2>1, DeleteTagBalanced, DeleteTagPlaced, DeleteTagEdits DEF Tidy, TidyEdit
    <2>3. QED
      BY <1>2, <2>1, <2>2
  <1>10. CASE CallRemoveLoopTag(p)
    <2>1. PICK i, t : /\ i \in DOMAIN here.loops /\ t \in ToSet(here.loops[i])
                      /\ Edited(p, RemoveLoopTag(here, i, t)) /\ reassigned' = reassigned
      BY <1>2, <1>10 DEF CallRemoveLoopTag
    <2>2. PICK k \in DOMAIN here.loops[i] : t = here.loops[i][k]
      BY <2>1 DEF ToSet
    <2>3. TidyEdit(here, RemoveLoopTag(here, i, t), even, placed)
      BY <2>1, <2>2, RemoveLoopTagBalanced, RemoveLoopTagPlaced, RemoveLoopTagEdits DEF Tidy, TidyEdit
    <2>4. QED
      BY <1>2, <2>1, <2>3
  <1>11. QED
    BY <1>1, <1>3, <1>4, <1>5, <1>6, <1>7, <1>8, <1>9, <1>10

-----------------------------------------------------------------------------
(***************************************************************************)
(* The document of a file: what each namespace, told by the identities of  *)
(* its block and frame, holds.                                             *)
(***************************************************************************)
InBlock(b, n, x) ==
    \/ n = <<b.id, 0>> /\ x = b.data
    \/ \E k \in DOMAIN b.frames.list : n = <<b.id, b.frames.list[k].id>> /\ x = b.frames.list[k].data

Held(f, n, x) == \E i \in DOMAIN f.list : InBlock(f.list[i], n, x)

LEMMA FilePlaces ==
    ASSUME NEW f, FileInv(f), NEW p \in NamespacesOf(f)
    PROVE  \E i \in DOMAIN f.list :
                \/ p = <<i, 0>>
                \/ \E k \in DOMAIN f.list[i].frames.list : p = <<i, k>> /\ k # 0
  <1>1. PICK i \in DOMAIN f.list : \E k \in 0 .. Len(f.list[i].frames.list) : p = <<i, k>>
    BY DEF NamespacesOf
  <1>2. PICK k \in 0 .. Len(f.list[i].frames.list) : p = <<i, k>>
    BY <1>1
  <1>3. DirInv(f.list[i].frames, FrameFields)
    BY DEF FileInv
  <1>4. Len(f.list[i].frames.list) \in Nat /\ DOMAIN f.list[i].frames.list = 1 .. Len(f.list[i].frames.list)
    BY <1>3, ListTyped DEF DirInv
  <1>5. QED
    BY <1>2, <1>4

LEMMA ObjectsTyped ==
    ASSUME NEW f, FileInv(f)
    PROVE  /\ \A i \in DOMAIN f.list : f.list[i].id \in Nat \ {0}
           /\ \A i, j \in DOMAIN f.list : f.list[i].id = f.list[j].id => i = j
           /\ \A i \in DOMAIN f.list :
                /\ \A k \in DOMAIN f.list[i].frames.list : f.list[i].frames.list[k].id \in Nat \ {0}
                /\ \A k, l \in DOMAIN f.list[i].frames.list :
                        f.list[i].frames.list[k].id = f.list[i].frames.list[l].id => k = l
  <1>1. DirInv(f, BlockFields) /\ \A i \in DOMAIN f.list : DirInv(f.list[i].frames, FrameFields)
    BY DEF FileInv
  <1>2. \A dir, F : DirInv(dir, F) =>
            /\ \A k \in DOMAIN dir.list : dir.list[k].id \in Nat \ {0}
            /\ \A k, l \in DOMAIN dir.list : dir.list[k].id = dir.list[l].id => k = l
    BY DEF DirInv, IsDirectory, Distinct
  <1>3. QED
    BY <1>1, <1>2

\* Identities tell the namespaces of a file apart.
LEMMA OneNamespace ==
    ASSUME NEW f, FileInv(f), NEW p \in NamespacesOf(f), NEW q \in NamespacesOf(f),
           Identity(f, p) = Identity(f, q)
    PROVE  p = q
  <1>1. PICK i \in DOMAIN f.list : \/ p = <<i, 0>>
                                   \/ \E k \in DOMAIN f.list[i].frames.list : p = <<i, k>> /\ k # 0
    BY FilePlaces
  <1>2. PICK j \in DOMAIN f.list : \/ q = <<j, 0>>
                                   \/ \E k \in DOMAIN f.list[j].frames.list : q = <<j, k>> /\ k # 0
    BY FilePlaces
  <1>3. p[1] = i /\ q[1] = j
    BY <1>1, <1>2
  <1>4. Identity(f, p)[1] = f.list[i].id /\ Identity(f, q)[1] = f.list[j].id
    BY <1>3 DEF Identity
  <1>5. i = j
    BY <1>4, ObjectsTyped
  <1>6. PICK L : L = f.list[i].frames.list
    OBVIOUS
  <1>7. /\ Identity(f, p)[2] = IF p[2] = 0 THEN 0 ELSE L[p[2]].id
        /\ Identity(f, q)[2] = IF q[2] = 0 THEN 0 ELSE L[q[2]].id
    BY <1>3, <1>5, <1>6 DEF Identity
  <1>8. (p[2] = 0 \/ p[2] \in DOMAIN L) /\ (q[2] = 0 \/ q[2] \in DOMAIN L)
    BY <1>1, <1>2, <1>5, <1>6
  <1>9. /\ \A k \in DOMAIN L : L[k].id # 0
        /\ \A k, l \in DOMAIN L : L[k].id = L[l].id => k = l
    BY <1>6, ObjectsTyped
  <1>10. p[2] = q[2]
    BY <1>7, <1>8, <1>9
  <1>11. p = <<p[1], p[2]>> /\ q = <<q[1], q[2]>>
    BY <1>1, <1>2
  <1>12. QED
    BY <1>3, <1>5, <1>10, <1>11

LEMMA PlaceHeld ==
    ASSUME NEW f, FileInv(f), NEW p \in NamespacesOf(f)
    PROVE  Held(f, Identity(f, p), DataAt(f, p))
  <1>1. PICK i \in DOMAIN f.list : \/ p = <<i, 0>>
                                   \/ \E k \in DOMAIN f.list[i].frames.list : p = <<i, k>> /\ k # 0
    BY FilePlaces
  <1>2. CASE p = <<i, 0>>
    <2>1. Identity(f, p) = <<f.list[i].id, 0>> /\ DataAt(f, p) = f.list[i].data
      BY <1>2 DEF Identity, DataAt
    <2>2. QED
      BY <2>1 DEF Held, InBlock
  <1>3. ASSUME NEW k \in DOMAIN f.list[i].frames.list, p = <<i, k>>, k # 0
        PROVE  Held(f, Identity(f, p), DataAt(f, p))
    <2>1. /\ Identity(f, p) = <<f.list[i].id, f.list[i].frames.list[k].id>>
          /\ DataAt(f, p) = f.list[i].frames.list[k].data
      BY <1>3 DEF Identity, DataAt
    <2>2. QED
      BY <2>1 DEF Held, InBlock
  <1>4. QED
    BY <1>1, <1>2, <1>3

LEMMA HeldAtPlace ==
    ASSUME NEW f, FileInv(f), NEW n, NEW x, Held(f, n, x)
    PROVE  \E p \in NamespacesOf(f) : Identity(f, p) = n /\ DataAt(f, p) = x
  <1>1. PICK i \in DOMAIN f.list : InBlock(f.list[i], n, x)
    BY DEF Held
  <1>2. PICK L : L = f.list[i].frames.list
    OBVIOUS
  <1>3. Len(L) \in Nat /\ DOMAIN L = 1 .. Len(L)
    BY <1>2, ListTyped DEF FileInv, DirInv
  <1>4. \A k \in 0 .. Len(L) : <<i, k>> \in NamespacesOf(f)
    BY <1>2 DEF NamespacesOf
  <1>5. CASE n = <<f.list[i].id, 0>> /\ x = f.list[i].data
    <2>1. PICK p : p = <<i, 0>>
      OBVIOUS
    <2>2. p \in NamespacesOf(f)
      BY <1>3, <1>4, <2>1
    <2>3. Identity(f, p) = n /\ DataAt(f, p) = x
      BY <1>5, <2>1 DEF Identity, DataAt
    <2>4. QED
      BY <2>2, <2>3
  <1>6. ASSUME NEW k \in DOMAIN L, n = <<f.list[i].id, L[k].id>>, x = L[k].data
        PROVE  \E p \in NamespacesOf(f) : Identity(f, p) = n /\ DataAt(f, p) = x
    <2>1. PICK p : p = <<i, k>>
      OBVIOUS
    <2>2. p \in NamespacesOf(f) /\ k # 0
      BY <1>3, <1>4, <2>1
    <2>3. Identity(f, p) = n /\ DataAt(f, p) = x
      BY <1>2, <1>6, <2>1, <2>2 DEF Identity, DataAt
    <2>4. QED
      BY <2>2, <2>3
  <1>7. QED
    BY <1>1, <1>2, <1>5, <1>6 DEF InBlock

LEMMA DocumentHolds ==
    ASSUME NEW f, FileInv(f)
    PROVE  /\ \A n \in DOMAIN DocumentOf(f) : \E x : Held(f, n, x)
           /\ \A n, x : Held(f, n, x) => n \in DOMAIN DocumentOf(f) /\ DocumentOf(f)[n] = Items(x)
  <1>1. DOMAIN DocumentOf(f) = Identities(f)
    BY DEF DocumentOf
  <1>2. \A n \in Identities(f) : \E x : Held(f, n, x)
    BY PlaceHeld DEF Identities
  <1>3. ASSUME NEW n, NEW x, Held(f, n, x)
        PROVE  n \in Identities(f) /\ DocumentOf(f)[n] = Items(x)
    <2>1. PICK p \in NamespacesOf(f) : Identity(f, p) = n /\ DataAt(f, p) = x
      BY <1>3, HeldAtPlace
    <2>2. n \in Identities(f)
      BY <2>1 DEF Identities
    <2>3. Place(f, n) \in NamespacesOf(f) /\ Identity(f, Place(f, n)) = n
      BY <2>1 DEF Place
    <2>4. Place(f, n) = p
      BY <2>1, <2>3, OneNamespace
    <2>5. DocumentOf(f)[n] = Items(DataAt(f, Place(f, n)))
      BY <2>2 DEF DocumentOf
    <2>6. QED
      BY <2>1, <2>2, <2>4, <2>5
  <1>4. QED
    BY <1>1, <1>2, <1>3

LEMMA DocumentIsFunction ==
    ASSUME NEW f
    PROVE  DocumentOf(f) = [n \in DOMAIN DocumentOf(f) |-> DocumentOf(f)[n]]
  BY DEF DocumentOf

\* Two files that hold the same in every namespace but one.
SameBut(f, g, n) == \A m, x : m # n => (Held(f, m, x) <=> Held(g, m, x))

LEMMA EditsDocument ==
    ASSUME NEW f, FileInv(f), NEW g, FileInv(g), NEW n, NEW x, Held(f, n, x), NEW y, Held(g, n, y),
           SameBut(f, g, n), D!NamespaceEdit(Items(x), Items(y)), D!WellFormed(Items(y))
    PROVE  D!Edit(DocumentOf(f), DocumentOf(g), n)
  <1>1. PICK a, b : a = DocumentOf(f) /\ b = DocumentOf(g)
    OBVIOUS
  <1>2. /\ \A m \in DOMAIN a : \E z : Held(f, m, z)
        /\ \A m, z : Held(f, m, z) => m \in DOMAIN a /\ a[m] = Items(z)
    BY <1>1, DocumentHolds
  <1>3. /\ \A m \in DOMAIN b : \E z : Held(g, m, z)
        /\ \A m, z : Held(g, m, z) => m \in DOMAIN b /\ b[m] = Items(z)
    BY <1>1, DocumentHolds
  <1>4. DOMAIN b = DOMAIN a
    BY <1>2, <1>3 DEF SameBut
  <1>5. \A m \in DOMAIN a \ {n} : b[m] = a[m]
    BY <1>2, <1>3 DEF SameBut
  <1>6. n \in DOMAIN a /\ D!NamespaceEdit(a[n], b[n]) /\ D!WellFormed(b[n])
    BY <1>2, <1>3
  <1>7. QED
    BY <1>1, <1>4, <1>5, <1>6 DEF D!Edit

LEMMA NothingHasNoItems == Items(NoData) = <<>>
  <1>1. NoData.order = <<>>
    BY DEF NoData
  <1>2. Starts(NoData) = {}
    BY <1>1 DEF Starts
  <1>3. Sorts(<<>>, {})
    <2>1. <<>> \in Seq({}) /\ DOMAIN <<>> = {}
      OBVIOUS
    <2>2. QED
      BY <2>1, IsListOver DEF Sorts
  <1>4. Tidy(NoData, FALSE, TRUE, FALSE)
    BY NothingIsTidy
  <1>5. Apart(NoData.loops) /\ Placed(NoData)
    BY <1>4, BalancedApart DEF Tidy
  <1>6. PICK o : o = <<>>
    OBVIOUS
  <1>7. Items(NoData) = [n \in DOMAIN o |-> ItemAt(NoData, o[n])] /\ DOMAIN o = {}
    BY <1>2, <1>3, <1>5, <1>6, ItemsListed
  <1>8. QED
    BY <1>7

LEMMA OpensDocument ==
    ASSUME NEW f, FileInv(f), NEW g, FileInv(g), NEW n, \A x : ~Held(f, n, x), Held(g, n, NoData),
           SameBut(f, g, n)
    PROVE  D!Open(DocumentOf(f), DocumentOf(g), n)
  <1>1. PICK a, b : a = DocumentOf(f) /\ b = DocumentOf(g)
    OBVIOUS
  <1>2. /\ \A m \in DOMAIN a : \E z : Held(f, m, z)
        /\ \A m, z : Held(f, m, z) => m \in DOMAIN a /\ a[m] = Items(z)
    BY <1>1, DocumentHolds
  <1>3. /\ \A m \in DOMAIN b : \E z : Held(g, m, z)
        /\ \A m, z : Held(g, m, z) => m \in DOMAIN b /\ b[m] = Items(z)
    BY <1>1, DocumentHolds
  <1>4. n \in DOMAIN b \ DOMAIN a /\ b[n] = <<>>
    BY <1>2, <1>3, NothingHasNoItems
  <1>5. DOMAIN b = DOMAIN a \cup {n}
    BY <1>2, <1>3, <1>4 DEF SameBut
  <1>6. \A m \in DOMAIN a : m # n => b[m] = a[m]
    BY <1>2, <1>3 DEF SameBut
  <1>7. b = [m \in DOMAIN b |-> b[m]]
    BY <1>1, DocumentIsFunction
  <1>8. b = [m \in DOMAIN a \cup {n} |-> IF m = n THEN <<>> ELSE a[m]]
    BY <1>4, <1>5, <1>6, <1>7
  <1>9. QED
    BY <1>1, <1>4, <1>8 DEF D!Open

LEMMA ClosesDocument ==
    ASSUME NEW f, FileInv(f), NEW g, FileInv(g), NEW n, NEW x, Held(f, n, x),
           \A m, z : Held(g, m, z) <=> Held(f, m, z) /\ ~D!GoesWith(n, m)
    PROVE  D!Close(DocumentOf(f), DocumentOf(g), n)
  <1>1. PICK a, b : a = DocumentOf(f) /\ b = DocumentOf(g)
    OBVIOUS
  <1>2. /\ \A m \in DOMAIN a : \E z : Held(f, m, z)
        /\ \A m, z : Held(f, m, z) => m \in DOMAIN a /\ a[m] = Items(z)
    BY <1>1, DocumentHolds
  <1>3. /\ \A m \in DOMAIN b : \E z : Held(g, m, z)
        /\ \A m, z : Held(g, m, z) => m \in DOMAIN b /\ b[m] = Items(z)
    BY <1>1, DocumentHolds
  <1>4. \A m \in DOMAIN b : m \in DOMAIN a /\ ~D!GoesWith(n, m) /\ b[m] = a[m]
    BY <1>2, <1>3
  <1>5. \A m \in DOMAIN a : ~D!GoesWith(n, m) => m \in DOMAIN b
    BY <1>2, <1>3
  <1>6. DOMAIN b = {m \in DOMAIN a : ~D!GoesWith(n, m)}
    BY <1>4, <1>5
  <1>7. b = [m \in DOMAIN b |-> b[m]]
    BY <1>1, DocumentIsFunction
  <1>8. b = [m \in {k \in DOMAIN a : ~D!GoesWith(n, k)} |-> a[m]]
    BY <1>4, <1>6, <1>7
  <1>9. n \in DOMAIN a
    BY <1>2
  <1>10. QED
    BY <1>1, <1>8, <1>9 DEF D!Close

\* Blocks with the same namespaces, whatever their names.
Alike(b, c) ==
    /\ c.id = b.id /\ c.data = b.data
    /\ DOMAIN c.frames.list = DOMAIN b.frames.list
    /\ \A k \in DOMAIN b.frames.list :
            /\ c.frames.list[k].id = b.frames.list[k].id
            /\ c.frames.list[k].data = b.frames.list[k].data

LEMMA SameDocument ==
    ASSUME NEW f, FileInv(f), NEW g, FileInv(g), DOMAIN g.list = DOMAIN f.list,
           \A j \in DOMAIN f.list : Alike(f.list[j], g.list[j])
    PROVE  DocumentOf(g) = DocumentOf(f)
  <1>1. \A j \in DOMAIN f.list : \A m, z : InBlock(f.list[j], m, z) <=> InBlock(g.list[j], m, z)
    BY DEF Alike, InBlock
  <1>2. \A m, z : Held(f, m, z) <=> Held(g, m, z)
    BY <1>1 DEF Held
  <1>3. PICK a, b : a = DocumentOf(f) /\ b = DocumentOf(g)
    OBVIOUS
  <1>4. /\ \A m \in DOMAIN a : \E z : Held(f, m, z)
        /\ \A m, z : Held(f, m, z) => m \in DOMAIN a /\ a[m] = Items(z)
    BY <1>3, DocumentHolds
  <1>5. /\ \A m \in DOMAIN b : \E z : Held(g, m, z)
        /\ \A m, z : Held(g, m, z) => m \in DOMAIN b /\ b[m] = Items(z)
    BY <1>3, DocumentHolds
  <1>6. DOMAIN a = DOMAIN b /\ \A m \in DOMAIN a : a[m] = b[m]
    BY <1>2, <1>4, <1>5
  <1>7. a = [m \in DOMAIN a |-> a[m]] /\ b = [m \in DOMAIN b |-> b[m]]
    BY <1>3, DocumentIsFunction
  <1>8. QED
    BY <1>3, <1>6, <1>7

\* What is left of a list without one of its elements.
LEMMA RestOfList ==
    ASSUME NEW s, IsList(s), NEW k, k \in DOMAIN s, NEW r, r = RemoveAt(s, k)
    PROVE  /\ \A j \in DOMAIN r : \E l \in DOMAIN s : l # k /\ r[j] = s[l]
           /\ \A l \in DOMAIN s : l # k => \E j \in DOMAIN r : r[j] = s[l]
  <1>1. PICK T : T = {s[i] : i \in DOMAIN s} /\ s \in Seq(T)
    BY DEF IsList
  <1>2. PICK n \in Nat : n = Len(s) /\ DOMAIN s = 1 .. n
    BY ListFacts
  <1>3. k \in 1 .. n
    BY <1>2
  <1>4. /\ r \in Seq(T) /\ Len(r) = n - 1
        /\ \A i \in 1 .. n - 1 : r[i] = IF i < k THEN s[i] ELSE s[i + 1]
    BY <1>1, <1>2, <1>3, RemovedAt
  <1>5. DOMAIN r = 1 .. n - 1
    BY <1>4
  <1>6. ASSUME NEW j \in 1 .. n - 1
        PROVE  \E l \in 1 .. n : l # k /\ r[j] = s[l]
    <2>1. j \in 1 .. n /\ j + 1 \in 1 .. n
      BY <1>2
    <2>2. CASE j < k
      BY <1>3, <1>4, <2>1, <2>2
    <2>3. CASE ~(j < k)
      <3>1. r[j] = s[j + 1] /\ j + 1 # k
        BY <1>3, <1>4, <2>3
      <3>2. QED
        BY <2>1, <3>1
    <2>4. QED
      BY <2>2, <2>3
  <1>7. \A j \in DOMAIN r : \E l \in DOMAIN s : l # k /\ r[j] = s[l]
    BY <1>2, <1>5, <1>6
  <1>8. \A l \in DOMAIN s : l # k => \E j \in DOMAIN r : r[j] = s[l]
    BY OthersLeft
  <1>9. QED
    BY <1>7, <1>8

LEMMA BlockClosed ==
    ASSUME NEW f, FileInv(f), NEW g, FileInv(g), NEW i \in DOMAIN f.list, g.list = RemoveAt(f.list, i)
    PROVE  D!Close(DocumentOf(f), DocumentOf(g), <<f.list[i].id, 0>>)
  <1>1. PICK F, G : F = f.list /\ G = g.list
    OBVIOUS
  <1>2. IsList(F)
    BY <1>1 DEF FileInv, DirInv, IsDirectory, IsList
  <1>3. /\ \A j \in DOMAIN G : \E l \in DOMAIN F : l # i /\ G[j] = F[l]
        /\ \A l \in DOMAIN F : l # i => \E j \in DOMAIN G : G[j] = F[l]
    <2>1. i \in DOMAIN F /\ G = RemoveAt(F, i)
      BY <1>1
    <2>2. QED
      BY <1>2, <2>1, RestOfList
  <1>4. \A l \in DOMAIN F : F[l].id = F[i].id => l = i
    BY <1>1, ObjectsTyped
  <1>5. PICK n : n = <<F[i].id, 0>>
    OBVIOUS
  <1>6. \A b, m, z : InBlock(b, m, z) => m[1] = b.id
    BY DEF InBlock
  <1>7. \A m : D!GoesWith(n, m) <=> m[1] = F[i].id
    <2>1. n[1] = F[i].id /\ n[2] = 0
      BY <1>5
    <2>2. QED
      BY <2>1 DEF D!GoesWith
  <1>8. ASSUME NEW m, NEW z, Held(g, m, z)
        PROVE  Held(f, m, z) /\ ~D!GoesWith(n, m)
    <2>1. PICK j \in DOMAIN G : InBlock(G[j], m, z)
      BY <1>1, <1>8 DEF Held
    <2>2. PICK l \in DOMAIN F : l # i /\ G[j] = F[l]
      BY <1>3
    <2>3. InBlock(F[l], m, z)
      BY <2>1, <2>2
    <2>4. m[1] # F[i].id
      BY <1>4, <1>6, <2>2, <2>3
    <2>5. QED
      BY <1>1, <1>7, <2>3, <2>4 DEF Held
  <1>9. ASSUME NEW m, NEW z, Held(f, m, z), ~D!GoesWith(n, m)
        PROVE  Held(g, m, z)
    <2>1. PICK l \in DOMAIN F : InBlock(F[l], m, z)
      BY <1>1, <1>9 DEF Held
    <2>2. l # i
      BY <1>6, <1>7, <1>9, <2>1
    <2>3. PICK j \in DOMAIN G : G[j] = F[l]
      BY <1>3, <2>2
    <2>4. InBlock(G[j], m, z)
      BY <2>1, <2>3
    <2>5. QED
      BY <1>1, <2>4 DEF Held
  <1>10. Held(f, n, F[i].data)
    BY <1>1, <1>5 DEF Held, InBlock
  <1>11. D!Close(DocumentOf(f), DocumentOf(g), n)
    BY <1>8, <1>9, <1>10, ClosesDocument
  <1>12. QED
    BY <1>1, <1>5, <1>11

LEMMA FramesPut ==
    ASSUME NEW f, FileInv(f), NEW i \in DOMAIN f.list, NEW frames, NEW g, g = Reframed(f, i, frames)
    PROVE  /\ DOMAIN g.list = DOMAIN f.list
           /\ \A j \in DOMAIN f.list :
                /\ g.list[j].id = f.list[j].id /\ g.list[j].data = f.list[j].data
                /\ g.list[j].frames = IF j = i THEN frames ELSE f.list[j].frames
  <1>1. f = [list |-> f.list, named |-> f.named]
    BY DEF FileInv, DirInv, IsDirectory
  <1>2. g = Changed(f, i, "frames", frames)
    BY <1>1 DEF Reframed, Changed
  <1>3. /\ DOMAIN g.list = DOMAIN f.list
        /\ \A j \in DOMAIN f.list : \A x \in BlockFields :
             g.list[j][x] = IF j = i /\ x = "frames" THEN frames ELSE f.list[j][x]
    <2>1. DirInv(f, BlockFields) /\ BlockFields \in Fields /\ "frames" \in {"data", "frames"}
      BY FieldsOfObjects DEF FileInv
    <2>2. QED
      BY <1>2, <2>1, ChangeKeeps
  <1>4. "frames" \in BlockFields /\ "data" \in BlockFields /\ "id" \in BlockFields
    BY DEF BlockFields
  <1>5. QED
    BY <1>3, <1>4

LEMMA FrameClosed ==
    ASSUME NEW f, FileInv(f), NEW i \in DOMAIN f.list, NEW frames, NEW g, FileInv(g),
           g = Reframed(f, i, frames), NEW l \in DOMAIN f.list[i].frames.list,
           frames.list = RemoveAt(f.list[i].frames.list, l)
    PROVE  D!Close(DocumentOf(f), DocumentOf(g), <<f.list[i].id, f.list[i].frames.list[l].id>>)
  <1>1. PICK F, G, A, B : /\ F = f.list /\ G = g.list
                          /\ A = f.list[i].frames.list /\ B = frames.list
    OBVIOUS
  <1>2. IsList(A)
    <2>1. DirInv(f.list[i].frames, FrameFields)
      BY DEF FileInv
    <2>2. QED
      BY <1>1, <2>1 DEF DirInv, IsDirectory, IsList
  <1>3. l \in DOMAIN A /\ B = RemoveAt(A, l)
    BY <1>1
  <1>4. /\ \A j \in DOMAIN B : \E k \in DOMAIN A : k # l /\ B[j] = A[k]
        /\ \A k \in DOMAIN A : k # l => \E j \in DOMAIN B : B[j] = A[k]
    BY <1>2, <1>3, RestOfList
  <1>5. /\ DOMAIN G = DOMAIN F /\ i \in DOMAIN F
        /\ \A j \in DOMAIN F : /\ G[j].id = F[j].id /\ G[j].data = F[j].data
                               /\ G[j].frames = IF j = i THEN frames ELSE F[j].frames
    BY <1>1, FramesPut
  <1>6. /\ \A j \in DOMAIN F : F[j].id = F[i].id => j = i
        /\ \A k \in DOMAIN A : A[k].id # 0 /\ (A[k].id = A[l].id => k = l)
    BY <1>1, <1>3, ObjectsTyped
  <1>7. PICK n : n = <<F[i].id, A[l].id>>
    OBVIOUS
  <1>8. \A m : D!GoesWith(n, m) <=> m = n
    <2>1. n[2] # 0
      BY <1>3, <1>6, <1>7
    <2>2. QED
      BY <2>1 DEF D!GoesWith
  <1>9. ASSUME NEW m, NEW x
        PROVE  InBlock(G[i], m, x) <=> InBlock(F[i], m, x) /\ m # n
    <2>1. G[i].id = F[i].id /\ G[i].data = F[i].data /\ G[i].frames.list = B /\ F[i].frames.list = A
      BY <1>1, <1>5
    <2>2. m = <<F[i].id, 0>> => m # n
      BY <1>3, <1>6, <1>7
    <2>3. \A k \in DOMAIN A : m = <<F[i].id, A[k].id>> => (m # n <=> k # l)
      BY <1>3, <1>6, <1>7
    <2>4. (\E j \in DOMAIN B : m = <<F[i].id, B[j].id>> /\ x = B[j].data)
            <=> (\E k \in DOMAIN A : k # l /\ m = <<F[i].id, A[k].id>> /\ x = A[k].data)
      <3>1. ASSUME NEW j \in DOMAIN B, m = <<F[i].id, B[j].id>>, x = B[j].data
            PROVE  \E k \in DOMAIN A : k # l /\ m = <<F[i].id, A[k].id>> /\ x = A[k].data
        BY <1>4, <3>1
      <3>2. ASSUME NEW k \in DOMAIN A, k # l, m = <<F[i].id, A[k].id>>, x = A[k].data
            PROVE  \E j \in DOMAIN B : m = <<F[i].id, B[j].id>> /\ x = B[j].data
        BY <1>4, <3>2
      <3>3. QED
        BY <3>1, <3>2
    <2>5. InBlock(G[i], m, x) <=>
            \/ m = <<F[i].id, 0>> /\ x = F[i].data
            \/ \E k \in DOMAIN A : k # l /\ m = <<F[i].id, A[k].id>> /\ x = A[k].data
      BY <2>1, <2>4 DEF InBlock
    <2>6. InBlock(F[i], m, x) <=>
            \/ m = <<F[i].id, 0>> /\ x = F[i].data
            \/ \E k \in DOMAIN A : m = <<F[i].id, A[k].id>> /\ x = A[k].data
      BY <2>1 DEF InBlock
    <2>7. QED
      BY <2>2, <2>3, <2>5, <2>6
  <1>10. ASSUME NEW m, NEW x, NEW j \in DOMAIN F, j # i
         PROVE  InBlock(G[j], m, x) <=> InBlock(F[j], m, x) /\ m # n
    <2>1. InBlock(F[j], m, x) <=> InBlock(G[j], m, x)
      BY <1>5, <1>10 DEF InBlock
    <2>2. InBlock(F[j], m, x) => m[1] = F[j].id
      BY DEF InBlock
    <2>3. n[1] = F[i].id
      BY <1>7
    <2>4. InBlock(F[j], m, x) => m # n
      BY <1>6, <1>10, <2>2, <2>3
    <2>5. QED
      BY <2>1, <2>4
  <1>11. \A m, x : Held(g, m, x) <=> Held(f, m, x) /\ ~D!GoesWith(n, m)
    <2>1. ASSUME NEW m, NEW x
          PROVE  Held(g, m, x) <=> Held(f, m, x) /\ m # n
      <3>1. \A j \in DOMAIN F : InBlock(G[j], m, x) <=> InBlock(F[j], m, x) /\ m # n
        BY <1>9, <1>10
      <3>2. Held(g, m, x) <=> \E j \in DOMAIN F : InBlock(G[j], m, x)
        BY <1>1, <1>5 DEF Held
      <3>3. Held(f, m, x) <=> \E j \in DOMAIN F : InBlock(F[j], m, x)
        BY <1>1 DEF Held
      <3>4. QED
        BY <3>1, <3>2, <3>3
    <2>2. QED
      BY <1>8, <2>1
  <1>12. Held(f, n, A[l].data)
    BY <1>1, <1>3, <1>5, <1>7 DEF Held, InBlock
  <1>13. D!Close(DocumentOf(f), DocumentOf(g), n)
    BY <1>11, <1>12, ClosesDocument
  <1>14. QED
    BY <1>1, <1>7, <1>13

LEMMA DataChanges ==
    ASSUME NEW F \in Fields, NEW dir, DirInv(dir, F), "data" \in F, NEW k, NEW d,
           NEW e, e = Changed(dir, k, "data", d)
    PROVE  /\ DOMAIN e.list = DOMAIN dir.list
           /\ \A j \in DOMAIN dir.list :
                /\ \A x \in F \ {"data"} : e.list[j][x] = dir.list[j][x]
                /\ e.list[j].data = IF j = k THEN d ELSE dir.list[j].data
  <1>1. /\ DOMAIN e.list = DOMAIN dir.list
        /\ \A j \in DOMAIN dir.list : \A x \in F :
             e.list[j][x] = IF j = k /\ x = "data" THEN d ELSE dir.list[j][x]
    <2>1. "data" \in {"data", "frames"}
      OBVIOUS
    <2>2. QED
      BY <2>1, ChangeKeeps
  <1>2. QED
    BY <1>1

\* A namespace edited in its place.
LEMMA DataPut ==
    ASSUME NEW f, FileInv(f), NEW p \in NamespacesOf(f), NEW d, NEW g, g = WithData(f, p, d)
    PROVE  Held(g, Identity(f, p), d) /\ SameBut(f, g, Identity(f, p))
  <1>1. f = [list |-> f.list, named |-> f.named]
    BY DEF FileInv, DirInv, IsDirectory
  <1>2. PICK i \in DOMAIN f.list : \/ p = <<i, 0>>
                                   \/ \E k \in DOMAIN f.list[i].frames.list : p = <<i, k>> /\ k # 0
    BY FilePlaces
  <1>3. PICK F, G : F = f.list /\ G = g.list
    OBVIOUS
  <1>4. PICK n : n = Identity(f, p)
    OBVIOUS
  <1>5. /\ \A j \in DOMAIN F : F[j].id # 0 /\ (F[j].id = F[i].id => j = i)
        /\ \A k \in DOMAIN F[i].frames.list : F[i].frames.list[k].id # 0
        /\ \A k, l \in DOMAIN F[i].frames.list : F[i].frames.list[k].id = F[i].frames.list[l].id => k = l
    BY <1>2, <1>3, ObjectsTyped
  <1>6. CASE p = <<i, 0>>
    <2>1. g = Changed(f, i, "data", d)
      BY <1>1, <1>6 DEF WithData, Changed
    <2>2. "frames" \in BlockFields /\ "data" \in BlockFields /\ "id" \in BlockFields
      BY DEF BlockFields
    <2>3. /\ DOMAIN g.list = DOMAIN f.list
          /\ \A j \in DOMAIN f.list :
               /\ \A x \in BlockFields \ {"data"} : g.list[j][x] = f.list[j][x]
               /\ g.list[j].data = IF j = i THEN d ELSE f.list[j].data
      <3>1. DirInv(f, BlockFields) /\ BlockFields \in Fields
        BY FieldsOfObjects DEF FileInv
      <3>2. QED
        BY <2>1, <2>2, <3>1, DataChanges
    <2>4. /\ DOMAIN G = DOMAIN F
          /\ \A j \in DOMAIN F : /\ G[j].id = F[j].id /\ G[j].frames = F[j].frames
                                 /\ G[j].data = IF j = i THEN d ELSE F[j].data
      BY <1>3, <2>2, <2>3
    <2>5. n = <<F[i].id, 0>>
      BY <1>3, <1>4, <1>6 DEF Identity
    <2>6. Held(g, n, d)
      BY <1>2, <1>3, <2>4, <2>5 DEF Held, InBlock
    <2>7. ASSUME NEW m, NEW x, m # n, NEW j \in DOMAIN F
          PROVE  InBlock(F[j], m, x) <=> InBlock(G[j], m, x)
      <3>1. m = <<F[j].id, 0>> => G[j].data = F[j].data
        BY <2>4, <2>5, <2>7
      <3>2. QED
        BY <2>4, <3>1 DEF InBlock
    <2>8. SameBut(f, g, n)
      BY <1>3, <2>4, <2>7 DEF SameBut, Held
    <2>9. QED
      BY <1>4, <2>6, <2>8
  <1>7. ASSUME NEW k \in DOMAIN f.list[i].frames.list, p = <<i, k>>, k # 0
        PROVE  Held(g, Identity(f, p), d) /\ SameBut(f, g, Identity(f, p))
    <2>1. PICK old : old = f.list[i].frames
      OBVIOUS
    <2>2. PICK frames : frames = [old EXCEPT !.list[k].data = d]
      OBVIOUS
    <2>3. g = Reframed(f, i, frames)
      BY <1>7, <2>1, <2>2 DEF WithData, Reframed
    <2>4. /\ DOMAIN G = DOMAIN F
          /\ \A j \in DOMAIN F : /\ G[j].id = F[j].id /\ G[j].data = F[j].data
                                 /\ G[j].frames = IF j = i THEN frames ELSE F[j].frames
      <3>1. /\ DOMAIN g.list = DOMAIN f.list
            /\ \A j \in DOMAIN f.list :
                 /\ g.list[j].id = f.list[j].id /\ g.list[j].data = f.list[j].data
                 /\ g.list[j].frames = IF j = i THEN frames ELSE f.list[j].frames
        BY <2>3, FramesPut
      <3>2. QED
        BY <1>3, <3>1
    <2>5. DirInv(old, FrameFields) /\ old = [list |-> old.list, named |-> old.named]
      <3>1. DirInv(old, FrameFields)
        BY <2>1 DEF FileInv
      <3>2. QED
        BY <3>1 DEF DirInv, IsDirectory
    <2>6. frames = Changed(old, k, "data", d)
      BY <2>2, <2>5 DEF Changed
    <2>7. "data" \in FrameFields /\ "id" \in FrameFields
      BY DEF FrameFields
    <2>8. /\ DOMAIN frames.list = DOMAIN old.list
          /\ \A l \in DOMAIN old.list :
               /\ \A x \in FrameFields \ {"data"} : frames.list[l][x] = old.list[l][x]
               /\ frames.list[l].data = IF l = k THEN d ELSE old.list[l].data
      BY <2>5, <2>6, <2>7, DataChanges, FieldsOfObjects
    <2>9. PICK A, B : A = old.list /\ B = frames.list
      OBVIOUS
    <2>10. /\ DOMAIN B = DOMAIN A /\ k \in DOMAIN A /\ A = F[i].frames.list
           /\ \A l \in DOMAIN A : B[l].id = A[l].id /\ B[l].data = IF l = k THEN d ELSE A[l].data
      BY <1>3, <2>1, <2>7, <2>8, <2>9
    <2>11. n = <<F[i].id, A[k].id>>
      BY <1>3, <1>4, <1>7, <2>1, <2>9 DEF Identity
    <2>12. i \in DOMAIN F /\ G[i].frames.list = B
      BY <1>2, <1>3, <2>4, <2>9
    <2>13. Held(g, n, d)
      BY <1>3, <2>4, <2>10, <2>11, <2>12 DEF Held, InBlock
    <2>14. ASSUME NEW m, NEW x, m # n
           PROVE  InBlock(F[i], m, x) <=> InBlock(G[i], m, x)
      <3>1. G[i].id = F[i].id /\ G[i].data = F[i].data
        BY <2>4, <2>12
      <3>2. ASSUME NEW l \in DOMAIN A, m = <<F[i].id, A[l].id>>
            PROVE  B[l].id = A[l].id /\ B[l].data = A[l].data
        <4>1. l # k
          BY <2>11, <2>14, <3>2
        <4>2. QED
          BY <2>10, <4>1
      <3>3. (\E l \in DOMAIN A : m = <<F[i].id, A[l].id>> /\ x = A[l].data)
              <=> (\E l \in DOMAIN B : m = <<F[i].id, B[l].id>> /\ x = B[l].data)
        BY <2>10, <3>2
      <3>4. QED
        BY <2>10, <2>12, <3>1, <3>3 DEF InBlock
    <2>15. ASSUME NEW m, NEW x, NEW j \in DOMAIN F, j # i
           PROVE  InBlock(F[j], m, x) <=> InBlock(G[j], m, x)
      BY <2>4, <2>15 DEF InBlock
    <2>16. SameBut(f, g, n)
      BY <1>3, <2>4, <2>14, <2>15 DEF SameBut, Held
    <2>17. QED
      BY <1>4, <2>13, <2>16
  <1>8. QED
    BY <1>2, <1>6, <1>7

\* A block more, and a frame more: they hold nothing yet.
LEMMA BlockOpened ==
    ASSUME NEW f, FileInv(f), NEW new, new = NewBlock(f, new.name), NEW g, FileInv(g),
           g.list = Append(f.list, new)
    PROVE  D!Open(DocumentOf(f), DocumentOf(g), <<new.id, 0>>)
  <1>1. new.id = NewId(f) /\ new.data = NoData /\ new.frames = Empty
    BY DEF NewBlock
  <1>2. new.id # 0 /\ \A i \in DOMAIN f.list : f.list[i].id # new.id
    BY <1>1, NewIdIsNew DEF FileInv
  <1>3. IsList(f.list)
    BY DEF FileInv, DirInv, IsDirectory, IsList
  <1>4. PICK k \in Nat : k = Len(f.list) /\ DOMAIN f.list = 1 .. k
    BY <1>3, ListFacts
  <1>5. DOMAIN g.list = 1 .. k + 1 /\ g.list[k + 1] = new /\ \A i \in 1 .. k : g.list[i] = f.list[i]
    BY <1>3, <1>4, Appended
  <1>6. DOMAIN Empty.list = {}
    BY DEF Empty
  <1>7. PICK n : n = <<new.id, 0>>
    OBVIOUS
  <1>8. \A m, x : InBlock(new, m, x) <=> m = n /\ x = NoData
    BY <1>1, <1>6, <1>7 DEF InBlock
  <1>9. \A m, x : Held(g, m, x) <=> Held(f, m, x) \/ (m = n /\ x = NoData)
    <2>1. \A m, x : Held(g, m, x) => Held(f, m, x) \/ (m = n /\ x = NoData)
      <3>1. \A i \in 1 .. k + 1 : i \in 1 .. k \/ i = k + 1
        BY <1>4
      <3>2. QED
        BY <1>4, <1>5, <1>8, <3>1 DEF Held
    <2>2. \A m, x : Held(f, m, x) => Held(g, m, x)
      <3>1. \A i \in 1 .. k : i \in 1 .. k + 1
        BY <1>4
      <3>2. QED
        BY <1>4, <1>5, <3>1 DEF Held
    <2>3. Held(g, n, NoData)
      <3>1. k + 1 \in 1 .. k + 1
        BY <1>4
      <3>2. QED
        BY <1>5, <1>8, <3>1 DEF Held
    <2>4. QED
      BY <2>1, <2>2, <2>3
  <1>10. \A x : ~Held(f, n, x)
    BY <1>2, <1>7 DEF Held, InBlock
  <1>11. SameBut(f, g, n)
    BY <1>9 DEF SameBut
  <1>12. Held(g, n, NoData)
    BY <1>9
  <1>13. D!Open(DocumentOf(f), DocumentOf(g), n)
    BY <1>10, <1>11, <1>12, OpensDocument
  <1>14. QED
    BY <1>7, <1>13

LEMMA FrameOpened ==
    ASSUME NEW f, FileInv(f), NEW i \in DOMAIN f.list, NEW new, new = NewFrame(f.list[i].frames, new.name),
           NEW frames, frames.list = Append(f.list[i].frames.list, new),
           NEW g, FileInv(g), g = Reframed(f, i, frames)
    PROVE  D!Open(DocumentOf(f), DocumentOf(g), <<f.list[i].id, new.id>>)
  <1>1. PICK F, G, A, B : /\ F = f.list /\ G = g.list
                          /\ A = f.list[i].frames.list /\ B = frames.list
    OBVIOUS
  <1>2. new.id = NewId(f.list[i].frames) /\ new.data = NoData
    BY DEF NewFrame
  <1>3. DirInv(f.list[i].frames, FrameFields)
    BY DEF FileInv
  <1>4. new.id # 0 /\ \A k \in DOMAIN A : A[k].id # new.id
    BY <1>1, <1>2, <1>3, NewIdIsNew
  <1>5. IsList(A)
    BY <1>1, <1>3 DEF DirInv, IsDirectory, IsList
  <1>6. PICK k \in Nat : k = Len(A) /\ DOMAIN A = 1 .. k
    BY <1>5, ListFacts
  <1>7. DOMAIN B = 1 .. k + 1 /\ B[k + 1] = new /\ \A l \in 1 .. k : B[l] = A[l]
    BY <1>1, <1>5, <1>6, Appended
  <1>8. /\ DOMAIN G = DOMAIN F /\ i \in DOMAIN F
        /\ \A j \in DOMAIN F : /\ G[j].id = F[j].id /\ G[j].data = F[j].data
                               /\ G[j].frames = IF j = i THEN frames ELSE F[j].frames
    BY <1>1, FramesPut
  <1>9. \A j \in DOMAIN F : F[j].id = F[i].id => j = i
    BY <1>1, ObjectsTyped
  <1>10. PICK n : n = <<F[i].id, new.id>>
    OBVIOUS
  <1>11. ASSUME NEW m, NEW x
         PROVE  InBlock(G[i], m, x) <=> InBlock(F[i], m, x) \/ (m = n /\ x = NoData)
    <2>1. (\E l \in DOMAIN B : m = <<F[i].id, B[l].id>> /\ x = B[l].data)
            <=> (\E l \in DOMAIN A : m = <<F[i].id, A[l].id>> /\ x = A[l].data) \/ (m = n /\ x = NoData)
      <3>1. \A l : l \in 1 .. k + 1 <=> l \in 1 .. k \/ l = k + 1
        BY <1>6
      <3>2. QED
        BY <1>2, <1>6, <1>7, <1>10, <3>1
    <2>2. G[i].id = F[i].id /\ G[i].data = F[i].data /\ G[i].frames.list = B /\ F[i].frames.list = A
      BY <1>1, <1>8
    <2>3. QED
      BY <2>1, <2>2 DEF InBlock
  <1>12. ASSUME NEW m, NEW x, NEW j \in DOMAIN F, j # i
         PROVE  InBlock(F[j], m, x) <=> InBlock(G[j], m, x)
    BY <1>8, <1>12 DEF InBlock
  <1>13. \A m, x : Held(g, m, x) <=> Held(f, m, x) \/ (m = n /\ x = NoData)
    BY <1>1, <1>8, <1>11, <1>12 DEF Held
  <1>14. \A x : ~Held(f, n, x)
    <2>1. ASSUME NEW x, NEW j \in DOMAIN F, InBlock(F[j], n, x)
          PROVE  FALSE
      <3>1. F[j].id = F[i].id
        BY <1>10, <2>1 DEF InBlock
      <3>2. j = i
        BY <1>9, <3>1
      <3>3. InBlock(F[i], n, x) /\ F[i].frames.list = A
        BY <1>1, <2>1, <3>2
      <3>4. QED
        BY <1>4, <1>10, <3>3 DEF InBlock
    <2>2. QED
      BY <1>1, <2>1 DEF Held
  <1>15. SameBut(f, g, n)
    BY <1>13 DEF SameBut
  <1>16. Held(g, n, NoData)
    BY <1>13
  <1>17. D!Open(DocumentOf(f), DocumentOf(g), n)
    BY <1>14, <1>15, <1>16, OpensDocument
  <1>18. QED
    BY <1>1, <1>10, <1>17

-----------------------------------------------------------------------------
(***************************************************************************)
(* Every call is a step of the document.                                   *)
(***************************************************************************)
LEMMA MadeFields ==
    ASSUME NEW kind, NEW n
    PROVE  Made(kind, n).kind = kind /\ Made(kind, n).at = n
  BY DEF Made

LEMMA EditIsStep ==
    ASSUME FileInv(file), FileTidy(file, FALSE, TRUE, FALSE), EditNamespace, FileInv(file')
    PROVE  D!Step(DocumentOf(file), DocumentOf(file'), call')
  <1>1. PICK p, d : /\ p \in NamespacesOf(file) /\ Edited(p, d)
                    /\ TidyEdit(DataAt(file, p), d, FALSE, TRUE)
    BY EditedItems
  <1>2. PICK f, g : f = file /\ g = file'
    OBVIOUS
  <1>3. PICK n, c : n = Identity(f, p) /\ c = DataAt(f, p)
    OBVIOUS
  <1>4. FileInv(f) /\ FileInv(g) /\ p \in NamespacesOf(f) /\ g = WithData(f, p, d)
    BY <1>1, <1>2 DEF Edited
  <1>5. Held(f, n, c)
    BY <1>3, <1>4, PlaceHeld
  <1>6. Held(g, n, d) /\ SameBut(f, g, n)
    BY <1>3, <1>4, DataPut
  <1>7. Tidy(c, FALSE, TRUE, FALSE)
    <2>1. FileTidy(f, FALSE, TRUE, FALSE)
      BY <1>2
    <2>2. PICK i \in DOMAIN f.list : InBlock(f.list[i], n, c)
      BY <1>5 DEF Held
    <2>3. QED
      BY <2>1, <2>2 DEF FileTidy, AllTidy, InBlock
  <1>8. Tidy(d, FALSE, TRUE, FALSE) /\ D!NamespaceEdit(Items(c), Items(d))
    BY <1>1, <1>2, <1>3, <1>7 DEF TidyEdit
  <1>9. D!WellFormed(Items(d))
    BY <1>8, BalancedApart, ItemsWellFormed DEF Tidy
  <1>10. D!Edit(DocumentOf(f), DocumentOf(g), n)
    BY <1>4, <1>5, <1>6, <1>8, <1>9, EditsDocument
  <1>11. PICK c2 : c2 = call'
    OBVIOUS
  <1>12. c2 = Made("edit", n)
    BY <1>1, <1>2, <1>3, <1>11 DEF Edited
  <1>13. c2.kind = "edit" /\ c2.at = n
    BY <1>12, MadeFields
  <1>14. D!Step(DocumentOf(f), DocumentOf(g), c2)
    BY <1>10, <1>13 DEF D!Step
  <1>15. QED
    BY <1>2, <1>11, <1>14

\* A call that made a step of the document where it says.
LEMMA MadeIsStep ==
    ASSUME NEW a, NEW b, NEW kind, NEW n, NEW c, c = Made(kind, n),
           \/ kind = "add" /\ D!Open(a, b, n)
           \/ kind = "remove" /\ D!Close(a, b, n)
           \/ kind = "rename" /\ b = a
    PROVE  D!Step(a, b, c)
  <1>1. c.kind = kind /\ c.at = n
    BY MadeFields
  <1>2. QED
    BY <1>1 DEF D!Step

LEMMA BlockCallIsStep ==
    ASSUME FileInv(file), FileInv(file'), CallAddBlock \/ CallRemoveBlock \/ CallRenameBlock
    PROVE  D!Step(DocumentOf(file), DocumentOf(file'), call')
  <1>1. PICK f, g, c : f = file /\ g = file' /\ c = call'
    OBVIOUS
  <1>2. FileInv(f) /\ FileInv(g)
    BY <1>1
  <1>3. CASE CallAddBlock
    <2>1. PICK n : Refiled(Add(file, NewBlock(file, n)), "add", <<NewId(file), 0>>)
      BY <1>3 DEF CallAddBlock
    <2>2. PICK new : new = NewBlock(f, n)
      OBVIOUS
    <2>3. new = NewBlock(f, new.name) /\ new.id = NewId(f)
      BY <2>2 DEF NewBlock
    <2>4. g.list = Append(f.list, new)
      BY <1>1, <2>1, <2>2 DEF Refiled, Add
    <2>5. D!Open(DocumentOf(f), DocumentOf(g), <<new.id, 0>>)
      BY <1>2, <2>3, <2>4, BlockOpened
    <2>6. c = Made("add", <<new.id, 0>>)
      BY <1>1, <2>1, <2>3 DEF Refiled
    <2>7. D!Step(DocumentOf(f), DocumentOf(g), c)
      BY <2>5, <2>6, MadeIsStep
    <2>8. QED
      BY <1>1, <2>7
  <1>4. CASE CallRemoveBlock
    <2>1. PICK n \in DOMAIN file.named, fromEnd \in BOOLEAN :
             Refiled(RemoveNamed(file, n, fromEnd), "remove", BlockNamed(n, fromEnd))
      BY <1>4 DEF CallRemoveBlock
    <2>2. n \in DOMAIN f.named /\ g = RemoveNamed(f, n, fromEnd)
      BY <1>1, <2>1 DEF Refiled
    <2>3. PICK i : i = OneNamed(f, n, fromEnd)
      OBVIOUS
    <2>4. DirInv(f, BlockFields)
      BY <1>2 DEF FileInv
    <2>5. i \in Places(f, n) /\ g.list = RemoveAt(f.list, i)
      BY <2>2, <2>3, <2>4, RemoveKeeps
    <2>6. i \in DOMAIN f.list
      BY <2>5 DEF Places
    <2>7. D!Close(DocumentOf(f), DocumentOf(g), <<f.list[i].id, 0>>)
      BY <1>2, <2>5, <2>6, BlockClosed
    <2>8. c = Made("remove", <<f.list[i].id, 0>>)
      BY <1>1, <2>1, <2>3 DEF Refiled, BlockNamed
    <2>9. D!Step(DocumentOf(f), DocumentOf(g), c)
      BY <2>7, <2>8, MadeIsStep
    <2>10. QED
      BY <1>1, <2>9
  <1>5. CASE CallRenameBlock
    <2>1. PICK old, new : /\ CanRename(file, old, new)
                          /\ Refiled(Rename(file, old, new), "rename", <<file.named[old], 0>>)
      BY <1>5 DEF CallRenameBlock
    <2>2. CanRename(f, old, new) /\ g = Rename(f, old, new)
      BY <1>1, <2>1 DEF Refiled
    <2>3. /\ DOMAIN g.list = DOMAIN f.list
          /\ \A j \in DOMAIN f.list : \A x \in BlockFields \ {"name"} : g.list[j][x] = f.list[j][x]
      BY <1>2, <2>2, RenameKeeps, FieldsOfObjects DEF FileInv
    <2>4. \A j \in DOMAIN f.list : /\ g.list[j].id = f.list[j].id
                                   /\ g.list[j].frames = f.list[j].frames
                                   /\ g.list[j].data = f.list[j].data
      BY <2>3 DEF BlockFields
    <2>5. \A j \in DOMAIN f.list : Alike(f.list[j], g.list[j])
      BY <2>4 DEF Alike
    <2>6. DocumentOf(g) = DocumentOf(f)
      BY <1>2, <2>3, <2>5, SameDocument
    <2>7. PICK n : c = Made("rename", n)
      BY <1>1, <2>1 DEF Refiled
    <2>8. D!Step(DocumentOf(f), DocumentOf(g), c)
      BY <2>6, <2>7, MadeIsStep
    <2>9. QED
      BY <1>1, <2>8
  <1>6. QED
    BY <1>3, <1>4, <1>5

LEMMA FrameCallIsStep ==
    ASSUME FileInv(file), FileInv(file'), CallAddSaveFrame \/ CallRemoveSaveFrame \/ CallRenameSaveFrame
    PROVE  D!Step(DocumentOf(file), DocumentOf(file'), call')
  <1>1. PICK f, g, c : f = file /\ g = file' /\ c = call'
    OBVIOUS
  <1>2. FileInv(f) /\ FileInv(g)
    BY <1>1
  <1>3. CASE CallAddSaveFrame
    <2>1. PICK i, n : /\ i \in DOMAIN file.list
                      /\ Refiled(WithFrames(i, Add(file.list[i].frames, NewFrame(file.list[i].frames, n))),
                                 "add", <<file.list[i].id, NewId(file.list[i].frames)>>)
      BY <1>3 DEF CallAddSaveFrame
    <2>2. PICK new : new = NewFrame(f.list[i].frames, n)
      OBVIOUS
    <2>3. new = NewFrame(f.list[i].frames, new.name) /\ new.id = NewId(f.list[i].frames)
      BY <2>2 DEF NewFrame
    <2>4. PICK frames : frames = Add(f.list[i].frames, new)
      OBVIOUS
    <2>5. i \in DOMAIN f.list /\ g = Reframed(f, i, frames)
      BY <1>1, <2>1, <2>2, <2>4 DEF Refiled, WithFrames, Reframed
    <2>6. frames.list = Append(f.list[i].frames.list, new)
      BY <2>4 DEF Add
    <2>7. D!Open(DocumentOf(f), DocumentOf(g), <<f.list[i].id, new.id>>)
      BY <1>2, <2>3, <2>5, <2>6, FrameOpened
    <2>8. c = Made("add", <<f.list[i].id, new.id>>)
      BY <1>1, <2>1, <2>3 DEF Refiled
    <2>9. D!Step(DocumentOf(f), DocumentOf(g), c)
      BY <2>7, <2>8, MadeIsStep
    <2>10. QED
      BY <1>1, <2>9
  <1>4. CASE CallRemoveSaveFrame
    <2>1. PICK i, fromEnd, n :
              /\ i \in DOMAIN file.list /\ fromEnd \in BOOLEAN /\ n \in DOMAIN file.list[i].frames.named
              /\ Refiled(WithFrames(i, RemoveNamed(file.list[i].frames, n, fromEnd)),
                         "remove", FrameNamed(i, n, fromEnd))
      BY <1>4 DEF CallRemoveSaveFrame
    <2>2. PICK old : old = f.list[i].frames
      OBVIOUS
    <2>3. PICK frames : frames = RemoveNamed(old, n, fromEnd)
      OBVIOUS
    <2>4. i \in DOMAIN f.list /\ n \in DOMAIN old.named /\ g = Reframed(f, i, frames)
      BY <1>1, <2>1, <2>2, <2>3 DEF Refiled, WithFrames, Reframed
    <2>5. DirInv(old, FrameFields)
      BY <1>2, <2>2, <2>4 DEF FileInv
    <2>6. PICK l : l = OneNamed(old, n, fromEnd)
      OBVIOUS
    <2>7. l \in Places(old, n) /\ frames.list = RemoveAt(old.list, l)
      BY <2>1, <2>3, <2>4, <2>5, <2>6, RemoveKeeps
    <2>8. l \in DOMAIN f.list[i].frames.list /\ frames.list = RemoveAt(f.list[i].frames.list, l)
      BY <2>2, <2>7 DEF Places
    <2>9. D!Close(DocumentOf(f), DocumentOf(g), <<f.list[i].id, f.list[i].frames.list[l].id>>)
      BY <1>2, <2>4, <2>8, FrameClosed
    <2>10. c = Made("remove", <<f.list[i].id, f.list[i].frames.list[l].id>>)
      BY <1>1, <2>1, <2>2, <2>6 DEF Refiled, FrameNamed
    <2>11. D!Step(DocumentOf(f), DocumentOf(g), c)
      BY <2>9, <2>10, MadeIsStep
    <2>12. QED
      BY <1>1, <2>11
  <1>5. CASE CallRenameSaveFrame
    <2>1. PICK i, m, n :
              /\ i \in DOMAIN file.list
              /\ CanRename(file.list[i].frames, m, n)
              /\ Refiled(WithFrames(i, Rename(file.list[i].frames, m, n)),
                         "rename", <<file.list[i].id, file.list[i].frames.named[m]>>)
      BY <1>5 DEF CallRenameSaveFrame
    <2>2. PICK old : old = f.list[i].frames
      OBVIOUS
    <2>3. PICK frames : frames = Rename(old, m, n)
      OBVIOUS
    <2>4. i \in DOMAIN f.list /\ CanRename(old, m, n) /\ g = Reframed(f, i, frames)
      BY <1>1, <2>1, <2>2, <2>3 DEF Refiled, WithFrames, Reframed
    <2>5. DirInv(old, FrameFields)
      BY <1>2, <2>2, <2>4 DEF FileInv
    <2>6. /\ DOMAIN frames.list = DOMAIN old.list
          /\ \A k \in DOMAIN old.list : \A x \in FrameFields \ {"name"} : frames.list[k][x] = old.list[k][x]
      BY <2>3, <2>4, <2>5, RenameKeeps, FieldsOfObjects
    <2>7. \A k \in DOMAIN old.list : frames.list[k].id = old.list[k].id /\ frames.list[k].data = old.list[k].data
      BY <2>6 DEF FrameFields
    <2>8. /\ DOMAIN g.list = DOMAIN f.list
          /\ \A j \in DOMAIN f.list :
               /\ g.list[j].id = f.list[j].id /\ g.list[j].data = f.list[j].data
               /\ g.list[j].frames = IF j = i THEN frames ELSE f.list[j].frames
      BY <1>2, <2>4, FramesPut
    <2>9. \A j \in DOMAIN f.list : Alike(f.list[j], g.list[j])
      <3>1. ASSUME NEW j \in DOMAIN f.list, j = i
            PROVE  Alike(f.list[j], g.list[j])
        <4>1. g.list[j].frames = frames /\ f.list[j].frames = old
          BY <2>2, <2>8, <3>1
        <4>2. QED
          BY <2>6, <2>7, <2>8, <4>1 DEF Alike
      <3>2. ASSUME NEW j \in DOMAIN f.list, j # i
            PROVE  Alike(f.list[j], g.list[j])
        BY <2>8, <3>2 DEF Alike
      <3>3. QED
        BY <3>1, <3>2
    <2>10. DocumentOf(g) = DocumentOf(f)
      BY <1>2, <2>8, <2>9, SameDocument
    <2>11. PICK k : c = Made("rename", k)
      BY <1>1, <2>1 DEF Refiled
    <2>12. D!Step(DocumentOf(f), DocumentOf(g), c)
      BY <2>10, <2>11, MadeIsStep
    <2>13. QED
      BY <1>1, <2>12
  <1>6. QED
    BY <1>3, <1>4, <1>5

LEMMA DocumentBegins ==
    ASSUME NEW f, FileInv(f), FileTidy(f, FALSE, TRUE, FALSE), NEW n \in DOMAIN DocumentOf(f)
    PROVE  D!WellFormed(DocumentOf(f)[n])
  <1>1. PICK x : Held(f, n, x) /\ DocumentOf(f)[n] = Items(x)
    BY DocumentHolds
  <1>2. PICK i \in DOMAIN f.list : InBlock(f.list[i], n, x)
    BY <1>1 DEF Held
  <1>3. Tidy(x, FALSE, TRUE, FALSE)
    BY <1>2 DEF FileTidy, AllTidy, InBlock
  <1>4. QED
    BY <1>1, <1>3, BalancedApart, ItemsWellFormed DEF Tidy

DocumentInv == LookupsInv /\ FileTidy(file, FALSE, TRUE, FALSE) /\ doc = DocumentOf(file)

LEMMA DocumentStep ==
    ASSUME DocumentInv, Next, cleaned' = <<>>
    PROVE  DocumentInv' /\ D!Next
  <1>1. FileInv(file) /\ FileTidy(file, FALSE, TRUE, FALSE) /\ doc = DocumentOf(file)
    BY DEF DocumentInv, LookupsInv
  <1>2. LookupsInv'
    BY LookupsStep DEF DocumentInv
  <1>3. FileInv(file')
    BY <1>2 DEF LookupsInv, FileInv
  <1>4. FileTidy(file', FALSE, TRUE, FALSE)
    BY <1>1, TidyStep
  <1>5. doc' = DocumentOf(file')
    BY DEF Next
  <1>6. D!Step(DocumentOf(file), DocumentOf(file'), call')
    <2>1. CASE EditNamespace
      BY <1>1, <1>3, <2>1, EditIsStep
    <2>2. CASE CallAddBlock \/ CallRemoveBlock \/ CallRenameBlock
      BY <1>1, <1>3, <2>2, BlockCallIsStep
    <2>3. CASE CallAddSaveFrame \/ CallRemoveSaveFrame \/ CallRenameSaveFrame
      BY <1>1, <1>3, <2>3, FrameCallIsStep
    <2>4. ~CallClean
      <3>1. CallClean => \E x : cleaned' = <<x>>
        BY DEF CallClean
      <3>2. QED
        BY <3>1
    <2>5. QED
      BY <2>1, <2>2, <2>3, <2>4 DEF Next
  <1>7. D!Next
    BY <1>1, <1>5, <1>6 DEF D!Next
  <1>8. DocumentInv'
    <2>1. PICK g : g = file'
      OBVIOUS
    <2>2. FileTidy(g, FALSE, TRUE, FALSE)
      BY <1>4, <2>1
    <2>3. QED
      BY <1>2, <1>4, <1>5 DEF DocumentInv
  <1>9. QED
    BY <1>7, <1>8

\* A call is a step of Document made on the namespace it names: it edits one item there and
\* leaves every other item of the file as and where it was, opens that namespace empty,
\* closes it (a block with its frames) and nothing else, or changes no values, whatever the
\* code does to _tag_order, _tags and _loops one by one (writer.py).
THEOREM EditsImplement == EditsSpec /\ FileTidy(file, FALSE, TRUE, FALSE) => ImplementsDocument
  <1>1. Init /\ FileTidy(file, FALSE, TRUE, FALSE) => DocumentInv
    BY LookupsInit DEF Init, DocumentInv
  <1>2. DocumentInv => D!Init
    BY DocumentBegins DEF DocumentInv, LookupsInv, D!Init
  <1>3. DocumentInv /\ [Next /\ cleaned' = <<>>]_vars => DocumentInv' /\ [D!Next]_<<doc, call>>
    <2>1. CASE UNCHANGED vars
      BY <2>1 DEF DocumentInv, LookupsInv, FileInv, Exact, FileTidy, AllTidy, vars
    <2>2. QED
      BY <2>1, DocumentStep
  <1>4. QED
    BY <1>1, <1>2, <1>3, PTL DEF EditsSpec, ImplementsDocument, D!Spec

===============================================================================

---------------------------- MODULE MemoryProofs ----------------------------
(***************************************************************************)
(* Proofs about Memory: whatever kalloc() finds, and for every number of   *)
(* pages and processes, size of a page and of a page table, the pages are  *)
(* each owned once, the mapped pages are those below p->sz, no assertion   *)
(* fails, and a system call that fails undoes what it did.                 *)
(***************************************************************************)
EXTENDS Memory, RingProofs, FiniteSetTheorems, TLAPS

----------------------------------------------------------------------------
(* Iteration *)

\* A set of natural numbers that has 0 and the successors of its elements.
LEMMA NatUp == ASSUME NEW S \in SUBSET Nat, 0 \in S, \A i \in S : i + 1 \in S PROVE S = Nat
<1> SUFFICES ASSUME Nat \ S # {} PROVE FALSE
  OBVIOUS
<1>1. PICK k \in Nat \ S : \A j \in Nat \ S : k <= j
  BY LeastNat
<1>2. k - 1 \in Nat /\ k - 1 \in S
  BY <1>1
<1> QED BY <1>1, <1>2

\* The values of a loop that starts with x and whose turn i is f[i].
Iterated(n, S, x, f) == \E g \in [0..n -> S] : g[0] = x /\ \A i \in 1..n : g[i] = f[i][g[i - 1]]

\* A loop whose body stays in a set has a value at every turn.
LEMMA Iterates ==
  ASSUME NEW n \in Nat, NEW S, NEW x \in S, NEW f \in [1..n -> [S -> S]]
  PROVE  Iterated(n, S, x, f)
<1> DEFINE P(k) == \E g \in [0..k -> S] : g[0] = x /\ \A i \in 1..k : g[i] = f[i][g[i - 1]]
           T == {k \in Nat : k <= n => P(k)}
<1>1. P(0)
  <2>1. [i \in 0..0 |-> x] \in [0..0 -> S]
    OBVIOUS
  <2>2. [i \in 0..0 |-> x][0] = x /\ \A i \in 1..0 : FALSE
    OBVIOUS
  <2> QED BY <2>1, <2>2
<1>2. ASSUME NEW k \in Nat, k + 1 <= n, P(k) PROVE P(k + 1)
  <2>1. PICK g \in [0..k -> S] : g[0] = x /\ \A i \in 1..k : g[i] = f[i][g[i - 1]]
    BY <1>2
  <2>2. f[k + 1] \in [S -> S] /\ g[k] \in S /\ f[k + 1][g[k]] \in S
    BY <1>2, <2>1
  <2> DEFINE h == [i \in 0..(k + 1) |-> IF i <= k THEN g[i] ELSE f[k + 1][g[k]]]
  <2>3. h \in [0..(k + 1) -> S]
    BY <2>2
  <2>4. h[0] = x /\ \A i \in 0..k : h[i] = g[i]
    BY <2>1
  <2>5. h[k + 1] = f[k + 1][g[k]]
    OBVIOUS
  <2>6. ASSUME NEW i \in 1..(k + 1) PROVE h[i] = f[i][h[i - 1]]
    <3>1. CASE i = k + 1
      BY <3>1, <2>4, <2>5
    <3>2. CASE i # k + 1
      <4>1. i \in 1..k /\ i \in 0..k /\ i - 1 \in 0..k
        BY <3>2
      <4> QED BY <4>1, <2>1, <2>4
    <3> QED BY <3>1, <3>2
  <2> HIDE DEF h
  <2> QED BY <2>3, <2>4, <2>6
<1> HIDE DEF P
<1>3. T \in SUBSET Nat /\ 0 \in T
  BY <1>1
<1>4. \A k \in T : k + 1 \in T
  BY <1>2
<1>5. T = Nat
  BY <1>3, <1>4, NatUp
<1>6. P(n)
  BY <1>5
<1> QED BY <1>6 DEF P, Iterated

----------------------------------------------------------------------------
(* Types *)

PFun(D, S) == UNION {[E -> S] : E \in SUBSET D}
Node == {0, 1} \X Nat
Leaf == [pa : Page \cup {0}, u : BOOLEAN]
Table == [root : Page \cup {0}, node : PFun(Node, Page), leaf : PFun(Nat, Leaf)]
Assertion == {"mappages: remap", "uvmunmap: not mapped", "freewalk: leaf", "uvmcopy: page not present",
              "loadseg: address should exist", "walk", "kfree", "uvmclear"}
Mem == [free : SUBSET Page, left : Nat, mem : Page \cup {0}, pt : Table, sz : Nat,
        ok : BOOLEAN, panic : SUBSET Assertion]

\* Partial functions, with an entry more or without some.
LEMMA WithType ==
  ASSUME NEW D, NEW S, NEW f \in PFun(D, S), NEW x \in D, NEW y \in S
  PROVE  with(f, x, y) \in PFun(D, S)
<1>1. PICK E \in SUBSET D : f \in [E -> S]
  BY DEF PFun
<1>2. with(f, x, y) \in [E \cup {x} -> S] /\ E \cup {x} \in SUBSET D
  BY <1>1 DEF with
<1> QED BY <1>2 DEF PFun

\* A partial function without some of its entries.
LEMMA WithoutType ==
  ASSUME NEW D, NEW S, NEW f \in PFun(D, S), NEW V
  PROVE  without(f, V) \in PFun(D, S)
<1>1. PICK E \in SUBSET D : f \in [E -> S]
  BY DEF PFun
<1>2. without(f, V) \in [E \ V -> S] /\ E \ V \in SUBSET D
  BY <1>1 DEF without
<1> QED BY <1>2 DEF PFun

\* A partial function is determined by its domain and its values.
LEMMA PFunIs ==
  ASSUME NEW D, NEW S, NEW f \in PFun(D, S)
  PROVE  f = [x \in DOMAIN f |-> f[x]] /\ DOMAIN f \subseteq D /\ \A x \in DOMAIN f : f[x] \in S
<1>1. PICK E \in SUBSET D : f \in [E -> S]
  BY DEF PFun
<1> QED BY <1>1

\* The empty function is the partial function with no entry.
LEMMA EmptyIs ==
  ASSUME NEW D, NEW S
  PROVE  /\ <<>> \in PFun(D, S) /\ DOMAIN <<>> = {}
         /\ \A f \in PFun(D, S) : DOMAIN f = {} => f = <<>>
<1>1. <<>> \in [{} -> S] /\ {} \in SUBSET D
  OBVIOUS
<1>2. <<>> \in PFun(D, S)
  BY <1>1 DEF PFun
<1> QED BY <1>2, PFunIs

\* Partial functions with the same entries are equal.
LEMMA PFunEqual ==
  ASSUME NEW D, NEW S, NEW f \in PFun(D, S), NEW g \in PFun(D, S), DOMAIN f = DOMAIN g,
         \A x \in DOMAIN f : f[x] = g[x]
  PROVE  f = g
  BY PFunIs

\* The constants, as far as the proofs use them.
LEMMA Sizes ==
  /\ R \in Nat /\ R > 1 /\ R * R \in Nat \ {0} /\ PGSIZE \in Nat \ {0} /\ NPAGE \in Nat
  /\ TRAMPOLINE \in Nat /\ TRAPFRAME \in Nat /\ TRAMPOLINE = TRAPFRAME + 1
  /\ NPAGE < TRAPFRAME
  BY MemoryAssumption DEF TRAMPOLINE, TRAPFRAME

\* The first page of the list.
LEMMA MinPage == \A F \in SUBSET Page : F # {} => Min(F) \in F
<1> SUFFICES ASSUME NEW F \in SUBSET Page, F # {} PROVE Min(F) \in F
  OBVIOUS
<1>1. F \in SUBSET Nat
  BY Sizes DEF Page
<1>2. \E x \in F : \A y \in F : x <= y
  BY <1>1, LeastNat
<1> QED BY <1>2 DEF Min

\* NoTable is a page table, and 0 is not a page.
LEMMA TableType ==
  /\ NoTable \in Table /\ NoTable.root = 0 /\ NoTable.node = <<>> /\ NoTable.leaf = <<>>
  /\ 0 \notin Page
  BY EmptyIs DEF NoTable, Table, Page

\* kalloc() takes a page from the list, or fails and takes none.
LEMMA KallocType ==
  ASSUME NEW m \in Mem
  PROVE  LET k == kalloc(m) IN
         /\ k \in Mem /\ k.pt = m.pt /\ k.sz = m.sz /\ k.panic = m.panic
         /\ ~m.ok => k = m
         /\ m.ok /\ ~k.ok => k.free = m.free /\ k.mem = 0
         /\ k.ok => m.ok /\ k.mem \in m.free /\ k.mem \in Page /\ k.free = m.free \ {k.mem}
         /\ m.ok /\ m.left # 0 /\ m.free # {} => k.ok /\ k.left = m.left - 1
<1> DEFINE k == kalloc(m)
<1>1. CASE ~m.ok
  BY <1>1 DEF kalloc, Mem
<1>2. CASE m.ok /\ (m.left = 0 \/ m.free = {})
  <2>1. k = [m EXCEPT !.ok = FALSE, !.mem = 0]
    BY <1>2 DEF kalloc
  <2> HIDE DEF k
  <2>2. k \in Mem
    BY <2>1 DEF Mem
  <2>3. /\ k.pt = m.pt /\ k.sz = m.sz /\ k.panic = m.panic /\ ~k.ok /\ k.free = m.free /\ k.mem = 0
    BY <2>1 DEF Mem
  <2> QED BY <1>2, <2>2, <2>3 DEF k
<1>3. CASE m.ok /\ m.left # 0 /\ m.free # {}
  <2> DEFINE x == Min(m.free)
  <2>1. x \in m.free /\ x \in Page /\ m.free \ {x} \in SUBSET Page /\ m.left - 1 \in Nat
    BY <1>3, MinPage DEF Mem
  <2>2. k = [m EXCEPT !.free = m.free \ {x}, !.left = m.left - 1, !.mem = x]
    BY <1>3 DEF kalloc
  <2> HIDE DEF x, k
  <2>3. k \in Mem
    BY <2>1, <2>2 DEF Mem
  <2>4. /\ k.pt = m.pt /\ k.sz = m.sz /\ k.panic = m.panic /\ k.free = m.free \ {x} /\ k.mem = x
        /\ k.left = m.left - 1
    BY <2>2 DEF Mem
  <2>5. k.ok
    BY <2>2, <1>3 DEF Mem
  <2> QED BY <1>3, <2>1, <2>3, <2>4, <2>5 DEF k
<1> QED BY <1>1, <1>2, <1>3
----------------------------------------------------------------------------
(* Page tables *)

\* The pages of a table: page-table pages, user pages and the root.
npages(t) == {t.node[n] : n \in DOMAIN t.node}
uleaves(t) == {v \in DOMAIN t.leaf : v < TRAPFRAME}
upages(t) == {t.leaf[v].pa : v \in uleaves(t)}
tpages(t) == npages(t) \cup upages(t) \cup ({t.root} \ {0})

\* A page has one use in a table.
Tidy(t) ==
  /\ \A x, y \in DOMAIN t.node : t.node[x] = t.node[y] => x = y
  /\ \A v, w \in uleaves(t) : t.leaf[v].pa = t.leaf[w].pa => v = w
  /\ npages(t) \cap upages(t) = {} /\ t.root \notin npages(t) /\ t.root \notin upages(t)
  /\ \A v \in uleaves(t) : t.leaf[v].pa # 0

\* NoTable has no page.
LEMMA NoTableTidy == Tidy(NoTable) /\ tpages(NoTable) = {}
<1>1. DOMAIN NoTable.node = {} /\ DOMAIN NoTable.leaf = {} /\ NoTable.root = 0
  BY TableType, EmptyIs
<1> QED BY <1>1 DEF Tidy, tpages, npages, upages, uleaves

\* The pages of a table are pages.
LEMMA TablePages == \A t \in Table : Tidy(t) => tpages(t) \subseteq Page
<1> SUFFICES ASSUME NEW t \in Table, Tidy(t) PROVE tpages(t) \subseteq Page
  OBVIOUS
<1>1. t.node \in PFun(Node, Page) /\ t.leaf \in PFun(Nat, Leaf) /\ t.root \in Page \cup {0}
  BY DEF Table
<1>2. \A n \in DOMAIN t.node : t.node[n] \in Page
  BY <1>1, PFunIs
<1>3. \A v \in DOMAIN t.leaf : t.leaf[v].pa \in Page \cup {0}
  <2>1. \A v \in DOMAIN t.leaf : t.leaf[v] \in Leaf
    BY <1>1, PFunIs
  <2> QED BY <2>1 DEF Leaf
<1>4. \A v \in uleaves(t) : t.leaf[v].pa \in Page
  BY <1>3 DEF Tidy, uleaves
<1> QED BY <1>1, <1>2, <1>4 DEF tpages, npages, upages

\* A page-table page more.
LEMMA AddNode ==
  ASSUME NEW t \in Table, Tidy(t), NEW n \in Node, n \notin DOMAIN t.node, NEW g \in Page, g \notin tpages(t),
         NEW t2, t2 = [t EXCEPT !.node = with(@, n, g)]
  PROVE  /\ t2 \in Table /\ Tidy(t2) /\ tpages(t2) = tpages(t) \cup {g}
         /\ t2.leaf = t.leaf /\ t2.root = t.root /\ DOMAIN t2.node = DOMAIN t.node \cup {n}
<1>1. t.node \in PFun(Node, Page)
  BY DEF Table
<1>2. /\ with(t.node, n, g) \in PFun(Node, Page) /\ DOMAIN with(t.node, n, g) = DOMAIN t.node \cup {n}
      /\ with(t.node, n, g)[n] = g /\ \A z \in DOMAIN t.node \ {n} : with(t.node, n, g)[z] = t.node[z]
  <2>1. with(t.node, n, g) \in PFun(Node, Page)
    BY <1>1, WithType
  <2> QED BY <2>1 DEF with
<1>3. t2 \in Table /\ t2.leaf = t.leaf /\ t2.root = t.root /\ t2.node = with(t.node, n, g)
  BY <1>2 DEF Table
<1>4. /\ DOMAIN t2.node = DOMAIN t.node \cup {n} /\ t2.node[n] = g
      /\ \A z \in DOMAIN t.node : t2.node[z] = t.node[z]
  BY <1>2, <1>3
<1>5. uleaves(t2) = uleaves(t) /\ upages(t2) = upages(t)
  BY <1>3 DEF uleaves, upages
<1>6. npages(t2) = npages(t) \cup {g}
  BY <1>4 DEF npages
<1>7. tpages(t2) = tpages(t) \cup {g}
  BY <1>3, <1>5, <1>6 DEF tpages
<1>8. g \notin npages(t) /\ g \notin upages(t) /\ g # t.root
  BY TableType DEF tpages
<1>9. \A x, y \in DOMAIN t2.node : t2.node[x] = t2.node[y] => x = y
  <2>1. \A x \in DOMAIN t.node : t.node[x] # g
    BY <1>8 DEF npages
  <2> QED BY <1>4, <2>1 DEF Tidy
<1>10. Tidy(t2)
  BY <1>3, <1>5, <1>6, <1>8, <1>9 DEF Tidy
<1> QED BY <1>3, <1>4, <1>7, <1>10

\* A user page more.
LEMMA AddLeaf ==
  ASSUME NEW t \in Table, Tidy(t), NEW v \in Nat, v \notin DOMAIN t.leaf, v < TRAPFRAME,
         NEW g \in Page, g \notin tpages(t), NEW u \in BOOLEAN,
         NEW t2, t2 = [t EXCEPT !.leaf = with(@, v, [pa |-> g, u |-> u])]
  PROVE  t2 \in Table /\ Tidy(t2) /\ tpages(t2) = tpages(t) \cup {g}
<1>1. t.leaf \in PFun(Nat, Leaf)
  BY DEF Table
<1> DEFINE l == [pa |-> g, u |-> u]
<1>2. l \in Leaf /\ l.pa = g
  BY DEF Leaf
<1> HIDE DEF l
<1>3. /\ with(t.leaf, v, l) \in PFun(Nat, Leaf) /\ DOMAIN with(t.leaf, v, l) = DOMAIN t.leaf \cup {v}
      /\ with(t.leaf, v, l)[v] = l /\ \A z \in DOMAIN t.leaf \ {v} : with(t.leaf, v, l)[z] = t.leaf[z]
  <2>1. with(t.leaf, v, l) \in PFun(Nat, Leaf)
    BY <1>1, <1>2, WithType
  <2> QED BY <2>1 DEF with
<1>4. t2 \in Table /\ t2.node = t.node /\ t2.root = t.root /\ t2.leaf = with(t.leaf, v, l)
  BY <1>3 DEF Table, l
<1>5. /\ DOMAIN t2.leaf = DOMAIN t.leaf \cup {v} /\ t2.leaf[v].pa = g
      /\ \A z \in DOMAIN t.leaf : t2.leaf[z] = t.leaf[z]
  BY <1>2, <1>3, <1>4
<1>6. npages(t2) = npages(t)
  BY <1>4 DEF npages
<1>7. uleaves(t2) = uleaves(t) \cup {v} /\ \A z \in uleaves(t) : t2.leaf[z] = t.leaf[z]
  BY <1>5 DEF uleaves
<1>8. upages(t2) = upages(t) \cup {g}
  BY <1>5, <1>7 DEF upages
<1>9. tpages(t2) = tpages(t) \cup {g}
  BY <1>4, <1>6, <1>8 DEF tpages
<1>10. g \notin npages(t) /\ g \notin upages(t) /\ g # t.root /\ g # 0
  BY TableType DEF tpages
<1>11. \A x \in uleaves(t) : t.leaf[x].pa # g
  BY <1>10 DEF upages
<1>12. \A x, y \in uleaves(t2) : t2.leaf[x].pa = t2.leaf[y].pa => x = y
  BY <1>5, <1>7, <1>11 DEF Tidy
<1>13. \A x \in uleaves(t2) : t2.leaf[x].pa # 0
  BY <1>5, <1>7, <1>10 DEF Tidy
<1>14. Tidy(t2)
  BY <1>4, <1>6, <1>8, <1>10, <1>12, <1>13 DEF Tidy
<1> QED BY <1>4, <1>9, <1>14

\* The trampoline or the trapframe, which are not pages of the table.
LEMMA AddTop ==
  ASSUME NEW t \in Table, Tidy(t), NEW v \in Nat, v \notin DOMAIN t.leaf, v >= TRAPFRAME,
         NEW g \in Page \cup {0}, NEW u \in BOOLEAN,
         NEW t2, t2 = [t EXCEPT !.leaf = with(@, v, [pa |-> g, u |-> u])]
  PROVE  t2 \in Table /\ Tidy(t2) /\ tpages(t2) = tpages(t)
<1>1. t.leaf \in PFun(Nat, Leaf)
  BY DEF Table
<1> DEFINE l == [pa |-> g, u |-> u]
<1>2. l \in Leaf /\ l.pa = g
  BY DEF Leaf
<1> HIDE DEF l
<1>3. /\ with(t.leaf, v, l) \in PFun(Nat, Leaf) /\ DOMAIN with(t.leaf, v, l) = DOMAIN t.leaf \cup {v}
      /\ with(t.leaf, v, l)[v] = l /\ \A z \in DOMAIN t.leaf \ {v} : with(t.leaf, v, l)[z] = t.leaf[z]
  <2>1. with(t.leaf, v, l) \in PFun(Nat, Leaf)
    BY <1>1, <1>2, WithType
  <2> QED BY <2>1 DEF with
<1>4. t2 \in Table /\ t2.node = t.node /\ t2.root = t.root /\ t2.leaf = with(t.leaf, v, l)
  BY <1>3 DEF Table, l
<1>5. DOMAIN t2.leaf = DOMAIN t.leaf \cup {v} /\ \A z \in DOMAIN t.leaf : t2.leaf[z] = t.leaf[z]
  BY <1>3, <1>4
<1>6. npages(t2) = npages(t)
  BY <1>4 DEF npages
<1>7. uleaves(t2) = uleaves(t) /\ \A z \in uleaves(t) : t2.leaf[z] = t.leaf[z]
  BY <1>5, Sizes DEF uleaves
<1>8. upages(t2) = upages(t)
  BY <1>7 DEF upages
<1> QED BY <1>4, <1>6, <1>7, <1>8 DEF Tidy, tpages

\* The pages of the leaves vs, which uvmunmap() takes out.
cut(t, vs) == {t.leaf[v].pa : v \in vs \cap DOMAIN t.leaf}

\* A table without the leaves vs has the pages of the others.
LEMMA CutLeaves ==
  ASSUME NEW t \in Table, Tidy(t), NEW vs, NEW t2, t2 = [t EXCEPT !.leaf = without(@, vs)]
  PROVE  /\ t2 \in Table /\ Tidy(t2) /\ t2.node = t.node /\ t2.root = t.root /\ t2.leaf = without(t.leaf, vs)
         /\ tpages(t2) \subseteq tpages(t)
         /\ (\A v \in vs : v < TRAPFRAME) =>
               tpages(t2) = tpages(t) \ cut(t, vs) /\ cut(t, vs) \subseteq tpages(t) /\ 0 \notin cut(t, vs)
         /\ (\A v \in vs : ~(v < TRAPFRAME)) => tpages(t2) = tpages(t)
<1>1. t.leaf \in PFun(Nat, Leaf)
  BY DEF Table
<1>2. /\ without(t.leaf, vs) \in PFun(Nat, Leaf) /\ DOMAIN without(t.leaf, vs) = DOMAIN t.leaf \ vs
      /\ \A z \in DOMAIN t.leaf \ vs : without(t.leaf, vs)[z] = t.leaf[z]
  <2>1. without(t.leaf, vs) \in PFun(Nat, Leaf)
    BY <1>1, WithoutType
  <2> QED BY <2>1 DEF without
<1>3. t2 \in Table /\ t2.node = t.node /\ t2.root = t.root /\ t2.leaf = without(t.leaf, vs)
  BY <1>2 DEF Table
<1>4. DOMAIN t2.leaf = DOMAIN t.leaf \ vs /\ \A z \in DOMAIN t2.leaf : t2.leaf[z] = t.leaf[z]
  BY <1>2, <1>3
<1>5. npages(t2) = npages(t)
  BY <1>3 DEF npages
<1>6. uleaves(t2) = uleaves(t) \ vs /\ \A z \in uleaves(t2) : t2.leaf[z] = t.leaf[z]
  BY <1>4 DEF uleaves
<1>7. upages(t2) \subseteq upages(t)
  BY <1>6 DEF upages
<1>8. Tidy(t2)
  BY <1>3, <1>5, <1>6, <1>7 DEF Tidy
<1>9. tpages(t2) \subseteq tpages(t)
  BY <1>3, <1>5, <1>7 DEF tpages
<1>10. ASSUME \A v \in vs : ~(v < TRAPFRAME) PROVE tpages(t2) = tpages(t)
  <2>1. uleaves(t2) = uleaves(t)
    BY <1>6, <1>10 DEF uleaves
  <2>2. upages(t2) = upages(t)
    BY <1>6, <2>1 DEF upages
  <2> QED BY <1>3, <1>5, <2>2 DEF tpages
<1>11. ASSUME \A v \in vs : v < TRAPFRAME
       PROVE  tpages(t2) = tpages(t) \ cut(t, vs) /\ cut(t, vs) \subseteq tpages(t) /\ 0 \notin cut(t, vs)
  <2>1. vs \cap DOMAIN t.leaf = vs \cap uleaves(t)
    BY <1>11 DEF uleaves
  <2>2. cut(t, vs) \subseteq upages(t) /\ 0 \notin cut(t, vs)
    BY <2>1 DEF cut, upages, Tidy
  <2>3. upages(t2) = upages(t) \ cut(t, vs)
    <3>1. ASSUME NEW g \in upages(t), g \notin cut(t, vs) PROVE g \in upages(t2)
      BY <3>1, <1>6, <2>1 DEF upages, cut
    <3>2. ASSUME NEW g \in upages(t2) PROVE g \notin cut(t, vs)
      BY <3>2, <1>6, <2>1 DEF upages, cut, Tidy
    <3> QED BY <1>7, <3>1, <3>2
  <2>4. cut(t, vs) \cap npages(t) = {} /\ t.root \notin cut(t, vs)
    BY <2>2 DEF Tidy
  <2> QED BY <1>3, <1>5, <2>2, <2>3, <2>4 DEF tpages
<1> QED BY <1>3, <1>8, <1>9, <1>10, <1>11

----------------------------------------------------------------------------
(* Calls in progress *)

\* The pages a call accounts for, each of them once, and no assertion failed.
acc(m) == m.free \cup tpages(m.pt)
Sound(m) == m \in Mem /\ Tidy(m.pt) /\ m.free \cap tpages(m.pt) = {} /\ m.panic = {}

\* The types of the parts of the record of a call.
LEMMA MemIs ==
  ASSUME NEW m \in Mem
  PROVE  /\ m.free \subseteq Page /\ m.left \in Nat /\ m.mem \in Page \cup {0} /\ m.pt \in Table /\ m.sz \in Nat
         /\ m.ok \in BOOLEAN /\ m.pt.node \in PFun(Node, Page) /\ m.pt.leaf \in PFun(Nat, Leaf)
         /\ m.pt.root \in Page \cup {0}
  BY DEF Mem, Table

\* One level of walk().
LEMMA WalkLevel ==
  ASSUME NEW m \in Mem, NEW n \in Node
  PROVE  LET w == walk_level(m, n) IN
         /\ w \in Mem /\ w.mem = m.mem /\ w.sz = m.sz /\ w.panic = m.panic
         /\ w.pt.leaf = m.pt.leaf /\ w.pt.root = m.pt.root
         /\ DOMAIN m.pt.node \subseteq DOMAIN w.pt.node
         /\ w.ok => m.ok /\ n \in DOMAIN w.pt.node
         /\ ~m.ok => w = m
         /\ Sound(m) => Sound(w) /\ acc(w) = acc(m)
<1> DEFINE w == walk_level(m, n)
           k == kalloc(m)
<1>1. CASE ~m.ok \/ n \in DOMAIN m.pt.node
  BY <1>1, MemIs DEF walk_level
<1>2. CASE m.ok /\ n \notin DOMAIN m.pt.node
  <2>0. w = linked(k, n, m.mem)
    BY <1>2 DEF walk_level
  <2>1. k \in Mem /\ k.pt = m.pt /\ k.sz = m.sz /\ k.panic = m.panic
    BY KallocType
  <2>2. ~k.ok => k.free = m.free
    BY <1>2, KallocType
  <2>3. k.ok => k.mem \in m.free /\ k.mem \in Page /\ k.free = m.free \ {k.mem}
    BY <1>2, KallocType
  <2> HIDE DEF k, w
  <2>4. m.mem \in Page \cup {0} /\ m.pt \in Table /\ m.pt.node \in PFun(Node, Page)
    BY MemIs
  <2>5. CASE ~k.ok
    <3>1. w = [k EXCEPT !.mem = m.mem]
      BY <2>0, <2>5 DEF linked
    <3>2. w \in Mem /\ w.mem = m.mem /\ w.sz = m.sz /\ w.panic = m.panic /\ w.pt = m.pt /\ w.free = m.free
      BY <3>1, <2>1, <2>2, <2>4, <2>5 DEF Mem
    <3>3. ~w.ok
      BY <3>1, <2>1, <2>5 DEF Mem
    <3> QED BY <1>2, <3>2, <3>3 DEF Sound, acc, w
  <2>6. CASE k.ok
    <3> DEFINE t2 == [m.pt EXCEPT !.node = with(@, n, k.mem)]
    <3>1. w = [k EXCEPT !.pt = [k.pt EXCEPT !.node = with(@, n, k.mem)], !.mem = m.mem]
      BY <2>0, <2>1, <2>6 DEF linked, Mem
    <3>2. w = [k EXCEPT !.pt = t2, !.mem = m.mem]
      BY <3>1, <2>1
    <3>3. with(m.pt.node, n, k.mem) \in PFun(Node, Page)
      BY <2>3, <2>4, <2>6, WithType
    <3>4. /\ t2 \in Table /\ t2.leaf = m.pt.leaf /\ t2.root = m.pt.root
          /\ t2.node = with(m.pt.node, n, k.mem)
      BY <3>3, <2>4 DEF Table
    <3>5. DOMAIN t2.node = DOMAIN m.pt.node \cup {n}
      BY <3>4 DEF with
    <3>6. Tidy(m.pt) /\ k.mem \notin tpages(m.pt) => Tidy(t2) /\ tpages(t2) = tpages(m.pt) \cup {k.mem}
      BY <1>2, <2>3, <2>4, <2>6, AddNode
    <3> HIDE DEF t2
    <3>7. /\ w \in Mem /\ w.mem = m.mem /\ w.sz = m.sz /\ w.panic = m.panic /\ w.pt = t2
          /\ w.free = m.free \ {k.mem}
      BY <3>2, <3>4, <2>1, <2>3, <2>4, <2>6 DEF Mem
    <3>8. ASSUME Sound(m) PROVE Sound(w) /\ acc(w) = acc(m)
      BY <3>8, <2>3, <2>6, <3>6, <3>7 DEF Sound, acc
    <3> QED BY <1>2, <3>4, <3>5, <3>7, <3>8 DEF w
  <2> QED BY <2>5, <2>6
<1> QED BY <1>1, <1>2

\* The page-table pages that walk() goes through.
LEMMA NodeType == \A v \in Nat : <<1, v \div (R * R)>> \in Node /\ <<0, v \div R>> \in Node
<1> SUFFICES ASSUME NEW v \in Nat PROVE v \div (R * R) \in Nat /\ v \div R \in Nat
  BY DEF Node
<1>1. \A d \in Nat \ {0} : v \div d \in Nat
  OBVIOUS
<1> QED BY <1>1, Sizes

\* What walk() returns.
Walked(m, v, w) ==
  /\ w \in Mem /\ w.mem = m.mem /\ w.sz = m.sz /\ (v <= TRAMPOLINE => w.panic = m.panic)
  /\ w.pt.leaf = m.pt.leaf /\ w.pt.root = m.pt.root
  /\ w.ok => m.ok
  /\ ~m.ok => w = m
  /\ Sound(m) /\ v <= TRAMPOLINE => Sound(w) /\ acc(w) = acc(m)

\* The test of the address in walk() changes nothing but panic.
LEMMA BelowMaxva ==
  ASSUME NEW m \in Mem, NEW v
  PROVE  /\ below_maxva(m, v) \in Mem /\ (v <= TRAMPOLINE \/ ~m.ok => below_maxva(m, v) = m)
         /\ \E pn : below_maxva(m, v) = [m EXCEPT !.panic = pn]
<1>1. m.panic \in SUBSET Assertion /\ m = [m EXCEPT !.panic = m.panic]
  BY DEF Mem
<1> DEFINE pn == IF ~m.ok \/ v <= TRAMPOLINE THEN m.panic ELSE m.panic \cup {"walk"}
<1>2. below_maxva(m, v) = [m EXCEPT !.panic = pn]
  BY <1>1 DEF below_maxva, assert
<1>3. pn \in SUBSET Assertion
  BY <1>1 DEF Assertion
<1>4. v <= TRAMPOLINE \/ ~m.ok => pn = m.panic
  OBVIOUS
<1> HIDE DEF pn
<1>5. [m EXCEPT !.panic = pn] \in Mem
  BY <1>3 DEF Mem
<1> QED BY <1>1, <1>2, <1>4, <1>5

\* walk() adds page-table pages and leaves everything else alone.
LEMMA Walk ==
  ASSUME NEW m \in Mem, NEW v \in Nat
  PROVE  Walked(m, v, walk(m, v))
<1>0. PICK b : b = below_maxva(m, v)
  OBVIOUS
<1>1. PICK pn : b = [m EXCEPT !.panic = pn]
  BY <1>0, BelowMaxva
<1>2. b \in Mem /\ (v <= TRAMPOLINE \/ ~m.ok => b = m)
  BY <1>0, BelowMaxva
<1>3. b.mem = m.mem /\ b.sz = m.sz /\ b.pt = m.pt /\ b.ok = m.ok
  BY <1>1 DEF Mem
<1>4. PICK n1 \in Node : n1 = <<1, v \div (R * R)>>
  BY NodeType
<1>5. PICK n0 \in Node : n0 = <<0, v \div R>>
  BY NodeType
<1>6. PICK w1 : w1 = walk_level(b, n1)
  OBVIOUS
<1>7. PICK w : w = walk_level(w1, n0)
  OBVIOUS
<1>8. /\ w1 \in Mem /\ w1.mem = b.mem /\ w1.sz = b.sz /\ w1.panic = b.panic
      /\ w1.pt.leaf = b.pt.leaf /\ w1.pt.root = b.pt.root /\ (w1.ok => b.ok) /\ (~b.ok => w1 = b)
      /\ Sound(b) => Sound(w1) /\ acc(w1) = acc(b)
  BY <1>2, <1>6, WalkLevel
<1>9. /\ w \in Mem /\ w.mem = w1.mem /\ w.sz = w1.sz /\ w.panic = w1.panic
      /\ w.pt.leaf = w1.pt.leaf /\ w.pt.root = w1.pt.root /\ (w.ok => w1.ok) /\ (~w1.ok => w = w1)
      /\ Sound(w1) => Sound(w) /\ acc(w) = acc(w1)
  BY <1>7, <1>8, WalkLevel
<1>10. walk(m, v) = w
  BY <1>0, <1>4, <1>5, <1>6, <1>7 DEF walk
<1>11. Walked(m, v, w)
  BY <1>2, <1>3, <1>8, <1>9 DEF Walked
<1> QED BY <1>10, <1>11

\* What mappages() returns.
Mapping(m, v, pa, u, r) ==
  /\ r \in Mem /\ r.mem = m.mem /\ r.sz = m.sz /\ r.pt.root = m.pt.root
  /\ r.ok => m.ok
  /\ ~m.ok => r = m
  /\ ~r.ok => r.pt.leaf = m.pt.leaf
  /\ r.ok => /\ DOMAIN r.pt.leaf = DOMAIN m.pt.leaf \cup {v} /\ r.pt.leaf[v] = [pa |-> pa, u |-> u]
             /\ \A z \in DOMAIN m.pt.leaf \ {v} : r.pt.leaf[z] = m.pt.leaf[z]
  /\ Sound(m) /\ v <= TRAMPOLINE /\ v \notin DOMAIN m.pt.leaf /\ (v < TRAPFRAME => pa \in Page \ acc(m)) =>
       Sound(r) /\ acc(r) = IF r.ok /\ v < TRAPFRAME THEN acc(m) \cup {pa} ELSE acc(m)

\* mappages() adds one leaf, or none when walk() finds no page.
LEMMA Mappages ==
  ASSUME NEW m \in Mem, NEW v \in Nat, NEW pa \in Page \cup {0}, NEW u \in BOOLEAN
  PROVE  Mapping(m, v, pa, u, mappages(m, v, pa, u))
<1>0. PICK r : r = mappages(m, v, pa, u)
  OBVIOUS
<1> SUFFICES Mapping(m, v, pa, u, r)
  BY <1>0
<1> USE DEF Mapping
<1> DEFINE w == walk(m, v)
           l == [pa |-> pa, u |-> u]
<1>1. /\ w \in Mem /\ w.mem = m.mem /\ w.sz = m.sz
      /\ w.pt.leaf = m.pt.leaf /\ w.pt.root = m.pt.root /\ (w.ok => m.ok) /\ (~m.ok => w = m)
      /\ Sound(m) /\ v <= TRAMPOLINE => Sound(w) /\ acc(w) = acc(m)
  BY Walk DEF Walked
<1>2. r = mapped(w, v, pa, u)
  BY <1>0 DEF mappages
<1> HIDE DEF w
<1>3. CASE ~w.ok
  <2>1. r = w
    BY <1>2, <1>3 DEF mapped
  <2> QED BY <1>1, <1>2, <1>3, <2>1
<1>4. CASE w.ok
  <2>1. l \in Leaf
    BY DEF Leaf
  <2>2. w.pt \in Table /\ w.pt.leaf \in PFun(Nat, Leaf) /\ w.panic \in SUBSET Assertion
    BY <1>1, MemIs DEF Mem
  <2> DEFINE t2 == [w.pt EXCEPT !.leaf = with(@, v, l)]
             pn == IF v \notin DOMAIN w.pt.leaf THEN w.panic ELSE w.panic \cup {"mappages: remap"}
  <2>3. r = [w EXCEPT !.panic = pn, !.pt = t2]
    BY <1>1, <1>2, <1>4 DEF mapped, assert, Mem
  <2>4. v \notin DOMAIN w.pt.leaf => pn = w.panic
    OBVIOUS
  <2>5. pn \in SUBSET Assertion
    BY <2>2 DEF Assertion
  <2>6. with(w.pt.leaf, v, l) \in PFun(Nat, Leaf)
    BY <2>1, <2>2, WithType
  <2>7. t2 \in Table /\ t2.root = w.pt.root /\ t2.leaf = with(w.pt.leaf, v, l)
    BY <2>2, <2>6 DEF Table
  <2>8. /\ DOMAIN t2.leaf = DOMAIN w.pt.leaf \cup {v} /\ t2.leaf[v] = l
        /\ \A z \in DOMAIN w.pt.leaf \ {v} : t2.leaf[z] = w.pt.leaf[z]
    BY <2>7 DEF with
  <2>9. ASSUME Tidy(w.pt), v \notin DOMAIN w.pt.leaf, v < TRAPFRAME, pa \in Page, pa \notin tpages(w.pt)
        PROVE  Tidy(t2) /\ tpages(t2) = tpages(w.pt) \cup {pa}
    BY <2>2, <2>9, AddLeaf
  <2>10. ASSUME Tidy(w.pt), v \notin DOMAIN w.pt.leaf, ~(v < TRAPFRAME)
         PROVE  Tidy(t2) /\ tpages(t2) = tpages(w.pt)
    <3>1. v >= TRAPFRAME
      BY <2>10, Sizes
    <3> QED BY <2>2, <2>10, <3>1, AddTop
  <2> HIDE DEF t2, pn, l
  <2>11. r \in Mem /\ r.mem = w.mem /\ r.sz = w.sz /\ r.pt = t2 /\ r.panic = pn /\ r.free = w.free /\ r.ok = w.ok
    BY <1>1, <2>3, <2>5, <2>7 DEF Mem
  <2>12. ASSUME Sound(m), v <= TRAMPOLINE, v \notin DOMAIN m.pt.leaf, v < TRAPFRAME => pa \in Page \ acc(m)
         PROVE  Sound(r) /\ acc(r) = IF r.ok /\ v < TRAPFRAME THEN acc(m) \cup {pa} ELSE acc(m)
    <3>1. Sound(w) /\ acc(w) = acc(m) /\ v \notin DOMAIN w.pt.leaf /\ r.panic = {} /\ Tidy(w.pt)
      BY <1>1, <2>4, <2>11, <2>12 DEF Sound
    <3>2. CASE v < TRAPFRAME
      <4>1. pa \in Page /\ pa \notin tpages(w.pt) /\ pa \notin w.free
        BY <3>1, <3>2, <2>12 DEF acc
      <4>2. Tidy(t2) /\ tpages(t2) = tpages(w.pt) \cup {pa}
        BY <3>1, <3>2, <4>1, <2>9
      <4> QED BY <3>1, <3>2, <4>1, <4>2, <2>11, <1>4 DEF Sound, acc
    <3>3. CASE ~(v < TRAPFRAME)
      <4>1. Tidy(t2) /\ tpages(t2) = tpages(w.pt)
        BY <3>1, <3>3, <2>10
      <4> QED BY <3>1, <3>3, <4>1, <2>11, <1>4 DEF Sound, acc
    <3> QED BY <3>2, <3>3
  <2> QED BY <1>1, <1>2, <1>4, <2>7, <2>8, <2>11, <2>12 DEF l
<1> QED BY <1>3, <1>4

\* uvmunmap() that frees, of user pages; and that does not, of the others.
LEMMA Unmap ==
  ASSUME NEW m \in Mem, NEW vs, NEW b \in BOOLEAN
  PROVE  LET r == uvmunmap(m, vs, b) IN
         /\ r \in Mem /\ r.mem = m.mem /\ r.sz = m.sz /\ r.ok = m.ok
         /\ r.pt.root = m.pt.root /\ DOMAIN r.pt.leaf = DOMAIN m.pt.leaf \ vs
         /\ \A z \in DOMAIN m.pt.leaf \ vs : r.pt.leaf[z] = m.pt.leaf[z]
         /\ Sound(m) /\ vs \subseteq DOMAIN m.pt.leaf
            /\ ((b /\ \A v \in vs : v < TRAPFRAME) \/ (~b /\ \A v \in vs : ~(v < TRAPFRAME)))
            => Sound(r) /\ acc(r) = acc(m)
<1> DEFINE r == uvmunmap(m, vs, b)
           g == IF b THEN cut(m.pt, vs) ELSE {}
           t2 == [m.pt EXCEPT !.leaf = without(@, vs)]
           p1 == IF vs \subseteq DOMAIN m.pt.leaf THEN m.panic ELSE m.panic \cup {"uvmunmap: not mapped"}
           pn == IF g \subseteq Page THEN p1 ELSE p1 \cup {"kfree"}
<1>1. m.pt \in Table /\ m.pt.leaf \in PFun(Nat, Leaf) /\ m.panic \in SUBSET Assertion /\ m.free \subseteq Page
  BY MemIs DEF Mem
<1>2. r = [m EXCEPT !.panic = pn, !.free = @ \cup (g \cap Page), !.pt = t2]
  BY DEF uvmunmap, kfree, assert, cut, Mem
<1>3. pn \in SUBSET Assertion /\ (vs \subseteq DOMAIN m.pt.leaf /\ g \subseteq Page => pn = m.panic)
  BY <1>1 DEF Assertion
<1>4. cut(m.pt, vs) \subseteq Page \cup {0}
  <2>1. \A v \in DOMAIN m.pt.leaf : m.pt.leaf[v] \in Leaf
    BY <1>1, PFunIs
  <2>2. \A v \in DOMAIN m.pt.leaf : m.pt.leaf[v].pa \in Page \cup {0}
    BY <2>1 DEF Leaf
  <2> QED BY <2>2 DEF cut
<1>5. without(m.pt.leaf, vs) \in PFun(Nat, Leaf)
  BY <1>1, WithoutType
<1>6. t2 \in Table /\ t2.root = m.pt.root /\ t2.leaf = without(m.pt.leaf, vs)
  BY <1>1, <1>5 DEF Table
<1>7. DOMAIN t2.leaf = DOMAIN m.pt.leaf \ vs /\ \A z \in DOMAIN m.pt.leaf \ vs : t2.leaf[z] = m.pt.leaf[z]
  BY <1>6 DEF without
<1>8. 0 \notin g => g \subseteq Page
  BY <1>4
<1>9. Tidy(m.pt) => Tidy(t2)
  BY <1>1, CutLeaves
<1>10. ASSUME Tidy(m.pt), b, \A v \in vs : v < TRAPFRAME
       PROVE  tpages(t2) = tpages(m.pt) \ g /\ g \subseteq tpages(m.pt) /\ 0 \notin g
  BY <1>1, <1>10, CutLeaves
<1>11. ASSUME Tidy(m.pt), ~b, \A v \in vs : ~(v < TRAPFRAME)
       PROVE  tpages(t2) = tpages(m.pt) /\ g = {}
  BY <1>1, <1>11, CutLeaves
<1> HIDE DEF r, g, t2, pn
<1>12. /\ r \in Mem /\ r.mem = m.mem /\ r.sz = m.sz /\ r.ok = m.ok /\ r.pt = t2 /\ r.panic = pn
       /\ r.free = m.free \cup (g \cap Page)
  BY <1>1, <1>2, <1>3, <1>6, <1>8 DEF Mem
<1>13. ASSUME Sound(m), vs \subseteq DOMAIN m.pt.leaf, b, \A v \in vs : v < TRAPFRAME
       PROVE  Sound(r) /\ acc(r) = acc(m)
  <2>1. tpages(t2) = tpages(m.pt) \ g /\ g \subseteq tpages(m.pt) /\ 0 \notin g /\ Tidy(t2) /\ r.panic = {}
    BY <1>3, <1>8, <1>9, <1>10, <1>12, <1>13 DEF Sound
  <2> QED BY <2>1, <1>8, <1>12, <1>13 DEF Sound, acc
<1>14. ASSUME Sound(m), vs \subseteq DOMAIN m.pt.leaf, ~b, \A v \in vs : ~(v < TRAPFRAME)
       PROVE  Sound(r) /\ acc(r) = acc(m)
  <2>1. tpages(t2) = tpages(m.pt) /\ g = {} /\ Tidy(t2) /\ r.panic = {}
    BY <1>3, <1>9, <1>11, <1>12, <1>14 DEF Sound
  <2> QED BY <2>1, <1>12, <1>14 DEF Sound, acc
<1> QED BY <1>6, <1>7, <1>12, <1>13, <1>14 DEF r

\* kfree() of pages that the table does not have.
LEMMA Kfree ==
  ASSUME NEW m \in Mem, NEW S, S \ {0} \subseteq Page
  PROVE  LET r == kfree(m, S \ {0}) IN
         /\ r \in Mem /\ r.free = m.free \cup (S \ {0}) /\ r.mem = m.mem /\ r.sz = m.sz /\ r.ok = m.ok
         /\ r.pt = m.pt /\ r.panic = m.panic
         /\ Sound(m) /\ (S \ {0}) \cap tpages(m.pt) = {} => Sound(r) /\ acc(r) = acc(m) \cup (S \ {0})
<1> DEFINE r == kfree(m, S \ {0})
           g == m.free \cup (S \ {0})
<1>1. r = [m EXCEPT !.free = g]
  <2>1. (S \ {0}) \cap Page = S \ {0} /\ m = [m EXCEPT !.panic = m.panic]
    BY DEF Mem
  <2> QED BY <2>1 DEF kfree, assert
<1>2. g \in SUBSET Page
  BY MemIs
<1> HIDE DEF r, g
<1>3. /\ r \in Mem /\ r.free = g /\ r.mem = m.mem /\ r.sz = m.sz /\ r.ok = m.ok
      /\ r.pt = m.pt /\ r.panic = m.panic
  BY <1>1, <1>2 DEF Mem
<1>4. ASSUME Sound(m), (S \ {0}) \cap tpages(m.pt) = {}
      PROVE  Sound(r) /\ acc(r) = acc(m) \cup (S \ {0})
  BY <1>3, <1>4 DEF Sound, acc, g
<1> QED BY <1>3, <1>4 DEF r, g

\* uvmdealloc() gives back the pages from new to old, both in pages.
LEMMA Dealloc ==
  ASSUME NEW m \in Mem, NEW old \in Nat, NEW new \in Nat
  PROVE  LET r == uvmdealloc(m, old, new) IN
         /\ r \in Mem /\ r.mem = m.mem /\ r.sz = m.sz /\ r.ok = m.ok
         /\ r.pt.root = m.pt.root /\ DOMAIN r.pt.leaf = DOMAIN m.pt.leaf \ (new..(old - 1))
         /\ \A z \in DOMAIN m.pt.leaf \ (new..(old - 1)) : r.pt.leaf[z] = m.pt.leaf[z]
         /\ Sound(m) /\ new..(old - 1) \subseteq DOMAIN m.pt.leaf /\ old <= TRAPFRAME
            => Sound(r) /\ acc(r) = acc(m)
<1>1. CASE new < old
  <2>1. uvmdealloc(m, old, new) = uvmunmap(m, new..(old - 1), TRUE)
    BY <1>1 DEF uvmdealloc
  <2>2. old <= TRAPFRAME => \A v \in new..(old - 1) : v < TRAPFRAME
    BY Sizes
  <2> DEFINE vs == new..(old - 1)
             r == uvmunmap(m, vs, TRUE)
  <2> HIDE DEF vs
  <2>3. /\ r \in Mem /\ r.mem = m.mem /\ r.sz = m.sz /\ r.ok = m.ok
        /\ r.pt.root = m.pt.root /\ DOMAIN r.pt.leaf = DOMAIN m.pt.leaf \ vs
        /\ \A z \in DOMAIN m.pt.leaf \ vs : r.pt.leaf[z] = m.pt.leaf[z]
        /\ Sound(m) /\ vs \subseteq DOMAIN m.pt.leaf /\ (\A v \in vs : v < TRAPFRAME)
           => Sound(r) /\ acc(r) = acc(m)
    BY Unmap
  <2> HIDE DEF r
  <2> QED BY <2>1, <2>2, <2>3 DEF vs, r
<1>2. CASE ~(new < old)
  <2>1. uvmdealloc(m, old, new) = m
    BY <1>2 DEF uvmdealloc
  <2>2. new..(old - 1) = {}
    BY <1>2
  <2> QED BY <2>1, <2>2
<1> QED BY <1>1, <1>2

\* What newpage() returns: a page more, or all the new ones gone.
Growth(m, first, v, u, r) ==
  /\ r \in Mem /\ r.sz = m.sz /\ r.pt.root = m.pt.root
  /\ r.ok => m.ok
  /\ ~m.ok => r = m
  /\ m.ok /\ r.ok => /\ DOMAIN r.pt.leaf = DOMAIN m.pt.leaf \cup {v} /\ r.pt.leaf[v].u = u
                     /\ \A z \in DOMAIN m.pt.leaf \ {v} : r.pt.leaf[z] = m.pt.leaf[z]
  /\ m.ok /\ ~r.ok => /\ DOMAIN r.pt.leaf = DOMAIN m.pt.leaf \ (first..(v - 1))
                      /\ \A z \in DOMAIN m.pt.leaf \ (first..(v - 1)) : r.pt.leaf[z] = m.pt.leaf[z]
  /\ Sound(m) /\ v \notin DOMAIN m.pt.leaf /\ v < TRAPFRAME /\ first..(v - 1) \subseteq DOMAIN m.pt.leaf
     => Sound(r) /\ acc(r) = acc(m)

\* kalloc(), mappages() and what happens when one fails.
LEMMA Newpage ==
  ASSUME NEW m \in Mem, NEW first \in Nat, NEW v \in Nat, NEW u \in BOOLEAN
  PROVE  Growth(m, first, v, u, newpage(m, first, v, u))
<1> USE DEF Growth
<1> DEFINE k == kalloc(m)
           q == mappages(k, v, k.mem, u)
           q2 == kfree(q, {q.mem} \ {0})
           d == uvmdealloc(q2, v, first)
           r == newpage(m, first, v, u)
<1>1. CASE ~m.ok
  <2>1. r = m
    BY <1>1 DEF newpage
  <2> HIDE DEF r
  <2> QED BY <1>1, <2>1 DEF r
<1>2. CASE m.ok
  <2>0. r = IF q.ok THEN q ELSE d
    BY <1>2 DEF newpage, undone, mapmem
  <2>1. k \in Mem /\ k.pt = m.pt /\ k.sz = m.sz /\ k.panic = m.panic
    BY KallocType
  <2>2. ~k.ok => k.free = m.free /\ k.mem = 0
    BY <1>2, KallocType
  <2>3. k.ok => k.mem \in m.free /\ k.mem \in Page /\ k.free = m.free \ {k.mem}
    BY KallocType
  <2> HIDE DEF k
  <2>4. k.mem \in Page \cup {0} /\ m.free \subseteq Page /\ 0 \notin Page
    BY <2>1, MemIs, TableType
  <2>15. PICK pa \in Page \cup {0} : pa = k.mem /\ k \in Mem
    BY <2>1, <2>4
  <2>16. Mapping(k, v, k.mem, u, q)
    BY <2>15, Mappages
  <2> HIDE DEF q
  <2>5. /\ q \in Mem /\ q.mem = k.mem /\ q.sz = k.sz /\ q.pt.root = k.pt.root /\ (q.ok => k.ok) /\ (~k.ok => q = k)
        /\ ~q.ok => q.pt.leaf = k.pt.leaf
    BY <2>16 DEF Mapping
  <2>6. q.ok => /\ DOMAIN q.pt.leaf = DOMAIN k.pt.leaf \cup {v} /\ q.pt.leaf[v] = [pa |-> k.mem, u |-> u]
                /\ \A z \in DOMAIN k.pt.leaf \ {v} : q.pt.leaf[z] = k.pt.leaf[z]
    BY <2>16 DEF Mapping
  <2>7. Sound(k) /\ v <= TRAMPOLINE /\ v \notin DOMAIN k.pt.leaf /\ (v < TRAPFRAME => k.mem \in Page \ acc(k)) =>
          Sound(q) /\ acc(q) = IF q.ok /\ v < TRAPFRAME THEN acc(k) \cup {k.mem} ELSE acc(k)
    BY <2>16 DEF Mapping
  <2>8. {q.mem} \ {0} \subseteq Page
    BY <2>4, <2>5
  <2>9. /\ q2 \in Mem /\ q2.mem = q.mem /\ q2.sz = q.sz /\ q2.ok = q.ok /\ q2.pt = q.pt
        /\ Sound(q) /\ ({q.mem} \ {0}) \cap tpages(q.pt) = {} => Sound(q2) /\ acc(q2) = acc(q) \cup ({q.mem} \ {0})
    BY <2>5, <2>8, Kfree
  <2> HIDE DEF q2
  <2>10. /\ d \in Mem /\ d.sz = q2.sz /\ d.ok = q2.ok /\ d.pt.root = q2.pt.root
         /\ DOMAIN d.pt.leaf = DOMAIN q2.pt.leaf \ (first..(v - 1))
         /\ \A z \in DOMAIN q2.pt.leaf \ (first..(v - 1)) : d.pt.leaf[z] = q2.pt.leaf[z]
    BY <2>9, Dealloc
  <2>11. Sound(q2) /\ first..(v - 1) \subseteq DOMAIN q2.pt.leaf /\ v <= TRAPFRAME => Sound(d) /\ acc(d) = acc(q2)
    BY <2>9, Dealloc
  <2> HIDE DEF d, r
  <2>12. ASSUME Sound(m), v \notin DOMAIN m.pt.leaf, v < TRAPFRAME, first..(v - 1) \subseteq DOMAIN m.pt.leaf
         PROVE  Sound(r) /\ acc(r) = acc(m)
    <3>1. Sound(k)
      BY <2>1, <2>2, <2>3, <2>12 DEF Sound
    <3>2. v <= TRAPFRAME /\ v <= TRAMPOLINE
      BY <2>12, Sizes DEF TRAPFRAME
    <3>3. CASE ~k.ok
      <4>1. q = k /\ {q.mem} \ {0} = {}
        BY <3>3, <2>2, <2>5
      <4>2. Sound(q2) /\ acc(q2) = acc(m)
        BY <4>1, <3>1, <3>3, <2>1, <2>2, <2>9 DEF acc
      <4>3. Sound(d) /\ acc(d) = acc(m)
        BY <4>1, <4>2, <3>2, <2>1, <2>9, <2>11, <2>12
      <4> QED BY <4>1, <4>3, <3>3, <2>0
    <3>4. CASE k.ok
      <4>1. k.mem \in Page /\ k.mem \notin acc(k) /\ acc(k) \cup {k.mem} = acc(m)
        BY <3>4, <2>1, <2>3, <2>12 DEF acc, Sound
      <4>2. Sound(q) /\ acc(q) = IF q.ok THEN acc(k) \cup {k.mem} ELSE acc(k)
        BY <4>1, <3>1, <3>2, <2>1, <2>7, <2>12
      <4>3. CASE q.ok
        BY <4>1, <4>2, <4>3, <2>0
      <4>4. CASE ~q.ok
        <5>1. {q.mem} \ {0} = {k.mem} /\ k.mem \notin tpages(q.pt)
          BY <4>1, <4>2, <4>4, <2>4, <2>5 DEF acc
        <5>2. Sound(q2) /\ acc(q2) = acc(m)
          BY <5>1, <4>1, <4>2, <4>4, <2>9
        <5>3. Sound(d) /\ acc(d) = acc(m)
          BY <5>2, <4>4, <3>2, <2>1, <2>5, <2>9, <2>11, <2>12
        <5> QED BY <5>3, <4>4, <2>0
      <4> QED BY <4>3, <4>4
    <3> QED BY <3>3, <3>4
  <2>13. CASE q.ok
    <3>1. q.pt.leaf[v].u = u
      BY <2>6, <2>13
    <3> QED BY <1>2, <2>0, <2>1, <2>5, <2>6, <2>12, <2>13, <3>1 DEF r
  <2>14. CASE ~q.ok
    BY <1>2, <2>0, <2>1, <2>5, <2>9, <2>10, <2>12, <2>14 DEF r
  <2> QED BY <2>13, <2>14
<1> QED BY <1>1, <1>2

----------------------------------------------------------------------------
(* Sizes *)

\* PGROUNDUP() of a size in units is the least number of pages that hold it.
LEMMA RoundUp ==
  ASSUME NEW a \in Nat
  PROVE  /\ PGROUNDUP(a) \in Nat /\ a <= PGSIZE * PGROUNDUP(a) /\ PGSIZE * PGROUNDUP(a) < a + PGSIZE
<1>1. PGSIZE \in Nat \ {0}
  BY Sizes
<1>2. \A b \in Nat, d \in Nat \ {0} : /\ b \div d \in Nat /\ b % d \in 0..(d - 1)
                                      /\ b = (d * (b \div d)) + (b % d)
  OBVIOUS
<1>3. PICK b \in Nat : b = a + PGSIZE - 1
  BY <1>1
<1>4. PICK q \in Nat : q = b \div PGSIZE /\ b = (PGSIZE * q) + (b % PGSIZE)
  BY <1>1, <1>2
<1>5. b % PGSIZE \in 0..(PGSIZE - 1) /\ PGSIZE * q \in Nat
  BY <1>1, <1>2
<1>6. PGROUNDUP(a) = q
  BY <1>3, <1>4 DEF PGROUNDUP
<1> QED BY <1>1, <1>3, <1>4, <1>5, <1>6

\* The number of pages is what lies between the two bounds.
LEMMA RoundIs ==
  ASSUME NEW a \in Nat, NEW k \in Nat, a <= PGSIZE * k, PGSIZE * k < a + PGSIZE
  PROVE  PGROUNDUP(a) = k
<1>1. PICK j \in Nat : j = PGROUNDUP(a) /\ a <= PGSIZE * j /\ PGSIZE * j < a + PGSIZE
  BY RoundUp
<1>2. PGSIZE \in Nat \ {0}
  BY Sizes
<1>3. j > k => PGSIZE * j >= PGSIZE * k + PGSIZE
  BY <1>2
<1>4. j < k => PGSIZE * k >= PGSIZE * j + PGSIZE
  BY <1>2
<1> QED BY <1>1, <1>2, <1>3, <1>4

\* Larger sizes have no fewer pages.
LEMMA RoundMonotone ==
  ASSUME NEW a \in Nat, NEW b \in Nat, a <= b
  PROVE  PGROUNDUP(a) <= PGROUNDUP(b)
<1>1. PICK i \in Nat : i = PGROUNDUP(a) /\ PGSIZE * i < a + PGSIZE
  BY RoundUp
<1>2. PICK j \in Nat : j = PGROUNDUP(b) /\ b <= PGSIZE * j
  BY RoundUp
<1>3. PGSIZE \in Nat \ {0}
  BY Sizes
<1>4. i > j => PGSIZE * i >= PGSIZE * j + PGSIZE
  BY <1>3
<1> QED BY <1>1, <1>2, <1>3, <1>4

\* Whole pages stay as they are.
LEMMA RoundWhole == \A k \in Nat : PGROUNDUP(k * PGSIZE) = k /\ k * PGSIZE \in Nat
<1> SUFFICES ASSUME NEW k \in Nat PROVE PGROUNDUP(k * PGSIZE) = k /\ k * PGSIZE \in Nat
  OBVIOUS
<1>1. PGSIZE \in Nat \ {0} /\ k * PGSIZE \in Nat /\ PGSIZE * k = k * PGSIZE
  BY Sizes
<1> QED BY <1>1, RoundIs

\* No page for no size.
LEMMA RoundZero == PGROUNDUP(0) = 0
<1>1. PGSIZE \in Nat /\ PGSIZE * 0 = 0 /\ 0 < 0 + PGSIZE
  BY Sizes
<1> QED BY <1>1, RoundIs

----------------------------------------------------------------------------
(* Tables of a process *)

\* k user pages from 0 on, the trapframe tf and the trampoline.
Shape(t, k, tf) ==
  /\ k \in 0..NPAGE /\ DOMAIN t.leaf = 0..(k - 1) \cup {TRAPFRAME, TRAMPOLINE}
  /\ t.leaf[TRAPFRAME].pa = tf /\ t.root # 0

\* Every page is the user's: there is no guard page yet.
AllUser(t) == \A v \in uleaves(t) : t.leaf[v].u

\* The pages of memory.
LEMMA PageCount == IsFiniteSet(Page) /\ Cardinality(Page) = NPAGE
<1>1. NPAGE \in Int /\ 1 \in Int /\ NPAGE \in Nat
  BY Sizes
<1>2. IsFiniteSet(1..NPAGE) /\ Cardinality(1..NPAGE) = IF 1 > NPAGE THEN 0 ELSE NPAGE - 1 + 1
  BY <1>1, FS_Interval
<1> QED BY <1>1, <1>2 DEF Page

\* A table has no more user pages than there is memory.
LEMMA Fits ==
  ASSUME NEW t \in Table, Tidy(t), NEW k \in Nat, 0..(k - 1) \subseteq DOMAIN t.leaf, k <= TRAPFRAME
  PROVE  k <= NPAGE
<1>1. \A v \in 0..(k - 1) : v \in uleaves(t)
  BY Sizes DEF uleaves
<1>2. tpages(t) \subseteq Page
  BY TablePages
<1>3. \A v \in uleaves(t) : t.leaf[v].pa \in Page
  BY <1>2 DEF tpages, upages
<1> DEFINE f == [v \in 0..(k - 1) |-> t.leaf[v].pa]
<1>4. f \in [0..(k - 1) -> Page]
  BY <1>1, <1>3
<1>5. \A v, w \in 0..(k - 1) : f[v] = f[w] => v = w
  BY <1>1 DEF Tidy
<1>6. f \in Injection(0..(k - 1), Page)
  BY <1>4, <1>5 DEF Injection, IsInjective
<1> HIDE DEF f
<1>7. Cardinality(0..(k - 1)) <= Cardinality(Page)
  BY <1>6, PageCount, FS_Injection
<1>8. 0 \in Int /\ k - 1 \in Int
  OBVIOUS
<1>9. Cardinality(0..(k - 1)) = IF 0 > k - 1 THEN 0 ELSE k - 1 - 0 + 1
  BY <1>8, FS_Interval
<1> QED BY <1>7, <1>9, PageCount, Sizes

----------------------------------------------------------------------------
(* Growing *)

\* i pages from first on have been added to m, user pages if b; or none.
Grown(m, first, i, b, r) ==
  /\ Sound(r) /\ acc(r) = acc(m) /\ r.sz = m.sz /\ r.pt.root = m.pt.root
  /\ r.ok => /\ m.ok /\ first + i <= NPAGE
             /\ DOMAIN r.pt.leaf = DOMAIN m.pt.leaf \cup first..(first + i - 1)
             /\ \A z \in DOMAIN m.pt.leaf : r.pt.leaf[z] = m.pt.leaf[z]
             /\ b => \A z \in first..(first + i - 1) : r.pt.leaf[z].u
  /\ ~r.ok => r.pt.leaf = m.pt.leaf
  /\ ~m.ok => r = m

\* One page more.
LEMMA GrownStep ==
  ASSUME NEW m, Sound(m), NEW first \in 0..NPAGE, NEW tf, m.ok => Shape(m.pt, first, tf),
         NEW i \in Nat, NEW b \in BOOLEAN, NEW u \in BOOLEAN, NEW r, Grown(m, first, i, b, r), b => u
  PROVE  Grown(m, first, i + 1, b, newpage(r, first, first + i, u))
<1> DEFINE v == first + i
<1>1. m \in Mem /\ r \in Mem /\ first \in Nat /\ first <= NPAGE /\ v \in Nat
  BY Sizes DEF Sound, Grown
<1>2. PICK s : s = newpage(r, first, v, u) /\ Growth(r, first, v, u, s)
  BY <1>1, Newpage
<1> SUFFICES Grown(m, first, i + 1, b, s)
  BY <1>2
<1>3. CASE ~r.ok
  <2>1. s = r
    BY <1>2, <1>3 DEF Growth
  <2> QED BY <2>1, <1>3 DEF Grown
<1>4. CASE r.ok
  <2>1. /\ first + i <= NPAGE /\ m.ok
        /\ DOMAIN r.pt.leaf = DOMAIN m.pt.leaf \cup first..(first + i - 1)
        /\ \A z \in DOMAIN m.pt.leaf : r.pt.leaf[z] = m.pt.leaf[z]
        /\ b => \A z \in first..(first + i - 1) : r.pt.leaf[z].u
    BY <1>4 DEF Grown
  <2>2. DOMAIN m.pt.leaf = 0..(first - 1) \cup {TRAPFRAME, TRAMPOLINE}
    BY <2>1 DEF Shape
  <2>3. v < TRAPFRAME /\ v \notin DOMAIN r.pt.leaf /\ first..(v - 1) \subseteq DOMAIN r.pt.leaf
    BY <1>1, <2>1, <2>2, Sizes
  <2>4. Sound(s) /\ acc(s) = acc(m) /\ s.sz = m.sz /\ s.pt.root = m.pt.root
    BY <1>2, <2>3 DEF Growth, Grown
  <2>5. CASE s.ok
    <3>1. DOMAIN s.pt.leaf = DOMAIN r.pt.leaf \cup {v} /\ s.pt.leaf[v].u = u
      BY <1>2, <1>4, <2>5 DEF Growth
    <3>2. \A z \in DOMAIN r.pt.leaf : s.pt.leaf[z] = r.pt.leaf[z]
      BY <1>2, <1>4, <2>3, <2>5 DEF Growth
    <3>3. DOMAIN s.pt.leaf = DOMAIN m.pt.leaf \cup first..(first + (i + 1) - 1)
      BY <1>1, <2>1, <3>1
    <3>4. \A z \in DOMAIN m.pt.leaf : s.pt.leaf[z] = m.pt.leaf[z]
      BY <2>1, <3>2
    <3>5. ASSUME b, NEW z \in first..(first + (i + 1) - 1) PROVE s.pt.leaf[z].u
      <4>1. CASE z = v
        BY <3>1, <3>5, <4>1
      <4>2. CASE z # v
        <5>1. z \in first..(first + i - 1)
          BY <1>1, <4>2
        <5> QED BY <5>1, <2>1, <3>2, <3>5
      <4> QED BY <4>1, <4>2
    <3>6. first + (i + 1) <= NPAGE
      <4>1. 0..((v + 1) - 1) \subseteq DOMAIN s.pt.leaf /\ v + 1 <= TRAPFRAME /\ v + 1 \in Nat
        BY <1>1, <2>2, <2>3, <3>3, Sizes
      <4>2. s.pt \in Table /\ Tidy(s.pt)
        BY <2>4, MemIs DEF Sound
      <4>3. v + 1 <= NPAGE
        BY <4>1, <4>2, Fits
      <4> QED BY <4>3, <1>1
    <3> QED BY <2>1, <2>4, <2>5, <3>3, <3>4, <3>5, <3>6 DEF Grown
  <2>6. CASE ~s.ok
    <3>1. DOMAIN s.pt.leaf = DOMAIN r.pt.leaf \ (first..(v - 1))
      BY <1>2, <1>4, <2>6 DEF Growth
    <3>2. \A z \in DOMAIN r.pt.leaf \ (first..(v - 1)) : s.pt.leaf[z] = r.pt.leaf[z]
      BY <1>2, <1>4, <2>6 DEF Growth
    <3>3. DOMAIN s.pt.leaf = DOMAIN m.pt.leaf
      BY <1>1, <2>1, <2>2, <3>1, Sizes
    <3>4. \A z \in DOMAIN m.pt.leaf : s.pt.leaf[z] = m.pt.leaf[z]
      BY <2>1, <3>1, <3>2, <3>3
    <3>5. s.pt.leaf \in PFun(Nat, Leaf) /\ m.pt.leaf \in PFun(Nat, Leaf)
      BY <1>1, <2>4, MemIs DEF Sound
    <3>6. s.pt.leaf = m.pt.leaf
      BY <3>3, <3>4, <3>5, PFunEqual
    <3> QED BY <2>1, <2>4, <2>6, <3>6 DEF Grown
  <2> QED BY <2>5, <2>6
<1> QED BY <1>3, <1>4

\* The loop of uvmalloc().
LEMMA Newpages ==
  ASSUME NEW m, Sound(m), NEW first, NEW tf, Shape(m.pt, first, tf), m.ok, NEW n \in Nat
  PROVE  Grown(m, first, n, TRUE, newpages(m, first, n))
<1>1. m \in Mem /\ first \in Nat /\ first <= NPAGE
  BY Sizes DEF Sound, Shape
<1> DEFINE Rec(h) == h = [i \in 0..n |-> IF i = 0 THEN m ELSE newpage(h[i - 1], first, first + i - 1, TRUE)]
           f == [i \in 1..n |-> [x \in Mem |-> newpage(x, first, first + i - 1, TRUE)]]
<1>2. f \in [1..n -> [Mem -> Mem]]
  <2>1. ASSUME NEW i \in 1..n, NEW x \in Mem PROVE newpage(x, first, first + i - 1, TRUE) \in Mem
    <3>1. first + i - 1 \in Nat
      BY <1>1
    <3>2. Growth(x, first, first + i - 1, TRUE, newpage(x, first, first + i - 1, TRUE))
      BY <1>1, <3>1, Newpage
    <3> QED BY <3>2 DEF Growth
  <2> QED BY <2>1
<1>3. PICK g \in [0..n -> Mem] : g[0] = m /\ \A i \in 1..n : g[i] = f[i][g[i - 1]]
  <2> HIDE DEF f
  <2>1. Iterated(n, Mem, m, f)
    BY <1>1, <1>2, Iterates
  <2> QED BY <2>1 DEF Iterated
<1>4. Rec(g)
  <2>1. ASSUME NEW i \in 0..n, i # 0 PROVE g[i] = newpage(g[i - 1], first, first + i - 1, TRUE)
    <3>1. i \in 1..n /\ g[i - 1] \in Mem
      BY <2>1
    <3>2. g[i] = f[i][g[i - 1]]
      BY <3>1, <1>3
    <3> QED BY <3>1, <3>2
  <2> QED BY <1>3, <2>1
<1>5. PICK h : Rec(h) /\ newpages(m, first, n) = h[n]
  <2>1. Rec(CHOOSE h : Rec(h))
    BY <1>4
  <2>2. newpages(m, first, n) = (CHOOSE h : Rec(h))[n]
    BY DEF newpages
  <2> HIDE DEF Rec
  <2> QED BY <2>1, <2>2
<1>6. h[0] = m /\ \A i \in 1..n : h[i] = newpage(h[i - 1], first, first + (i - 1), TRUE)
  <2>1. h[0] = m
    BY <1>5
  <2>2. ASSUME NEW i \in 1..n PROVE h[i] = newpage(h[i - 1], first, first + (i - 1), TRUE)
    <3>1. i \in 0..n /\ i # 0 /\ first + i - 1 = first + (i - 1)
      BY <1>1
    <3>2. h[i] = newpage(h[i - 1], first, first + i - 1, TRUE)
      BY <1>5, <3>1
    <3> QED BY <3>1, <3>2
  <2> QED BY <2>1, <2>2
<1> HIDE DEF Rec, f
<1> DEFINE G(i) == Grown(m, first, i, TRUE, h[i])
           T == {i \in Nat : i <= n => G(i)}
<1>7. G(0)
  <2>1. first..(first + 0 - 1) = {} /\ first + 0 <= NPAGE
    BY <1>1
  <2>2. Grown(m, first, 0, TRUE, m)
    BY <2>1 DEF Grown
  <2> QED BY <1>6, <2>2
<1>8. ASSUME NEW i \in Nat, i + 1 <= n, G(i) PROVE G(i + 1)
  <2>1. Grown(m, first, i + 1, TRUE, newpage(h[i], first, first + i, TRUE))
    <3>1. first \in 0..NPAGE
      BY DEF Shape
    <3> QED BY <3>1, <1>8, GrownStep
  <2>2. i + 1 \in 1..n /\ (i + 1) - 1 = i
    BY <1>8
  <2> QED BY <2>1, <2>2, <1>6
<1> HIDE DEF G
<1>9. T \in SUBSET Nat /\ 0 \in T /\ \A i \in T : i + 1 \in T
  BY <1>7, <1>8
<1>10. T = Nat
  <2> HIDE DEF T
  <2> QED BY <1>9, NatUp
<1>11. G(n)
  BY <1>10
<1> QED BY <1>5, <1>11 DEF G

\* What uvmalloc() returns, the trapframe being tf: a larger size, or what was.
Alloced(m, new, tf, r) ==
  /\ Sound(r) /\ acc(r) = acc(m) /\ Shape(r.pt, PGROUNDUP(r.sz), tf)
  /\ r.ok => m.ok /\ new <= r.sz /\ m.sz <= r.sz /\ r.sz \in {new, m.sz} /\ (AllUser(m.pt) => AllUser(r.pt))
  /\ ~r.ok => r.sz = m.sz /\ r.pt.leaf = m.pt.leaf

\* uvmalloc() is all or nothing.
LEMMA Uvmalloc ==
  ASSUME NEW m, Sound(m), NEW tf, Shape(m.pt, PGROUNDUP(m.sz), tf), NEW new \in Nat
  PROVE  Alloced(m, new, tf, uvmalloc(m, new))
<1>1. m \in Mem /\ m.sz \in Nat /\ m.ok \in BOOLEAN
  BY MemIs DEF Sound
<1>2. CASE ~m.ok \/ new < m.sz
  <2>1. uvmalloc(m, new) = m
    BY <1>2 DEF uvmalloc
  <2>2. m.ok => new <= m.sz
    BY <1>1, <1>2
  <2> QED BY <1>1, <2>1, <2>2 DEF Alloced
<1>3. CASE m.ok /\ ~(new < m.sz)
  <2> DEFINE a == PGROUNDUP(m.sz)
             b == PGROUNDUP(new)
  <2>1. a \in Nat /\ b \in Nat /\ a <= b /\ m.sz <= new
    BY <1>1, <1>3, RoundUp, RoundMonotone
  <2>2. PICK n \in Nat : n = b - a
    BY <2>1
  <2>3. PICK s : s = newpages(m, a, n) /\ Grown(m, a, n, TRUE, s)
    BY <1>3, <2>2, Newpages
  <2>4. PICK r : r = uvmalloc(m, new) /\ r = resized(s, new)
    BY <1>3, <2>2, <2>3 DEF uvmalloc
  <2>5. s \in Mem /\ Sound(s) /\ acc(s) = acc(m) /\ s.sz = m.sz /\ s.pt.root = m.pt.root
    BY <2>3 DEF Grown, Sound
  <2>6. CASE ~s.ok
    <3>1. r = s
      BY <2>4, <2>6 DEF resized
    <3>2. s.pt.leaf = m.pt.leaf
      BY <2>3, <2>6 DEF Grown
    <3>3. Shape(s.pt, PGROUNDUP(s.sz), tf)
      BY <2>5, <3>2 DEF Shape
    <3> QED BY <2>4, <2>5, <2>6, <3>1, <3>2, <3>3 DEF Alloced
  <2>7. CASE s.ok
    <3>1. r = [s EXCEPT !.sz = new, !.ok = (new # 0)]
      BY <2>4, <2>7 DEF resized
    <3>2. /\ r \in Mem /\ r.sz = new /\ r.ok = (new # 0) /\ r.pt = s.pt /\ r.free = s.free /\ r.panic = s.panic
      BY <2>5, <3>1 DEF Mem
    <3>3. Sound(r) /\ acc(r) = acc(m)
      BY <2>5, <3>2 DEF Sound, acc
    <3>4. /\ a + n <= NPAGE /\ DOMAIN s.pt.leaf = DOMAIN m.pt.leaf \cup a..(a + n - 1)
          /\ \A z \in DOMAIN m.pt.leaf : s.pt.leaf[z] = m.pt.leaf[z]
          /\ \A z \in a..(a + n - 1) : s.pt.leaf[z].u
      BY <2>3, <2>7 DEF Grown
    <3>5. DOMAIN m.pt.leaf = 0..(a - 1) \cup {TRAPFRAME, TRAMPOLINE} /\ m.pt.leaf[TRAPFRAME].pa = tf /\ m.pt.root # 0
      BY DEF Shape
    <3>6. a + n = b
      BY <2>1, <2>2
    <3> HIDE DEF a, b
    <3>7. Shape(r.pt, b, tf)
      <4>1. 0..(a - 1) \cup a..(b - 1) = 0..(b - 1) /\ b \in 0..NPAGE
        BY <2>1, <3>4, <3>6, Sizes
      <4>2. DOMAIN r.pt.leaf = 0..(b - 1) \cup {TRAPFRAME, TRAMPOLINE}
        <5>1. a..(a + n - 1) = a..(b - 1)
          BY <2>1, <3>6
        <5>2. DOMAIN r.pt.leaf = (0..(a - 1) \cup {TRAPFRAME, TRAMPOLINE}) \cup a..(b - 1)
          BY <3>2, <3>4, <3>5, <5>1
        <5> QED BY <4>1, <5>2, Zenon
      <4>3. r.pt.leaf[TRAPFRAME].pa = tf /\ r.pt.root # 0
        BY <2>5, <3>2, <3>4, <3>5
      <4> QED BY <4>1, <4>2, <4>3 DEF Shape
    <3>8. ASSUME AllUser(m.pt) PROVE AllUser(r.pt)
      <4>1. \A v \in uleaves(r.pt) : v \in uleaves(m.pt) \/ v \in a..(a + n - 1)
        BY <3>2, <3>4 DEF uleaves
      <4>2. \A v \in uleaves(m.pt) : r.pt.leaf[v] = m.pt.leaf[v]
        BY <3>2, <3>4 DEF uleaves
      <4> QED BY <3>2, <3>4, <3>8, <4>1, <4>2 DEF AllUser
    <3>9. CASE new # 0
      <4>1. r.ok
        BY <3>2, <3>9
      <4> QED BY <1>3, <2>1, <2>4, <3>2, <3>3, <3>7, <3>8, <4>1 DEF Alloced, b
    <3>10. CASE new = 0
      <4>1. ~r.ok /\ m.sz = 0
        <5>1. m.sz = 0
          BY <1>1, <2>1, <3>10
        <5>2. ~r.ok
          BY <3>2, <3>10
        <5> QED BY <5>1, <5>2
      <4>2. n = 0 /\ a..(a + n - 1) = {}
        BY <2>1, <2>2, <3>10, <4>1 DEF a, b
      <4>3. r.pt.leaf = m.pt.leaf
        <5>1. DOMAIN r.pt.leaf = DOMAIN m.pt.leaf
          BY <3>2, <3>4, <4>2
        <5>2. r.pt.leaf \in PFun(Nat, Leaf) /\ m.pt.leaf \in PFun(Nat, Leaf)
          BY <1>1, <3>2, MemIs
        <5> QED BY <3>2, <3>4, <5>1, <5>2, PFunEqual
      <4> QED BY <2>4, <3>2, <3>3, <3>7, <3>10, <4>1, <4>3 DEF Alloced, b
    <3> QED BY <3>9, <3>10
  <2> QED BY <2>6, <2>7
<1> QED BY <1>1, <1>2, <1>3

\* A page that is there passes the assertion of uvmcopy().
LEMMA Present ==
  ASSUME NEW m \in Mem, NEW t, NEW v, v \in DOMAIN t.leaf
  PROVE  present(m, t, v) = m
<1>1. present(m, t, v) = [m EXCEPT !.panic = m.panic]
  BY DEF present, assert
<1> QED BY <1>1 DEF Mem

\* uvmcopy() of a table that has all its pages.
LEMMA Uvmcopy ==
  ASSUME NEW m, Sound(m), NEW tf, m.ok => Shape(m.pt, 0, tf),
         NEW old \in Table, NEW sz \in Nat, NEW tf0, Shape(old, PGROUNDUP(sz), tf0)
  PROVE  Grown(m, 0, PGROUNDUP(sz), FALSE, uvmcopy(m, old, sz))
<1> DEFINE n == PGROUNDUP(sz)
<1>1. m \in Mem /\ n \in Nat /\ 0 \in 0..NPAGE
  BY RoundUp, Sizes DEF Sound
<1>2. \A i \in 1..n : i - 1 \in DOMAIN old.leaf /\ old.leaf[i - 1].u \in BOOLEAN /\ i - 1 \in Nat
  <2>1. \A v \in DOMAIN old.leaf : old.leaf[v] \in Leaf
    BY PFunIs DEF Table
  <2>2. \A v \in DOMAIN old.leaf : old.leaf[v].u \in BOOLEAN
    BY <2>1 DEF Leaf
  <2>3. \A i \in 1..n : i - 1 \in DOMAIN old.leaf /\ i - 1 \in Nat
    BY <1>1 DEF Shape
  <2> QED BY <2>2, <2>3
<1> DEFINE Rec(h) == h = [i \in 0..n |-> IF i = 0 THEN m
                                         ELSE newpage(present(h[i - 1], old, i - 1), 0, i - 1, old.leaf[i - 1].u)]
           f == [i \in 1..n |-> [x \in Mem |-> newpage(present(x, old, i - 1), 0, i - 1, old.leaf[i - 1].u)]]
<1>3. f \in [1..n -> [Mem -> Mem]]
  <2>1. ASSUME NEW i \in 1..n, NEW x \in Mem
        PROVE  newpage(present(x, old, i - 1), 0, i - 1, old.leaf[i - 1].u) \in Mem
    <3>1. present(x, old, i - 1) = x
      BY <1>2, Present
    <3>2. Growth(x, 0, i - 1, old.leaf[i - 1].u, newpage(x, 0, i - 1, old.leaf[i - 1].u))
      BY <1>2, Newpage
    <3> QED BY <3>1, <3>2 DEF Growth
  <2> QED BY <2>1
<1>4. PICK g \in [0..n -> Mem] : g[0] = m /\ \A i \in 1..n : g[i] = f[i][g[i - 1]]
  <2> HIDE DEF f, n
  <2>1. Iterated(n, Mem, m, f)
    BY <1>1, <1>3, Iterates
  <2> QED BY <2>1 DEF Iterated
<1>5. Rec(g)
  <2>1. ASSUME NEW i \in 0..n, i # 0
        PROVE  g[i] = newpage(present(g[i - 1], old, i - 1), 0, i - 1, old.leaf[i - 1].u)
    <3> HIDE DEF n
    <3>1. i \in 1..n /\ g[i - 1] \in Mem
      BY <1>1, <2>1
    <3>2. g[i] = f[i][g[i - 1]]
      BY <3>1, <1>4
    <3> QED BY <3>1, <3>2
  <2> QED BY <1>4, <2>1
<1>6. PICK h : Rec(h) /\ uvmcopy(m, old, sz) = h[n]
  <2>1. Rec(CHOOSE h : Rec(h))
    BY <1>5
  <2>2. uvmcopy(m, old, sz) = (CHOOSE h : Rec(h))[n]
    BY DEF uvmcopy
  <2> HIDE DEF Rec
  <2> QED BY <2>1, <2>2
<1> HIDE DEF n
<1>7. h[0] = m /\ \A i \in 1..n : h[i] = newpage(present(h[i - 1], old, i - 1), 0, i - 1, old.leaf[i - 1].u)
  BY <1>1, <1>6
<1> HIDE DEF Rec, f
<1> DEFINE G(i) == Grown(m, 0, i, FALSE, h[i])
           T == {i \in Nat : i <= n => G(i)}
<1>8. G(0)
  <2>1. 0..(0 + 0 - 1) = {} /\ 0 + 0 <= NPAGE
    BY Sizes
  <2>2. Grown(m, 0, 0, FALSE, m)
    BY <2>1 DEF Grown
  <2> QED BY <1>7, <2>2
<1>9. ASSUME NEW i \in Nat, i + 1 <= n, G(i) PROVE G(i + 1)
  <2>1. i + 1 \in 1..n /\ (i + 1) - 1 = i /\ 0 + i = i
    BY <1>1, <1>9
  <2>2. i \in DOMAIN old.leaf /\ old.leaf[i].u \in BOOLEAN
    BY <2>1, <1>2
  <2>3. h[i] \in Mem
    BY <1>9 DEF Grown, Sound
  <2>4. present(h[i], old, i) = h[i]
    BY <2>2, <2>3, Present
  <2>5. Grown(m, 0, i + 1, FALSE, newpage(h[i], 0, 0 + i, old.leaf[i].u))
    BY <1>1, <1>9, <2>2, GrownStep
  <2> QED BY <2>1, <2>4, <2>5, <1>7
<1> HIDE DEF G
<1>10. T \in SUBSET Nat /\ 0 \in T /\ \A i \in T : i + 1 \in T
  BY <1>1, <1>8, <1>9
<1>11. T = Nat
  <2> HIDE DEF T
  <2> QED BY <1>10, NatUp
<1>12. G(n)
  BY <1>1, <1>11
<1> QED BY <1>6, <1>12 DEF G, n

----------------------------------------------------------------------------
(* Freeing *)

\* The pages of the table are on the free list.
Emptied(m, r) ==
  Sound(r) /\ r.pt = NoTable /\ acc(r) = acc(m) /\ r.free = acc(m) /\ r.ok = m.ok /\ r.sz = m.sz /\ r.panic = {}

\* freewalk() of a table without leaves.
LEMMA Freewalk ==
  ASSUME NEW m, Sound(m), m.pt.root # 0, DOMAIN m.pt.leaf = {}
  PROVE  Emptied(m, freewalk(m))
<1>1. m \in Mem /\ m.pt \in Table /\ m.panic = {} /\ m.free \subseteq Page /\ Tidy(m.pt)
  BY MemIs DEF Sound
<1>2. m.pt.leaf = <<>>
  BY <1>1, MemIs, EmptyIs
<1> DEFINE S == {m.pt.root} \cup npages(m.pt)
<1>3. S = tpages(m.pt) /\ S \subseteq Page
  <2>1. upages(m.pt) = {}
    BY DEF upages, uleaves
  <2>2. 0 \notin npages(m.pt)
    <3>1. \A n \in DOMAIN m.pt.node : m.pt.node[n] \in Page
      BY <1>1, MemIs, PFunIs
    <3> QED BY <3>1, TableType DEF npages
  <2>3. tpages(m.pt) \subseteq Page
    BY <1>1, TablePages
  <2> QED BY <2>1, <2>2, <2>3 DEF tpages
<1> DEFINE r == freewalk(m)
<1>4. r = [m EXCEPT !.panic = m.panic, !.free = m.free \cup S, !.pt = NoTable]
  <2>1. S \cap Page = S
    BY <1>3
  <2> QED BY <1>1, <1>2, <1>3, <2>1 DEF freewalk, kfree, assert, npages, Mem
<1>5. tpages(m.pt) \subseteq Page
  BY <1>1, TablePages
<1> HIDE DEF r, S
<1>6. /\ r \in Mem /\ r.free = m.free \cup tpages(m.pt) /\ r.pt = NoTable /\ r.ok = m.ok /\ r.sz = m.sz
      /\ r.panic = {}
  BY <1>1, <1>3, <1>4, <1>5, TableType DEF Mem
<1>7. Emptied(m, r)
  BY <1>6, NoTableTidy DEF Emptied, Sound, acc
<1> QED BY <1>7 DEF r

\* What uvmunmap() returns.
Unmapped(m, vs, r) ==
  /\ Sound(r) /\ acc(r) = acc(m) /\ r.sz = m.sz /\ r.ok = m.ok /\ r.pt.root = m.pt.root
  /\ DOMAIN r.pt.leaf = DOMAIN m.pt.leaf \ vs
  /\ \A z \in DOMAIN m.pt.leaf \ vs : r.pt.leaf[z] = m.pt.leaf[z]

\* uvmunmap() of user pages, which are freed.
LEMMA UnmapUser ==
  ASSUME NEW m, Sound(m), NEW vs, vs \subseteq DOMAIN m.pt.leaf, \A v \in vs : v < TRAPFRAME
  PROVE  Unmapped(m, vs, uvmunmap(m, vs, TRUE))
<1>1. m \in Mem
  BY DEF Sound
<1> QED BY <1>1, Unmap DEF Unmapped

\* uvmunmap() of the others, which are not.
LEMMA UnmapTop ==
  ASSUME NEW m, Sound(m), NEW vs, vs \subseteq DOMAIN m.pt.leaf, \A v \in vs : ~(v < TRAPFRAME)
  PROVE  Unmapped(m, vs, uvmunmap(m, vs, FALSE))
<1>1. m \in Mem
  BY DEF Sound
<1> QED BY <1>1, Unmap DEF Unmapped

\* uvmfree() of a table whose leaves are the pages of sz.
LEMMA Uvmfree ==
  ASSUME NEW m, Sound(m), m.pt.root # 0, NEW sz \in Nat, PGROUNDUP(sz) <= NPAGE, DOMAIN m.pt.leaf = 0..(PGROUNDUP(sz) - 1)
  PROVE  Emptied(m, uvmfree(m, sz))
<1> DEFINE vs == 0..(PGROUNDUP(sz) - 1)
           k == uvmunmap(m, vs, TRUE)
<1>1. \A v \in vs : v < TRAPFRAME
  <2>1. PICK n \in Nat : n = PGROUNDUP(sz)
    BY RoundUp
  <2> QED BY <2>1, Sizes
<1>2. uvmfree(m, sz) = freewalk(k)
  BY DEF uvmfree
<1> HIDE DEF vs
<1>3. Unmapped(m, vs, k)
  BY <1>1, UnmapUser DEF vs
<1> HIDE DEF k
<1>4. Sound(k) /\ k.pt.root # 0 /\ DOMAIN k.pt.leaf = {} /\ acc(k) = acc(m) /\ k.ok = m.ok /\ k.sz = m.sz
  BY <1>3 DEF Unmapped, vs
<1>5. Emptied(k, freewalk(k))
  BY <1>4, Freewalk
<1> QED BY <1>2, <1>4, <1>5 DEF Emptied

\* proc_freepagetable() of the table of a process.
LEMMA FreePagetable ==
  ASSUME NEW m, Sound(m), NEW sz \in Nat, NEW tf, Shape(m.pt, PGROUNDUP(sz), tf)
  PROVE  Emptied(m, proc_freepagetable(m, sz))
<1> DEFINE vs == {TRAMPOLINE, TRAPFRAME}
           k == uvmunmap(m, vs, FALSE)
<1>1. proc_freepagetable(m, sz) = uvmfree(k, sz)
  BY DEF proc_freepagetable
<1>2. vs \subseteq DOMAIN m.pt.leaf /\ \A v \in vs : ~(v < TRAPFRAME)
  BY Sizes DEF Shape
<1> HIDE DEF vs
<1>3. Unmapped(m, vs, k)
  BY <1>2, UnmapTop
<1> HIDE DEF k
<1>4. /\ Sound(k) /\ DOMAIN k.pt.leaf = DOMAIN m.pt.leaf \ vs /\ acc(k) = acc(m) /\ k.ok = m.ok /\ k.sz = m.sz
      /\ k.pt.root # 0
  BY <1>3 DEF Unmapped, Shape
<1>5. PGROUNDUP(sz) \in Nat /\ PGROUNDUP(sz) <= NPAGE
  BY RoundUp, Sizes DEF Shape
<1>6. DOMAIN k.pt.leaf = 0..(PGROUNDUP(sz) - 1)
  BY <1>4, <1>5, Sizes DEF Shape, vs
<1>7. Emptied(k, uvmfree(k, sz))
  BY <1>4, <1>5, <1>6, Uvmfree
<1> QED BY <1>1, <1>4, <1>7 DEF Emptied

----------------------------------------------------------------------------
(* A new table *)

\* The table that exec() or allocproc() works on: pages K are accounted for, and
\* either there is no table or it has the pages of its size.
Held(K, tf, r) ==
  /\ Sound(r) /\ acc(r) = K
  /\ r.pt = NoTable => ~r.ok /\ r.sz = 0
  /\ r.pt # NoTable => Shape(r.pt, PGROUNDUP(r.sz), tf)
Built(K, tf, r) == Held(K, tf, r) /\ (r.ok => AllUser(r.pt))

\* A root page makes a table.
LEMMA RootTable ==
  ASSUME NEW g \in Page, NEW t, t = [NoTable EXCEPT !.root = g]
  PROVE  /\ t \in Table /\ Tidy(t) /\ tpages(t) = {g} /\ t.root = g /\ t.root # 0 /\ t # NoTable
         /\ DOMAIN t.leaf = {} /\ DOMAIN t.node = {}
<1>1. t \in Table /\ t.root = g /\ t.node = NoTable.node /\ t.leaf = NoTable.leaf
  BY TableType DEF Table
<1>2. DOMAIN t.leaf = {} /\ DOMAIN t.node = {} /\ g # 0 /\ t # NoTable
  BY <1>1, TableType, EmptyIs
<1> QED BY <1>1, <1>2 DEF Tidy, tpages, npages, upages, uleaves

\* uvmcreate().
LEMMA Uvmcreate ==
  ASSUME NEW m, Sound(m), m.pt = NoTable, NEW c, c = uvmcreate(kalloc(m))
  PROVE  /\ Sound(c) /\ acc(c) = acc(m) /\ c.sz = m.sz /\ DOMAIN c.pt.leaf = {}
         /\ c.ok => m.ok /\ c.pt.root # 0
         /\ ~c.ok => c.pt = NoTable
<1> DEFINE k == kalloc(m)
<1>1. m \in Mem /\ m.panic = {}
  BY DEF Sound
<1>2. k \in Mem /\ k.pt = m.pt /\ k.sz = m.sz /\ k.panic = m.panic
  BY <1>1, KallocType
<1>3. k.ok => m.ok /\ k.mem \in m.free /\ k.mem \in Page /\ k.free = m.free \ {k.mem}
  BY <1>1, KallocType
<1>4. ~k.ok => k.free = m.free
  BY <1>1, KallocType
<1>5. c = uvmcreate(k)
  OBVIOUS
<1> HIDE DEF k
<1>6. CASE ~k.ok
  <2>1. c = k
    BY <1>5, <1>6 DEF uvmcreate
  <2>2. DOMAIN NoTable.leaf = {}
    BY TableType, EmptyIs
  <2> QED BY <1>2, <1>4, <1>6, <2>1, <2>2 DEF Sound, acc
<1>7. CASE k.ok
  <2> DEFINE t == [NoTable EXCEPT !.root = k.mem]
  <2>1. c = [k EXCEPT !.pt = t]
    BY <1>5, <1>7 DEF uvmcreate
  <2>2. /\ t \in Table /\ Tidy(t) /\ tpages(t) = {k.mem} /\ t.root # 0 /\ DOMAIN t.leaf = {}
    BY <1>3, <1>7, RootTable
  <2> HIDE DEF t
  <2>3. c \in Mem /\ c.pt = t /\ c.sz = k.sz /\ c.ok = k.ok /\ c.free = k.free /\ c.panic = k.panic
    BY <1>2, <2>1, <2>2 DEF Mem
  <2>4. acc(m) = m.free
    BY NoTableTidy DEF acc
  <2>5. Sound(c) /\ acc(c) = acc(m)
    BY <1>1, <1>2, <1>3, <1>7, <2>2, <2>3, <2>4 DEF Sound, acc
  <2> QED BY <1>2, <1>3, <1>7, <2>2, <2>3, <2>5
<1> QED BY <1>6, <1>7

\* What mappages() of the trampoline or the trapframe returns.
TopMapped(m, v, pa, r) ==
  /\ Sound(r) /\ acc(r) = acc(m) /\ r.sz = m.sz /\ r.pt.root = m.pt.root
  /\ r.ok => m.ok /\ DOMAIN r.pt.leaf = DOMAIN m.pt.leaf \cup {v} /\ r.pt.leaf[v].pa = pa
  /\ ~r.ok => r.pt.leaf = m.pt.leaf
  /\ ~m.ok => r = m

\* Mapping the trampoline or the trapframe.
LEMMA MapTop ==
  ASSUME NEW m, Sound(m), NEW v \in Nat, v >= TRAPFRAME, v <= TRAMPOLINE, v \notin DOMAIN m.pt.leaf, NEW pa \in Page \cup {0}
  PROVE  TopMapped(m, v, pa, mappages(m, v, pa, FALSE))
<1>1. m \in Mem /\ ~(v < TRAPFRAME)
  BY Sizes DEF Sound
<1>2. PICK u \in BOOLEAN : u = FALSE
  OBVIOUS
<1>3. PICK r : r = mappages(m, v, pa, u) /\ Mapping(m, v, pa, u, r)
  BY <1>1, Mappages
<1>4. Sound(r) /\ acc(r) = acc(m)
  BY <1>1, <1>3 DEF Mapping
<1>5. r.ok => r.pt.leaf[v] = [pa |-> pa, u |-> u]
  BY <1>3 DEF Mapping
<1>6. r.ok => r.pt.leaf[v].pa = pa
  BY <1>5
<1>7. TopMapped(m, v, pa, r)
  BY <1>3, <1>4, <1>6 DEF Mapping, TopMapped
<1> QED BY <1>2, <1>3, <1>7

\* proc_pagetable() from no table.
LEMMA Pagetable ==
  ASSUME NEW m, Sound(m), m.pt = NoTable, m.sz = 0, NEW tf \in Page \cup {0},
         NEW r, r = proc_pagetable(m, tf)
  PROVE  Built(acc(m), tf, r) /\ r.sz = 0 /\ (r.ok => m.ok) /\ (r.pt = NoTable <=> ~r.ok)
<1>1. PICK c : c = uvmcreate(kalloc(m))
  OBVIOUS
<1>2. PICK a : a = mappages(c, TRAMPOLINE, 0, FALSE)
  OBVIOUS
<1>3. PICK b : b = mappages(a, TRAPFRAME, tf, FALSE)
  OBVIOUS
<1>4. r = pagetable_or_none(b)
  BY <1>1, <1>2, <1>3 DEF proc_pagetable
<1>5. /\ Sound(c) /\ acc(c) = acc(m) /\ c.sz = 0 /\ DOMAIN c.pt.leaf = {}
      /\ c.ok => m.ok /\ c.pt.root # 0
      /\ ~c.ok => c.pt = NoTable
  BY <1>1, Uvmcreate
<1>6. /\ Sound(a) /\ acc(a) = acc(c) /\ a.sz = c.sz /\ a.pt.root = c.pt.root
      /\ a.ok => c.ok /\ DOMAIN a.pt.leaf = {TRAMPOLINE}
      /\ ~a.ok => DOMAIN a.pt.leaf = {}
      /\ ~c.ok => a = c
  <2>1. /\ TRAMPOLINE \in Nat /\ TRAMPOLINE >= TRAPFRAME /\ TRAMPOLINE <= TRAMPOLINE /\ 0 \in Page \cup {0}
        /\ TRAMPOLINE \notin DOMAIN c.pt.leaf
    BY <1>5, Sizes
  <2>2. TopMapped(c, TRAMPOLINE, 0, a)
    BY <1>2, <1>5, <2>1, MapTop
  <2> QED BY <1>5, <2>2 DEF TopMapped
<1>7. /\ Sound(b) /\ acc(b) = acc(a) /\ b.sz = a.sz /\ b.pt.root = a.pt.root
      /\ b.ok => a.ok /\ DOMAIN b.pt.leaf = DOMAIN a.pt.leaf \cup {TRAPFRAME} /\ b.pt.leaf[TRAPFRAME].pa = tf
      /\ ~b.ok => b.pt.leaf = a.pt.leaf
      /\ ~a.ok => b = a
  <2>1. TRAPFRAME \in Nat /\ TRAPFRAME >= TRAPFRAME /\ TRAPFRAME <= TRAMPOLINE /\ TRAPFRAME \notin DOMAIN a.pt.leaf
    BY <1>6, Sizes DEF TRAPFRAME
  <2>2. TopMapped(a, TRAPFRAME, tf, b)
    BY <1>3, <1>6, <2>1, MapTop
  <2> QED BY <2>2 DEF TopMapped
<1>8. CASE b.ok
  <2>1. r = b
    BY <1>4, <1>8 DEF pagetable_or_none
  <2>2. DOMAIN b.pt.leaf = 0..(PGROUNDUP(b.sz) - 1) \cup {TRAPFRAME, TRAMPOLINE} /\ PGROUNDUP(b.sz) \in 0..NPAGE
    BY <1>5, <1>6, <1>7, <1>8, RoundZero, Sizes
  <2>3. b.pt.root # 0 /\ b.pt # NoTable
    BY <1>5, <1>6, <1>7, <1>8, TableType
  <2>4. Shape(b.pt, PGROUNDUP(b.sz), tf)
    BY <1>7, <1>8, <2>2, <2>3 DEF Shape
  <2>5. AllUser(b.pt)
    BY <1>6, <1>7, <1>8, Sizes DEF AllUser, uleaves
  <2> QED BY <1>5, <1>6, <1>7, <1>8, <2>1, <2>3, <2>4, <2>5 DEF Built, Held
<1>9. CASE ~b.ok /\ b.pt = NoTable
  <2>1. r = b
    BY <1>4, <1>9 DEF pagetable_or_none
  <2> QED BY <1>5, <1>6, <1>7, <1>9, <2>1 DEF Built, Held
<1>10. CASE ~b.ok /\ b.pt # NoTable
  <2> DEFINE vs == {TRAMPOLINE} \cap DOMAIN b.pt.leaf
             k == uvmunmap(b, vs, FALSE)
  <2>1. r = uvmfree(k, 0)
    BY <1>4, <1>10 DEF pagetable_or_none
  <2>2. DOMAIN b.pt.leaf \subseteq {TRAMPOLINE}
    BY <1>6, <1>7, <1>10
  <2>3. vs \subseteq DOMAIN b.pt.leaf /\ (\A v \in vs : ~(v < TRAPFRAME)) /\ DOMAIN b.pt.leaf \ vs = {}
    BY <2>2, Sizes
  <2> HIDE DEF vs
  <2>4. Unmapped(b, vs, k)
    BY <1>7, <2>3, UnmapTop
  <2> HIDE DEF k
  <2>5. /\ Sound(k) /\ acc(k) = acc(b) /\ k.sz = b.sz /\ k.ok = b.ok /\ DOMAIN k.pt.leaf = {}
        /\ k.pt.root = b.pt.root
    BY <2>3, <2>4 DEF Unmapped
  <2>9. k.pt.root # 0
    <3>1. c.ok
      BY <1>6, <1>7, <1>10, <1>5
    <3> QED BY <1>5, <1>6, <1>7, <2>5, <3>1
  <2>6. 0 \in Nat /\ PGROUNDUP(0) <= NPAGE /\ DOMAIN k.pt.leaf = 0..(PGROUNDUP(0) - 1)
    BY <2>5, RoundZero, Sizes
  <2>7. Emptied(k, r)
    BY <2>1, <2>5, <2>6, <2>9, Uvmfree
  <2>8. ~r.ok /\ r.pt = NoTable /\ r.sz = 0 /\ Sound(r) /\ acc(r) = acc(m)
    BY <1>5, <1>6, <1>7, <1>10, <2>5, <2>7 DEF Emptied
  <2> QED BY <2>8 DEF Built, Held
<1> QED BY <1>8, <1>9, <1>10

----------------------------------------------------------------------------
(* exec() *)

Segment == [vaddr : 0..(W - 1), memsz : 0..(W - 1), filesz : 0..(W - 1), short : BOOLEAN]

\* A size whose pages fit in memory is an address.
LEMMA SizeBound == \A sz \in Nat : PGROUNDUP(sz) \in 0..NPAGE => sz < W
<1> SUFFICES ASSUME NEW sz \in Nat, PGROUNDUP(sz) \in 0..NPAGE PROVE sz < W
  OBVIOUS
<1>1. PICK k \in Nat : k = PGROUNDUP(sz) /\ sz <= PGSIZE * k
  BY RoundUp
<1>2. PICK T \in Nat : T = R * R * R /\ NPAGE < T
  BY MemoryAssumption DEF TRAPFRAME, TRAMPOLINE
<1>3. PGSIZE \in Nat \ {0} /\ W \in Nat /\ W >= PGSIZE * T
  BY <1>2, MemoryAssumption
<1>4. k < T
  BY <1>1, <1>2, Sizes
<1>5. PGSIZE * k < PGSIZE * T
  BY <1>3, <1>4
<1> QED BY <1>1, <1>3, <1>5

\* r is m, which may have failed since.
Failing(m, r) ==
  r \in Mem /\ r.free = m.free /\ r.pt = m.pt /\ r.sz = m.sz /\ r.panic = m.panic /\ (r.ok => m.ok)

\* A failure leaves the table to be freed.
LEMMA FailKeeps ==
  ASSUME NEW K, NEW tf, NEW m, NEW r, Failing(m, r)
  PROVE  (Held(K, tf, m) => Held(K, tf, r)) /\ (Built(K, tf, m) => Built(K, tf, r))
<1>1. Sound(m) => Sound(r) /\ acc(r) = acc(m)
  BY DEF Failing, Sound, acc
<1>2. Held(K, tf, m) => Held(K, tf, r)
  BY <1>1 DEF Failing, Held
<1> QED BY <1>2 DEF Failing, Built

\* fail().
LEMMA Fail == ASSUME NEW m \in Mem PROVE Failing(m, fail(m)) /\ ~fail(m).ok
<1>1. PICK r : r = fail(m) /\ r = [m EXCEPT !.ok = FALSE]
  BY DEF fail
<1>2. r \in Mem /\ r.free = m.free /\ r.pt = m.pt /\ r.sz = m.sz /\ r.panic = m.panic /\ ~r.ok
  BY <1>1 DEF Mem
<1> QED BY <1>1, <1>2 DEF Failing

\* loadseg() finds the pages that uvmalloc() made.
LEMMA Loadseg ==
  ASSUME NEW K, NEW tf, NEW m, Built(K, tf, m), NEW s \in Segment, m.ok => s.vaddr + s.filesz <= m.sz
  PROVE  Built(K, tf, loadseg(m, s))
<1>1. m \in Mem /\ m.sz \in Nat /\ s.vaddr \in Nat /\ s.filesz \in Nat /\ s.short \in BOOLEAN
  BY MemIs DEF Built, Held, Sound, Segment
<1>2. CASE ~m.ok
  BY <1>2 DEF loadseg
<1>3. CASE m.ok
  <2>1. Shape(m.pt, PGROUNDUP(m.sz), tf) /\ AllUser(m.pt)
    BY <1>3 DEF Built, Held
  <2>2. PICK a \in Nat : a = s.vaddr \div PGSIZE
    <3>1. \A x \in Nat, d \in Nat \ {0} : x \div d \in Nat
      OBVIOUS
    <3> QED BY <1>1, <3>1, Sizes
  <2>3. s.vaddr + s.filesz \in Nat /\ s.vaddr + s.filesz <= m.sz
    BY <1>1, <1>3
  <2>4. /\ PGROUNDUP(s.vaddr + s.filesz) \in Nat /\ PGROUNDUP(m.sz) \in Nat
        /\ PGROUNDUP(s.vaddr + s.filesz) <= PGROUNDUP(m.sz)
    BY <1>1, <2>3, RoundUp, RoundMonotone
  <2>5. ASSUME NEW v \in a..(PGROUNDUP(s.vaddr + s.filesz) - 1) PROVE v \in DOMAIN m.pt.leaf /\ m.pt.leaf[v].u
    <3>1. v \in 0..(PGROUNDUP(m.sz) - 1) /\ v < TRAPFRAME
      BY <2>1, <2>4, Sizes DEF Shape
    <3>2. v \in uleaves(m.pt)
      BY <2>1, <3>1 DEF Shape, uleaves
    <3> QED BY <2>1, <3>2 DEF AllUser, uleaves
  <2>6. PICK r : r = loadseg(m, s)
    OBVIOUS
  <2>7. r = [[m EXCEPT !.panic = m.panic] EXCEPT !.ok = ~s.short]
    BY <1>3, <2>2, <2>5, <2>6 DEF loadseg, assert
  <2>8. Failing(m, r)
    BY <1>1, <1>3, <2>7 DEF Failing, Mem
  <2> QED BY <2>6, <2>8, FailKeeps
<1> QED BY <1>1, <1>2, <1>3, MemIs

\* One segment.
LEMMA SegmentKeeps ==
  ASSUME NEW K, NEW tf, NEW m, Built(K, tf, m), NEW s \in Segment
  PROVE  Built(K, tf, segment(m, s))
<1>1. m \in Mem /\ m.sz \in Nat /\ m.ok \in BOOLEAN /\ s.vaddr \in Nat /\ s.filesz \in Nat /\ s.memsz \in Nat
  BY MemIs DEF Built, Held, Sound, Segment
<1>2. CASE bad_segment(s)
  <2>1. segment(m, s) = fail(m)
    BY <1>2 DEF segment
  <2>2. Failing(m, fail(m))
    BY <1>1, Fail
  <2> QED BY <2>1, <2>2, FailKeeps
<1>3. CASE ~bad_segment(s)
  <2> DEFINE new == s.vaddr + s.memsz
  <2>1. PICK r : r = uvmalloc(m, new)
    OBVIOUS
  <2>2. segment(m, s) = loadseg(r, s)
    BY <1>3, <2>1 DEF segment
  <2>3. s.filesz <= s.memsz /\ new \in Nat
    BY <1>1, <1>3 DEF bad_segment
  <2>4. CASE ~m.ok
    <3>1. r = m
      BY <2>1, <2>4 DEF uvmalloc
    <3> QED BY <2>2, <2>4, <3>1, Loadseg
  <2>5. CASE m.ok
    <3>1. Sound(m) /\ Shape(m.pt, PGROUNDUP(m.sz), tf) /\ AllUser(m.pt) /\ acc(m) = K
      BY <2>5 DEF Built, Held
    <3> HIDE DEF new
    <3>2. Alloced(m, new, tf, r)
      BY <2>1, <2>3, <3>1, Uvmalloc
    <3>3. /\ Sound(r) /\ acc(r) = K /\ Shape(r.pt, PGROUNDUP(r.sz), tf)
          /\ r.ok => AllUser(r.pt) /\ new <= r.sz
      BY <3>1, <3>2 DEF Alloced
    <3>4. r.pt # NoTable
      BY <3>3, TableType DEF Shape
    <3>5. Built(K, tf, r)
      BY <3>3, <3>4 DEF Built, Held
    <3>6. r.ok => s.vaddr + s.filesz <= r.sz
      <4>1. r.sz \in Nat
        BY <3>3, MemIs DEF Sound
      <4> QED BY <1>1, <2>3, <3>3, <4>1 DEF new
    <3> QED BY <2>2, <3>5, <3>6, Loadseg
  <2> QED BY <1>1, <2>4, <2>5
<1> QED BY <1>2, <1>3

\* The loop of exec() over the program headers.
LEMMA SegmentsKeep ==
  ASSUME NEW K, NEW tf, NEW m, Built(K, tf, m), NEW segs \in Seq(Segment)
  PROVE  Built(K, tf, segments(m, segs))
<1> DEFINE n == Len(segs)
           S == {x \in Mem : Built(K, tf, x)}
<1>1. n \in Nat /\ \A i \in 1..n : segs[i] \in Segment
  OBVIOUS
<1>2. m \in S
  BY DEF Built, Held, Sound
<1> DEFINE Rec(h) == h = [i \in 0..n |-> IF i = 0 THEN m ELSE segment(h[i - 1], segs[i])]
           f == [i \in 1..n |-> [x \in S |-> segment(x, segs[i])]]
<1>3. f \in [1..n -> [S -> S]]
  <2>1. ASSUME NEW i \in 1..n, NEW x \in S PROVE segment(x, segs[i]) \in S
    <3>1. segs[i] \in Segment /\ Built(K, tf, x)
      BY <1>1
    <3>2. Built(K, tf, segment(x, segs[i]))
      BY <3>1, SegmentKeeps
    <3>3. segment(x, segs[i]) \in Mem
      BY <3>2 DEF Built, Held, Sound
    <3> QED BY <3>2, <3>3
  <2> HIDE DEF n, S
  <2> QED BY <2>1
<1> HIDE DEF n
<1>4. PICK g \in [0..n -> S] : g[0] = m /\ \A i \in 1..n : g[i] = f[i][g[i - 1]]
  <2> HIDE DEF f, S
  <2>1. Iterated(n, S, m, f)
    BY <1>1, <1>2, <1>3, Iterates
  <2> QED BY <2>1 DEF Iterated
<1>5. Rec(g)
  <2>1. ASSUME NEW i \in 0..n, i # 0 PROVE g[i] = segment(g[i - 1], segs[i])
    <3> HIDE DEF S
    <3>1. i \in 1..n /\ g[i - 1] \in S
      BY <1>1, <2>1
    <3>2. g[i] = f[i][g[i - 1]]
      BY <3>1, <1>4
    <3> QED BY <3>1, <3>2
  <2> QED BY <1>4, <2>1
<1>6. PICK h : Rec(h) /\ segments(m, segs) = h[n]
  <2>1. Rec(CHOOSE h : Rec(h))
    BY <1>5
  <2>2. segments(m, segs) = (CHOOSE h : Rec(h))[n]
    BY DEF segments, n
  <2> HIDE DEF Rec
  <2> QED BY <2>1, <2>2
<1>7. h[0] = m /\ \A i \in 1..n : h[i] = segment(h[i - 1], segs[i])
  BY <1>1, <1>6
<1> HIDE DEF Rec, f
<1> DEFINE G(i) == Built(K, tf, h[i])
           T == {i \in Nat : i <= n => G(i)}
<1>8. G(0)
  BY <1>7
<1>9. ASSUME NEW i \in Nat, i + 1 <= n, G(i) PROVE G(i + 1)
  <2>1. i + 1 \in 1..n /\ (i + 1) - 1 = i
    BY <1>1, <1>9
  <2>2. Built(K, tf, segment(h[i], segs[i + 1]))
    BY <1>1, <1>9, <2>1, SegmentKeeps
  <2> QED BY <1>7, <2>1, <2>2
<1> HIDE DEF G
<1>10. T \in SUBSET Nat /\ 0 \in T /\ \A i \in T : i + 1 \in T
  BY <1>1, <1>8, <1>9
<1>11. T = Nat
  <2> HIDE DEF T
  <2> QED BY <1>10, NatUp
<1>12. G(n)
  BY <1>1, <1>11
<1> QED BY <1>6, <1>12 DEF G

\* uvmclear() takes a page from the user and nothing else.
LEMMA GuardTable ==
  ASSUME NEW t \in Table, Tidy(t), NEW v \in DOMAIN t.leaf, NEW t2,
         t2 = [t EXCEPT !.leaf = [t.leaf EXCEPT ![v] = [t.leaf[v] EXCEPT !.u = FALSE]]]
  PROVE  /\ t2 \in Table /\ Tidy(t2) /\ tpages(t2) = tpages(t) /\ t2.root = t.root
         /\ DOMAIN t2.leaf = DOMAIN t.leaf /\ \A z \in DOMAIN t.leaf : t2.leaf[z].pa = t.leaf[z].pa
<1>1. t.leaf \in PFun(Nat, Leaf)
  BY DEF Table
<1>2. PICK E \in SUBSET Nat : t.leaf \in [E -> Leaf]
  BY <1>1 DEF PFun
<1> DEFINE l == [t.leaf[v] EXCEPT !.u = FALSE]
           f == [t.leaf EXCEPT ![v] = l]
<1>3. v \in E /\ t.leaf[v] \in Leaf
  BY <1>2
<1>4. l \in Leaf /\ l.pa = t.leaf[v].pa
  BY <1>3 DEF Leaf
<1> HIDE DEF l
<1>5. f \in [E -> Leaf] /\ f[v] = l /\ \A z \in E \ {v} : f[z] = t.leaf[z]
  BY <1>2, <1>3, <1>4
<1>6. f \in PFun(Nat, Leaf) /\ DOMAIN f = DOMAIN t.leaf /\ \A z \in DOMAIN t.leaf : f[z].pa = t.leaf[z].pa
  BY <1>2, <1>4, <1>5 DEF PFun
<1>7. t2 = [t EXCEPT !.leaf = f]
  BY DEF l
<1> HIDE DEF f
<1>8. t2 \in Table /\ t2.leaf = f /\ t2.node = t.node /\ t2.root = t.root
  BY <1>6, <1>7 DEF Table
<1>9. uleaves(t2) = uleaves(t) /\ npages(t2) = npages(t)
  BY <1>6, <1>8 DEF uleaves, npages
<1>10. \A z \in uleaves(t) : t2.leaf[z].pa = t.leaf[z].pa
  BY <1>6, <1>8 DEF uleaves
<1>11. upages(t2) = upages(t)
  BY <1>9, <1>10 DEF upages
<1>12. tpages(t2) = tpages(t)
  BY <1>8, <1>9, <1>11 DEF tpages
<1>13. \A x, y \in uleaves(t2) : t2.leaf[x].pa = t2.leaf[y].pa => x = y
  BY <1>9, <1>10 DEF Tidy
<1>14. \A x \in uleaves(t2) : t2.leaf[x].pa # 0
  BY <1>9, <1>10 DEF Tidy
<1>15. \A x, y \in DOMAIN t2.node : t2.node[x] = t2.node[y] => x = y
  BY <1>8 DEF Tidy
<1>16. npages(t2) \cap upages(t2) = {} /\ t2.root \notin npages(t2) /\ t2.root \notin upages(t2)
  BY <1>8, <1>9, <1>11 DEF Tidy
<1>17. Tidy(t2)
  BY <1>13, <1>14, <1>15, <1>16 DEF Tidy
<1> QED BY <1>6, <1>8, <1>12, <1>17

\* uvmclear() of the page below the stack.
LEMMA Guarded ==
  ASSUME NEW K, NEW tf, NEW m, Held(K, tf, m), m.ok => PGROUNDUP(m.sz) >= 2
  PROVE  Held(K, tf, guarded(m))
<1>1. m \in Mem /\ m.sz \in Nat /\ m.pt \in Table /\ Sound(m) /\ acc(m) = K /\ Tidy(m.pt)
  BY MemIs DEF Held, Sound
<1>2. CASE ~m.ok
  BY <1>2 DEF guarded
<1>3. CASE m.ok
  <2>1. Shape(m.pt, PGROUNDUP(m.sz), tf)
    BY <1>3 DEF Held
  <2>2. PICK v \in Nat : v = PGROUNDUP(m.sz) - 2 /\ v \in DOMAIN m.pt.leaf /\ v < TRAPFRAME
    <3>1. PGROUNDUP(m.sz) \in Nat /\ PGROUNDUP(m.sz) >= 2 /\ PGROUNDUP(m.sz) <= NPAGE
      BY <1>1, <1>3, <2>1, RoundUp, Sizes DEF Shape
    <3>2. PICK k \in Nat : k = PGROUNDUP(m.sz) /\ k >= 2 /\ k <= NPAGE
      BY <3>1
    <3>3. k - 2 \in Nat /\ k - 2 \in 0..(k - 1) /\ k - 2 < TRAPFRAME
      BY <3>2, Sizes
    <3> QED BY <2>1, <3>2, <3>3 DEF Shape
  <2> DEFINE t2 == [m.pt EXCEPT !.leaf = [m.pt.leaf EXCEPT ![v] = [m.pt.leaf[v] EXCEPT !.u = FALSE]]]
  <2>3. PICK r : r = guarded(m)
    OBVIOUS
  <2>4. r = [m EXCEPT !.pt = t2]
    <3>1. m = [m EXCEPT !.panic = m.panic]
      BY <1>1 DEF Mem
    <3>2. r = [m EXCEPT !.pt.leaf[v].u = FALSE]
      BY <1>3, <2>2, <2>3, <3>1 DEF guarded, uvmclear, assert
    <3> QED BY <3>2
  <2>5. /\ t2 \in Table /\ Tidy(t2) /\ tpages(t2) = tpages(m.pt) /\ t2.root = m.pt.root
        /\ DOMAIN t2.leaf = DOMAIN m.pt.leaf /\ \A z \in DOMAIN m.pt.leaf : t2.leaf[z].pa = m.pt.leaf[z].pa
    BY <1>1, <2>2, GuardTable
  <2> HIDE DEF t2
  <2>6. r \in Mem /\ r.pt = t2 /\ r.sz = m.sz /\ r.free = m.free /\ r.panic = m.panic
    BY <1>1, <2>4, <2>5 DEF Mem
  <2>7. Sound(r) /\ acc(r) = K
    BY <1>1, <2>5, <2>6 DEF Sound, acc
  <2>8. Shape(r.pt, PGROUNDUP(r.sz), tf)
    <3>1. TRAPFRAME \in DOMAIN m.pt.leaf
      BY <2>1 DEF Shape
    <3> QED BY <2>1, <2>5, <2>6, <3>1 DEF Shape
  <2>9. r.pt # NoTable
    BY <2>8, TableType DEF Shape
  <2> QED BY <2>3, <2>7, <2>8, <2>9 DEF Held
<1> QED BY <1>1, <1>2, <1>3, MemIs

\* The stack of the new program.
LEMMA StackKeeps ==
  ASSUME NEW K, NEW tf, NEW m, Built(K, tf, m)
  PROVE  Held(K, tf, stack(m))
<1>1. m \in Mem /\ m.sz \in Nat /\ Held(K, tf, m)
  BY MemIs DEF Built, Held, Sound
<1>2. PICK k \in Nat : k = PGROUNDUP(m.sz)
  BY <1>1, RoundUp
<1>3. PICK top \in Nat : top = (k + 2) * PGSIZE /\ PGROUNDUP(top) = k + 2
  <2>1. k + 2 \in Nat
    OBVIOUS
  <2> QED BY <2>1, RoundWhole
<1>4. PICK sz \in Nat : sz = k * PGSIZE /\ PGROUNDUP(sz) = k
  BY RoundWhole
<1>5. PICK a : a = [m EXCEPT !.sz = sz]
  OBVIOUS
<1>6. PICK b : b = uvmalloc(a, top)
  OBVIOUS
<1>7. stack(m) = guarded(b)
  BY <1>2, <1>3, <1>4, <1>5, <1>6 DEF stack
<1>8. a \in Mem /\ a.sz = sz /\ a.pt = m.pt /\ a.free = m.free /\ a.panic = m.panic /\ a.ok = m.ok
  BY <1>1, <1>5 DEF Mem
<1>9. Sound(a) /\ acc(a) = K
  BY <1>1, <1>8 DEF Held, Sound, acc
<1>10. Held(K, tf, a)
  <2>1. m.sz = 0 => k = 0 /\ sz = 0
    BY <1>2, <1>4, RoundZero, Sizes
  <2> QED BY <1>1, <1>2, <1>4, <1>8, <1>9, <2>1 DEF Held
<1>11. CASE ~a.ok
  <2>1. b = a
    BY <1>6, <1>11 DEF uvmalloc
  <2> QED BY <1>7, <1>10, <1>11, <2>1, Guarded
<1>12. CASE a.ok
  <2>1. Shape(a.pt, PGROUNDUP(a.sz), tf)
    BY <1>10, <1>12 DEF Held
  <2>2. Alloced(a, top, tf, b)
    BY <1>6, <1>9, <2>1, Uvmalloc
  <2>3. Sound(b) /\ acc(b) = K /\ Shape(b.pt, PGROUNDUP(b.sz), tf) /\ (b.ok => top <= b.sz)
    BY <1>9, <2>2 DEF Alloced
  <2>4. b.pt # NoTable
    BY <2>3, TableType DEF Shape
  <2>5. Held(K, tf, b)
    BY <2>3, <2>4 DEF Held
  <2>6. b.sz \in Nat
    BY <2>3, MemIs DEF Sound
  <2>7. b.ok => PGROUNDUP(b.sz) >= 2
    <3>1. b.ok => k + 2 <= PGROUNDUP(b.sz)
      BY <1>3, <2>3, <2>6, RoundMonotone
    <3>2. PGROUNDUP(b.sz) \in Nat
      BY <2>6, RoundUp
    <3> QED BY <3>1, <3>2
  <2> QED BY <1>7, <2>5, <2>7, Guarded
<1> QED BY <1>8, <1>11, <1>12, MemIs

\* What exec() has before it commits: a complete table, or none.
Complete(K, tf, r) ==
  /\ Sound(r) /\ acc(r) = K
  /\ r.ok => Shape(r.pt, PGROUNDUP(r.sz), tf)
  /\ ~r.ok => r.pt = NoTable

\* The error path of exec().
LEMMA Loaded ==
  ASSUME NEW K, NEW tf, NEW m, Held(K, tf, m)
  PROVE  Complete(K, tf, loaded(m))
<1>1. m \in Mem /\ m.sz \in Nat /\ Sound(m) /\ acc(m) = K /\ m.ok \in BOOLEAN
  BY MemIs DEF Held, Sound
<1>2. CASE m.ok
  <2>1. loaded(m) = m
    BY <1>2 DEF loaded
  <2> QED BY <1>1, <1>2, <2>1 DEF Complete, Held
<1>3. CASE ~m.ok /\ m.pt = NoTable
  <2>1. loaded(m) = m
    BY <1>3 DEF loaded
  <2> QED BY <1>1, <1>3, <2>1 DEF Complete
<1>4. CASE ~m.ok /\ m.pt # NoTable
  <2>1. PICK r : r = loaded(m) /\ r = proc_freepagetable(m, m.sz)
    BY <1>4 DEF loaded
  <2>2. Shape(m.pt, PGROUNDUP(m.sz), tf)
    BY <1>4 DEF Held
  <2>3. Emptied(m, r)
    BY <1>1, <2>1, <2>2, FreePagetable
  <2>4. Sound(r) /\ acc(r) = K /\ ~r.ok /\ r.pt = NoTable
    BY <1>1, <1>4, <2>3 DEF Emptied
  <2> QED BY <2>1, <2>4 DEF Complete
<1> QED BY <1>1, <1>2, <1>3, <1>4

\* exec() up to the point where it commits.
LEMMA Load ==
  ASSUME NEW m, Sound(m), m.pt = NoTable, m.sz = 0, NEW tf \in Page, NEW img \in Image
  PROVE  Complete(acc(m), tf, load(m, tf, img))
<1>1. /\ img.elf \in BOOLEAN /\ img.fits \in BOOLEAN /\ img.segs \in Seq(Segment)
  BY MemoryAssumption DEF Segment
<1>2. m \in Mem
  BY DEF Sound
<1>3. CASE ~img.elf
  <2>1. load(m, tf, img) = fail(m)
    BY <1>3 DEF load
  <2>2. PICK r : r = fail(m) /\ Failing(m, r) /\ ~r.ok
    BY <1>2, Fail
  <2>3. Sound(r) /\ acc(r) = acc(m) /\ r.pt = NoTable
    BY <2>2 DEF Failing, Sound, acc
  <2> QED BY <2>1, <2>2, <2>3 DEF Complete
<1>4. CASE img.elf
  <2> DEFINE K == acc(m)
  <2>1. PICK a : a = proc_pagetable(m, tf)
    OBVIOUS
  <2>2. PICK b : b = segments(a, img.segs)
    OBVIOUS
  <2>3. PICK c : c = stack(b)
    OBVIOUS
  <2>4. PICK d : d = pushed(c, img)
    OBVIOUS
  <2>5. load(m, tf, img) = loaded(d)
    BY <1>4, <2>1, <2>2, <2>3, <2>4 DEF load
  <2> HIDE DEF K
  <2>6. Built(K, tf, a)
    BY <2>1, Pagetable DEF K
  <2>7. Built(K, tf, b)
    BY <1>1, <2>2, <2>6, SegmentsKeep
  <2>8. Held(K, tf, c)
    BY <2>3, <2>7, StackKeeps
  <2>9. Held(K, tf, d)
    <3>1. CASE img.fits
      BY <2>4, <2>8, <3>1 DEF pushed
    <3>2. CASE ~img.fits
      <4>1. d = fail(c) /\ c \in Mem
        BY <2>4, <2>8, <3>2 DEF pushed, Held, Sound
      <4>2. Failing(c, d)
        BY <4>1, Fail
      <4> QED BY <2>8, <4>2, FailKeeps
    <3> QED BY <3>1, <3>2
  <2>10. Complete(K, tf, loaded(d))
    BY <2>9, Loaded
  <2> QED BY <2>5, <2>10 DEF K
<1> QED BY <1>1, <1>3, <1>4

\* freeproc(): the trapframe and the table, or what there is of them.
LEMMA Freeproc ==
  ASSUME NEW m, Sound(m), NEW tf \in Page \cup {0}, tf \notin acc(m), NEW sz \in Nat,
         m.pt # NoTable => Shape(m.pt, PGROUNDUP(sz), tf),
         NEW r, r = freeproc(m, tf, sz)
  PROVE  r.free = acc(m) \cup ({tf} \ {0}) /\ r.panic = {}
<1>1. PICK k : k = kfree(m, {tf} \ {0})
  OBVIOUS
<1>2. m \in Mem /\ {tf} \ {0} \subseteq Page /\ ({tf} \ {0}) \cap tpages(m.pt) = {} /\ m.panic = {}
  BY DEF Sound, acc
<1>3. /\ k.pt = m.pt /\ k.panic = m.panic /\ k.free = m.free \cup ({tf} \ {0})
      /\ Sound(k) /\ acc(k) = acc(m) \cup ({tf} \ {0})
  BY <1>1, <1>2, Kfree
<1>4. CASE m.pt = NoTable
  <2>1. r = k
    BY <1>1, <1>4 DEF freeproc
  <2> QED BY <1>2, <1>3, <1>4, <2>1, NoTableTidy DEF acc
<1>5. CASE m.pt # NoTable
  <2>1. r = proc_freepagetable(k, sz)
    BY <1>1, <1>5 DEF freeproc
  <2>2. Emptied(k, r)
    BY <1>3, <1>5, <2>1, FreePagetable
  <2> QED BY <1>3, <2>2 DEF Emptied
<1> QED BY <1>4, <1>5

----------------------------------------------------------------------------
(* Boot: the first process gets its pages. *)

\* A call that goes well and can still take j pages.
Rich(m, j) == m \in Mem /\ m.ok /\ m.left >= j /\ m.left = Cardinality(m.free)

\* kalloc() takes one of them.
LEMMA RichKalloc ==
  ASSUME NEW m, NEW j \in Nat, Rich(m, j + 1)
  PROVE  Rich(kalloc(m), j) /\ kalloc(m).pt = m.pt
<1>1. m \in Mem /\ m.ok /\ m.left \in Nat /\ m.left >= j + 1 /\ m.free \subseteq Page /\ m.left = Cardinality(m.free)
  BY MemIs DEF Rich
<1>2. IsFiniteSet(m.free)
  BY <1>1, PageCount, FS_Subset
<1>3. m.left # 0 /\ m.free # {}
  BY <1>1, <1>2, FS_EmptySet
<1>4. PICK k : k = kalloc(m)
  OBVIOUS
<1>5. /\ k \in Mem /\ k.ok /\ k.left = m.left - 1 /\ k.mem \in m.free /\ k.free = m.free \ {k.mem}
      /\ k.pt = m.pt
  BY <1>1, <1>3, <1>4, KallocType
<1>6. Cardinality(m.free \ {k.mem}) = Cardinality(m.free) - 1
  BY <1>2, <1>5, FS_RemoveElement
<1> QED BY <1>1, <1>4, <1>5, <1>6 DEF Rich

\* A level of walk() takes one, or none if the page-table page is there.
LEMMA RichLevel ==
  ASSUME NEW m, NEW j \in Nat, NEW n \in Node, Rich(m, j + 1) \/ (Rich(m, j) /\ n \in DOMAIN m.pt.node)
  PROVE  /\ Rich(walk_level(m, n), j) /\ n \in DOMAIN walk_level(m, n).pt.node
         /\ DOMAIN m.pt.node \subseteq DOMAIN walk_level(m, n).pt.node
         /\ n \in DOMAIN m.pt.node => walk_level(m, n) = m
<1>1. PICK w : w = walk_level(m, n)
  OBVIOUS
<1>2. m \in Mem /\ m.ok
  BY DEF Rich
<1>3. CASE n \in DOMAIN m.pt.node
  <2>1. w = m
    BY <1>1, <1>3 DEF walk_level
  <2>2. Rich(m, j)
    BY MemIs DEF Rich
  <2> QED BY <1>1, <1>3, <2>1, <2>2
<1>4. CASE n \notin DOMAIN m.pt.node
  <2>1. PICK k : k = kalloc(m) /\ Rich(k, j)
    BY <1>4, RichKalloc
  <2>2. w = [k EXCEPT !.pt = [k.pt EXCEPT !.node = with(k.pt.node, n, k.mem)], !.mem = m.mem]
    <3>1. w = linked(k, n, m.mem)
      BY <1>1, <1>2, <1>4, <2>1 DEF walk_level
    <3> QED BY <3>1, <2>1 DEF linked, Rich, Mem
  <2>3. k \in Mem /\ k.ok /\ k.left >= j /\ k.left = Cardinality(k.free)
    BY <2>1 DEF Rich
  <2>4. w.left = k.left /\ w.free = k.free /\ w.ok = k.ok
    BY <2>2, <2>3 DEF Mem
  <2>5. w \in Mem /\ DOMAIN m.pt.node \subseteq DOMAIN w.pt.node /\ (w.ok => n \in DOMAIN w.pt.node)
    BY <1>1, <1>2, WalkLevel
  <2> QED BY <1>1, <1>4, <2>3, <2>4, <2>5 DEF Rich
<1> QED BY <1>3, <1>4

\* mappages() takes two, or none if both are there.
LEMMA RichMap ==
  ASSUME NEW m, NEW j \in Nat, NEW v \in Nat, NEW pa \in Page \cup {0}, NEW u \in BOOLEAN,
         \/ Rich(m, j + 2)
         \/ Rich(m, j) /\ <<1, v \div (R * R)>> \in DOMAIN m.pt.node /\ <<0, v \div R>> \in DOMAIN m.pt.node
  PROVE  /\ Rich(mappages(m, v, pa, u), j)
         /\ <<1, v \div (R * R)>> \in DOMAIN mappages(m, v, pa, u).pt.node
         /\ <<0, v \div R>> \in DOMAIN mappages(m, v, pa, u).pt.node
<1>1. PICK n1 \in Node : n1 = <<1, v \div (R * R)>>
  BY NodeType
<1>2. PICK n0 \in Node : n0 = <<0, v \div R>>
  BY NodeType
<1>3. PICK b : b = below_maxva(m, v)
  OBVIOUS
<1>16. /\ b \in Mem /\ b.pt = m.pt /\ (Rich(m, j + 2) => Rich(b, j + 2)) /\ (Rich(m, j) => Rich(b, j))
  <2>1. m \in Mem
    BY DEF Rich
  <2>2. b \in Mem
    BY <1>3, <2>1, BelowMaxva
  <2>3. PICK pn : b = [m EXCEPT !.panic = pn]
    BY <1>3, <2>1, BelowMaxva
  <2>4. b.ok = m.ok /\ b.left = m.left /\ b.free = m.free /\ b.pt = m.pt
    BY <2>1, <2>3 DEF Mem
  <2> QED BY <2>2, <2>4 DEF Rich
<1>17. PICK a : a = walk_level(b, n1)
  OBVIOUS
<1>4. PICK w : w = walk_level(a, n0)
  OBVIOUS
<1>5. PICK r : r = mappages(m, v, pa, u) /\ r = mapped(w, v, pa, u)
  BY <1>1, <1>2, <1>3, <1>4, <1>17 DEF mappages, walk
<1>6. Rich(w, j) /\ n1 \in DOMAIN w.pt.node /\ n0 \in DOMAIN w.pt.node
  <2>1. CASE Rich(m, j + 2)
    <3>1. j + 1 \in Nat /\ (j + 1) + 1 = j + 2
      OBVIOUS
    <3>2. Rich(a, j + 1) /\ n1 \in DOMAIN a.pt.node
      BY <1>16, <1>17, <2>1, <3>1, RichLevel
    <3> QED BY <1>4, <3>2, RichLevel
  <2>2. CASE Rich(m, j) /\ n1 \in DOMAIN m.pt.node /\ n0 \in DOMAIN m.pt.node
    <3>1. a = b
      BY <1>16, <1>17, <2>2, RichLevel
    <3>2. w = b
      BY <1>4, <1>16, <2>2, <3>1, RichLevel
    <3> QED BY <1>16, <2>2, <3>2
  <2> QED BY <1>1, <1>2, <2>1, <2>2
<1>7. m \in Mem
  BY DEF Rich
<1>8. Mapping(m, v, pa, u, r)
  BY <1>5, <1>7, Mappages
<1>9. r \in Mem
  BY <1>8 DEF Mapping
<1>10. w \in Mem /\ w.ok /\ w.left >= j /\ w.left = Cardinality(w.free)
  BY <1>6 DEF Rich
<1>11. PICK pn : pn = IF v \notin DOMAIN w.pt.leaf THEN w.panic ELSE w.panic \cup {"mappages: remap"}
  OBVIOUS
<1>12. PICK l : l = with(w.pt.leaf, v, [pa |-> pa, u |-> u])
  OBVIOUS
<1>13. r = [w EXCEPT !.panic = pn, !.pt = [w.pt EXCEPT !.leaf = l]]
  BY <1>5, <1>10, <1>11, <1>12 DEF mapped, assert, Mem
<1>14. r.left = w.left /\ r.free = w.free /\ r.ok = w.ok /\ r.pt = [w.pt EXCEPT !.leaf = l]
  BY <1>10, <1>13 DEF Mem
<1>15. r.pt.node = w.pt.node
  BY <1>10, <1>14, MemIs DEF Table
<1> QED BY <1>1, <1>2, <1>5, <1>6, <1>9, <1>10, <1>14, <1>15 DEF Rich

\* Division.
LEMMA DivIs ==
  ASSUME NEW d \in Nat \ {0}, NEW q \in Nat, NEW r \in 0..(d - 1), NEW x \in Nat, x = d * q + r
  PROVE  x \div d = q
<1>1. PICK k \in Int : k = x \div d /\ x = d * k + (x % d)
  OBVIOUS
<1>2. x % d \in 0..(d - 1)
  OBVIOUS
<1>3. d * (k - q) = r - (x % d)
  BY <1>1
<1>4. -d < d * (k - q) /\ d * (k - q) < d
  BY <1>2, <1>3
<1>5. k - q \in Int /\ k - q = 0
  BY <1>4, SmallMultiple
<1> QED BY <1>1, <1>5

\* The trampoline and the trapframe have the same page-table pages.
LEMMA SameNodes == TRAMPOLINE \div (R * R) = TRAPFRAME \div (R * R) /\ TRAMPOLINE \div R = TRAPFRAME \div R
<1>1. R \in Nat /\ R > 1 /\ TRAMPOLINE \in Nat /\ TRAPFRAME \in Nat
  BY Sizes
<1>2. PICK d \in Nat : d = R * R /\ d > 1
  BY <1>1
<1>3. TRAMPOLINE = d * (R - 1) + (d - 1) /\ TRAPFRAME = d * (R - 1) + (d - 2)
  BY <1>1, <1>2 DEF TRAPFRAME, TRAMPOLINE
<1>4. TRAMPOLINE = R * (d - 1) + (R - 1) /\ TRAPFRAME = R * (d - 1) + (R - 2)
  BY <1>1, <1>2 DEF TRAPFRAME, TRAMPOLINE
<1>5. d - 1 \in Nat /\ d - 1 \in 0..(d - 1) /\ d - 2 \in 0..(d - 1) /\ d \in Nat \ {0}
  BY <1>2
<1>6. R - 1 \in Nat /\ R - 1 \in 0..(R - 1) /\ R - 2 \in 0..(R - 1) /\ R \in Nat \ {0}
  BY <1>1
<1>7. TRAMPOLINE \div d = R - 1 /\ TRAPFRAME \div d = R - 1
  BY <1>1, <1>3, <1>5, <1>6, DivIs
<1>8. TRAMPOLINE \div R = d - 1 /\ TRAPFRAME \div R = d - 1
  BY <1>1, <1>4, <1>5, <1>6, DivIs
<1> QED BY <1>2, <1>7, <1>8

\* proc_pagetable() takes three pages.
LEMMA RichPagetable ==
  ASSUME NEW m, NEW j \in Nat, Rich(m, j + 3), NEW tf \in Page \cup {0}
  PROVE  Rich(proc_pagetable(m, tf), j)
<1>1. PICK k : k = kalloc(m) /\ Rich(k, j + 2)
  <2>1. j + 2 \in Nat /\ (j + 2) + 1 = j + 3
    OBVIOUS
  <2> QED BY <2>1, RichKalloc
<1>2. PICK c : c = uvmcreate(k)
  OBVIOUS
<1>3. Rich(c, j + 2)
  <2>1. k \in Mem /\ k.ok /\ k.mem \in Page
    BY <1>1, KallocType DEF Rich
  <2>2. PICK t : t = [NoTable EXCEPT !.root = k.mem]
    OBVIOUS
  <2>3. t \in Table
    BY <2>1, <2>2, RootTable
  <2>4. c = [k EXCEPT !.pt = t]
    BY <1>2, <2>1, <2>2 DEF uvmcreate
  <2>5. c \in Mem /\ c.left = k.left /\ c.free = k.free /\ c.ok = k.ok
    BY <2>1, <2>3, <2>4 DEF Mem
  <2> QED BY <1>1, <2>5 DEF Rich
<1>4. PICK a : a = mappages(c, TRAMPOLINE, 0, FALSE)
  OBVIOUS
<1>5. PICK b : b = mappages(a, TRAPFRAME, tf, FALSE)
  OBVIOUS
<1>6. TRAMPOLINE \in Nat /\ TRAPFRAME \in Nat /\ 0 \in Page \cup {0} /\ FALSE \in BOOLEAN
  BY Sizes
<1>7. /\ Rich(a, j)
      /\ <<1, TRAMPOLINE \div (R * R)>> \in DOMAIN a.pt.node /\ <<0, TRAMPOLINE \div R>> \in DOMAIN a.pt.node
  BY <1>3, <1>4, <1>6, RichMap
<1>8. <<1, TRAPFRAME \div (R * R)>> \in DOMAIN a.pt.node /\ <<0, TRAPFRAME \div R>> \in DOMAIN a.pt.node
  BY <1>7, SameNodes
<1>9. Rich(b, j)
  BY <1>5, <1>6, <1>7, <1>8, RichMap
<1>10. proc_pagetable(m, tf) = b
  BY <1>1, <1>2, <1>4, <1>5, <1>9 DEF proc_pagetable, pagetable_or_none, Rich
<1> QED BY <1>9, <1>10

----------------------------------------------------------------------------
(* The invariant *)

Slot == [state : {"UNUSED", "RUNNABLE", "ZOMBIE"}, tf : Page \cup {0}, pt : Table, sz : Nat]

\* The pages of a process, and what it is when it is not UNUSED.
own(x) == tpages(x.pt) \cup ({x.tf} \ {0})
Live(x) == Tidy(x.pt) /\ x.tf \in Page \ tpages(x.pt) /\ Shape(x.pt, PGROUNDUP(x.sz), x.tf)
Settled(x) == (x.state = "UNUSED" => x = Unused) /\ (x.state # "UNUSED" => Live(x))

\* The free list F and the processes P share the memory.
Shared(F, P) ==
  /\ F \subseteq Page /\ P \in [Proc -> Slot]
  /\ \A p \in Proc : Settled(P[p]) /\ own(P[p]) \cap F = {}
  /\ \A p, q \in Proc : p # q => own(P[p]) \cap own(P[q]) = {}
  /\ \A g \in Page : g \in F \/ \E p \in Proc : g \in own(P[p])

MInv == Shared(free, proc) /\ panic = {}

\* An unused slot has no page.
LEMMA UnusedIs ==
  Unused \in Slot /\ Settled(Unused) /\ own(Unused) = {} /\ Unused.pt = NoTable /\ Unused.state = "UNUSED"
<1>1. Unused \in Slot /\ Unused.tf = 0 /\ Unused.pt = NoTable /\ Unused.state = "UNUSED"
  BY TableType DEF Unused, Slot
<1> QED BY <1>1, NoTableTidy DEF Settled, own

\* The pages of a process are pages.
LEMMA OwnPages == \A x \in Slot : Settled(x) => own(x) \subseteq Page
<1> SUFFICES ASSUME NEW x \in Slot, Settled(x) PROVE own(x) \subseteq Page
  OBVIOUS
<1>1. CASE x.state = "UNUSED"
  BY <1>1, UnusedIs DEF Settled
<1>2. CASE x.state # "UNUSED"
  <2>1. x.pt \in Table /\ Tidy(x.pt) /\ x.tf \in Page
    BY <1>2 DEF Settled, Live, Slot
  <2> QED BY <2>1, TablePages DEF own
<1> QED BY <1>1, <1>2

\* A call that exchanges pages between one process and the free list.
LEMMA Exchange ==
  ASSUME NEW F, NEW P, Shared(F, P), NEW p \in Proc, NEW x \in Slot, Settled(x),
         NEW F2 \in SUBSET Page, F2 \cap own(x) = {}, F2 \cup own(x) = F \cup own(P[p])
  PROVE  Shared(F2, [P EXCEPT ![p] = x])
<1> DEFINE P2 == [P EXCEPT ![p] = x]
<1>1. P2 \in [Proc -> Slot] /\ P2[p] = x /\ \A q \in Proc \ {p} : P2[q] = P[q]
  BY DEF Shared
<1> HIDE DEF P2
<1>2. \A q \in Proc \ {p} : own(P[q]) \cap F = {} /\ own(P[q]) \cap own(P[p]) = {}
  BY DEF Shared
<1>3. \A q \in Proc \ {p} : own(P[q]) \cap F2 = {} /\ own(P[q]) \cap own(x) = {}
  BY <1>2
<1>4. \A q \in Proc : Settled(P2[q]) /\ own(P2[q]) \cap F2 = {}
  BY <1>1, <1>3 DEF Shared
<1>5. ASSUME NEW q \in Proc, NEW z \in Proc, q # z PROVE own(P2[q]) \cap own(P2[z]) = {}
  <2>1. CASE q = p
    BY <1>1, <1>3, <1>5, <2>1
  <2>2. CASE z = p
    BY <1>1, <1>3, <1>5, <2>2
  <2>3. CASE q # p /\ z # p
    BY <1>1, <1>5, <2>3 DEF Shared
  <2> QED BY <2>1, <2>2, <2>3
<1>6. ASSUME NEW g \in Page PROVE g \in F2 \/ \E q \in Proc : g \in own(P2[q])
  <2>1. CASE g \in F2 \cup own(x)
    BY <1>1, <2>1
  <2>2. CASE g \notin F2 \cup own(x)
    <3>1. PICK q \in Proc : g \in own(P[q])
      BY <2>2 DEF Shared
    <3>2. q # p
      BY <2>2, <3>1
    <3> QED BY <1>1, <3>1, <3>2
  <2> QED BY <2>1, <2>2
<1>7. Shared(F2, P2)
  BY <1>1, <1>4, <1>5, <1>6 DEF Shared
<1> QED BY <1>7 DEF P2

\* A call begins, with F and the table t.
Begun(F, n, t, sz, m) ==
  Sound(m) /\ acc(m) = F \cup tpages(t) /\ m.ok /\ m.pt = t /\ m.sz = sz /\ m.free = F /\ m.panic = {} /\ m.left = n

\* A call begins with nothing lost.
LEMMA Begin ==
  ASSUME NEW F \in SUBSET Page, NEW n \in Nat, NEW t \in Table, Tidy(t), F \cap tpages(t) = {}, NEW sz \in Nat
  PROVE  Begun(F, n, t, sz, begin(F, n, t, sz))
<1>1. PICK m : m = begin(F, n, t, sz)
  OBVIOUS
<1>2. m \in Mem /\ m.ok /\ m.pt = t /\ m.sz = sz /\ m.free = F /\ m.panic = {} /\ m.left = n
  BY <1>1, TableType DEF begin, Mem
<1> QED BY <1>1, <1>2 DEF Sound, acc, Begun

\* A call begins without a table.
LEMMA BeginNone ==
  ASSUME NEW F \in SUBSET Page, NEW n \in Nat, NEW m, m = begin(F, n, NoTable, 0)
  PROVE  /\ Sound(m) /\ acc(m) = F /\ m.ok /\ m.pt = NoTable /\ m.sz = 0 /\ m.free = F /\ m.panic = {} /\ m.left = n
<1>1. NoTable \in Table /\ Tidy(NoTable) /\ tpages(NoTable) = {} /\ F \cap tpages(NoTable) = {} /\ 0 \in Nat
  BY TableType, NoTableTidy
<1>2. Begun(F, n, NoTable, 0, m)
  BY <1>1, Begin
<1> QED BY <1>1, <1>2 DEF Begun

\* The calls a process can be let have.
LEMMA Counts == \A F \in SUBSET Page : \A n \in 0..Cardinality(F) : n \in Nat
<1> SUFFICES ASSUME NEW F \in SUBSET Page PROVE Cardinality(F) \in Nat
  OBVIOUS
<1>1. IsFiniteSet(F)
  BY PageCount, FS_Subset
<1> QED BY <1>1, FS_CardinalityType

----------------------------------------------------------------------------
(* fork() *)

\* What fork() leaves: nothing, or a process with all the pages of its parent.
Forked(F, sz, tf, m) ==
  /\ m.ok \in BOOLEAN
  /\ ~m.ok => freeproc(m, tf, 0).free = F /\ freeproc(m, tf, 0).panic = {}
  /\ m.ok => /\ Sound(m) /\ tf \in F /\ tf \notin acc(m) /\ acc(m) \cup {tf} = F
             /\ Shape(m.pt, PGROUNDUP(sz), tf)

\* allocproc() and uvmcopy().
LEMMA ForkCall ==
  ASSUME NEW F \in SUBSET Page, NEW n \in Nat, NEW old \in Table, NEW sz \in Nat, NEW tf0,
         Shape(old, PGROUNDUP(sz), tf0),
         NEW a, a = allocproc(kalloc(begin(F, n, NoTable, 0))), NEW m, m = uvmcopy(a.m, old, sz)
  PROVE  Forked(F, sz, a.tf, m)
<1>1. PICK b : b = begin(F, n, NoTable, 0)
  OBVIOUS
<1>2. /\ Sound(b) /\ acc(b) = F /\ b.ok /\ b.pt = NoTable /\ b.sz = 0 /\ b.free = F /\ b.panic = {}
  BY <1>1, BeginNone
<1>3. PICK k : k = kalloc(b)
  OBVIOUS
<1>4. b \in Mem
  BY <1>2 DEF Sound
<1>5. k \in Mem /\ k.pt = NoTable /\ k.sz = 0 /\ k.panic = {} /\ k.mem \in Page \cup {0}
  BY <1>2, <1>3, <1>4, KallocType, MemIs
<1>6. k.ok => k.mem \in F /\ k.mem \in Page /\ k.free = F \ {k.mem}
  BY <1>2, <1>3, <1>4, KallocType
<1>7. ~k.ok => k.free = F /\ k.mem = 0
  BY <1>2, <1>3, <1>4, KallocType
<1>8. PICK tf \in Page \cup {0} : tf = k.mem
  BY <1>5
<1>9. PICK c : c = proc_pagetable(k, tf)
  OBVIOUS
<1>10. a.m = c /\ a.tf = tf
  BY <1>1, <1>3, <1>8, <1>9 DEF allocproc
<1>11. Sound(k) /\ acc(k) = k.free
  BY <1>5, <1>6, <1>7, NoTableTidy, MemIs DEF Sound, acc
<1>12. tf \notin acc(k) /\ acc(k) \cup ({tf} \ {0}) = F
  BY <1>6, <1>7, <1>8, <1>11, TableType
<1>13. Built(acc(k), tf, c) /\ c.sz = 0 /\ (c.ok => k.ok) /\ (c.pt = NoTable <=> ~c.ok)
  BY <1>5, <1>9, <1>11, Pagetable
<1>14. Sound(c) /\ acc(c) = acc(k) /\ (c.ok => Shape(c.pt, 0, tf))
  BY <1>13, RoundZero DEF Built, Held
<1>15. Grown(c, 0, PGROUNDUP(sz), FALSE, m)
  BY <1>10, <1>14, Uvmcopy
<1>16. /\ Sound(m) /\ acc(m) = acc(k) /\ m.pt.root = c.pt.root /\ (~c.ok => m = c)
       /\ m.ok \in BOOLEAN
  BY <1>14, <1>15, MemIs DEF Grown, Sound
<1>17. CASE ~m.ok
  <2>1. PICK r : r = freeproc(m, tf, 0)
    OBVIOUS
  <2>2. m.pt # NoTable => Shape(m.pt, PGROUNDUP(0), tf)
    <3>1. CASE ~c.ok
      BY <1>13, <1>16, <3>1
    <3>2. CASE c.ok
      <4>1. m.pt.leaf = c.pt.leaf
        BY <1>15, <1>17 DEF Grown
      <4> QED BY <1>14, <1>16, <3>2, <4>1, RoundZero DEF Shape
    <3> QED BY <3>1, <3>2
  <2>3. r.free = acc(m) \cup ({tf} \ {0}) /\ r.panic = {}
    BY <1>12, <1>16, <2>1, <2>2, Freeproc
  <2> QED BY <1>10, <1>12, <1>16, <1>17, <2>1, <2>3 DEF Forked
<1>18. CASE m.ok
  <2>1. /\ c.ok /\ 0 + PGROUNDUP(sz) <= NPAGE
        /\ DOMAIN m.pt.leaf = DOMAIN c.pt.leaf \cup 0..(0 + PGROUNDUP(sz) - 1)
        /\ \A z \in DOMAIN c.pt.leaf : m.pt.leaf[z] = c.pt.leaf[z]
    BY <1>15, <1>18 DEF Grown
  <2>2. k.ok /\ tf \in F /\ tf # 0
    BY <1>6, <1>8, <1>13, <2>1, TableType
  <2>3. acc(m) \cup {tf} = F /\ tf \notin acc(m)
    BY <1>12, <1>16, <2>2
  <2>4. Shape(m.pt, PGROUNDUP(sz), tf)
    <3>1. Shape(c.pt, 0, tf)
      BY <1>14, <2>1
    <3>2. DOMAIN c.pt.leaf = {TRAPFRAME, TRAMPOLINE} /\ c.pt.leaf[TRAPFRAME].pa = tf /\ c.pt.root # 0
      BY <3>1 DEF Shape
    <3>3. PGROUNDUP(sz) \in Nat /\ 0 + PGROUNDUP(sz) = PGROUNDUP(sz)
      BY RoundUp
    <3>4. PGROUNDUP(sz) \in 0..NPAGE /\ m.pt.leaf[TRAPFRAME].pa = tf /\ m.pt.root # 0
      BY <1>16, <2>1, <3>2, <3>3, Sizes
    <3>5. DOMAIN m.pt.leaf = 0..(PGROUNDUP(sz) - 1) \cup {TRAPFRAME, TRAMPOLINE}
      BY <2>1, <3>2, <3>3
    <3> QED BY <3>4, <3>5 DEF Shape
  <2> QED BY <1>10, <1>16, <1>18, <2>2, <2>3, <2>4 DEF Forked
<1> QED BY <1>16, <1>17, <1>18

\* What FailureUndone says of a step.
Undone ==
  ~ret'.ok => /\ ret'.call \in {"fork", "exec", "wait"} => free' = free /\ proc' = proc
              /\ \A p \in Proc : proc'[p].sz = proc[p].sz /\ proc'[p].pt.leaf = proc[p].pt.leaf

\* The processes as the calls find them.
LEMMA SlotIs ==
  ASSUME MInv, NEW p \in Proc, proc[p].state # "UNUSED"
  PROVE  /\ proc[p] \in Slot /\ Live(proc[p]) /\ proc[p].pt \in Table /\ proc[p].sz \in Nat /\ proc[p].tf \in Page
         /\ Tidy(proc[p].pt) /\ Shape(proc[p].pt, PGROUNDUP(proc[p].sz), proc[p].tf)
         /\ own(proc[p]) = tpages(proc[p].pt) \cup {proc[p].tf} /\ own(proc[p]) \cap free = {}
         /\ proc[p].tf \notin tpages(proc[p].pt)
<1>1. proc[p] \in Slot /\ Settled(proc[p]) /\ own(proc[p]) \cap free = {}
  BY DEF MInv, Shared
<1>2. Live(proc[p])
  BY <1>1 DEF Settled
<1>3. proc[p].pt \in Table /\ proc[p].sz \in Nat
  BY <1>1 DEF Slot
<1>4. own(proc[p]) = tpages(proc[p].pt) \cup {proc[p].tf}
  BY <1>2, TableType DEF Live, own
<1> QED BY <1>1, <1>2, <1>3, <1>4 DEF Live

\* A step of fork().
LEMMA ForkStep ==
  ASSUME MInv, NEW p \in Proc, NEW q \in Proc, fork(p, q)
  PROVE  MInv' /\ Undone
<1>1. free \in SUBSET Page /\ proc \in [Proc -> Slot] /\ panic = {} /\ Shared(free, proc)
  BY DEF MInv, Shared
<1>2. proc[p].state = "RUNNABLE" /\ proc[q].state = "UNUSED"
  BY DEF fork, in_state
<1>3. /\ proc[p].pt \in Table /\ proc[p].sz \in Nat /\ Shape(proc[p].pt, PGROUNDUP(proc[p].sz), proc[p].tf)
  BY <1>2, SlotIs
<1>4. own(proc[q]) = {}
  BY <1>1, <1>2, UnusedIs DEF Shared, Settled
<1>5. PICK n \in 0..Cardinality(free) :
        \E a \in {allocproc(kalloc(begin(free, n, NoTable, 0)))} :
        \E m \in {uvmcopy(a.m, proc[p].pt, proc[p].sz)} :
          \/ ~m.ok /\ return("fork", freeproc(m, a.tf, 0), FALSE) /\ UNCHANGED proc
          \/ /\ m.ok /\ return("fork", m, TRUE)
             /\ proc' = [proc EXCEPT ![q] = [state |-> "RUNNABLE", tf |-> a.tf, pt |-> m.pt, sz |-> proc[p].sz]]
  BY DEF fork
<1>6. PICK a, m : /\ a = allocproc(kalloc(begin(free, n, NoTable, 0)))
                  /\ m = uvmcopy(a.m, proc[p].pt, proc[p].sz)
                  /\ \/ ~m.ok /\ return("fork", freeproc(m, a.tf, 0), FALSE) /\ UNCHANGED proc
                     \/ /\ m.ok /\ return("fork", m, TRUE)
                        /\ proc' = [proc EXCEPT ![q] = [state |-> "RUNNABLE", tf |-> a.tf, pt |-> m.pt,
                                                        sz |-> proc[p].sz]]
  BY <1>5
<1>7. n \in Nat
  BY <1>1, Counts
<1>8. Forked(free, proc[p].sz, a.tf, m)
  BY <1>1, <1>3, <1>6, <1>7, ForkCall
<1>9. CASE ~m.ok
  <2>1. return("fork", freeproc(m, a.tf, 0), FALSE) /\ proc' = proc
    BY <1>6, <1>9
  <2>2. freeproc(m, a.tf, 0).free = free /\ freeproc(m, a.tf, 0).panic = {}
    BY <1>8, <1>9 DEF Forked
  <2>3. free' = free /\ panic' = {}
    BY <1>1, <2>1, <2>2 DEF return
  <2> QED BY <1>1, <2>1, <2>3 DEF MInv, Undone
<1>10. CASE m.ok
  <2> DEFINE x == [state |-> "RUNNABLE", tf |-> a.tf, pt |-> m.pt, sz |-> proc[p].sz]
  <2>1. return("fork", m, TRUE) /\ proc' = [proc EXCEPT ![q] = x]
    BY <1>6, <1>10
  <2>2. /\ Sound(m) /\ a.tf \in free /\ a.tf \notin acc(m) /\ acc(m) \cup {a.tf} = free
        /\ Shape(m.pt, PGROUNDUP(proc[p].sz), a.tf)
    BY <1>8, <1>10 DEF Forked
  <2>3. m.pt \in Table /\ m.free \subseteq Page /\ m.panic = {} /\ Tidy(m.pt) /\ m.free \cap tpages(m.pt) = {}
    BY <2>2, MemIs DEF Sound
  <2>4. x \in Slot /\ x.state = "RUNNABLE" /\ x.tf = a.tf /\ x.pt = m.pt /\ x.sz = proc[p].sz
    BY <1>1, <1>3, <2>2, <2>3 DEF Slot
  <2> HIDE DEF x
  <2>5. Settled(x)
    BY <1>1, <2>2, <2>3, <2>4 DEF Settled, Live, acc
  <2>6. own(x) = tpages(m.pt) \cup {a.tf}
    BY <1>1, <2>2, <2>4, TableType DEF own
  <2>7. m.free \cap own(x) = {} /\ m.free \cup own(x) = free \cup own(proc[q])
    BY <1>4, <2>2, <2>3, <2>6 DEF acc
  <2>8. Shared(m.free, proc')
    BY <1>1, <2>1, <2>3, <2>4, <2>5, <2>7, Exchange
  <2>9. free' = m.free /\ panic' = {} /\ ret'.ok
    BY <1>1, <2>1, <2>3 DEF return
  <2> QED BY <2>8, <2>9 DEF MInv, Undone
<1> QED BY <1>8, <1>9, <1>10 DEF Forked

----------------------------------------------------------------------------
(* exit(), wait() and sbrk() *)

\* A step of exit(): the memory stays until wait().
LEMMA ExitStep ==
  ASSUME MInv, NEW p \in Proc, exit(p)
  PROVE  MInv' /\ Undone
<1>1. free \in SUBSET Page /\ proc \in [Proc -> Slot] /\ panic = {} /\ Shared(free, proc)
  BY DEF MInv, Shared
<1>2. proc[p].state = "RUNNABLE" /\ free' = free /\ panic' = panic /\ ret'.ok
  BY DEF exit, in_state
<1>3. PICK x : x = [proc[p] EXCEPT !.state = "ZOMBIE"]
  OBVIOUS
<1>4. proc' = [proc EXCEPT ![p] = x]
  BY <1>3 DEF exit
<1>5. Live(proc[p]) /\ proc[p] \in Slot /\ own(proc[p]) \cap free = {}
  BY <1>2, SlotIs
<1>6. x \in Slot /\ x.state = "ZOMBIE" /\ x.pt = proc[p].pt /\ x.tf = proc[p].tf /\ x.sz = proc[p].sz
  BY <1>3, <1>5 DEF Slot
<1>7. Settled(x) /\ own(x) = own(proc[p])
  BY <1>5, <1>6 DEF Settled, Live, own
<1>8. Shared(free, proc')
  BY <1>1, <1>4, <1>5, <1>6, <1>7, Exchange
<1> QED BY <1>1, <1>2, <1>8 DEF MInv, Undone

\* A step of wait().
LEMMA WaitStep ==
  ASSUME MInv, NEW p \in Proc, NEW q \in Proc, NEW addr, wait(p, q, addr)
  PROVE  MInv' /\ Undone
<1>1. free \in SUBSET Page /\ proc \in [Proc -> Slot] /\ panic = {} /\ Shared(free, proc)
  BY DEF MInv, Shared
<1>2. proc[q].state = "ZOMBIE" /\ 0 \in Nat
  BY DEF wait, in_state
<1>3. CASE return("wait", begin(free, 0, NoTable, 0), FALSE) /\ proc' = proc
  <2>1. PICK b : b = begin(free, 0, NoTable, 0)
    OBVIOUS
  <2>2. b.free = free /\ b.panic = {}
    BY <1>1, <2>1, BeginNone
  <2>3. free' = free /\ panic' = {}
    BY <1>1, <1>3, <2>1, <2>2 DEF return
  <2> QED BY <1>1, <1>3, <2>3 DEF MInv, Undone
<1>4. CASE /\ return("wait", freeproc(begin(free, 0, proc[q].pt, 0), proc[q].tf, proc[q].sz), TRUE)
           /\ proc' = [proc EXCEPT ![q] = Unused]
  <2>1. /\ proc[q].pt \in Table /\ proc[q].sz \in Nat /\ proc[q].tf \in Page /\ Tidy(proc[q].pt)
        /\ Shape(proc[q].pt, PGROUNDUP(proc[q].sz), proc[q].tf)
        /\ own(proc[q]) = tpages(proc[q].pt) \cup {proc[q].tf} /\ own(proc[q]) \cap free = {}
        /\ proc[q].tf \notin tpages(proc[q].pt)
    BY <1>2, SlotIs
  <2>2. PICK b : b = begin(free, 0, proc[q].pt, 0)
    OBVIOUS
  <2>3. free \cap tpages(proc[q].pt) = {}
    BY <2>1
  <2>4. Begun(free, 0, proc[q].pt, 0, b)
    BY <1>1, <1>2, <2>1, <2>2, <2>3, Begin
  <2>5. Sound(b) /\ acc(b) = free \cup tpages(proc[q].pt) /\ b.pt = proc[q].pt
    BY <2>4 DEF Begun
  <2>6. PICK r : r = freeproc(b, proc[q].tf, proc[q].sz)
    OBVIOUS
  <2>7. proc[q].tf \notin acc(b) /\ proc[q].tf \in Page \cup {0}
    BY <2>1, <2>5
  <2>8. r.free = acc(b) \cup ({proc[q].tf} \ {0}) /\ r.panic = {}
    BY <2>1, <2>5, <2>6, <2>7, Freeproc
  <2>9. free' = r.free /\ panic' = {} /\ ret'.ok
    BY <1>1, <1>4, <2>2, <2>6, <2>8 DEF return
  <2>10. r.free = free \cup own(proc[q])
    BY <2>1, <2>5, <2>8, TableType
  <2>11. own(proc[q]) \subseteq Page
    BY <1>1, OwnPages DEF Shared
  <2>12. /\ r.free \in SUBSET Page /\ Unused \in Slot /\ Settled(Unused) /\ r.free \cap own(Unused) = {}
         /\ r.free \cup own(Unused) = free \cup own(proc[q])
    BY <1>1, <2>10, <2>11, UnusedIs
  <2>13. Shared(r.free, proc')
    BY <1>1, <1>4, <2>12, Exchange
  <2> QED BY <2>9, <2>13 DEF MInv, Undone
<1> QED BY <1>3, <1>4 DEF wait

\* A process with another table and size, and the pages that were its or free.
LEMMA Resized ==
  ASSUME MInv, NEW p \in Proc, proc[p].state = "RUNNABLE", NEW t \in Table, NEW sz \in Nat, Tidy(t),
         Shape(t, PGROUNDUP(sz), proc[p].tf), NEW F \in SUBSET Page, F \cap tpages(t) = {},
         F \cup tpages(t) = free \cup tpages(proc[p].pt)
  PROVE  /\ Shared(F, [proc EXCEPT ![p].pt = t, ![p].sz = sz])
         /\ proc \in [Proc -> Slot]
<1>1. free \in SUBSET Page /\ proc \in [Proc -> Slot] /\ Shared(free, proc)
  BY DEF MInv, Shared
<1>2. /\ proc[p] \in Slot /\ proc[p].tf \in Page
      /\ own(proc[p]) = tpages(proc[p].pt) \cup {proc[p].tf} /\ own(proc[p]) \cap free = {}
      /\ proc[p].tf \notin tpages(proc[p].pt)
  BY SlotIs
<1>3. PICK x : x = [proc[p] EXCEPT !.pt = t, !.sz = sz]
  OBVIOUS
<1>4. [proc EXCEPT ![p].pt = t, ![p].sz = sz] = [proc EXCEPT ![p] = x]
  BY <1>1, <1>3
<1>5. x \in Slot /\ x.state = "RUNNABLE" /\ x.pt = t /\ x.sz = sz /\ x.tf = proc[p].tf
  BY <1>2, <1>3 DEF Slot
<1>6. proc[p].tf \notin F \cup tpages(t)
  BY <1>2
<1>7. Settled(x) /\ own(x) = tpages(t) \cup {proc[p].tf}
  BY <1>2, <1>5, <1>6, TableType DEF Settled, Live, own
<1>8. F \cap own(x) = {} /\ F \cup own(x) = free \cup own(proc[p])
  BY <1>2, <1>6, <1>7
<1>9. Shared(F, [proc EXCEPT ![p] = x])
  BY <1>1, <1>5, <1>7, <1>8, Exchange
<1> QED BY <1>1, <1>4, <1>9

\* The smaller of two sizes.
LEMMA MinOf ==
  ASSUME NEW a \in Nat, NEW b \in Nat
  PROVE  Min({a, b}) \in Nat /\ Min({a, b}) <= a /\ Min({a, b}) <= b
<1>1. \E x \in {a, b} : \A y \in {a, b} : x <= y
  OBVIOUS
<1> QED BY <1>1 DEF Min

\* There is an address space.
LEMMA WPositive == W \in Nat \ {0}
<1>1. W \in Nat /\ 0 \in Nat /\ PGROUNDUP(0) \in 0..NPAGE
  BY MemoryAssumption, RoundZero, Sizes
<1> QED BY <1>1, SizeBound

\* uvmdealloc() from i pages to j.
LEMMA DeallocUser ==
  ASSUME NEW m, Sound(m), NEW i \in Nat, NEW j \in Nat, j..(i - 1) \subseteq DOMAIN m.pt.leaf, i <= TRAPFRAME
  PROVE  Unmapped(m, j..(i - 1), uvmdealloc(m, i, j))
<1>1. CASE j < i
  <2>1. uvmdealloc(m, i, j) = uvmunmap(m, j..(i - 1), TRUE)
    BY <1>1 DEF uvmdealloc
  <2>2. \A v \in j..(i - 1) : v < TRAPFRAME
    BY Sizes
  <2> QED BY <2>1, <2>2, UnmapUser
<1>2. CASE ~(j < i)
  <2>1. uvmdealloc(m, i, j) = m /\ j..(i - 1) = {}
    BY <1>2 DEF uvmdealloc
  <2> QED BY <2>1 DEF Unmapped
<1> QED BY <1>1, <1>2

\* What growproc() leaves.
Resizing(F, t, sz, tf, m) ==
  /\ Sound(m) /\ acc(m) = F \cup tpages(t) /\ Shape(m.pt, PGROUNDUP(m.sz), tf) /\ m.ok \in BOOLEAN
  /\ ~m.ok => m.sz = sz /\ m.pt.leaf = t.leaf

\* growproc(), up, down or around.
LEMMA Growproc ==
  ASSUME MInv, NEW p \in Proc, proc[p].state = "RUNNABLE", NEW n \in Int, NEW k \in Nat
  PROVE  Resizing(free, proc[p].pt, proc[p].sz, proc[p].tf, growproc(p, n, k))
<1> DEFINE t == proc[p].pt
           sz == proc[p].sz
           tf == proc[p].tf
<1>1. free \in SUBSET Page
  BY DEF MInv, Shared
<1>2. /\ t \in Table /\ sz \in Nat /\ Tidy(t) /\ Shape(t, PGROUNDUP(sz), tf) /\ free \cap tpages(t) = {}
  BY SlotIs
<1>3. PICK new \in Nat : new = newsz(sz, n)
  <2>1. sz + n \in Int
    BY <1>2
  <2>2. (sz + n) % W \in Nat
    BY <2>1, WPositive
  <2> QED BY <2>2 DEF newsz
<1>4. PICK m : m = growproc(p, n, k)
  OBVIOUS
<1>5. CASE n > 0
  <2>1. PICK b : b = begin(free, k, t, sz)
    OBVIOUS
  <2>2. m = uvmalloc(b, new)
    BY <1>3, <1>4, <1>5, <2>1 DEF growproc
  <2> HIDE DEF t, sz, tf
  <2>3. Begun(free, k, t, sz, b)
    BY <1>1, <1>2, <2>1, Begin
  <2>4. Sound(b) /\ acc(b) = free \cup tpages(t) /\ b.pt = t /\ b.sz = sz
    BY <2>3 DEF Begun
  <2>5. Alloced(b, new, tf, m)
    BY <1>2, <2>2, <2>4, Uvmalloc
  <2>6. Resizing(free, t, sz, tf, m)
    BY <2>4, <2>5, MemIs DEF Alloced, Resizing, Sound
  <2> QED BY <1>4, <2>6 DEF t, sz, tf
<1>6. CASE ~(n > 0)
  <2>1. PICK down \in Nat : down = Min({new, sz}) /\ down <= sz
    BY <1>2, MinOf
  <2>2. PICK b : b = begin(free, k, t, down)
    OBVIOUS
  <2>3. m = uvmdealloc(b, PGROUNDUP(sz), PGROUNDUP(down))
    BY <1>3, <1>4, <1>6, <2>1, <2>2 DEF growproc
  <2> HIDE DEF t, sz, tf
  <2>4. Begun(free, k, t, down, b)
    BY <1>1, <1>2, <2>1, <2>2, Begin
  <2>5. Sound(b) /\ b \in Mem /\ acc(b) = free \cup tpages(t) /\ b.pt = t /\ b.sz = down /\ b.ok
    BY <2>4 DEF Begun, Sound
  <2>6. PICK i \in Nat : i = PGROUNDUP(sz)
    BY <1>2, RoundUp
  <2>7. PICK j \in Nat : j = PGROUNDUP(down) /\ j <= i
    BY <1>2, <2>1, <2>6, RoundUp, RoundMonotone
  <2>8. DOMAIN t.leaf = 0..(i - 1) \cup {TRAPFRAME, TRAMPOLINE} /\ i <= NPAGE /\ t.leaf[TRAPFRAME].pa = tf /\ t.root # 0
    BY <1>2, <2>6, Sizes DEF Shape
  <2>9. j..(i - 1) \subseteq DOMAIN b.pt.leaf /\ i <= TRAPFRAME
    BY <2>5, <2>8, Sizes
  <2>10. Unmapped(b, j..(i - 1), m)
    <3>1. m = uvmdealloc(b, i, j)
      BY <2>3, <2>6, <2>7
    <3> QED BY <2>5, <2>9, <3>1, DeallocUser
  <2>11. /\ Sound(m) /\ acc(m) = acc(b) /\ m.sz = down /\ m.ok /\ m.pt.root = t.root
         /\ DOMAIN m.pt.leaf = DOMAIN t.leaf \ (j..(i - 1))
         /\ \A z \in DOMAIN t.leaf \ (j..(i - 1)) : m.pt.leaf[z] = t.leaf[z]
    BY <2>5, <2>10 DEF Unmapped
  <2>12. Shape(m.pt, j, tf)
    <3>1. j \in 0..NPAGE /\ DOMAIN m.pt.leaf = 0..(j - 1) \cup {TRAPFRAME, TRAMPOLINE}
      BY <2>7, <2>8, <2>11, Sizes
    <3>2. TRAPFRAME \in DOMAIN t.leaf \ (j..(i - 1))
      BY <2>8, Sizes
    <3> QED BY <2>8, <2>11, <3>1, <3>2 DEF Shape
  <2>13. Resizing(free, t, sz, tf, m)
    BY <2>5, <2>7, <2>11, <2>12 DEF Resizing
  <2> QED BY <1>4, <2>13 DEF t, sz, tf
<1> QED BY <1>5, <1>6

\* A step of sbrk().
LEMMA SbrkStep ==
  ASSUME MInv, NEW p \in Proc, NEW n \in Int, sbrk(p, n)
  PROVE  MInv' /\ Undone
<1>1. proc[p].state = "RUNNABLE"
  BY DEF sbrk, in_state
<1>2. PICK k \in 0..Cardinality(free) :
        \E m \in {growproc(p, n, k)} : /\ return("sbrk", m, m.ok)
                                       /\ proc' = [proc EXCEPT ![p].pt = m.pt, ![p].sz = m.sz]
  BY DEF sbrk
<1>3. PICK m : /\ m = growproc(p, n, k) /\ return("sbrk", m, m.ok)
               /\ proc' = [proc EXCEPT ![p].pt = m.pt, ![p].sz = m.sz]
  BY <1>2
<1>4. free \in SUBSET Page /\ panic = {} /\ k \in Nat
  BY Counts DEF MInv, Shared
<1>5. Resizing(free, proc[p].pt, proc[p].sz, proc[p].tf, m)
  BY <1>1, <1>3, <1>4, Growproc
<1>6. /\ Sound(m) /\ acc(m) = free \cup tpages(proc[p].pt) /\ Shape(m.pt, PGROUNDUP(m.sz), proc[p].tf)
      /\ ~m.ok => m.sz = proc[p].sz /\ m.pt.leaf = proc[p].pt.leaf
  BY <1>5 DEF Resizing
<1>7. m \in Mem /\ m.pt \in Table /\ m.sz \in Nat /\ Tidy(m.pt) /\ m.free \in SUBSET Page /\ m.panic = {}
  BY <1>6, MemIs DEF Sound
<1>8. m.free \cap tpages(m.pt) = {} /\ m.free \cup tpages(m.pt) = free \cup tpages(proc[p].pt)
  BY <1>6 DEF Sound, acc
<1>9. Shared(m.free, proc') /\ proc \in [Proc -> Slot]
  BY <1>1, <1>3, <1>6, <1>7, <1>8, Resized
<1>10. free' = m.free /\ panic' = {} /\ ret'.ok = m.ok /\ ret'.call = "sbrk"
  BY <1>3, <1>4, <1>7 DEF return
<1>11. ASSUME ~m.ok, NEW q \in Proc PROVE proc'[q].sz = proc[q].sz /\ proc'[q].pt.leaf = proc[q].pt.leaf
  <2>1. CASE q # p
    BY <1>3, <1>9, <2>1
  <2>2. CASE q = p
    <3>1. proc'[p].sz = m.sz /\ proc'[p].pt = m.pt
      BY <1>3, <1>9 DEF Slot
    <3> QED BY <1>6, <1>11, <2>2, <3>1
  <2> QED BY <2>1, <2>2
<1> QED BY <1>9, <1>10, <1>11 DEF MInv, Undone

----------------------------------------------------------------------------
(* exec() *)

\* A step of exec() that got as far as loading the image.
LEMMA ExecLoaded ==
  ASSUME MInv, NEW p \in Proc, proc[p].state = "RUNNABLE", NEW img \in Image, NEW A \in SUBSET free, NEW n \in Nat,
         NEW m, m = load(begin(free \ A, n, NoTable, 0), proc[p].tf, img),
         return("exec", kfree(replaced(m, proc[p].pt, proc[p].sz), A), m.ok),
         proc' = IF m.ok THEN [proc EXCEPT ![p].pt = m.pt, ![p].sz = m.sz] ELSE proc
  PROVE  MInv' /\ Undone
<1>1. free \in SUBSET Page /\ proc \in [Proc -> Slot] /\ panic = {} /\ Shared(free, proc)
  BY DEF MInv, Shared
<1>2. PICK t, sz, tf : t = proc[p].pt /\ sz = proc[p].sz /\ tf = proc[p].tf
  OBVIOUS
<1>3. /\ t \in Table /\ sz \in Nat /\ tf \in Page /\ Tidy(t) /\ Shape(t, PGROUNDUP(sz), tf)
      /\ tpages(t) \cap free = {} /\ tf \notin free /\ tf \notin tpages(t)
  BY <1>2, SlotIs
<1>4. PICK b : b = begin(free \ A, n, NoTable, 0)
  OBVIOUS
<1>5. free \ A \in SUBSET Page /\ A \subseteq Page
  BY <1>1
<1>6. Sound(b) /\ acc(b) = free \ A /\ b.pt = NoTable /\ b.sz = 0
  BY <1>4, <1>5, BeginNone
<1>7. Complete(acc(b), tf, m)
  BY <1>2, <1>3, <1>4, <1>6, Load
<1>8. /\ Sound(m) /\ acc(m) = free \ A /\ (m.ok => Shape(m.pt, PGROUNDUP(m.sz), tf)) /\ (~m.ok => m.pt = NoTable)
  BY <1>6, <1>7 DEF Complete
<1>9. /\ m \in Mem /\ m.pt \in Table /\ m.sz \in Nat /\ m.free \subseteq Page /\ m.ok \in BOOLEAN /\ m.panic = {}
      /\ Tidy(m.pt) /\ m.free \cap tpages(m.pt) = {} /\ m.free \cup tpages(m.pt) = free \ A
  BY <1>8, MemIs DEF Sound, acc
<1>10. PICK r : r = replaced(m, t, sz)
  OBVIOUS
<1>13. A \ {0} = A
  BY <1>5, TableType
<1>16. A \ {0} \subseteq Page
  BY <1>5
<1>17. PICK f : f = kfree(r, A \ {0})
  OBVIOUS
<1>11. f = kfree(r, A)
  BY <1>13, <1>17
<1>12. free' = f.free /\ panic' = panic \cup f.panic /\ ret'.ok = m.ok
  BY <1>2, <1>10, <1>11 DEF return
<1>14. CASE ~m.ok
  <2>1. r = m
    BY <1>10, <1>14 DEF replaced
  <2>2. f.free = m.free \cup (A \ {0}) /\ f.panic = m.panic
    BY <1>9, <1>16, <1>17, <2>1, Kfree
  <2>3. m.free = free \ A
    BY <1>8, <1>9, <1>14, NoTableTidy
  <2>4. free' = free /\ panic' = {}
    BY <1>1, <1>9, <1>12, <1>13, <2>2, <2>3
  <2>5. proc' = proc
    BY <1>14
  <2> QED BY <1>1, <2>4, <2>5 DEF MInv, Undone
<1>15. CASE m.ok
  <2>1. PICK c : c = [m EXCEPT !.pt = t]
    OBVIOUS
  <2>2. r = proc_freepagetable(c, sz)
    BY <1>10, <1>15, <2>1 DEF replaced
  <2>3. c \in Mem /\ c.pt = t /\ c.free = m.free /\ c.panic = {}
    BY <1>3, <1>9, <2>1 DEF Mem
  <2>4. Sound(c) /\ acc(c) = m.free \cup tpages(t)
    BY <1>3, <1>9, <2>3 DEF Sound, acc
  <2>5. Emptied(c, r)
    BY <1>3, <2>2, <2>3, <2>4, FreePagetable
  <2>6. r \in Mem /\ r.free = m.free \cup tpages(t) /\ r.panic = {}
    BY <2>4, <2>5 DEF Emptied, Sound
  <2>7. f.free = m.free \cup tpages(t) \cup A /\ f.panic = {}
    <3>1. f.free = r.free \cup (A \ {0}) /\ f.panic = r.panic
      BY <1>16, <1>17, <2>6, Kfree
    <3> QED BY <1>13, <2>6, <3>1
  <2>8. f.free \in SUBSET Page
    BY <1>3, <1>5, <1>9, <2>7, TablePages
  <2>9. f.free \cap tpages(m.pt) = {} /\ f.free \cup tpages(m.pt) = free \cup tpages(t)
    BY <1>3, <1>9, <2>7
  <2>10. Shared(f.free, [proc EXCEPT ![p].pt = m.pt, ![p].sz = m.sz])
    BY <1>2, <1>8, <1>9, <1>15, <2>8, <2>9, Resized
  <2>11. proc' = [proc EXCEPT ![p].pt = m.pt, ![p].sz = m.sz]
    BY <1>15
  <2> QED BY <1>1, <1>12, <1>15, <2>7, <2>10, <2>11 DEF MInv, Undone
<1> QED BY <1>9, <1>14, <1>15

\* A step of exec().
LEMMA ExecStep ==
  ASSUME MInv, NEW p \in Proc, NEW img \in Image, NEW nargs \in Nat, exec(p, img, nargs)
  PROVE  MInv' /\ Undone
<1>1. free \in SUBSET Page /\ panic = {} /\ Shared(free, proc)
  BY DEF MInv, Shared
<1>2. proc[p].state = "RUNNABLE"
  BY DEF exec, in_state
<1>3. PICK n \in 0..Cardinality(free) :
       \/ /\ proc' = proc
          /\ \E k \in 0..n :
               return("exec", kfree(begin(free \ first_pages(k), n - k, NoTable, 0), first_pages(k)), FALSE)
       \/ /\ n >= nargs
          /\ \E m \in {load(begin(free \ first_pages(nargs), n - nargs, NoTable, 0), proc[p].tf, img)} :
               /\ return("exec", kfree(replaced(m, proc[p].pt, proc[p].sz), first_pages(nargs)), m.ok)
               /\ proc' = IF m.ok THEN [proc EXCEPT ![p].pt = m.pt, ![p].sz = m.sz] ELSE proc
  BY DEF exec
<1>4. n \in Nat
  BY <1>1, Counts
<1>5. CASE /\ proc' = proc
           /\ \E k \in 0..n :
                return("exec", kfree(begin(free \ first_pages(k), n - k, NoTable, 0), first_pages(k)), FALSE)
  <2>1. PICK k \in 0..n :
          return("exec", kfree(begin(free \ first_pages(k), n - k, NoTable, 0), first_pages(k)), FALSE)
    BY <1>5
  <2>2. PICK A \in SUBSET free : A = first_pages(k)
    BY DEF first_pages
  <2>3. PICK j \in Nat : j = n - k
    BY <1>4, <2>1
  <2>4. PICK b : b = begin(free \ A, j, NoTable, 0)
    OBVIOUS
  <2>5. A \ {0} = A
    BY <1>1, <2>2, TableType
  <2>11. A \ {0} \subseteq Page /\ free \ A \in SUBSET Page
    BY <1>1, <2>2
  <2>6. b \in Mem /\ b.free = free \ A /\ b.panic = {}
    <3>1. PICK F \in SUBSET Page : F = free \ A
      BY <2>11
    <3>2. Sound(b) /\ b.free = F /\ b.panic = {}
      BY <2>3, <2>4, <3>1, BeginNone
    <3> QED BY <3>1, <3>2 DEF Sound
  <2>12. PICK f : f = kfree(b, A \ {0})
    OBVIOUS
  <2>7. f = kfree(b, A)
    BY <2>5, <2>12
  <2>8. f.free = b.free \cup (A \ {0}) /\ f.panic = b.panic
    BY <2>6, <2>11, <2>12, Kfree
  <2>9. free' = f.free /\ panic' = panic \cup f.panic
    BY <2>1, <2>2, <2>3, <2>4, <2>7 DEF return
  <2>10. free' = free /\ panic' = {}
    BY <1>1, <2>2, <2>5, <2>6, <2>8, <2>9
  <2> QED BY <1>1, <1>5, <2>10 DEF MInv, Undone
<1>6. CASE /\ n >= nargs
           /\ \E m \in {load(begin(free \ first_pages(nargs), n - nargs, NoTable, 0), proc[p].tf, img)} :
               /\ return("exec", kfree(replaced(m, proc[p].pt, proc[p].sz), first_pages(nargs)), m.ok)
               /\ proc' = IF m.ok THEN [proc EXCEPT ![p].pt = m.pt, ![p].sz = m.sz] ELSE proc
  <2>1. PICK A \in SUBSET free : A = first_pages(nargs)
    BY DEF first_pages
  <2>2. PICK k \in Nat : k = n - nargs
    BY <1>4, <1>6
  <2>3. PICK m : /\ m = load(begin(free \ A, k, NoTable, 0), proc[p].tf, img)
                 /\ return("exec", kfree(replaced(m, proc[p].pt, proc[p].sz), A), m.ok)
                 /\ proc' = IF m.ok THEN [proc EXCEPT ![p].pt = m.pt, ![p].sz = m.sz] ELSE proc
    BY <1>6, <2>1, <2>2
  <2> QED BY <1>2, <2>1, <2>2, <2>3, ExecLoaded
<1> QED BY <1>3, <1>5, <1>6

----------------------------------------------------------------------------
(* The first process *)

\* userinit() succeeds: there are pages enough.
LEMMA InitInv == Init => MInv
<1> SUFFICES ASSUME Init PROVE MInv
  OBVIOUS
<1>1. PICK a, m : /\ a = allocproc(kalloc(kinit)) /\ m = uvmfirst(a.m)
                  /\ free = m.free /\ panic = m.panic
                  /\ proc = [p \in Proc |-> IF p = InitProc
                                            THEN [state |-> "RUNNABLE", tf |-> a.tf, pt |-> m.pt, sz |-> PGSIZE]
                                            ELSE Unused]
  BY DEF Init
<1>2. PICK b : b = kinit /\ b = begin(Page, NPAGE, NoTable, 0)
  BY DEF kinit
<1>3. Page \in SUBSET Page /\ NPAGE \in Nat
  BY Sizes
<1>4. /\ Sound(b) /\ acc(b) = Page /\ b.ok /\ b.pt = NoTable /\ b.sz = 0 /\ b.free = Page /\ b.panic = {}
      /\ b.left = NPAGE
  BY <1>2, <1>3, BeginNone
<1>5. b \in Mem /\ Rich(b, 7)
  <2>1. NPAGE >= 7
    BY MemoryAssumption
  <2> QED BY <1>4, <2>1, PageCount DEF Rich, Sound
<1>6. PICK k : k = kalloc(b)
  OBVIOUS
<1>7. Rich(k, 6)
  <2>1. 6 \in Nat /\ 6 + 1 = 7
    OBVIOUS
  <2> QED BY <1>5, <1>6, <2>1, RichKalloc
<1>8. k \in Mem /\ k.ok
  BY <1>7 DEF Rich
<1>9. /\ k.pt = NoTable /\ k.sz = 0 /\ k.panic = {} /\ k.mem \in Page /\ k.free = Page \ {k.mem}
  BY <1>4, <1>5, <1>6, <1>8, KallocType
<1>10. PICK tf \in Page : tf = k.mem
  BY <1>9
<1>11. PICK c : c = proc_pagetable(k, tf)
  OBVIOUS
<1>12. a.m = c /\ a.tf = tf
  BY <1>1, <1>2, <1>6, <1>10, <1>11 DEF allocproc
<1>13. Sound(k) /\ acc(k) = Page \ {tf}
  BY <1>8, <1>9, <1>10, NoTableTidy DEF Sound, acc
<1>14. Built(acc(k), tf, c) /\ c.sz = 0 /\ (c.pt = NoTable <=> ~c.ok)
  BY <1>9, <1>11, <1>13, Pagetable
<1>15. Rich(c, 3)
  <2>1. 3 \in Nat /\ 3 + 3 = 6
    OBVIOUS
  <2> QED BY <1>7, <1>11, <2>1, RichPagetable
<1>16. c \in Mem /\ c.ok
  BY <1>15 DEF Rich
<1>17. Sound(c) /\ acc(c) = Page \ {tf} /\ Shape(c.pt, 0, tf)
  BY <1>13, <1>14, <1>16, RoundZero DEF Built, Held
<1>18. PICK d : d = kalloc(c) /\ Rich(d, 2)
  <2>1. 2 \in Nat /\ 2 + 1 = 3
    OBVIOUS
  <2> QED BY <1>15, <2>1, RichKalloc
<1>19. m = mappages(d, 0, d.mem, TRUE)
  BY <1>1, <1>12, <1>18 DEF uvmfirst, mapmem
<1>20. Rich(m, 0)
  <2>1. PICK g \in Page \cup {0} : g = d.mem
    BY <1>18, MemIs DEF Rich
  <2>2. 0 \in Nat /\ 0 + 2 = 2 /\ TRUE \in BOOLEAN
    OBVIOUS
  <2>3. Rich(mappages(d, 0, g, TRUE), 0)
    BY <1>18, <2>1, <2>2, RichMap
  <2> QED BY <1>19, <2>1, <2>3
<1>21. m.ok
  BY <1>20 DEF Rich
<1>22. newpage(c, 0, 0 + 0, TRUE) = m
  BY <1>16, <1>18, <1>19, <1>21 DEF newpage, undone, mapmem
<1>23. Grown(c, 0, 0 + 1, TRUE, m)
  <2>1. Grown(c, 0, 0, TRUE, c)
    <3>1. 0..(0 + 0 - 1) = {} /\ 0 + 0 <= NPAGE
      BY Sizes
    <3> QED BY <1>17, <3>1 DEF Grown
  <2>2. 0 \in Nat /\ 0 \in 0..NPAGE /\ TRUE \in BOOLEAN /\ (TRUE => TRUE)
    BY Sizes
  <2>3. Grown(c, 0, 0 + 1, TRUE, newpage(c, 0, 0 + 0, TRUE))
    BY <1>17, <2>1, <2>2, GrownStep
  <2> QED BY <1>22, <2>3
<1>24. /\ Sound(m) /\ acc(m) = Page \ {tf} /\ m.pt.root = c.pt.root /\ 1 <= NPAGE
       /\ DOMAIN m.pt.leaf = DOMAIN c.pt.leaf \cup 0..(0 + (0 + 1) - 1)
       /\ \A z \in DOMAIN c.pt.leaf : m.pt.leaf[z] = c.pt.leaf[z]
  BY <1>17, <1>21, <1>23 DEF Grown
<1>25. PGROUNDUP(PGSIZE) = 1 /\ PGSIZE \in Nat
  <2>1. PGSIZE \in Nat /\ 1 * PGSIZE = PGSIZE /\ 1 \in Nat
    BY Sizes
  <2> QED BY <2>1, RoundWhole
<1>26. Shape(m.pt, 1, tf)
  <2>1. DOMAIN c.pt.leaf = {TRAPFRAME, TRAMPOLINE} /\ c.pt.leaf[TRAPFRAME].pa = tf /\ c.pt.root # 0
    BY <1>17 DEF Shape
  <2>2. DOMAIN m.pt.leaf = 0..(1 - 1) \cup {TRAPFRAME, TRAMPOLINE} /\ 1 \in 0..NPAGE
    BY <1>24, <2>1, Sizes
  <2>3. m.pt.leaf[TRAPFRAME].pa = tf /\ m.pt.root # 0
    BY <1>24, <2>1
  <2> QED BY <2>2, <2>3 DEF Shape
<1>27. m.panic = {} /\ m.pt \in Table /\ Tidy(m.pt) /\ m.free \subseteq Page /\ m.free \cap tpages(m.pt) = {}
  BY <1>24, MemIs DEF Sound
<1>28. m.free \cup tpages(m.pt) = Page \ {tf}
  BY <1>24 DEF acc
<1> DEFINE x == [state |-> "RUNNABLE", tf |-> a.tf, pt |-> m.pt, sz |-> PGSIZE]
<1>29. x \in Slot /\ x.state = "RUNNABLE" /\ x.tf = tf /\ x.pt = m.pt /\ x.sz = PGSIZE
  BY <1>12, <1>25, <1>27 DEF Slot
<1>30. proc = [p \in Proc |-> IF p = InitProc THEN x ELSE Unused] /\ InitProc \in Proc
  BY <1>1, MemoryAssumption
<1> HIDE DEF x
<1>31. Settled(x) /\ own(x) = tpages(m.pt) \cup {tf}
  BY <1>25, <1>26, <1>27, <1>28, <1>29, TableType DEF Settled, Live, own
<1>32. proc \in [Proc -> Slot] /\ proc[InitProc] = x /\ \A p \in Proc \ {InitProc} : proc[p] = Unused
  BY <1>29, <1>30, UnusedIs
<1>33. \A p \in Proc : Settled(proc[p]) /\ own(proc[p]) \cap m.free = {}
  BY <1>27, <1>28, <1>31, <1>32, UnusedIs
<1>34. \A p, q \in Proc : p # q => own(proc[p]) \cap own(proc[q]) = {}
  BY <1>32, UnusedIs
<1>35. \A g \in Page : g \in m.free \/ \E p \in Proc : g \in own(proc[p])
  BY <1>28, <1>30, <1>31, <1>32
<1> QED BY <1>1, <1>27, <1>32, <1>33, <1>34, <1>35 DEF MInv, Shared

\* Every step keeps the invariant, and undoes what failed.
LEMMA NextInv == MInv /\ [Next]_vars => MInv' /\ (Undone \/ UNCHANGED vars)
<1> SUFFICES ASSUME MInv, [Next]_vars PROVE MInv' /\ (Undone \/ UNCHANGED vars)
  OBVIOUS
<1>1. CASE UNCHANGED vars
  BY <1>1 DEF vars, MInv
<1>2. CASE Next
  <2>1. PICK p \in Proc :
          \/ \E q \in Proc : fork(p, q) \/ \E addr \in Addr : wait(p, q, addr)
          \/ exit(p)
          \/ \E n \in Delta : sbrk(p, n)
          \/ \E img \in Image, n \in NArgs : exec(p, img, n)
    BY <1>2 DEF Next
  <2>2. CASE \E q \in Proc : fork(p, q)
    BY <2>2, ForkStep
  <2>3. CASE \E q \in Proc : \E addr \in Addr : wait(p, q, addr)
    BY <2>3, WaitStep
  <2>4. CASE exit(p)
    BY <2>4, ExitStep
  <2>5. CASE \E n \in Delta : sbrk(p, n)
    <3>1. Delta \subseteq Int
      BY MemoryAssumption
    <3> QED BY <2>5, <3>1, SbrkStep
  <2>6. CASE \E img \in Image, n \in NArgs : exec(p, img, n)
    <3>1. NArgs \subseteq Nat
      BY MemoryAssumption
    <3> QED BY <2>6, <3>1, ExecStep
  <2> QED BY <2>1, <2>2, <2>3, <2>4, <2>5, <2>6
<1> QED BY <1>1, <1>2

----------------------------------------------------------------------------
(* Results *)

\* The invariant holds.
LEMMA Invariant == Spec => []MInv
  BY InitInv, NextInv, PTL DEF Spec

\* No assertion of kalloc.c, vm.c or exec.c fails, whichever kalloc() found no page:
\* those about alignment and sizes aside, which Memory has no room for.
THEOREM NoPanicHolds == Spec => []NoPanic
<1>1. MInv => NoPanic
  BY DEF MInv, NoPanic
<1> QED BY <1>1, Invariant, PTL

\* As many pages as uses, when no page has two.
LEMMA ImageCount ==
  ASSUME NEW D, NEW T \in SUBSET Page, NEW f \in Injection(D, T), f \in Surjection(D, T)
  PROVE  IsFiniteSet(D) /\ IsFiniteSet(T) /\ Cardinality(T) = Cardinality(D) /\ Cardinality(D) \in Nat
<1>1. IsFiniteSet(T)
  BY PageCount, FS_Subset
<1>2. IsFiniteSet(D) /\ Cardinality(D) = Cardinality(T)
  BY <1>1, FS_Injection
<1> QED BY <1>1, <1>2, FS_CardinalityType

\* The page-table pages of a table are as many as its nodes.
LEMMA NodeCount ==
  ASSUME NEW t \in Table, Tidy(t)
  PROVE  /\ IsFiniteSet(npages(t)) /\ Cardinality(npages(t)) = Cardinality(DOMAIN t.node)
         /\ Cardinality(DOMAIN t.node) \in Nat
<1> DEFINE D == DOMAIN t.node
           T == npages(t)
           f == [n \in D |-> t.node[n]]
<1>1. T \in SUBSET Page
  BY TablePages DEF tpages
<1>2. f \in [D -> T] /\ (\A y \in T : \E x \in D : f[x] = y) /\ (\A x, y \in D : f[x] = f[y] => x = y)
  BY DEF npages, Tidy
<1> HIDE DEF D, T, f
<1>3. f \in Injection(D, T) /\ f \in Surjection(D, T)
  BY <1>2 DEF Injection, Surjection, IsInjective
<1>4. IsFiniteSet(T) /\ Cardinality(T) = Cardinality(D) /\ Cardinality(D) \in Nat
  BY <1>1, <1>3, ImageCount
<1> QED BY <1>4 DEF D, T

\* The user pages of a table are as many as its leaves below the trapframe.
LEMMA LeafCount ==
  ASSUME NEW t \in Table, Tidy(t)
  PROVE  /\ IsFiniteSet(upages(t)) /\ Cardinality(upages(t)) = Cardinality(uleaves(t))
         /\ Cardinality(uleaves(t)) \in Nat
<1> DEFINE D == uleaves(t)
           T == upages(t)
           f == [v \in D |-> t.leaf[v].pa]
<1>1. T \in SUBSET Page
  BY TablePages DEF tpages
<1>2. f \in [D -> T] /\ (\A y \in T : \E x \in D : f[x] = y) /\ (\A x, y \in D : f[x] = f[y] => x = y)
  BY DEF upages, Tidy
<1> HIDE DEF D, T, f
<1>3. f \in Injection(D, T) /\ f \in Surjection(D, T)
  BY <1>2 DEF Injection, Surjection, IsInjective
<1>4. IsFiniteSet(T) /\ Cardinality(T) = Cardinality(D) /\ Cardinality(D) \in Nat
  BY <1>1, <1>3, ImageCount
<1> QED BY <1>4 DEF D, T

\* The pages of a process, counted.
LEMMA OwnCount ==
  ASSUME NEW t \in Table, Tidy(t), NEW tf \in Page, tf \notin tpages(t), t.root # 0
  PROVE  Cardinality(tpages(t) \cup {tf}) = 2 + Cardinality(DOMAIN t.node) + Cardinality(uleaves(t))
<1>1. /\ IsFiniteSet(npages(t)) /\ Cardinality(npages(t)) = Cardinality(DOMAIN t.node)
      /\ Cardinality(DOMAIN t.node) \in Nat
  BY NodeCount
<1>2. /\ IsFiniteSet(upages(t)) /\ Cardinality(upages(t)) = Cardinality(uleaves(t))
      /\ Cardinality(uleaves(t)) \in Nat
  BY LeafCount
<1>3. PICK A : A = npages(t) \cup upages(t)
  OBVIOUS
<1>4. npages(t) \cap upages(t) = {} /\ Cardinality({}) = 0
  BY FS_EmptySet DEF Tidy
<1>5. IsFiniteSet(A) /\ Cardinality(A) = Cardinality(npages(t)) + Cardinality(upages(t)) - Cardinality({})
  <2>1. /\ IsFiniteSet(npages(t) \cup upages(t))
        /\ Cardinality(npages(t) \cup upages(t)) =
             Cardinality(npages(t)) + Cardinality(upages(t)) - Cardinality(npages(t) \cap upages(t))
    BY <1>1, <1>2, FS_Union
  <2> QED BY <1>3, <1>4, <2>1
<1>6. PICK B : B = A \cup {t.root}
  OBVIOUS
<1>7. IsFiniteSet(B) /\ Cardinality(B) = Cardinality(A) + 1
  <2>1. t.root \notin A
    BY <1>3 DEF Tidy
  <2> QED BY <1>5, <1>6, <2>1, FS_AddElement
<1>8. tpages(t) = B
  BY <1>3, <1>6 DEF tpages
<1>9. Cardinality(B \cup {tf}) = Cardinality(B) + 1
  BY <1>7, <1>8, FS_AddElement
<1> QED BY <1>1, <1>2, <1>4, <1>5, <1>7, <1>8, <1>9

\* The pages of a process, in the words of the properties.
LEMMA OwnedIs == \A p \in Proc : owned(p) = own(proc[p]) /\ user_leaves(p) = uleaves(proc[p].pt)
<1> SUFFICES ASSUME NEW p \in Proc PROVE owned(p) = own(proc[p]) /\ user_leaves(p) = uleaves(proc[p].pt)
  OBVIOUS
<1>1. nodes(p) = npages(proc[p].pt) /\ user_leaves(p) = uleaves(proc[p].pt)
  BY DEF nodes, npages, user_leaves, uleaves
<1>2. user_pages(p) = upages(proc[p].pt)
  BY <1>1 DEF user_pages, upages
<1> QED BY <1>1, <1>2 DEF owned, own, tpages

\* A page is on the free list or has one use in one process: nothing a failed
\* fork(), exec() or sbrk() took is lost, nothing is freed twice or shared.
THEOREM PagesOwnedOnceHolds == Spec => []PagesOwnedOnce
<1>1. ASSUME MInv PROVE PagesOwnedOnce
  <2>1. /\ free \subseteq Page /\ proc \in [Proc -> Slot]
        /\ \A p \in Proc : Settled(proc[p]) /\ own(proc[p]) \cap free = {}
        /\ \A p, q \in Proc : p # q => own(proc[p]) \cap own(proc[q]) = {}
        /\ \A g \in Page : g \in free \/ \E p \in Proc : g \in own(proc[p])
    BY <1>1 DEF MInv, Shared
  <2>2. \A p \in Proc : owned(p) = own(proc[p]) /\ own(proc[p]) \subseteq Page
    BY <2>1, OwnedIs, OwnPages
  <2>3. free \cup UNION {owned(p) : p \in Proc} = Page
    BY <2>1, <2>2
  <2>4. \A p \in Proc : owned(p) \cap free = {} /\ \A q \in Proc \ {p} : owned(p) \cap owned(q) = {}
    BY <2>1, <2>2
  <2>5. ASSUME NEW p \in Proc, proc[p].state # "UNUSED"
        PROVE  Cardinality(owned(p)) = 2 + Cardinality(DOMAIN proc[p].pt.node) + Cardinality(user_leaves(p))
    <3>1. PICK t, tf : t = proc[p].pt /\ tf = proc[p].tf
      OBVIOUS
    <3>2. /\ t \in Table /\ Tidy(t) /\ tf \in Page /\ tf \notin tpages(t) /\ t.root # 0
          /\ own(proc[p]) = tpages(t) \cup {tf}
      BY <1>1, <2>5, <3>1, SlotIs DEF Shape
    <3>3. Cardinality(tpages(t) \cup {tf}) = 2 + Cardinality(DOMAIN t.node) + Cardinality(uleaves(t))
      BY <3>2, OwnCount
    <3>4. owned(p) = tpages(t) \cup {tf} /\ user_leaves(p) = uleaves(t)
      BY <3>1, <3>2, OwnedIs
    <3> QED BY <3>1, <3>3, <3>4
  <2> QED BY <2>3, <2>4, <2>5 DEF PagesOwnedOnce
<1> QED BY <1>1, Invariant, PTL

\* The mapped user pages are exactly those below p->sz, and the trapframe is the
\* process's own; p->sz has not wrapped.
THEOREM SizeMappedHolds == Spec => []SizeMapped
<1>1. ASSUME MInv PROVE SizeMapped
  <2>1. /\ free \subseteq Page /\ proc \in [Proc -> Slot] /\ \A p \in Proc : Settled(proc[p])
    BY <1>1 DEF MInv, Shared
  <2>2. ASSUME NEW p \in Proc
        PROVE  proc[p].state \in {"UNUSED", "RUNNABLE", "ZOMBIE"} /\ proc[p].sz \in 0..(W - 1) /\ owned(p) \subseteq Page
    <3>1. proc[p] \in Slot /\ Settled(proc[p])
      BY <2>1
    <3>2. proc[p].state \in {"UNUSED", "RUNNABLE", "ZOMBIE"} /\ proc[p].sz \in Nat
      BY <3>1 DEF Slot
    <3>3. owned(p) \subseteq Page
      BY <3>1, OwnedIs, OwnPages
    <3>4. proc[p].sz < W
      <4>1. CASE proc[p].state = "UNUSED"
        <5>1. proc[p].sz = 0
          BY <3>1, <4>1 DEF Settled, Unused
        <5> QED BY <5>1, WPositive
      <4>2. CASE proc[p].state # "UNUSED"
        <5>1. PGROUNDUP(proc[p].sz) \in 0..NPAGE
          BY <3>1, <4>2 DEF Settled, Live, Shape
        <5> QED BY <3>2, <5>1, SizeBound
      <4> QED BY <4>1, <4>2
    <3> QED BY <3>2, <3>3, <3>4, WPositive
  <2>3. TypeOK
    BY <2>1, <2>2 DEF TypeOK
  <2>4. ASSUME NEW p \in Proc, proc[p].state # "UNUSED"
        PROVE  /\ DOMAIN proc[p].pt.leaf = 0..(PGROUNDUP(proc[p].sz) - 1) \cup {TRAPFRAME, TRAMPOLINE}
               /\ proc[p].pt.leaf[TRAPFRAME].pa = proc[p].tf
    BY <2>1, <2>4 DEF Settled, Live, Shape
  <2> QED BY <2>3, <2>4 DEF SizeMapped
<1> QED BY <1>1, Invariant, PTL

\* A fork(), exec() or wait() that fails changes nothing; an sbrk() that fails
\* keeps the size and the mapped pages.
THEOREM FailureUndoneHolds == Spec => FailureUndone
<1>1. MInv /\ [Next]_vars => [Undone]_vars
  BY NextInv
<1> QED BY <1>1, Invariant, PTL DEF Spec, FailureUndone, Undone
=============================================================================

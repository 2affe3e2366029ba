--------------------------- MODULE NodePagesProofs ---------------------------
(***************************************************************************)
(* Proofs about NodePages for every number of pages and ids, every set of  *)
(* node contents and every room they take: as long as no record was lost   *)
(* in one of the recorded ways, what the engine keeps in memory is what a  *)
(* restart reads from the chain of data pages, at every step and through   *)
(* kills, and no step changes what a restart finds for two nodes.          *)
(*                                                                         *)
(* First come recursive definitions (the chain, the page written anew),    *)
(* then what the chain is when it is lengthened or a page changes, then    *)
(* what is read from it, and then the steps.                               *)
(***************************************************************************)
EXTENDS NodePages, FiniteSetTheorems, WellFoundedInduction, TLAPS

-----------------------------------------------------------------------------
(* Numbers and recursion.                                                  *)

\* A non-empty set of natural numbers has a least one, ...
LEMMA LeastExists ==
  ASSUME NEW S \in SUBSET Nat, S # {}
  PROVE  \E p \in S : \A q \in S : p <= q
<1>1. PICK x \in S : \A y \in S : ~ (<<y, x>> \in OpToRel(<, Nat))
  BY NatLessThanWellFounded, WFMin
<1>2. ASSUME NEW y \in S  PROVE x <= y
  <2>1. x \in Nat /\ y \in Nat
    OBVIOUS
  <2>2. ~ (y < x)
    BY <1>1, <2>1 DEF OpToRel
  <2> QED BY <2>1, <2>2
<1> QED BY <1>2

\* ... and a greatest one if it has a bound.
LEMMA GreatestExists ==
  ASSUME NEW n \in Nat, NEW S \in SUBSET (0..n), S # {}
  PROVE  \E p \in S : \A q \in S : q <= p
<1> DEFINE mirror == {n - q : q \in S}
<1>1. mirror \in SUBSET Nat /\ mirror # {}
  <2>1. \A q \in S : n - q \in Nat
    OBVIOUS
  <2> QED BY <2>1
<1>2. PICK m \in mirror : \A q \in mirror : m <= q
  BY ONLY <1>1, LeastExists
<1>3. PICK p \in S : m = n - p
  BY <1>2
<1>4. ASSUME NEW q \in S  PROVE q <= p
  <2>1. n - q \in mirror
    OBVIOUS
  <2>2. n - p <= n - q
    BY <1>2, <1>3, <2>1
  <2> QED BY <2>2
<1> QED BY <1>4

\* A set that has 0 and with every number the next has them all.
LEMMA Induct ==
  ASSUME NEW S, 0 \in S, \A n \in Nat : n \in S => n + 1 \in S
  PROVE  Nat \subseteq S
<1> DEFINE rest == {n \in Nat : n \notin S}
<1>1. ASSUME rest # {}  PROVE FALSE
  <2>1. rest \in SUBSET Nat
    OBVIOUS
  <2>2. PICK p \in rest : \A q \in rest : p <= q
    BY ONLY <1>1, <2>1, LeastExists
  <2>3. p \in Nat /\ p # 0 /\ p \notin S
    OBVIOUS
  <2>4. p - 1 \in Nat /\ p - 1 \notin rest
    BY <2>2, <2>3
  <2>5. p - 1 + 1 \in S
    BY <2>4
  <2> QED BY <2>3, <2>5
<1> QED BY <1>1

\* A function that starts with `a` and goes from f[k - 1] to f[k] by g[k] exists.
Steps(g, D, n) == \A k \in 1..n : \A d \in D : g[k][d] \in D
Iterated(f, g, D, a, n) == f \in [0..n -> D] /\ f[0] = a /\ \A k \in 1..n : f[k] = g[k][f[k - 1]]

LEMMA Iterates ==
  ASSUME NEW D, NEW a \in D, NEW n \in Nat, NEW g, Steps(g, D, n)
  PROVE  \E f : Iterated(f, g, D, a, n)
<1> USE DEF Steps, Iterated
<1> DEFINE Upto(m) == \E f : Iterated(f, g, D, a, m)
           S == {m \in Nat : m <= n => Upto(m)}
<1>1. 0 \in S
  <2> DEFINE f == [k \in 0..0 |-> a]
  <2>1. Iterated(f, g, D, a, 0)
    OBVIOUS
  <2>2. Upto(0)
    BY <2>1
  <2> QED BY <2>2
<1>2. ASSUME NEW m \in Nat, m \in S  PROVE m + 1 \in S
  <2> SUFFICES ASSUME m + 1 <= n  PROVE Upto(m + 1)
    OBVIOUS
  <2>1. Upto(m)
    BY <1>2
  <2>2. PICK f : Iterated(f, g, D, a, m)
    BY <2>1
  <2> DEFINE h == [k \in 0..(m + 1) |-> IF k = m + 1 THEN g[m + 1][f[m]] ELSE f[k]]
  <2>3. f[m] \in D /\ m + 1 \in 1..n
    BY <2>2
  <2>4. h \in [0..(m + 1) -> D] /\ h[0] = a
    BY <2>2, <2>3
  <2>5. ASSUME NEW k \in 1..(m + 1)  PROVE h[k] = g[k][h[k - 1]]
    <3>1. CASE k = m + 1
      BY <3>1
    <3>2. CASE k # m + 1
      <4>1. k \in 1..m /\ k - 1 \in 0..m /\ k - 1 # m + 1 /\ k - 1 \in 0..(m + 1)
        BY <3>2
      <4> QED BY <2>2, <3>2, <4>1
    <3> QED BY <3>1, <3>2
  <2> QED BY <2>4, <2>5
<1>3. Nat \subseteq S
  <2> HIDE DEF S
  <2> QED BY ONLY <1>1, <1>2, Induct
<1> QED BY <1>3

-----------------------------------------------------------------------------
(* The chain of data pages.                                                *)

Ref == {0} \cup DataPage
PageMap == [DataPage -> Image]
Forward(images) == \A p \in DataPage : images[p].next # 0 => p < images[p].next

LEMMA NextPageType ==
  ASSUME NEW images \in PageMap
  PROVE  NextPage(images) \in [Ref -> Ref]
<1>1. 0 \notin DataPage
  BY DEF DataPage
<1>2. \A p \in DataPage : images[p].next \in Ref
  BY DEF PageMap, Image, Ref
<1> QED BY <1>1, <1>2 DEF NextPage, Ref

\* What Chain defines: the root first, then where each page points.
LEMMA ChainIs ==
  ASSUME NEW images \in PageMap, NEW root \in Ref
  PROVE  Chain(images, root) =
           [k \in 1..MaxPage |-> IF k = 1 THEN root ELSE NextPage(images)[Chain(images, root)[k - 1]]]
<1>1. PICK g : g = [k \in 1..MaxPage |-> NextPage(images)]
  OBVIOUS
<1>2. MaxPage \in Nat /\ root \in Ref /\ Steps(g, Ref, MaxPage)
  BY <1>1, NextPageType, BoundsAssumption DEF Steps
<1>3. PICK f : Iterated(f, g, Ref, root, MaxPage)
  BY ONLY <1>2, Iterates
<1>4. f \in [0..MaxPage -> Ref] /\ f[0] = root /\ \A k \in 1..MaxPage : f[k] = g[k][f[k - 1]]
  BY <1>3 DEF Iterated
<1> DEFINE h == [k \in 1..MaxPage |-> f[k - 1]]
<1>5. h = [k \in 1..MaxPage |-> IF k = 1 THEN root ELSE NextPage(images)[h[k - 1]]]
  <2>1. ASSUME NEW k \in 1..MaxPage, k # 1
        PROVE  f[k - 1] = NextPage(images)[h[k - 1]]
    <3>1. k - 1 \in 1..MaxPage /\ h[k - 1] = f[(k - 1) - 1]
      BY <2>1, <1>2
    <3>2. f[k - 1] = g[k - 1][f[(k - 1) - 1]]
      BY <1>4, <3>1
    <3> QED BY <3>1, <3>2, <1>1
  <2>2. \A k \in 1..MaxPage : k = 1 => f[k - 1] = root
    BY <1>4
  <2> QED BY <2>1, <2>2
<1> DEFINE c == CHOOSE x : x = [k \in 1..MaxPage |-> IF k = 1 THEN root ELSE NextPage(images)[x[k - 1]]]
<1>6. c = [k \in 1..MaxPage |-> IF k = 1 THEN root ELSE NextPage(images)[c[k - 1]]]
  <2> HIDE DEF h
  <2> QED BY ONLY <1>5
<1>7. Chain(images, root) = c
  BY DEF Chain
<1> QED BY ONLY <1>6, <1>7

LEMMA ChainType ==
  ASSUME NEW images \in PageMap, NEW root \in Ref
  PROVE  \A k \in 1..MaxPage : Chain(images, root)[k] \in Ref
<1> DEFINE c == Chain(images, root)
           S == {n \in Nat : n + 1 \in 1..MaxPage => c[n + 1] \in Ref}
<1>1. c = [k \in 1..MaxPage |-> IF k = 1 THEN root ELSE NextPage(images)[c[k - 1]]]
  BY ChainIs
<1> HIDE DEF c
<1>2. 0 \in S
  BY <1>1
<1>3. ASSUME NEW n \in Nat, n \in S  PROVE n + 1 \in S
  <2> SUFFICES ASSUME n + 1 + 1 \in 1..MaxPage  PROVE c[n + 1 + 1] \in Ref
    OBVIOUS
  <2>1. n + 1 \in 1..MaxPage /\ (n + 1 + 1) - 1 = n + 1 /\ n + 1 + 1 # 1
    BY BoundsAssumption
  <2>2. c[n + 1] \in Ref
    BY <1>3, <2>1
  <2>3. c[n + 1 + 1] = NextPage(images)[c[n + 1]]
    BY <1>1, <2>1
  <2> QED BY <2>2, <2>3, NextPageType
<1>4. Nat \subseteq S
  <2> HIDE DEF S
  <2> QED BY ONLY <1>2, <1>3, Induct
<1>5. ASSUME NEW k \in 1..MaxPage  PROVE c[k] \in Ref
  <2>1. k - 1 \in S /\ (k - 1) + 1 = k
    BY <1>4
  <2> QED BY <2>1
<1> QED BY <1>5 DEF c

LEMMA ChainStart ==
  ASSUME NEW images \in PageMap, NEW root \in Ref
  PROVE  1 \in 1..MaxPage /\ Chain(images, root)[1] = root
<1>1. 1 \in 1..MaxPage
  BY BoundsAssumption
<1> QED BY <1>1, ChainIs

LEMMA ChainStep ==
  ASSUME NEW images \in PageMap, NEW root \in Ref, NEW k \in 1..MaxPage, k + 1 \in 1..MaxPage
  PROVE  /\ Chain(images, root)[k] = 0 => Chain(images, root)[k + 1] = 0
         /\ Chain(images, root)[k] # 0 =>
              Chain(images, root)[k + 1] = images[Chain(images, root)[k]].next
<1> DEFINE c == Chain(images, root)
<1>1. c = [l \in 1..MaxPage |-> IF l = 1 THEN root ELSE NextPage(images)[c[l - 1]]]
  BY ChainIs
<1>2. c[k] \in Ref
  BY ChainType
<1> HIDE DEF c
<1>3. k + 1 # 1 /\ (k + 1) - 1 = k
  OBVIOUS
<1>4. c[k + 1] = NextPage(images)[c[k]]
  BY <1>1, <1>3
<1>5. NextPage(images)[c[k]] = IF c[k] = 0 THEN 0 ELSE images[c[k]].next
  BY <1>2 DEF NextPage, Ref
<1> QED BY <1>4, <1>5 DEF c

\* After a zero come zeros only.
LEMMA ChainZeros ==
  ASSUME NEW images \in PageMap, NEW root \in Ref, NEW k \in 1..MaxPage, NEW l \in 1..MaxPage,
         k <= l, Chain(images, root)[k] = 0
  PROVE  Chain(images, root)[l] = 0
<1> DEFINE S == {n \in Nat : k + n \in 1..MaxPage => Chain(images, root)[k + n] = 0}
<1>1. 0 \in S
  OBVIOUS
<1>2. ASSUME NEW n \in Nat, n \in S  PROVE n + 1 \in S
  <2> SUFFICES ASSUME k + (n + 1) \in 1..MaxPage  PROVE Chain(images, root)[k + (n + 1)] = 0
    OBVIOUS
  <2>1. k + n \in 1..MaxPage /\ k + (n + 1) = (k + n) + 1
    BY BoundsAssumption
  <2>2. Chain(images, root)[k + n] = 0
    BY <1>2, <2>1
  <2> QED BY <2>1, <2>2, ChainStep
<1>3. Nat \subseteq S
  <2> HIDE DEF S
  <2> QED BY ONLY <1>1, <1>2, Induct
<1>4. l - k \in S /\ k + (l - k) = l
  BY <1>3
<1> QED BY <1>4

\* Pages that point forward make a chain that rises, so it ends before it is out of places.
LEMMA ChainRises ==
  ASSUME NEW images \in PageMap, NEW root \in Ref, Forward(images), NEW k \in 1..MaxPage,
         Chain(images, root)[k] # 0
  PROVE  k < Chain(images, root)[k]
<1> DEFINE c == Chain(images, root)
           S == {n \in Nat : n + 1 \in 1..MaxPage /\ c[n + 1] # 0 => n + 1 < c[n + 1]}
<1>1. 0 \in S
  <2>1. c[1] = root
    BY ChainStart
  <2>2. root # 0 => 1 < root
    BY DEF Ref, DataPage
  <2> QED BY <2>1, <2>2
<1>2. ASSUME NEW n \in Nat, n \in S  PROVE n + 1 \in S
  <2> SUFFICES ASSUME n + 1 + 1 \in 1..MaxPage, c[n + 1 + 1] # 0
               PROVE  n + 1 + 1 < c[n + 1 + 1]
    OBVIOUS
  <2>1. n + 1 \in 1..MaxPage
    BY BoundsAssumption
  <2>2. c[n + 1] # 0 /\ c[n + 1 + 1] = images[c[n + 1]].next
    BY <2>1, ChainStep
  <2>3. c[n + 1] \in DataPage /\ c[n + 1 + 1] \in DataPage
    BY <2>1, <2>2, ChainType DEF Ref
  <2>4. n + 1 < c[n + 1]
    BY <1>2, <2>1, <2>2
  <2>5. c[n + 1] < c[n + 1 + 1]
    BY <2>2, <2>3 DEF Forward
  <2> HIDE DEF c
  <2> QED BY <2>3, <2>4, <2>5 DEF DataPage
<1>3. Nat \subseteq S
  <2> HIDE DEF S
  <2> QED BY ONLY <1>1, <1>2, Induct
<1>4. k - 1 \in S /\ (k - 1) + 1 = k
  BY <1>3
<1> QED BY <1>4

LEMMA LastIsZero ==
  ASSUME NEW images \in PageMap, NEW root \in Ref, Forward(images)
  PROVE  Chain(images, root)[MaxPage] = 0
<1>1. MaxPage \in 1..MaxPage
  BY BoundsAssumption
<1>2. Chain(images, root)[MaxPage] \in Ref
  BY <1>1, ChainType
<1>3. Chain(images, root)[MaxPage] # 0 => MaxPage < Chain(images, root)[MaxPage]
  BY <1>1, ChainRises
<1> QED BY <1>2, <1>3, BoundsAssumption DEF Ref, DataPage

LEMMA OnChainType ==
  ASSUME NEW images \in PageMap, NEW root \in Ref
  PROVE  OnChain(images, root) \subseteq DataPage
BY ChainType DEF OnChain, Ref

LEMMA RootOnChain ==
  ASSUME NEW images \in PageMap, NEW root \in Ref, root # 0
  PROVE  root \in OnChain(images, root)
BY ChainStart DEF OnChain

LEMMA EmptyChain ==
  ASSUME NEW images \in PageMap
  PROVE  OnChain(images, 0) = {}
<1>1. 0 \in Ref
  BY DEF Ref
<1>2. ASSUME NEW k \in 1..MaxPage  PROVE Chain(images, 0)[k] = 0
  <2>1. 1 \in 1..MaxPage /\ Chain(images, 0)[1] = 0 /\ 1 <= k
    BY <1>1, ChainStart
  <2> QED BY <1>1, <2>1, ChainZeros
<1> QED BY <1>2 DEF OnChain

LEMMA NextOnChain ==
  ASSUME NEW images \in PageMap, NEW root \in Ref, Forward(images),
         NEW p \in OnChain(images, root), images[p].next # 0
  PROVE  images[p].next \in OnChain(images, root)
<1>1. PICK k \in 1..MaxPage : Chain(images, root)[k] = p
  BY DEF OnChain
<1>2. p # 0
  BY DEF OnChain
<1>3. k # MaxPage
  BY <1>1, <1>2, LastIsZero
<1>4. k + 1 \in 1..MaxPage
  BY <1>3, BoundsAssumption
<1>5. Chain(images, root)[k + 1] = images[p].next
  BY <1>1, <1>2, <1>4, ChainStep
<1> QED BY <1>4, <1>5 DEF OnChain

\* The chain has no page but those that every set closed under pointers has.
LEMMA ChainWithin ==
  ASSUME NEW images \in PageMap, NEW root \in Ref, NEW T, root # 0 => root \in T,
         \A p \in T : p \in DataPage /\ images[p].next # 0 => images[p].next \in T
  PROVE  OnChain(images, root) \subseteq T
<1> DEFINE c == Chain(images, root)
           S == {n \in Nat : n + 1 \in 1..MaxPage /\ c[n + 1] # 0 => c[n + 1] \in T}
<1>1. 0 \in S
  BY ChainStart
<1>2. ASSUME NEW n \in Nat, n \in S  PROVE n + 1 \in S
  <2> SUFFICES ASSUME n + 1 + 1 \in 1..MaxPage, c[n + 1 + 1] # 0
               PROVE  c[n + 1 + 1] \in T
    OBVIOUS
  <2>1. n + 1 \in 1..MaxPage
    BY BoundsAssumption
  <2>2. c[n + 1] # 0 /\ c[n + 1 + 1] = images[c[n + 1]].next
    BY <2>1, ChainStep
  <2>3. c[n + 1] \in DataPage
    BY <2>1, <2>2, ChainType DEF Ref
  <2>4. c[n + 1] \in T
    BY <1>2, <2>1, <2>2
  <2> QED BY <2>2, <2>3, <2>4
<1>3. Nat \subseteq S
  <2> HIDE DEF S
  <2> QED BY ONLY <1>1, <1>2, Induct
<1>4. ASSUME NEW k \in 1..MaxPage, c[k] # 0  PROVE c[k] \in T
  <2>1. k - 1 \in S /\ (k - 1) + 1 = k
    BY <1>3
  <2> QED BY <1>4, <2>1
<1> QED BY <1>4 DEF OnChain

\* The chain has one end.
LEMMA EndIsUnique ==
  ASSUME NEW images \in PageMap, NEW root \in Ref, Forward(images),
         NEW p \in OnChain(images, root), NEW q \in OnChain(images, root),
         images[p].next = 0, images[q].next = 0
  PROVE  p = q
<1>1. PICK k \in 1..MaxPage : Chain(images, root)[k] = p
  BY DEF OnChain
<1>2. PICK l \in 1..MaxPage : Chain(images, root)[l] = q
  BY DEF OnChain
<1>3. p # 0 /\ q # 0
  BY DEF OnChain
<1>4. ASSUME k < l  PROVE FALSE
  <2>1. k + 1 \in 1..MaxPage /\ k + 1 <= l
    BY <1>4, BoundsAssumption
  <2>2. Chain(images, root)[k + 1] = 0
    BY <1>1, <1>3, <2>1, ChainStep
  <2> QED BY <1>2, <1>3, <2>1, <2>2, ChainZeros
<1>5. ASSUME l < k  PROVE FALSE
  <2>1. l + 1 \in 1..MaxPage /\ l + 1 <= k
    BY <1>5, BoundsAssumption
  <2>2. Chain(images, root)[l + 1] = 0
    BY <1>2, <1>3, <2>1, ChainStep
  <2> QED BY <1>1, <1>3, <2>1, <2>2, ChainZeros
<1>6. k = l
  BY <1>4, <1>5
<1> QED BY <1>1, <1>2, <1>6

\* Only the pointers matter to the chain.
LEMMA SamePointers ==
  ASSUME NEW images, NEW after, NEW root, \A p \in DataPage : after[p].next = images[p].next
  PROVE  Chain(after, root) = Chain(images, root) /\ OnChain(after, root) = OnChain(images, root)
<1>1. NextPage(after) = NextPage(images)
  BY DEF NextPage
<1>2. Chain(after, root) = Chain(images, root)
  BY <1>1 DEF Chain
<1> QED BY <1>2 DEF OnChain

\* A page that points nowhere is hung behind the end.
LEMMA Lengthened ==
  ASSUME NEW images \in PageMap, NEW root \in Ref, Forward(images), root # 0,
         NEW e, IsEnd(images, root, e), NEW n \in DataPage,
         NEW after \in PageMap, Forward(after),
         \A p \in DataPage : p # e => after[p].next = images[p].next,
         after[e].next = n, after[n].next = 0
  PROVE  OnChain(after, root) = OnChain(images, root) \cup {n} /\ IsEnd(after, root, n)
<1>1. e \in OnChain(images, root) /\ images[e].next = 0
  BY DEF IsEnd
<1>2. n # 0
  BY DEF DataPage
<1>3. OnChain(images, root) \subseteq OnChain(after, root)
  <2> DEFINE T == OnChain(after, root)
  <2>1. root \in T
    BY RootOnChain
  <2>2. ASSUME NEW p \in T, p \in DataPage, images[p].next # 0  PROVE images[p].next \in T
    <3>1. p # e /\ after[p].next = images[p].next
      BY <1>1, <2>2
    <3> QED BY <2>2, <3>1, NextOnChain
  <2> HIDE DEF T
  <2>3. OnChain(images, root) \subseteq T
    BY <2>1, <2>2, ChainWithin
  <2> QED BY <2>3 DEF T
<1>4. n \in OnChain(after, root)
  BY <1>1, <1>2, <1>3, NextOnChain
<1>5. OnChain(after, root) \subseteq OnChain(images, root) \cup {n}
  <2> DEFINE T == OnChain(images, root) \cup {n}
  <2>1. root \in T
    BY RootOnChain
  <2>2. ASSUME NEW p \in T, p \in DataPage, after[p].next # 0  PROVE after[p].next \in T
    <3>1. CASE p = e
      BY <3>1
    <3>2. CASE p # e
      <4>1. after[p].next = images[p].next /\ p \in OnChain(images, root)
        BY <2>2, <3>2
      <4> QED BY <2>2, <4>1, NextOnChain
    <3> QED BY <3>1, <3>2
  <2> HIDE DEF T
  <2>3. OnChain(after, root) \subseteq T
    BY <2>1, <2>2, ChainWithin
  <2> QED BY <2>3 DEF T
<1> QED BY <1>3, <1>4, <1>5 DEF IsEnd

\* ChainEnd chooses among the pages that have a zero behind them.
Endlike(images, root, p) ==
    \/ p = 0 /\ Chain(images, root)[1] = 0
    \/ p # 0 /\ \E k \in 1..MaxPage :
         Chain(images, root)[k] = p /\ (k = MaxPage \/ Chain(images, root)[k + 1] = 0)

LEMMA ChainEndIs ==
  ASSUME NEW images \in PageMap, NEW root \in Ref
  PROVE  /\ ChainEnd(Chain(images, root)) \in Ref
         /\ Endlike(images, root, ChainEnd(Chain(images, root)))
<1> DEFINE c == Chain(images, root)
<1>1. \E p \in Ref : Endlike(images, root, p)
  <2>1. CASE root = 0
    <3>1. c[1] = 0 /\ 0 \in Ref
      BY <2>1, ChainStart DEF Ref
    <3> QED BY <3>1 DEF Endlike
  <2>2. CASE root # 0
    <3> DEFINE L == {k \in 1..MaxPage : c[k] # 0}
    <3>1. L \in SUBSET (0..MaxPage) /\ L # {} /\ MaxPage \in Nat
      BY <2>2, ChainStart, BoundsAssumption
    <3>2. PICK k \in L : \A l \in L : l <= k
      <4> HIDE DEF L
      <4> QED BY ONLY <3>1, GreatestExists
    <3>3. k \in 1..MaxPage /\ c[k] # 0 /\ c[k] \in Ref
      BY <3>2, ChainType
    <3>4. k = MaxPage \/ c[k + 1] = 0
      <4>1. k # MaxPage => k + 1 \in 1..MaxPage /\ ~ (k + 1 <= k)
        BY <3>3, BoundsAssumption
      <4> QED BY <3>2, <4>1
    <3> QED BY <3>3, <3>4 DEF Endlike
  <2> QED BY <2>1, <2>2
<1>2. ChainEnd(c) = CHOOSE p \in Ref : Endlike(images, root, p)
  BY DEF ChainEnd, Ref, Endlike
<1> HIDE DEF c
<1>3. ChainEnd(c) \in Ref /\ Endlike(images, root, ChainEnd(c))
  BY <1>1, <1>2
<1> QED BY <1>3 DEF c

\* With pages that point forward it is the end.
LEMMA ChainEndIsEnd ==
  ASSUME NEW images \in PageMap, NEW root \in Ref, Forward(images)
  PROVE  IsEnd(images, root, ChainEnd(Chain(images, root)))
<1> DEFINE p == ChainEnd(Chain(images, root))
<1>1. p \in Ref /\ Endlike(images, root, p)
  BY ChainEndIs
<1> HIDE DEF p
<1>2. CASE root = 0
  <2>1. p # 0 => p \in OnChain(images, root)
    BY <1>1 DEF Endlike, OnChain
  <2> QED BY <1>2, <2>1, EmptyChain DEF IsEnd, p
<1>3. CASE root # 0
  <2>1. p # 0
    BY <1>1, <1>3, ChainStart DEF Endlike
  <2>2. PICK k \in 1..MaxPage :
          Chain(images, root)[k] = p /\ (k = MaxPage \/ Chain(images, root)[k + 1] = 0)
    BY <1>1, <2>1 DEF Endlike
  <2>3. k # MaxPage /\ k + 1 \in 1..MaxPage
    BY <2>1, <2>2, LastIsZero, BoundsAssumption
  <2>4. images[p].next = 0
    BY <2>1, <2>2, <2>3, ChainStep
  <2>5. p \in OnChain(images, root)
    BY <2>1, <2>2 DEF OnChain
  <2> QED BY <1>3, <2>4, <2>5 DEF IsEnd, p
<1> QED BY <1>2, <1>3

LEMMA EndIsChainEnd ==
  ASSUME NEW images \in PageMap, NEW root \in Ref, Forward(images), NEW e, IsEnd(images, root, e)
  PROVE  e = ChainEnd(Chain(images, root))
<1> DEFINE p == ChainEnd(Chain(images, root))
<1>1. IsEnd(images, root, p)
  BY ChainEndIsEnd
<1> HIDE DEF p
<1>2. e = p
  BY <1>1, EndIsUnique DEF IsEnd
<1> QED BY <1>2 DEF p

-----------------------------------------------------------------------------
(* What is read along the chain.                                           *)

Live(images, root) == LiveRecords(images, Chain(images, root))
Last(images, root, id) == CHOOSE x \in LastOf(Live(images, root), id) : TRUE

LEMMA ReadType ==
  ASSUME NEW image \in Image
  PROVE  /\ ReadRecords(image) \in Seq(Record) /\ Len(ReadRecords(image)) \in Nat
         /\ \A k \in 1..Len(ReadRecords(image)) : ReadRecords(image)[k] \in Record
BY DEF ReadRecords, Image

\* A live record is live on a page of the chain, ...
LEMMA LiveIsOnPage ==
  ASSUME NEW images \in PageMap, NEW root \in Ref, NEW x \in Live(images, root)
  PROVE  /\ x[1] \in 1..MaxPage
         /\ Chain(images, root)[x[1]] \in OnChain(images, root)
         /\ x[3] \in LiveIn(images[Chain(images, root)[x[1]]]) /\ x[3] \in Record
         /\ x[2] \in 1..Len(ReadRecords(images[Chain(images, root)[x[1]]]))
<1> DEFINE c == Chain(images, root)
<1>7. PICK k \in 1..MaxPage : \E j \in 1..Len(ReadRecords(images[c[k]])) :
        /\ c[k] # 0 /\ ~ ReadRecords(images[c[k]])[j].deleted
        /\ x = <<k, j, ReadRecords(images[c[k]])[j]>>
  BY DEF Live, LiveRecords
<1>1. PICK j \in 1..Len(ReadRecords(images[c[k]])) :
        /\ c[k] # 0 /\ ~ ReadRecords(images[c[k]])[j].deleted
        /\ x = <<k, j, ReadRecords(images[c[k]])[j]>>
  BY <1>7
<1>2. c[k] \in DataPage /\ images[c[k]] \in Image
  BY <1>1, ChainType DEF Ref, PageMap
<1>3. ReadRecords(images[c[k]])[j] \in Record
  BY <1>2, ReadType
<1>4. c[k] \in OnChain(images, root)
  BY <1>1 DEF OnChain
<1> HIDE DEF c
<1>5. ReadRecords(images[c[k]])[j] \in LiveIn(images[c[k]])
  BY <1>1 DEF LiveIn
<1>6. x[1] = k /\ x[2] = j /\ x[3] = ReadRecords(images[c[k]])[j]
  BY <1>1
<1> QED BY <1>3, <1>4, <1>5, <1>6 DEF c

\* ... and a record live on a page of the chain is among them.
LEMMA OnPageIsLive ==
  ASSUME NEW images \in PageMap, NEW root \in Ref,
         NEW p \in OnChain(images, root), NEW r \in LiveIn(images[p])
  PROVE  \E x \in Live(images, root) : x[3] = r
<1> DEFINE c == Chain(images, root)
<1>1. PICK k \in 1..MaxPage : c[k] = p
  BY DEF OnChain
<1>2. p # 0
  BY DEF OnChain
<1>3. PICK j \in 1..Len(ReadRecords(images[p])) : ReadRecords(images[p])[j] = r /\ ~ r.deleted
  BY DEF LiveIn
<1> HIDE DEF c
<1>4. <<k, j, r>> \in LiveRecords(images, c)
  BY <1>1, <1>2, <1>3 DEF LiveRecords
<1>5. <<k, j, r>> \in Live(images, root)
  BY <1>4 DEF Live, c
<1>6. <<k, j, r>>[3] = r
  OBVIOUS
<1> QED BY <1>5, <1>6

\* Of the live records of an id one is the last.
LEMMA LastExists ==
  ASSUME NEW images \in PageMap, NEW root \in Ref, NEW x \in Live(images, root)
  PROVE  LastOf(Live(images, root), x[3].id) # {}
<1> DEFINE L == Live(images, root)
           mine == {y \in L : y[3].id = x[3].id}
           Room1(k) == Len(ReadRecords(images[Chain(images, root)[k]]))
           K == {y[1] : y \in mine}
<1>1. \A y \in mine : y[1] \in 1..MaxPage /\ y[2] \in 1..Room1(y[1])
  BY LiveIsOnPage
<1>2. MaxPage \in Nat /\ K \in SUBSET (0..MaxPage) /\ K # {}
  <2>1. x \in mine
    OBVIOUS
  <2>2. \A y \in mine : y[1] \in 0..MaxPage
    BY <1>1
  <2> QED BY <2>1, <2>2, BoundsAssumption
<1>3. PICK k \in K : \A l \in K : l <= k
  <2> HIDE DEF K
  <2> QED BY ONLY <1>2, GreatestExists
<1>4. PICK y \in mine : y[1] = k
  BY <1>3
<1>5. Room1(k) \in Nat
  <2>1. Chain(images, root)[k] \in DataPage
    BY <1>4, LiveIsOnPage, OnChainType
  <2> QED BY <2>1, ReadType DEF PageMap
<1> HIDE DEF Room1
<1> DEFINE J == {z[2] : z \in {u \in mine : u[1] = k}}
<1>6. J \in SUBSET (0..Room1(k)) /\ J # {}
  <2>1. \A z \in mine : z[1] = k => z[2] \in 0..Room1(k)
    BY <1>1, <1>5
  <2> QED BY <1>4, <2>1
<1>7. PICK j \in J : \A i \in J : i <= j
  <2> HIDE DEF J
  <2> QED BY ONLY <1>5, <1>6, GreatestExists
<1>8. PICK z \in mine : z[1] = k /\ z[2] = j
  BY <1>7
<1>9. ASSUME NEW u \in L, u[3].id = x[3].id  PROVE After(z, u)
  <2>1. u \in mine /\ u[1] <= k /\ u[1] \in Nat /\ k \in Nat
    BY <1>1, <1>3, <1>4, <1>9
  <2>2. u[1] = k => u[2] <= j
    BY <1>7, <2>1
  <2> QED BY <1>8, <2>1, <2>2 DEF After
<1>10. z \in LastOf(L, x[3].id)
  <2> HIDE DEF L
  <2> QED BY <1>8, <1>9 DEF LastOf, mine
<1> QED BY <1>10

LEMMA LastIs ==
  ASSUME NEW images, NEW root, NEW id, LastOf(Live(images, root), id) # {}
  PROVE  Last(images, root, id) \in Live(images, root) /\ Last(images, root, id)[3].id = id
<1>1. Last(images, root, id) \in LastOf(Live(images, root), id)
  BY DEF Last
<1> QED BY <1>1 DEF LastOf

LEMMA NodesInIs ==
  ASSUME NEW images, NEW root
  PROVE  NodesIn(Live(images, root)) =
           [id \in Id |-> IF LastOf(Live(images, root), id) = {} THEN Gone
                          ELSE Last(images, root, id)[3].value]
BY DEF NodesIn, Last

LEMMA PagesInIs ==
  ASSUME NEW images, NEW root
  PROVE  PagesIn(Live(images, root), Chain(images, root)) =
           [id \in Id |-> IF LastOf(Live(images, root), id) = {} THEN 0
                          ELSE Chain(images, root)[Last(images, root, id)[1]]]
BY DEF PagesIn, Last

LEMMA ReadBackType ==
  ASSUME NEW images \in PageMap, NEW root \in Ref
  PROVE  /\ NodesIn(Live(images, root)) \in [Id -> Value \cup {Gone}]
         /\ PagesIn(Live(images, root), Chain(images, root)) \in [Id -> {0} \cup DataPage]
<1>1. ASSUME NEW id \in Id, LastOf(Live(images, root), id) # {}
      PROVE  /\ Last(images, root, id)[3].value \in Value
             /\ Chain(images, root)[Last(images, root, id)[1]] \in DataPage
  <2>1. Last(images, root, id) \in Live(images, root)
    BY <1>1, LastIs
  <2>2. Last(images, root, id)[3] \in Record
    BY <2>1, LiveIsOnPage
  <2>3. Chain(images, root)[Last(images, root, id)[1]] \in DataPage
    BY <2>1, LiveIsOnPage, OnChainType
  <2> QED BY <2>2, <2>3 DEF Record
<1>2. NodesIn(Live(images, root)) \in [Id -> Value \cup {Gone}]
  BY <1>1, NodesInIs
<1>3. PagesIn(Live(images, root), Chain(images, root)) \in [Id -> {0} \cup DataPage]
  BY <1>1, PagesInIs
<1> QED BY <1>2, <1>3

\* What is stored is what is read, ...
LEMMA StoredIsRead ==
  ASSUME NEW images \in PageMap, NEW root \in Ref, NEW found \in [Id -> Value \cup {Gone}], NEW on,
         Stored(images, root, found, on)
  PROVE  /\ NodesIn(Live(images, root)) = found
         /\ \A id \in Id : found[id] # Gone =>
              PagesIn(Live(images, root), Chain(images, root))[id] = on[id]
<1>1. ASSUME NEW id \in Id, LastOf(Live(images, root), id) # {}
      PROVE  /\ Last(images, root, id)[3].value = found[id] /\ found[id] # Gone
             /\ Chain(images, root)[Last(images, root, id)[1]] = on[id]
  <2> DEFINE x == Last(images, root, id)
  <2>1. x \in Live(images, root) /\ x[3].id = id
    BY <1>1, LastIs
  <2>2. /\ Chain(images, root)[x[1]] \in OnChain(images, root)
        /\ x[3] \in LiveIn(images[Chain(images, root)[x[1]]]) /\ x[3] \in Record
    BY <2>1, LiveIsOnPage
  <2> HIDE DEF x
  <2>3. found[x[3].id] = x[3].value /\ on[x[3].id] = Chain(images, root)[x[1]]
    BY <2>2 DEF Stored
  <2> QED BY <2>1, <2>2, <2>3, MarksAssumption DEF Record, x
<1>2. ASSUME NEW id \in Id, found[id] # Gone
      PROVE  LastOf(Live(images, root), id) # {}
  <2>1. PICK r \in LiveIn(images[on[id]]) : r.id = id /\ on[id] \in OnChain(images, root)
    BY <1>2 DEF Stored
  <2>2. PICK x \in Live(images, root) : x[3] = r
    BY <2>1, OnPageIsLive
  <2> QED BY <2>1, <2>2, LastExists
<1>3. ASSUME NEW id \in Id  PROVE NodesIn(Live(images, root))[id] = found[id]
  BY <1>1, <1>2, NodesInIs
<1>4. NodesIn(Live(images, root)) = found
  BY <1>3, ReadBackType
<1>5. ASSUME NEW id \in Id, found[id] # Gone
      PROVE  PagesIn(Live(images, root), Chain(images, root))[id] = on[id]
  BY <1>1, <1>2, <1>5, PagesInIs
<1> QED BY <1>4, <1>5

\* ... it is in order, ...
LEMMA StoredInOrder ==
  ASSUME NEW images, NEW root, NEW found, NEW on, Stored(images, root, found, on)
  PROVE  OneEach(images, root)
BY DEF Stored, OneEach

\* ... and what is in order can be read as if it had been stored so.
LEMMA InOrderIsStored ==
  ASSUME NEW images \in PageMap, NEW root \in Ref, OneEach(images, root)
  PROVE  Stored(images, root, NodesIn(Live(images, root)),
                PagesIn(Live(images, root), Chain(images, root)))
<1>1. ASSUME NEW id \in Id, LastOf(Live(images, root), id) # {}
      PROVE  /\ Last(images, root, id)[3].id = id
             /\ Chain(images, root)[Last(images, root, id)[1]] \in OnChain(images, root)
             /\ Last(images, root, id)[3] \in LiveIn(images[Chain(images, root)[Last(images, root, id)[1]]])
  <2>1. Last(images, root, id) \in Live(images, root) /\ Last(images, root, id)[3].id = id
    BY <1>1, LastIs
  <2> QED BY <2>1, LiveIsOnPage
<1>2. ASSUME NEW p \in OnChain(images, root), NEW r \in LiveIn(images[p])
      PROVE  /\ NodesIn(Live(images, root))[r.id] = r.value
             /\ PagesIn(Live(images, root), Chain(images, root))[r.id] = p
  <2>1. PICK x \in Live(images, root) : x[3] = r
    BY OnPageIsLive
  <2>2. x[3] \in Record
    BY LiveIsOnPage
  <2>3. r.id \in Id /\ LastOf(Live(images, root), r.id) # {}
    BY <2>1, <2>2, LastExists DEF Record
  <2> DEFINE y == Last(images, root, r.id)
             q == Chain(images, root)[y[1]]
  <2>4. y[3].id = r.id /\ q \in OnChain(images, root) /\ y[3] \in LiveIn(images[q])
    BY <1>1, <2>3
  <2> HIDE DEF y, q
  <2>5. q = p /\ y[3].value = r.value
    BY <2>4 DEF OneEach
  <2>6. NodesIn(Live(images, root))[r.id] = y[3].value
    BY <2>3, NodesInIs DEF y
  <2>7. PagesIn(Live(images, root), Chain(images, root))[r.id] = q
    BY <2>3, PagesInIs DEF y, q
  <2> QED BY <2>5, <2>6, <2>7
<1>3. ASSUME NEW id \in Id, NodesIn(Live(images, root))[id] # Gone
      PROVE  /\ PagesIn(Live(images, root), Chain(images, root))[id] \in OnChain(images, root)
             /\ \E r \in LiveIn(images[PagesIn(Live(images, root), Chain(images, root))[id]]) : r.id = id
  <2>1. LastOf(Live(images, root), id) # {}
    BY <1>3, NodesInIs
  <2>2. PagesIn(Live(images, root), Chain(images, root))[id]
          = Chain(images, root)[Last(images, root, id)[1]]
    BY <2>1, PagesInIs
  <2> QED BY <1>1, <2>1, <2>2
<1> QED BY <1>2, <1>3 DEF Stored

-----------------------------------------------------------------------------
(* The page written anew.                                                  *)

LEMMA PackType ==
  ASSUME NEW image \in Image, NEW x \in Record
  PROVE  PackRecord(image, x) \in Image /\ PackIfFits(image, x) \in Image
<1>1. Append(image.records, x) \in Seq(Record)
  BY DEF Image
<1>2. PackRecord(image, x) \in Image
  BY <1>1 DEF PackRecord, Image
<1> QED BY <1>2 DEF PackIfFits

LEMMA PackIfFitsIs ==
  ASSUME NEW image \in Image, NEW x \in Record
  PROVE  /\ PackIfFits(image, x).formatted = image.formatted
         /\ PackIfFits(image, x).next = image.next
         /\ \/ PackIfFits(image, x).records = image.records
            \/ PackIfFits(image, x).records = Append(image.records, x)
BY DEF PackIfFits, PackRecord, Image

LEMMA ReplacedType ==
  ASSUME NEW old \in Image, NEW r \in Record
  PROVE  \A k \in 1..Len(ReadRecords(old)) : Replaced(old, r)[k] \in Record
BY ReadType DEF Replaced

\* What Rebuilt defines: one record after the other is packed.
Building(f, old, r) == f = [k \in 0..Len(ReadRecords(old)) |->
    IF k = 0 THEN EmptyPage(old.next) ELSE PackIfFits(f[k - 1], Replaced(old, r)[k])]

LEMMA BuildingExists ==
  ASSUME NEW old \in Image, NEW r \in Record
  PROVE  \E f : Building(f, old, r)
<1> DEFINE n == Len(ReadRecords(old))
           g == [k \in 1..n |-> [image \in Image |-> PackIfFits(image, Replaced(old, r)[k])]]
<1>1. n \in Nat
  BY ReadType
<1>2. EmptyPage(old.next) \in Image
  BY DEF EmptyPage, Image
<1>3. Steps(g, Image, n)
  BY ReplacedType, PackType DEF Steps
<1>4. PICK f : Iterated(f, g, Image, EmptyPage(old.next), n)
  <2> HIDE DEF g, n
  <2> QED BY ONLY <1>1, <1>2, <1>3, Iterates
<1>5. f \in [0..n -> Image] /\ f[0] = EmptyPage(old.next) /\ \A k \in 1..n : f[k] = g[k][f[k - 1]]
  BY <1>4 DEF Iterated
<1>6. ASSUME NEW k \in 0..n, k # 0  PROVE f[k] = PackIfFits(f[k - 1], Replaced(old, r)[k])
  <2>1. k \in 1..n /\ k - 1 \in 0..n
    BY <1>1, <1>6
  <2>2. f[k - 1] \in Image
    BY <1>5, <2>1
  <2> QED BY <1>5, <2>1, <2>2
<1>7. f = [k \in 0..n |-> IF k = 0 THEN EmptyPage(old.next) ELSE PackIfFits(f[k - 1], Replaced(old, r)[k])]
  BY <1>5, <1>6
<1> QED BY <1>7 DEF Building

LEMMA RebuiltIs ==
  ASSUME NEW old \in Image, NEW r \in Record
  PROVE  \E f : Building(f, old, r) /\ Rebuilt(old, r) = f[Len(ReadRecords(old))]
<1> DEFINE f == CHOOSE x : x = [k \in 0..Len(ReadRecords(old)) |->
              IF k = 0 THEN EmptyPage(old.next) ELSE PackIfFits(x[k - 1], Replaced(old, r)[k])]
<1>1. Building(f, old, r)
  BY BuildingExists DEF Building
<1>2. Rebuilt(old, r) = f[Len(ReadRecords(old))]
  BY DEF Rebuilt
<1> HIDE DEF f
<1> QED BY <1>1, <1>2

\* It holds as many records as were read, at most; if none was lost, the very same, with r in place
\* of the records of its id.
RebuiltFrom(image, old, r, n) ==
    /\ image \in Image /\ image.formatted /\ image.next = old.next
    /\ Len(image.records) <= n
    /\ Len(image.records) = n => \A k \in 1..n : image.records[k] = Replaced(old, r)[k]

LEMMA RebuiltRight ==
  ASSUME NEW old \in Image, NEW r \in Record
  PROVE  RebuiltFrom(Rebuilt(old, r), old, r, Len(ReadRecords(old)))
<1> DEFINE n == Len(ReadRecords(old))
<1>1. PICK f : Building(f, old, r) /\ Rebuilt(old, r) = f[n]
  BY RebuiltIs
<1>2. n \in Nat
  BY ReadType
<1>3. f[0] = EmptyPage(old.next) /\ \A k \in 1..n : f[k] = PackIfFits(f[k - 1], Replaced(old, r)[k])
  <2> HIDE DEF n
  <2>1. f = [k \in 0..n |->
             IF k = 0 THEN EmptyPage(old.next) ELSE PackIfFits(f[k - 1], Replaced(old, r)[k])]
    BY <1>1 DEF Building, n
  <2> QED BY <1>2, <2>1
<1> DEFINE S == {m \in Nat : m <= n => RebuiltFrom(f[m], old, r, m)}
<1>4. 0 \in S
  <2>1. EmptyPage(old.next) \in Image /\ EmptyPage(old.next).formatted
        /\ EmptyPage(old.next).next = old.next /\ Len(EmptyPage(old.next).records) = 0
    BY DEF EmptyPage, Image
  <2> QED BY <1>3, <2>1 DEF RebuiltFrom
<1>5. ASSUME NEW m \in Nat, m \in S  PROVE m + 1 \in S
  <2> SUFFICES ASSUME m + 1 <= n  PROVE RebuiltFrom(f[m + 1], old, r, m + 1)
    OBVIOUS
  <2>1. RebuiltFrom(f[m], old, r, m) /\ m + 1 \in 1..n /\ (m + 1) - 1 = m
    BY <1>2, <1>5
  <2> DEFINE a == f[m]
             x == Replaced(old, r)[m + 1]
  <2>2. f[m + 1] = PackIfFits(a, x)
    BY <1>3, <2>1
  <2>3. x \in Record
    BY <2>1, ReplacedType
  <2>4. RebuiltFrom(a, old, r, m)
    BY <2>1
  <2> HIDE DEF a, x
  <2>5. f[m + 1] \in Image
    BY <2>2, <2>3, <2>4, PackType DEF RebuiltFrom
  <2>6. /\ f[m + 1].formatted /\ f[m + 1].next = old.next
        /\ f[m + 1].records = a.records \/ f[m + 1].records = Append(a.records, x)
    BY <2>2, <2>3, <2>4, PackIfFitsIs DEF RebuiltFrom
  <2>7. a.records \in Seq(Record) /\ Len(a.records) \in Nat /\ Len(a.records) <= m
    BY <2>4 DEF RebuiltFrom, Image
  <2>8. Len(f[m + 1].records) <= m + 1
    BY <2>3, <2>6, <2>7
  <2>9. ASSUME Len(f[m + 1].records) = m + 1, NEW k \in 1..(m + 1)
        PROVE  f[m + 1].records[k] = Replaced(old, r)[k]
    <3>1. f[m + 1].records = Append(a.records, x) /\ Len(a.records) = m
      BY <2>3, <2>6, <2>7, <2>9
    <3>2. CASE k = m + 1
      BY <2>3, <2>7, <3>1, <3>2 DEF x
    <3>3. CASE k # m + 1
      <4>1. k \in 1..m
        BY <3>3
      <4>2. f[m + 1].records[k] = a.records[k]
        BY <2>3, <2>7, <3>1, <4>1
      <4> QED BY <2>4, <3>1, <4>1, <4>2 DEF RebuiltFrom
    <3> QED BY <3>2, <3>3
  <2> QED BY <2>5, <2>6, <2>8, <2>9 DEF RebuiltFrom
<1>6. Nat \subseteq S
  <2> HIDE DEF S
  <2> QED BY ONLY <1>4, <1>5, Induct
<1>7. RebuiltFrom(f[n], old, r, n)
  BY <1>2, <1>6
<1> QED BY <1>1, <1>7

\* Hence what is live on a page rewritten without loss.
LEMMA RewrittenLive ==
  ASSUME NEW old \in Image, NEW r \in Record,
         Len(Rebuilt(old, r).records) = Len(ReadRecords(old))
  PROVE  \A x \in Record : x \in LiveIn(Rebuilt(old, r)) <=>
           \/ x \in LiveIn(old) /\ x.id # r.id
           \/ x = r /\ ~ r.deleted
              /\ \E k \in 1..Len(ReadRecords(old)) : ReadRecords(old)[k].id = r.id
<1> DEFINE n == Len(ReadRecords(old))
           new == Rebuilt(old, r)
<1>1. /\ new.formatted /\ Len(new.records) = n
      /\ \A k \in 1..n : new.records[k] = Replaced(old, r)[k]
  BY RebuiltRight DEF RebuiltFrom
<1>2. ReadRecords(new) = new.records
  BY <1>1 DEF ReadRecords
<1>3. LiveIn(new) = {x \in {Replaced(old, r)[k] : k \in 1..n} : ~ x.deleted}
  <2> HIDE DEF new, n
  <2> QED BY <1>1, <1>2 DEF LiveIn
<1>4. LiveIn(old) = {x \in {ReadRecords(old)[k] : k \in 1..n} : ~ x.deleted}
  BY DEF LiveIn
<1>5. \A k \in 1..n : Replaced(old, r)[k] = IF ReadRecords(old)[k].id = r.id THEN r ELSE ReadRecords(old)[k]
  BY DEF Replaced
<1> HIDE DEF new, n
<1>6. ASSUME NEW x \in Record, x \in LiveIn(new)
      PROVE  \/ x \in LiveIn(old) /\ x.id # r.id
             \/ x = r /\ ~ r.deleted /\ \E k \in 1..n : ReadRecords(old)[k].id = r.id
  <2>1. PICK k \in 1..n : x = Replaced(old, r)[k] /\ ~ x.deleted
    BY <1>3, <1>6
  <2> QED BY <1>4, <1>5, <2>1
<1>7. ASSUME NEW x \in Record, x \in LiveIn(old), x.id # r.id  PROVE x \in LiveIn(new)
  <2>1. PICK k \in 1..n : x = ReadRecords(old)[k] /\ ~ x.deleted
    BY <1>4, <1>7
  <2>2. x = Replaced(old, r)[k]
    BY <1>5, <1>7, <2>1
  <2> QED BY <1>3, <2>1, <2>2
<1>8. ASSUME ~ r.deleted, NEW k \in 1..n, ReadRecords(old)[k].id = r.id  PROVE r \in LiveIn(new)
  <2>1. r = Replaced(old, r)[k]
    BY <1>5, <1>8
  <2> QED BY <1>3, <1>8, <2>1
<1> QED BY <1>6, <1>7, <1>8 DEF new, n

-----------------------------------------------------------------------------
(* Types.                                                                  *)

LEMMA ImagesType ==
  ASSUME TypeOK
  PROVE  Images \in PageMap
BY DEF TypeOK, Images, PageMap

LEMMA CachedType ==
  ASSUME TypeOK
  PROVE  /\ cached.page \in Ref /\ cached.image \in Image
         /\ cached.page # 0 => cached \in [page : DataPage, image : Image]
<1>1. ZeroPage \in Image
  BY DEF ZeroPage, Image
<1> QED BY <1>1 DEF TypeOK, NoCache, Ref

LEMMA ReadPageType ==
  ASSUME TypeOK, NEW p \in DataPage
  PROVE  ReadDataPage(p) \in Image
BY CachedType DEF TypeOK, ReadDataPage

LEMMA RewrittenType ==
  ASSUME TypeOK, NEW r \in Record, pageOf[r.id] # 0
  PROVE  pageOf[r.id] \in DataPage /\ Rewritten(r) \in Image
<1>1. pageOf[r.id] \in DataPage
  BY DEF TypeOK, Record
<1>2. ReadDataPage(pageOf[r.id]) \in Image
  BY <1>1, ReadPageType
<1> QED BY <1>1, <1>2, RebuiltRight DEF Rewritten, RebuiltFrom

LEMMA LowestFreeIs ==
  ASSUME FreePages # {}
  PROVE  LowestFree \in DataPage \ allocated /\ \A q \in FreePages : LowestFree <= q
<1>1. FreePages \in SUBSET Nat
  BY BoundsAssumption DEF FreePages, DataPage
<1>2. \E p \in FreePages : \A q \in FreePages : p <= q
  BY ONLY <1>1, LeastExists, FreePages # {}
<1> QED BY <1>2 DEF LowestFree, FreePages

\* What persist_node and rewrite_node_on_page may change has its types after them.
StoreType == /\ main \in [DataPage -> Image] /\ log \in [DataPage -> Image \cup {NoFrame}]
             /\ header \in Header /\ allocated \subseteq DataPage
             /\ job \in {NoJob} \cup [record : Record, page : DataPage]
             /\ pageOf \in [Id -> {0} \cup DataPage]
             /\ cached \in {NoCache} \cup [page : DataPage, image : Image]
             /\ \/ pc = "ready" /\ job = NoJob
                \/ pc = "header" /\ job # NoJob

LEMMA PersistType ==
  ASSUME TypeOK, Jobs, pc = "ready", NEW r \in Record, Persist(r)
  PROVE  StoreType'
<1>1. job = NoJob
  BY DEF Jobs
<1>2. CASE PersistHere(r)
  <2> DEFINE image == PackRecord(cached.image, r)
  <2>1. cached \in [page : DataPage, image : Image] /\ r.id \in Id /\ image \in Image
    BY <1>2, CachedType, PackType DEF PersistHere, Room, Record
  <2>2. cached' = [cached EXCEPT !.image = image]
    BY <1>2 DEF PersistHere
  <2> HIDE DEF image
  <2>3. cached' \in [page : DataPage, image : Image] /\ cached'.image = image /\ cached.page \in DataPage
    BY <2>1, <2>2
  <2>4. log' \in [DataPage -> Image \cup {NoFrame}] /\ pageOf' \in [Id -> {0} \cup DataPage]
    BY <1>2, <2>1, <2>3 DEF PersistHere, TypeOK
  <2> QED BY <1>1, <1>2, <2>3, <2>4 DEF PersistHere, StoreType, TypeOK
<1>3. CASE PersistNewPage(r)
  <2>1. LowestFree \in DataPage
    BY <1>3, LowestFreeIs DEF PersistNewPage
  <2>2. job' \in [record : Record, page : DataPage] /\ job' # NoJob
    BY <1>3, <2>1 DEF PersistNewPage, NoJob, DataPage
  <2> QED BY <1>3, <2>1, <2>2 DEF PersistNewPage, StoreType, TypeOK
<1>4. CASE PersistFails(r)
  BY <1>1, <1>4 DEF PersistFails, StoreType, TypeOK, disk
<1> QED BY <1>2, <1>3, <1>4 DEF Persist

LEMMA RewriteType ==
  ASSUME TypeOK, Jobs, pc = "ready", NEW r \in Record, Rewrite(r)
  PROVE  StoreType'
<1>1. CASE RewriteOnPage(r)
  <2>1. pageOf[r.id] \in DataPage /\ Rewritten(r) \in Image
    BY <1>1, RewrittenType DEF RewriteOnPage
  <2>2. log' \in [DataPage -> Image \cup {NoFrame}]
    BY <1>1, <2>1 DEF RewriteOnPage, TypeOK
  <2>3. cached' \in {NoCache} \cup [page : DataPage, image : Image]
    <3>1. CASE cached.page = pageOf[r.id]
      <4>1. cached.page # 0
        BY <2>1, <3>1 DEF DataPage
      <4>2. cached \in [page : DataPage, image : Image]
        BY <4>1, CachedType
      <4>3. cached' = [cached EXCEPT !.image = Rewritten(r)]
        BY <1>1, <3>1 DEF RewriteOnPage
      <4> HIDE DEF Rewritten
      <4> QED BY <2>1, <4>2, <4>3
    <3>2. CASE cached.page # pageOf[r.id]
      BY <1>1, <3>2 DEF RewriteOnPage, TypeOK
    <3> QED BY <3>1, <3>2
  <2>4. job = NoJob
    BY DEF Jobs
  <2> QED BY <1>1, <2>2, <2>3, <2>4 DEF RewriteOnPage, StoreType, TypeOK
<1>2. CASE Persist(r)
  BY <1>2, PersistType
<1> QED BY <1>1, <1>2 DEF Rewrite

LEMMA OperationType ==
  ASSUME TypeOK, Jobs, StoreType', memHeader' \in Header, nodes' \in [Id -> Value \cup {Gone}],
         harm' \subseteq Harms, UNCHANGED killed
  PROVE  TypeOK' /\ Jobs'
BY DEF TypeOK, Jobs, StoreType

LEMMA PersistHarmType ==
  ASSUME NEW r
  PROVE  PersistHarm(r) \subseteq Harms /\ RewriteHarm(r) \subseteq Harms
BY DEF PersistHarm, RewriteHarm, Harms

LEMMA CreateType ==
  ASSUME TypeOK, Jobs, NEW v \in Value, Create(v)
  PROVE  TypeOK' /\ Jobs'
<1> DEFINE id == memHeader.nextId
           r == [id |-> id, value |-> v, deleted |-> FALSE]
<1>1. memHeader \in Header /\ id \in Id /\ id + 1 \in 1..(MaxId + 1)
  BY BoundsAssumption DEF Create, TypeOK, Header, Id
<1>2. r \in Record
  BY <1>1 DEF Record
<1>3. /\ Persist(r) /\ pc = "ready" /\ nodes' = [nodes EXCEPT ![id] = v]
      /\ memHeader' = [memHeader EXCEPT !.nextId = id + 1]
      /\ harm' = harm \cup PersistHarm(r) \cup IF nodes[id] = Gone THEN {} ELSE {"reused_id"}
      /\ UNCHANGED killed
  BY DEF Create
<1> HIDE DEF r
<1>4. StoreType'
  BY <1>2, <1>3, PersistType
<1>5. memHeader' \in Header
  BY <1>1, <1>3 DEF Header
<1> HIDE DEF id
<1>6. nodes' \in [Id -> Value \cup {Gone}]
  BY <1>3 DEF TypeOK
<1>7. harm' \subseteq Harms
  <2>1. PersistHarm(r) \subseteq Harms
    BY PersistHarmType
  <2> QED BY <1>3, <2>1 DEF TypeOK, Harms
<1> QED BY <1>3, <1>4, <1>5, <1>6, <1>7, OperationType

LEMMA ChangeType ==
  ASSUME TypeOK, Jobs, pc = "ready", NEW r \in Record, Rewrite(r), harm' = harm \cup RewriteHarm(r),
         NEW x \in Value \cup {Gone}, nodes' = [nodes EXCEPT ![r.id] = x], UNCHANGED <<memHeader, killed>>
  PROVE  TypeOK' /\ Jobs'
<1>1. StoreType'
  BY RewriteType
<1>2. harm' \subseteq Harms
  BY PersistHarmType DEF TypeOK
<1>3. nodes' \in [Id -> Value \cup {Gone}] /\ memHeader' \in Header
  BY DEF TypeOK
<1> QED BY <1>1, <1>2, <1>3, OperationType

LEMMA UpdateType ==
  ASSUME TypeOK, Jobs, NEW id \in Id, NEW v \in Value, Update(id, v)
  PROVE  TypeOK' /\ Jobs'
<1> DEFINE r == [id |-> id, value |-> v, deleted |-> FALSE]
<1>1. r \in Record /\ r.id = id
  BY DEF Record
<1>2. /\ pc = "ready" /\ Rewrite(r) /\ harm' = harm \cup RewriteHarm(r)
      /\ nodes' = [nodes EXCEPT ![id] = v] /\ UNCHANGED <<memHeader, killed>>
  BY DEF Update
<1> HIDE DEF r
<1>3. nodes' = [nodes EXCEPT ![r.id] = v]
  BY <1>1, <1>2
<1> QED BY <1>1, <1>2, <1>3, ChangeType

LEMMA DeleteType ==
  ASSUME TypeOK, Jobs, NEW id \in Id, Delete(id)
  PROVE  TypeOK' /\ Jobs'
<1> DEFINE r == [id |-> id, value |-> nodes[id], deleted |-> TRUE]
<1>1. r \in Record /\ r.id = id
  BY DEF Record, Delete, TypeOK
<1>2. /\ pc = "ready" /\ Rewrite(r) /\ harm' = harm \cup RewriteHarm(r)
      /\ nodes' = [nodes EXCEPT ![id] = Gone] /\ UNCHANGED <<memHeader, killed>>
  BY DEF Delete
<1> HIDE DEF r
<1>3. nodes' = [nodes EXCEPT ![r.id] = Gone]
  BY <1>1, <1>2
<1> QED BY <1>1, <1>2, <1>3, ChangeType

LEMMA JobType ==
  ASSUME TypeOK, Jobs, pc \in {"header", "chain", "page", "root"}
  PROVE  job \in [record : Record, page : DataPage] /\ job.page \in DataPage /\ job.record \in Record
BY DEF TypeOK, Jobs

LEMMA ChainPageType ==
  ASSUME TypeOK, Jobs, ChainPage
  PROVE  TypeOK' /\ Jobs'
<1>1. job.page \in DataPage
  BY JobType DEF ChainPage
<1>2. cached \in [page : DataPage, image : Image]
  BY CachedType DEF ChainPage, Jobs
<1>3. cached' = [cached EXCEPT !.image = [@ EXCEPT !.next = job.page]]
  BY DEF ChainPage
<1>4. [cached.image EXCEPT !.next = job.page] \in Image
  BY <1>1, <1>2 DEF Image
<1>5. cached' \in [page : DataPage, image : Image] /\ cached'.image \in Image
  BY <1>2, <1>3, <1>4
<1>6. log' \in [DataPage -> Image \cup {NoFrame}]
  BY <1>5 DEF ChainPage, TypeOK
<1> QED BY <1>5, <1>6 DEF ChainPage, TypeOK, Jobs

LEMMA WritePageType ==
  ASSUME TypeOK, Jobs, WritePage
  PROVE  TypeOK' /\ Jobs'
<1> DEFINE image == PackIfFits(EmptyPage(0), job.record)
<1>1. job.page \in DataPage /\ job.record \in Record /\ job.record.id \in Id /\ job # NoJob
  BY JobType DEF WritePage, Record, Jobs
<1>2. EmptyPage(0) \in Image
  BY DEF EmptyPage, Image
<1>3. image \in Image
  BY <1>1, <1>2, PackType
<1>4. /\ log' = [log EXCEPT ![job.page] = image]
      /\ cached' = [page |-> job.page, image |-> image]
      /\ harm' = harm \cup IF image.records = <<>> THEN {"oversize"} ELSE {}
  BY DEF WritePage
<1> HIDE DEF image
<1>5. log' \in [DataPage -> Image \cup {NoFrame}]
  BY <1>1, <1>3, <1>4 DEF TypeOK
<1>6. cached' \in [page : DataPage, image : Image]
  BY <1>1, <1>3, <1>4
<1>7. harm' \subseteq Harms
  <2>1. harm \subseteq Harms /\ "oversize" \in Harms
    BY DEF TypeOK, Harms
  <2> QED BY <1>4, <2>1
<1>8. pageOf' \in [Id -> {0} \cup DataPage]
  BY <1>1 DEF WritePage, TypeOK
<1>9. CASE memHeader.root = 0
  <2>1. memHeader' \in Header /\ pc' = "root" /\ job' = job
    BY <1>1, <1>9 DEF WritePage, TypeOK, Header
  <2> QED BY <1>1, <1>5, <1>6, <1>7, <1>8, <2>1 DEF WritePage, TypeOK, Jobs
<1>10. CASE memHeader.root # 0
  <2>1. memHeader' = memHeader /\ pc' = "ready" /\ job' = NoJob
    BY <1>10 DEF WritePage
  <2> QED BY <1>5, <1>6, <1>7, <1>8, <2>1 DEF WritePage, TypeOK, Jobs
<1> QED BY <1>9, <1>10

\* Copying the log to the main file changes no page.
LEMMA MergeKeepsImages ==
  ASSUME TypeOK, Merge
  PROVE  Images' = Images /\ main' \in [DataPage -> Image] /\ log' \in [DataPage -> Image \cup {NoFrame}]
<1>1. main' = Images /\ log' = [p \in DataPage |-> NoFrame]
  BY DEF Merge
<1>2. Images' = [p \in DataPage |-> IF log'[p] = NoFrame THEN main'[p] ELSE log'[p]]
  BY DEF Images
<1>3. Images' = [p \in DataPage |-> Images[p]]
  BY <1>1, <1>2
<1>4. Images \in [DataPage -> Image]
  BY ImagesType DEF PageMap
<1> QED BY <1>1, <1>3, <1>4

LEMMA OpenType ==
  ASSUME TypeOK, Jobs, Open
  PROVE  TypeOK' /\ Jobs'
<1> DEFINE live == Live(Images, header.root)
           chain == Chain(Images, header.root)
           end == ChainEnd(chain)
<1>1. Images \in PageMap /\ header.root \in Ref
  BY ImagesType DEF TypeOK, Header, Ref
<1>2. end \in Ref
  BY <1>1, ChainEndIs
<1>3. NodesIn(live) \in [Id -> Value \cup {Gone}] /\ PagesIn(live, chain) \in [Id -> {0} \cup DataPage]
  BY <1>1, ReadBackType
<1>4. end # 0 => end \in DataPage /\ Latest(end) \in Image
  BY <1>2 DEF Ref, Latest, TypeOK
<1>5. /\ nodes' = NodesIn(live) /\ pageOf' = PagesIn(live, chain)
      /\ cached' = IF end = 0 THEN NoCache ELSE [page |-> end, image |-> Latest(end)]
  BY DEF Open, Live
<1> HIDE DEF live, chain, end
<1>6. cached' \in {NoCache} \cup [page : DataPage, image : Image]
  BY <1>4, <1>5
<1>7. main' \in [DataPage -> Image] /\ log' \in [DataPage -> Image \cup {NoFrame}]
  BY MergeKeepsImages DEF Open
<1>8. UNCHANGED <<header, allocated, job, harm, killed>> /\ memHeader' = header
      /\ pc = "closed" /\ pc' = "ready"
  BY DEF Open
<1>9. nodes' \in [Id -> Value \cup {Gone}] /\ pageOf' \in [Id -> {0} \cup DataPage]
  BY <1>3, <1>5
<1>10. TypeOK'
  BY <1>6, <1>7, <1>8, <1>9 DEF TypeOK
<1>11. Jobs'
  BY <1>8 DEF Jobs
<1> QED BY <1>10, <1>11

LEMMA ForgottenType ==
  ASSUME TypeOK, Forgotten
  PROVE  /\ nodes' \in [Id -> Value \cup {Gone}] /\ pageOf' \in [Id -> {0} \cup DataPage]
         /\ cached' = NoCache /\ job' = NoJob /\ pc' = "closed" /\ nodes' = NoNodes
BY DEF Forgotten, NoNodes

LEMMA CloseFlushType ==
  ASSUME TypeOK, Jobs, CloseFlush
  PROVE  TypeOK' /\ Jobs'
<1>1. main' \in [DataPage -> Image] /\ log' \in [DataPage -> Image \cup {NoFrame}]
  BY MergeKeepsImages DEF CloseFlush
<1>2. /\ nodes' \in [Id -> Value \cup {Gone}] /\ pageOf' \in [Id -> {0} \cup DataPage]
      /\ cached' = NoCache /\ job' = NoJob /\ pc' = "closed" /\ nodes' = NoNodes
  BY ForgottenType DEF CloseFlush
<1>3. header' = memHeader /\ UNCHANGED <<allocated, memHeader, harm, killed>>
  BY DEF CloseFlush
<1> QED BY <1>1, <1>2, <1>3 DEF TypeOK, Jobs

LEMMA KillType ==
  ASSUME TypeOK, Jobs, Kill
  PROVE  TypeOK' /\ Jobs'
<1>1. /\ nodes' \in [Id -> Value \cup {Gone}] /\ pageOf' \in [Id -> {0} \cup DataPage]
      /\ cached' = NoCache /\ job' = NoJob /\ pc' = "closed" /\ nodes' = NoNodes
  BY ForgottenType DEF Kill
<1>2. killed' = TRUE /\ UNCHANGED <<main, log, header, allocated, memHeader, harm>>
  BY DEF Kill, disk
<1> QED BY <1>1, <1>2 DEF TypeOK, Jobs

LEMMA InitType == Init => TypeOK /\ Jobs
<1> SUFFICES ASSUME Init  PROVE TypeOK /\ Jobs
  OBVIOUS
<1>1. ZeroPage \in Image
  BY DEF ZeroPage, Image
<1>2. header \in Header /\ memHeader = header
  BY BoundsAssumption DEF Init, Header
<1>3. nodes \in [Id -> Value \cup {Gone}] /\ pageOf \in [Id -> {0} \cup DataPage]
  BY DEF Init, NoNodes
<1>4. main \in [DataPage -> Image] /\ log \in [DataPage -> Image \cup {NoFrame}]
  BY <1>1 DEF Init
<1> QED BY <1>2, <1>3, <1>4 DEF Init, TypeOK, Jobs, Harms

\* The types, and when a record is under way, through every step.
LEMMA StepType ==
  ASSUME TypeOK, Jobs, [Next]_vars
  PROVE  TypeOK' /\ Jobs'
<1>1. ASSUME NEW v \in Value, Create(v)  PROVE TypeOK' /\ Jobs'
  BY <1>1, CreateType
<1>2. ASSUME NEW id \in Id, NEW v \in Value, Update(id, v)  PROVE TypeOK' /\ Jobs'
  BY <1>2, UpdateType
<1>3. ASSUME NEW id \in Id, Delete(id)  PROVE TypeOK' /\ Jobs'
  BY <1>3, DeleteType
<1>4. CASE FlushCount
  BY <1>4 DEF FlushCount, TypeOK, Jobs
<1>5. CASE ChainPage
  BY <1>5, ChainPageType
<1>6. CASE WritePage
  BY <1>6, WritePageType
<1>7. CASE FlushRoot
  BY <1>7 DEF FlushRoot, TypeOK, Jobs
<1>8. CASE Checkpoint
  <2>1. main' \in [DataPage -> Image] /\ log' \in [DataPage -> Image \cup {NoFrame}]
    BY <1>8, MergeKeepsImages DEF Checkpoint
  <2> QED BY <1>8, <2>1 DEF Checkpoint, memory, TypeOK, Jobs
<1>9. CASE CloseCatalog
  <2>1. allocated' \subseteq DataPage /\ header' \in Header
    BY <1>9, LowestFreeIs DEF CloseCatalog, TypeOK
  <2> QED BY <1>9, <2>1 DEF CloseCatalog, TypeOK, Jobs
<1>10. CASE CloseFlush
  BY <1>10, CloseFlushType
<1>11. CASE Kill
  BY <1>11, KillType
<1>12. CASE Open
  BY <1>12, OpenType
<1>13. CASE UNCHANGED vars
  BY <1>13 DEF vars, disk, memory, TypeOK, Jobs
<1> QED BY <1>1, <1>2, <1>3, <1>4, <1>5, <1>6, <1>7, <1>8, <1>9, <1>10, <1>11, <1>12, <1>13 DEF Next

-----------------------------------------------------------------------------
(* What is stored after a page or the chain has changed.                   *)

LEMMA LiveInType ==
  ASSUME NEW image \in Image
  PROVE  LiveIn(image) \subseteq Record
BY ReadType DEF LiveIn

LEMMA NothingOnZeroPage == LiveIn(ZeroPage) = {} /\ ZeroPage \in Image /\ ZeroPage.next = 0
BY DEF LiveIn, ReadRecords, ZeroPage, Image

\* One page of the chain is written with r in place of what was live of its id.
LEMMA StoredAnew ==
  ASSUME NEW images \in PageMap, NEW root \in Ref, NEW s \in [Id -> Value \cup {Gone}],
         NEW on \in [Id -> {0} \cup DataPage], Stored(images, root, s, on),
         NEW p \in OnChain(images, root), NEW r \in Record,
         s[r.id] = Gone \/ on[r.id] = p,
         NEW image \in Image, image.next = images[p].next,
         \A x \in Record : x \in LiveIn(image) <=>
            (x \in LiveIn(images[p]) /\ x.id # r.id) \/ (x = r /\ ~ r.deleted)
  PROVE  Stored([images EXCEPT ![p] = image], root,
                [s EXCEPT ![r.id] = IF r.deleted THEN Gone ELSE r.value],
                [on EXCEPT ![r.id] = p])
<1> DEFINE after == [images EXCEPT ![p] = image]
           t == [s EXCEPT ![r.id] = IF r.deleted THEN Gone ELSE r.value]
           at == [on EXCEPT ![r.id] = p]
<1>1. p \in DataPage /\ r.id \in Id /\ r.value \in Value
  BY OnChainType DEF Record
<1>2. /\ \A q \in DataPage : after[q] = IF q = p THEN image ELSE images[q]
      /\ \A id \in Id : t[id] = IF id = r.id THEN IF r.deleted THEN Gone ELSE r.value ELSE s[id]
      /\ \A id \in Id : at[id] = IF id = r.id THEN p ELSE on[id]
  BY <1>1 DEF PageMap
<1> HIDE DEF after, t, at
<1>3. OnChain(after, root) = OnChain(images, root) /\ OnChain(images, root) \subseteq DataPage
  <2>1. \A q \in DataPage : after[q].next = images[q].next
    BY <1>2
  <2> QED BY <2>1, SamePointers, OnChainType
<1>4. ASSUME NEW q \in OnChain(images, root), NEW x \in LiveIn(after[q])
      PROVE  t[x.id] = x.value /\ at[x.id] = q
  <2>1. q \in DataPage /\ images[q] \in Image
    BY <1>3 DEF PageMap
  <2>2. CASE q = p
    <3>1. x \in LiveIn(image) /\ x \in Record
      BY <1>2, <2>1, <2>2, LiveInType
    <3>2. CASE x \in LiveIn(images[p]) /\ x.id # r.id
      <4>1. s[x.id] = x.value /\ on[x.id] = p /\ x.id \in Id
        BY <3>1, <3>2 DEF Stored, Record
      <4> QED BY <1>2, <2>2, <3>2, <4>1
    <3>3. CASE x = r /\ ~ r.deleted
      BY <1>1, <1>2, <2>2, <3>3
    <3> QED BY <3>1, <3>2, <3>3
  <2>3. CASE q # p
    <3>1. x \in LiveIn(images[q]) /\ x \in Record
      BY <1>2, <2>1, <2>3, LiveInType
    <3>2. s[x.id] = x.value /\ on[x.id] = q /\ x.id \in Id /\ x.value \in Value
      BY <3>1 DEF Stored, Record
    <3>3. x.id # r.id
      BY <2>3, <3>2, MarksAssumption
    <3> QED BY <1>2, <3>2, <3>3
  <2> QED BY <2>2, <2>3
<1>5. ASSUME NEW id \in Id, t[id] # Gone
      PROVE  at[id] \in OnChain(images, root) /\ \E x \in LiveIn(after[at[id]]) : x.id = id
  <2>1. CASE id = r.id
    <3>1. ~ r.deleted /\ at[id] = p /\ after[p] = image /\ r \in LiveIn(image)
      BY <1>1, <1>2, <1>5, <2>1
    <3> QED BY <2>1, <3>1
  <2>2. CASE id # r.id
    <3>1. s[id] # Gone /\ at[id] = on[id]
      BY <1>2, <1>5, <2>2
    <3>2. on[id] \in OnChain(images, root) /\ \E y \in LiveIn(images[on[id]]) : y.id = id
      BY <3>1 DEF Stored
    <3>3. PICK x \in LiveIn(images[on[id]]) : x.id = id
      BY <3>2
    <3>4. on[id] \in DataPage /\ images[on[id]] \in Image
      BY <1>3, <3>2 DEF PageMap
    <3>5. x \in Record
      BY <3>4, LiveInType
    <3>6. x \in LiveIn(after[on[id]])
      BY <1>2, <2>2, <3>3, <3>4, <3>5
    <3> QED BY <3>1, <3>2, <3>3, <3>6
  <2> QED BY <2>1, <2>2
<1>6. Stored(after, root, t, at)
  BY <1>3, <1>4, <1>5 DEF Stored
<1> QED BY <1>6 DEF after, t, at

\* An empty page is hung behind the end.
LEMMA StoredLengthened ==
  ASSUME NEW images \in PageMap, NEW root \in Ref, NEW s, NEW on, Stored(images, root, s, on),
         NEW after, NEW n,
         OnChain(after, root) = OnChain(images, root) \cup {n}, LiveIn(after[n]) = {},
         \A p \in OnChain(images, root) : LiveIn(after[p]) = LiveIn(images[p])
  PROVE  Stored(after, root, s, on)
<1>1. ASSUME NEW p \in OnChain(after, root), NEW x \in LiveIn(after[p])
      PROVE  s[x.id] = x.value /\ on[x.id] = p
  <2>1. p \in OnChain(images, root) /\ x \in LiveIn(images[p])
    BY <1>1
  <2> QED BY <2>1 DEF Stored
<1>2. ASSUME NEW id \in Id, s[id] # Gone
      PROVE  on[id] \in OnChain(after, root) /\ \E x \in LiveIn(after[on[id]]) : x.id = id
  BY <1>2 DEF Stored
<1> QED BY <1>1, <1>2 DEF Stored

\* The first page of all becomes the chain.
LEMMA StoredFirst ==
  ASSUME NEW images \in PageMap, NEW s \in [Id -> Value \cup {Gone}], NEW on,
         Stored(images, 0, s, on),
         NEW n \in DataPage, images[n].next = 0, NEW r \in Record, LiveIn(images[n]) = {r}, on[r.id] = n
  PROVE  /\ Stored(images, n, [s EXCEPT ![r.id] = r.value], on)
         /\ IsEnd(images, n, n)
<1> DEFINE t == [s EXCEPT ![r.id] = r.value]
<1>1. n \in Ref /\ n # 0
  BY DEF Ref, DataPage
<1>2. OnChain(images, n) = {n}
  <2>1. n \in OnChain(images, n)
    BY <1>1, RootOnChain
  <2> DEFINE T == {n}
  <2>2. \A p \in T : p \in DataPage /\ images[p].next # 0 => images[p].next \in T
    OBVIOUS
  <2>3. n # 0 => n \in T
    OBVIOUS
  <2> HIDE DEF T
  <2>4. OnChain(images, n) \subseteq T
    BY <1>1, <2>2, <2>3, ChainWithin
  <2> QED BY <2>1, <2>4 DEF T
<1>3. \A id \in Id : s[id] = Gone
  BY EmptyChain DEF Stored
<1>4. r.id \in Id /\ \A id \in Id : t[id] = IF id = r.id THEN r.value ELSE Gone
  BY <1>3 DEF Record
<1> HIDE DEF t
<1>5. Stored(images, n, t, on)
  BY <1>2, <1>4 DEF Stored
<1>6. IsEnd(images, n, n)
  BY <1>1, <1>2 DEF IsEnd
<1> QED BY <1>5, <1>6 DEF t

\* A page with one record.
LEMMA OnePacked ==
  ASSUME NEW r \in Record, ~ r.deleted
  PROVE  /\ LiveIn(PackRecord(EmptyPage(0), r)) = {r}
         /\ PackRecord(EmptyPage(0), r).next = 0 /\ PackRecord(EmptyPage(0), r) \in Image
<1> DEFINE image == PackRecord(EmptyPage(0), r)
<1>1. EmptyPage(0) \in Image
  BY DEF EmptyPage, Image
<1>2. image \in Image
  BY <1>1, PackType
<1>3. image.formatted /\ image.records = <<r>> /\ image.next = 0
  <2>1. image.formatted /\ image.records = Append(<<>>, r) /\ image.next = 0
    BY DEF PackRecord, EmptyPage
  <2>2. Append(<<>>, r) = <<r>>
    OBVIOUS
  <2> QED BY <2>1, <2>2
<1> HIDE DEF image
<1>4. ReadRecords(image) = <<r>>
  BY <1>3 DEF ReadRecords
<1>5. {<<r>>[k] : k \in 1..Len(<<r>>)} = {r}
  OBVIOUS
<1>6. LiveIn(image) = {r}
  BY <1>4, <1>5 DEF LiveIn
<1> QED BY <1>2, <1>3, <1>6 DEF image

\* A record packed behind others.
LEMMA PackedLive ==
  ASSUME NEW image \in Image, image.formatted, NEW r \in Record, ~ r.deleted
  PROVE  /\ PackRecord(image, r).next = image.next
         /\ LiveIn(PackRecord(image, r)) = LiveIn(image) \cup {r}
<1> DEFINE new == PackRecord(image, r)
           old == image.records
<1>1. old \in Seq(Record) /\ new = [image EXCEPT !.records = Append(old, r)]
  BY DEF Image, PackRecord
<1>2. new.formatted /\ new.next = image.next /\ new.records = Append(old, r)
  BY <1>1 DEF Image
<1> HIDE DEF new
<1>3. ReadRecords(new) = Append(old, r) /\ ReadRecords(image) = old
  BY <1>2 DEF ReadRecords
<1> HIDE DEF old
<1>4. {Append(old, r)[k] : k \in 1..Len(Append(old, r))} = {old[k] : k \in 1..Len(old)} \cup {r}
  <2>1. Len(Append(old, r)) = Len(old) + 1 /\ Len(old) \in Nat
    BY <1>1
  <2>2. \A k \in 1..Len(old) : Append(old, r)[k] = old[k]
    BY <1>1
  <2>3. Append(old, r)[Len(old) + 1] = r
    BY <1>1
  <2> QED BY <2>1, <2>2, <2>3
<1>5. LiveIn(new) = LiveIn(image) \cup {r}
  BY <1>3, <1>4 DEF LiveIn
<1> QED BY <1>2, <1>5 DEF new

-----------------------------------------------------------------------------
(* The invariant, step by step, as long as nothing is lost.                *)

Kept == Pages /\ Ends /\ Writing /\ AllStored /\ LeftInOrder /\ NextIdAhead

\* What the invariant says of a state that no loss has reached.
LEMMA Unharmed ==
  ASSUME Inv, harm = {}
  PROVE  /\ Images \in PageMap /\ Forward(Images)
         /\ header.root \in Ref /\ memHeader.root \in Ref
         /\ nodes \in [Id -> Value \cup {Gone}] /\ pageOf \in [Id -> {0} \cup DataPage]
         /\ allocated \subseteq DataPage
<1>1. TypeOK
  BY DEF Inv
<1>2. Forward(Images)
  BY DEF Inv, Pages, Forward
<1> QED BY <1>1, <1>2, ImagesType DEF TypeOK, Header, Ref

LEMMA SettledType ==
  ASSUME TypeOK
  PROVE  Settled \in [Id -> Value \cup {Gone}]
BY DEF TypeOK, Settled

LEMMA ImagesPut ==
  ASSUME TypeOK, NEW p \in DataPage, NEW image \in Image,
         main' = main, log' = [log EXCEPT ![p] = image]
  PROVE  Images' = [Images EXCEPT ![p] = image]
<1>1. image # NoFrame
  BY MarksAssumption
<1>2. Images' = [q \in DataPage |-> IF log'[q] = NoFrame THEN main'[q] ELSE log'[q]]
  BY DEF Images
<1>3. \A q \in DataPage : log'[q] = IF q = p THEN image ELSE log[q]
  BY DEF TypeOK
<1>4. \A q \in DataPage : Images[q] = IF log[q] = NoFrame THEN main[q] ELSE log[q]
  BY DEF Images
<1>5. Images' = [q \in DataPage |-> IF q = p THEN image ELSE Images[q]]
  BY <1>1, <1>2, <1>3, <1>4
<1>6. [Images EXCEPT ![p] = image] = [q \in DataPage |-> IF q = p THEN image ELSE Images[q]]
  BY DEF Images
<1> QED BY <1>5, <1>6

LEMMA ImagesStay ==
  ASSUME UNCHANGED <<main, log>>
  PROVE  Images' = Images
BY DEF Images

LEMMA RestartIs ==
  Restart = NodesIn(Live(Images, header.root))
BY DEF Restart, Live

\* A restart finds what is settled.
LEMMA RestartIsSettled ==
  ASSUME Inv, harm = {}, pc # "closed"
  PROVE  Restart = Settled
<1>1. Images \in PageMap /\ header.root \in Ref /\ Settled \in [Id -> Value \cup {Gone}]
  BY Unharmed, SettledType DEF Inv
<1>2. Stored(Images, header.root, Settled, pageOf)
  BY DEF Inv, AllStored
<1>3. NodesIn(Live(Images, header.root)) = Settled
  BY <1>1, <1>2, StoredIsRead
<1> QED BY <1>3, RestartIs

\* The pages of the chain are allocated.
LEMMA ChainAllocated ==
  ASSUME Inv, harm = {}
  PROVE  OnChain(Images, header.root) \subseteq allocated
<1>1. Images \in PageMap /\ header.root \in Ref
  BY Unharmed
<1>2. header.root # 0 => header.root \in allocated
  BY DEF Inv, Pages
<1>3. \A p \in allocated : p \in DataPage /\ Images[p].next # 0 => Images[p].next \in allocated
  BY DEF Inv, Pages
<1> QED BY <1>1, <1>2, <1>3, ChainWithin

\* A step that changes no page, no header and nothing in memory that the invariant is about.
LEMMA QuietKept ==
  ASSUME Inv, harm = {}, harm' = {}, Images' = Images,
         UNCHANGED <<header, allocated, pc, job, memHeader, nodes, pageOf, cached, killed>>
  PROVE  Kept'
<1>1. Pages'
  BY DEF Inv, Pages
<1>2. Ends' /\ Writing'
  BY DEF Inv, Ends, Writing, FirstPageWritten
<1>3. Settled' = Settled /\ Restart' = Restart
  BY DEF Settled, Restart
<1>4. AllStored' /\ LeftInOrder'
  BY <1>3 DEF Inv, AllStored, LeftInOrder
<1>5. NextIdAhead'
  BY <1>3 DEF Inv, NextIdAhead
<1> QED BY <1>1, <1>2, <1>4, <1>5 DEF Kept

-----------------------------------------------------------------------------
(* create_node.                                                            *)

\* Into the current page.
LEMMA CreateHereKept ==
  ASSUME Inv, harm = {}, harm' = {}, pc = "ready", NEW r \in Record, ~ r.deleted, PersistHere(r),
         nodes[r.id] = Gone, nodes' = [nodes EXCEPT ![r.id] = r.value],
         r.id = memHeader.nextId, memHeader' = [memHeader EXCEPT !.nextId = r.id + 1],
         cached.image.formatted, UNCHANGED killed
  PROVE  Kept'
<1> DEFINE e == cached.page
           image == PackRecord(Images[e], r)
<1>1. /\ Images \in PageMap /\ Forward(Images) /\ header.root \in Ref /\ job = NoJob
      /\ nodes \in [Id -> Value \cup {Gone}] /\ pageOf \in [Id -> {0} \cup DataPage]
  BY Unharmed DEF Inv, Jobs
<1>2. e # 0 /\ cached.image = Images[e] /\ IsEnd(Images, header.root, e)
      /\ memHeader.root = header.root
  BY DEF PersistHere, Room, Inv, Ends
<1>3. e \in OnChain(Images, header.root) /\ Images[e].next = 0
  BY <1>2 DEF IsEnd
<1>4. e \in DataPage /\ e \in allocated /\ Images[e] \in Image /\ Images[e].formatted
  BY <1>1, <1>2, <1>3, ChainAllocated, OnChainType DEF PageMap
<1>5. image \in Image /\ image.next = 0 /\ LiveIn(image) = LiveIn(Images[e]) \cup {r}
  BY <1>3, <1>4, PackType, PackedLive
<1>6. /\ cached' = [cached EXCEPT !.image = image] /\ log' = [log EXCEPT ![e] = cached'.image]
      /\ pageOf' = [pageOf EXCEPT ![r.id] = e] /\ UNCHANGED <<main, header, allocated, pc, job>>
  BY <1>2 DEF PersistHere
<1> HIDE DEF image
<1>7. cached'.page = e /\ cached'.image = image
  <2>1. cached \in [page : DataPage, image : Image]
    BY <1>2, CachedType DEF Inv
  <2> QED BY <1>6, <2>1
<1>8. Images' = [Images EXCEPT ![e] = image]
  BY <1>4, <1>5, <1>6, <1>7, ImagesPut DEF Inv
<1> HIDE DEF e
<1>9. /\ \A p \in DataPage : Images'[p].next = Images[p].next
      /\ \A p \in DataPage : p # e => Images'[p] = Images[p]
      /\ Images'[e] = image
  BY <1>1, <1>3, <1>4, <1>5, <1>8 DEF PageMap
<1>10. memHeader'.root = memHeader.root /\ memHeader'.nextId = r.id + 1 /\ memHeader.nextId \in Nat
  BY BoundsAssumption DEF Inv, TypeOK, Header
<1>11. Pages'
  <2>1. \A p \in DataPage \ allocated : Images'[p] = ZeroPage
    BY <1>4, <1>9 DEF Inv, Pages
  <2>2. {header.root, memHeader'.root, cached'.page, job.page} \subseteq {0} \cup allocated
    BY <1>4, <1>7, <1>10 DEF Inv, Pages
  <2>3. \A p \in DataPage : Images'[p].next # 0 => Images'[p].next \in allocated /\ p < Images'[p].next
    BY <1>9 DEF Inv, Pages
  <2>4. \A p \in allocated, q \in DataPage : q < p => q \in allocated
    BY DEF Inv, Pages
  <2> QED BY <1>6, <2>1, <2>2, <2>3, <2>4 DEF Pages
<1>12. OnChain(Images', header.root) = OnChain(Images, header.root)
  BY <1>9, SamePointers
<1>13. Ends'
  <2>1. IsEnd(Images', header.root, e)
    BY <1>2, <1>3, <1>4, <1>9, <1>12 DEF IsEnd
  <2> QED BY <1>2, <1>6, <1>7, <1>9, <1>10, <2>1 DEF Ends
<1>14. Writing'
  BY <1>1, <1>6 DEF Writing
<1>15. AllStored'
  <2>1. Stored(Images, header.root, nodes, pageOf)
    BY <1>1 DEF Inv, AllStored, Settled
  <2>2. ASSUME NEW x \in Record
        PROVE  x \in LiveIn(image) <=> (x \in LiveIn(Images[e]) /\ x.id # r.id) \/ (x = r /\ ~ r.deleted)
    <3>1. x \in LiveIn(Images[e]) => nodes[x.id] = x.value /\ x.value # Gone
      BY <1>3, <2>1, MarksAssumption DEF Stored, Record
    <3> QED BY <1>5, <3>1
  <2>3. Stored([Images EXCEPT ![e] = image], header.root,
               [nodes EXCEPT ![r.id] = IF r.deleted THEN Gone ELSE r.value], [pageOf EXCEPT ![r.id] = e])
    BY <1>1, <1>3, <1>5, <2>1, <2>2, StoredAnew
  <2>4. Stored(Images', header.root, nodes', pageOf')
    BY <1>6, <1>8, <2>3
  <2>5. Settled' = nodes'
    BY <1>1, <1>6 DEF Settled
  <2> QED BY <1>6, <2>4, <2>5 DEF AllStored
<1>16. LeftInOrder'
  BY <1>6 DEF LeftInOrder
<1>17. NextIdAhead'
  <2>1. ASSUME ~ killed, NEW id \in Id, nodes'[id] # Gone  PROVE id < memHeader'.nextId
    <3>1. id = r.id \/ nodes[id] # Gone
      BY <1>1, <2>1
    <3>2. nodes[id] # Gone => id < memHeader.nextId
      BY <2>1 DEF Inv, NextIdAhead
    <3> QED BY <1>10, <3>1, <3>2, BoundsAssumption DEF Id
  <2> QED BY <1>6, <2>1 DEF NextIdAhead
<1> QED BY <1>11, <1>13, <1>14, <1>15, <1>16, <1>17 DEF Kept

\* On a new page: its bit is on disk, and the record is under way.
LEMMA CreateOnNewPageKept ==
  ASSUME Inv, harm = {}, harm' = {}, pc = "ready", NEW r \in Record, ~ r.deleted, PersistNewPage(r),
         nodes[r.id] = Gone, nodes' = [nodes EXCEPT ![r.id] = r.value],
         r.id = memHeader.nextId, memHeader' = [memHeader EXCEPT !.nextId = r.id + 1],
         UNCHANGED killed
  PROVE  Kept'
<1>1. /\ job = NoJob /\ nodes \in [Id -> Value \cup {Gone}] /\ allocated \subseteq DataPage /\ r.id \in Id
  BY Unharmed DEF Inv, Jobs, Record
<1> DEFINE n == LowestFree
<1>2. n \in DataPage /\ n \notin allocated /\ \A q \in DataPage : q \notin allocated => n <= q
  BY LowestFreeIs DEF PersistNewPage, FreePages
<1>3. /\ allocated' = allocated \cup {n} /\ job' = [record |-> r, page |-> n] /\ pc' = "header"
      /\ UNCHANGED <<main, log, header, cached, pageOf>>
  BY DEF PersistNewPage
<1> HIDE DEF n
<1>4. Images' = Images /\ job'.record = r /\ job'.page = n /\ job' # NoJob
  <2>1. n # 0
    BY <1>2 DEF DataPage
  <2> QED BY <1>3, <2>1, ImagesStay DEF NoJob
<1>5. memHeader'.root = memHeader.root /\ memHeader'.nextId = r.id + 1 /\ memHeader.nextId \in Nat
  BY BoundsAssumption DEF Inv, TypeOK, Header
<1>6. \A p \in allocated : p < n
  <2>1. \A p \in allocated, q \in DataPage : q < p => q \in allocated
    BY DEF Inv, Pages
  <2>2. \A p \in allocated : p \in Nat /\ n \in Nat /\ p # n
    BY <1>1, <1>2, BoundsAssumption DEF DataPage
  <2> QED BY <1>2, <2>1, <2>2
<1>7. Pages'
  <2>1. \A p \in allocated', q \in DataPage : q < p => q \in allocated'
    <3>1. \A q \in DataPage : q < n => q \in allocated
      BY <1>2, BoundsAssumption DEF DataPage
    <3> QED BY <1>3, <3>1 DEF Inv, Pages
  <2>2. \A p \in DataPage \ allocated' : Images'[p] = ZeroPage
    BY <1>3, <1>4 DEF Inv, Pages
  <2>3. \A p \in DataPage : Images'[p].next # 0 => Images'[p].next \in allocated' /\ p < Images'[p].next
    BY <1>3, <1>4 DEF Inv, Pages
  <2>4. {header.root, memHeader'.root, cached.page, job'.page} \subseteq {0} \cup allocated'
    BY <1>3, <1>4, <1>5 DEF Inv, Pages
  <2> QED BY <1>3, <2>1, <2>2, <2>3, <2>4 DEF Pages
<1>8. Ends'
  BY <1>3, <1>4, <1>5 DEF Inv, Ends
<1>9. Writing'
  <2>1. Images[n] = ZeroPage
    BY <1>2 DEF Inv, Pages
  <2>2. cached.page < n
    <3>1. cached.page = 0 \/ cached.page \in allocated
      BY DEF Inv, Pages
    <3> QED BY <1>2, <1>6, <3>1 DEF DataPage
  <2>3. nodes'[r.id] = r.value
    BY <1>1
  <2> QED BY <1>3, <1>4, <2>1, <2>2, <2>3 DEF Writing
<1>10. AllStored'
  <2>1. [nodes' EXCEPT ![r.id] = Gone] = nodes
    BY <1>1
  <2>2. Settled' = nodes /\ Settled = nodes
    BY <1>1, <1>4, <2>1 DEF Settled
  <2> QED BY <1>3, <1>4, <2>2 DEF Inv, AllStored
<1>11. LeftInOrder'
  BY <1>3 DEF LeftInOrder
<1>12. NextIdAhead'
  <2>1. ASSUME ~ killed, NEW id \in Id, nodes'[id] # Gone  PROVE id < memHeader'.nextId
    <3>1. id = r.id \/ nodes[id] # Gone
      BY <1>1, <2>1
    <3>2. nodes[id] # Gone => id < memHeader.nextId
      BY <2>1 DEF Inv, NextIdAhead
    <3> QED BY <1>5, <3>1, <3>2, BoundsAssumption DEF Id
  <2> QED BY <1>3, <2>1 DEF NextIdAhead
<1> QED BY <1>7, <1>8, <1>9, <1>10, <1>11, <1>12 DEF Kept

LEMMA CreateKept ==
  ASSUME Inv, harm = {}, harm' = {}, NEW v \in Value, Create(v)
  PROVE  Kept'
<1> DEFINE id == memHeader.nextId
           r == [id |-> id, value |-> v, deleted |-> FALSE]
<1>1. memHeader \in Header /\ id \in Id
  BY BoundsAssumption DEF Create, Inv, TypeOK, Header, Id
<1>2. r \in Record /\ ~ r.deleted /\ r.id = id /\ r.value = v
  BY <1>1 DEF Record
<1>3. /\ Persist(r) /\ pc = "ready" /\ nodes' = [nodes EXCEPT ![id] = v]
      /\ memHeader' = [memHeader EXCEPT !.nextId = id + 1]
      /\ harm' = harm \cup PersistHarm(r) \cup IF nodes[id] = Gone THEN {} ELSE {"reused_id"}
      /\ UNCHANGED killed
  BY DEF Create
<1> HIDE DEF r
<1>4. PersistHarm(r) = {} /\ nodes[id] = Gone
  BY <1>3
<1>5. CASE PersistHere(r)
  <2>1. cached.image.formatted
    BY <1>4, <1>5 DEF PersistHere, PersistHarm
  <2> QED BY <1>2, <1>3, <1>4, <1>5, <2>1, CreateHereKept
<1>6. CASE PersistNewPage(r)
  BY <1>2, <1>3, <1>4, <1>6, CreateOnNewPageKept
<1>7. CASE PersistFails(r)
  BY <1>4, <1>7 DEF PersistFails, PersistHarm
<1> QED BY <1>3, <1>5, <1>6, <1>7 DEF Persist

-----------------------------------------------------------------------------
(* update_node, delete_node.                                               *)

LEMMA RewriteKept ==
  ASSUME Inv, harm = {}, harm' = {}, pc = "ready", NEW r \in Record, Rewrite(r),
         harm' = harm \cup RewriteHarm(r), nodes[r.id] # Gone,
         nodes' = [nodes EXCEPT ![r.id] = IF r.deleted THEN Gone ELSE r.value],
         UNCHANGED <<memHeader, killed>>
  PROVE  Kept'
<1> DEFINE p == pageOf[r.id]
           image == Rewritten(r)
<1>1. /\ Images \in PageMap /\ Forward(Images) /\ header.root \in Ref /\ job = NoJob
      /\ nodes \in [Id -> Value \cup {Gone}] /\ pageOf \in [Id -> {0} \cup DataPage]
      /\ r.id \in Id /\ r.value \in Value
  BY Unharmed DEF Inv, Jobs, Record
<1>2. Stored(Images, header.root, nodes, pageOf)
  BY <1>1 DEF Inv, AllStored, Settled
<1>3. p \in OnChain(Images, header.root) /\ \E x \in LiveIn(Images[p]) : x.id = r.id
  BY <1>1, <1>2 DEF Stored
<1>4. p \in DataPage /\ p # 0 /\ Images[p] \in Image /\ p \in allocated
  BY <1>1, <1>3, OnChainType, ChainAllocated DEF PageMap, DataPage
<1>5. RewriteOnPage(r)
  BY <1>4 DEF Rewrite
<1>6. ReadDataPage(p) = Images[p] /\ Len(Rewritten(r).records) = Len(ReadRecords(Images[p]))
  <2>1. RewriteHarm(r) = {}
    OBVIOUS
  <2>2. ReadDataPage(p) = Latest(p)
    BY <1>4, <2>1 DEF RewriteHarm
  <2>3. Len(Rewritten(r).records) = Len(ReadRecords(ReadDataPage(p)))
    BY <1>4, <2>1 DEF RewriteHarm
  <2>4. Latest(p) = Images[p]
    BY <1>4 DEF Latest, Images
  <2> QED BY <2>2, <2>3, <2>4
<1>7. image = Rebuilt(Images[p], r)
  BY <1>6 DEF Rewritten
<1>8. image \in Image /\ image.next = Images[p].next
  BY <1>4, <1>7, RebuiltRight DEF RebuiltFrom
<1>9. ASSUME NEW x \in Record
      PROVE  x \in LiveIn(image) <=> (x \in LiveIn(Images[p]) /\ x.id # r.id) \/ (x = r /\ ~ r.deleted)
  <2>1. \E k \in 1..Len(ReadRecords(Images[p])) : ReadRecords(Images[p])[k].id = r.id
    BY <1>3 DEF LiveIn
  <2>2. Len(Rebuilt(Images[p], r).records) = Len(ReadRecords(Images[p]))
    BY <1>6, <1>7
  <2> QED BY <1>4, <1>7, <2>1, <2>2, RewrittenLive
<1>10. /\ log' = [log EXCEPT ![p] = image]
       /\ cached' = IF cached.page = p THEN [cached EXCEPT !.image = image] ELSE cached
       /\ UNCHANGED <<main, header, allocated, pc, job, pageOf>>
  BY <1>5 DEF RewriteOnPage
<1> HIDE DEF image
<1>11. Images' = [Images EXCEPT ![p] = image]
  BY <1>4, <1>8, <1>10, ImagesPut DEF Inv
<1>12. cached'.page = cached.page /\ cached'.image = IF cached.page = p THEN image ELSE cached.image
  <2>1. cached.page # 0 => cached \in [page : DataPage, image : Image]
    BY CachedType DEF Inv
  <2> QED BY <1>4, <1>10, <2>1
<1> HIDE DEF p
<1>13. /\ \A q \in DataPage : Images'[q].next = Images[q].next
       /\ \A q \in DataPage : q # p => Images'[q] = Images[q]
       /\ Images'[p] = image
  BY <1>1, <1>4, <1>8, <1>11 DEF PageMap
<1>14. Pages'
  <2>1. \A q \in DataPage \ allocated : Images'[q] = ZeroPage
    BY <1>4, <1>13 DEF Inv, Pages
  <2>2. {header.root, memHeader.root, cached'.page, job.page} \subseteq {0} \cup allocated
    BY <1>12 DEF Inv, Pages
  <2>3. \A q \in DataPage : Images'[q].next # 0 => Images'[q].next \in allocated /\ q < Images'[q].next
    BY <1>13 DEF Inv, Pages
  <2>4. \A u \in allocated, q \in DataPage : q < u => q \in allocated
    BY DEF Inv, Pages
  <2> QED BY <1>10, <2>1, <2>2, <2>3, <2>4 DEF Pages
<1>15. OnChain(Images', header.root) = OnChain(Images, header.root)
  BY <1>13, SamePointers
<1>16. Ends'
  <2>1. IsEnd(Images, header.root, cached.page) /\ memHeader.root = header.root
        /\ (cached.page # 0 => cached.image = Images[cached.page])
    BY DEF Inv, Ends
  <2>2. cached.page \in Ref
    BY CachedType DEF Inv
  <2>3. IsEnd(Images', header.root, cached.page)
    <3>1. OnChain(Images, header.root) \subseteq DataPage
      BY <1>1, OnChainType
    <3> QED BY <1>13, <1>15, <2>1, <3>1 DEF IsEnd
  <2>4. cached'.page # 0 => cached'.image = Images'[cached'.page]
    BY <1>12, <1>13, <2>1, <2>2 DEF Ref
  <2> QED BY <1>10, <1>12, <2>1, <2>3, <2>4 DEF Ends
<1>17. Writing'
  BY <1>1, <1>10 DEF Writing
<1>18. AllStored'
  <2>1. Stored([Images EXCEPT ![p] = image], header.root,
               [nodes EXCEPT ![r.id] = IF r.deleted THEN Gone ELSE r.value], [pageOf EXCEPT ![r.id] = p])
    <3>1. pageOf[r.id] = p
      BY DEF p
    <3> QED BY <1>1, <1>2, <1>3, <1>8, <1>9, <3>1, StoredAnew
  <2>2. [pageOf EXCEPT ![r.id] = p] = pageOf
    BY <1>1 DEF p
  <2>3. Stored(Images', header.root, nodes', pageOf')
    BY <1>10, <1>11, <2>1, <2>2
  <2>4. Settled' = nodes'
    BY <1>1, <1>10 DEF Settled
  <2> QED BY <1>10, <2>3, <2>4 DEF AllStored
<1>19. LeftInOrder'
  BY <1>10 DEF LeftInOrder
<1>20. NextIdAhead'
  <2>1. \A id \in Id : nodes'[id] # Gone => nodes[id] # Gone
    BY <1>1
  <2> QED BY <1>10, <2>1 DEF Inv, NextIdAhead
<1> QED BY <1>14, <1>16, <1>17, <1>18, <1>19, <1>20 DEF Kept

LEMMA UpdateKept ==
  ASSUME Inv, harm = {}, harm' = {}, NEW id \in Id, NEW v \in Value, Update(id, v)
  PROVE  Kept'
<1> DEFINE r == [id |-> id, value |-> v, deleted |-> FALSE]
<1>1. r \in Record /\ r.id = id /\ r.value = v /\ ~ r.deleted
  BY DEF Record
<1>2. /\ pc = "ready" /\ nodes[id] # Gone /\ Rewrite(r) /\ harm' = harm \cup RewriteHarm(r)
      /\ nodes' = [nodes EXCEPT ![id] = v] /\ UNCHANGED <<memHeader, killed>>
  BY DEF Update
<1> HIDE DEF r
<1>3. nodes' = [nodes EXCEPT ![r.id] = IF r.deleted THEN Gone ELSE r.value]
  BY <1>1, <1>2
<1> QED BY <1>1, <1>2, <1>3, RewriteKept

LEMMA DeleteKept ==
  ASSUME Inv, harm = {}, harm' = {}, NEW id \in Id, Delete(id)
  PROVE  Kept'
<1> DEFINE r == [id |-> id, value |-> nodes[id], deleted |-> TRUE]
<1>1. r \in Record /\ r.id = id /\ r.deleted
  BY DEF Record, Delete, Inv, TypeOK
<1>2. /\ pc = "ready" /\ nodes[id] # Gone /\ Rewrite(r) /\ harm' = harm \cup RewriteHarm(r)
      /\ nodes' = [nodes EXCEPT ![id] = Gone] /\ UNCHANGED <<memHeader, killed>>
  BY DEF Delete
<1> HIDE DEF r
<1>3. nodes' = [nodes EXCEPT ![r.id] = IF r.deleted THEN Gone ELSE r.value]
  BY <1>1, <1>2
<1> QED BY <1>1, <1>2, <1>3, RewriteKept

-----------------------------------------------------------------------------
(* The rest of persist_node.                                               *)

LEMMA FlushCountKept ==
  ASSUME Inv, harm = {}, harm' = {}, FlushCount
  PROVE  Kept'
<1>1. /\ pc = "header" /\ header' = memHeader /\ pc' = IF cached.page = 0 THEN "page" ELSE "chain"
      /\ UNCHANGED <<main, log, allocated, job, memHeader, nodes, pageOf, cached, killed>>
  BY DEF FlushCount
<1>2. Images' = Images /\ memHeader.root = header.root /\ IsEnd(Images, header.root, cached.page)
  BY <1>1, ImagesStay DEF Inv, Ends
<1>3. header'.root = header.root
  BY <1>1, <1>2
<1>4. Pages'
  BY <1>1, <1>2 DEF Inv, Pages
<1>5. Ends'
  BY <1>1, <1>2, <1>3 DEF Inv, Ends
<1>6. Writing'
  BY <1>1, <1>2 DEF Inv, Writing
<1>7. AllStored' /\ LeftInOrder'
  <2>1. Settled' = Settled
    BY <1>1 DEF Settled
  <2> QED BY <1>1, <1>2, <1>3, <2>1 DEF Inv, AllStored, LeftInOrder
<1>8. NextIdAhead'
  BY <1>1 DEF Inv, NextIdAhead
<1> QED BY <1>4, <1>5, <1>6, <1>7, <1>8 DEF Kept

LEMMA ChainPageKept ==
  ASSUME Inv, harm = {}, harm' = {}, ChainPage
  PROVE  Kept'
<1> DEFINE e == cached.page
           n == job.page
           image == [Images[e] EXCEPT !.next = n]
<1>1. /\ Images \in PageMap /\ Forward(Images) /\ header.root \in Ref
      /\ job # NoJob /\ pc = "chain" /\ e # 0 /\ n \in DataPage
  BY Unharmed, JobType DEF Inv, Jobs, ChainPage
<1>2. /\ cached.image = Images[e] /\ IsEnd(Images, header.root, e) /\ memHeader.root = header.root
      /\ Images[n] = ZeroPage /\ e < n
  BY <1>1 DEF Inv, Ends, Writing
<1>3. header.root # 0 /\ e \in OnChain(Images, header.root) /\ Images[e].next = 0
  BY <1>1, <1>2 DEF IsEnd
<1>4. e \in DataPage /\ e \in allocated /\ n \in allocated /\ Images[e] \in Image
  <2>1. n \in allocated
    BY <1>1 DEF Inv, Pages, DataPage
  <2> QED BY <1>1, <1>3, <2>1, ChainAllocated, OnChainType DEF PageMap
<1>5. /\ image \in Image /\ image.next = n /\ LiveIn(image) = LiveIn(Images[e])
  <2>1. image \in Image /\ image.next = n
    BY <1>1, <1>4 DEF Image
  <2>2. image.formatted = Images[e].formatted /\ image.records = Images[e].records
    BY <1>4 DEF Image
  <2> HIDE DEF image
  <2>3. ReadRecords(image) = ReadRecords(Images[e])
    BY <2>2 DEF ReadRecords
  <2> QED BY <2>1, <2>3 DEF LiveIn
<1>6. /\ cached'.page = e /\ cached'.image = image /\ log' = [log EXCEPT ![e] = cached'.image]
      /\ pc' = "page"
      /\ UNCHANGED <<main, header, allocated, job, memHeader, nodes, pageOf, killed>>
  <2>1. cached \in [page : DataPage, image : Image]
    BY <1>1, CachedType DEF Inv
  <2>2. cached' = [cached EXCEPT !.image = [cached.image EXCEPT !.next = n]]
    BY DEF ChainPage
  <2> QED BY <1>2, <2>1, <2>2 DEF ChainPage
<1> HIDE DEF image
<1>7. Images' = [Images EXCEPT ![e] = image]
  BY <1>4, <1>5, <1>6, ImagesPut DEF Inv
<1> HIDE DEF e, n
<1>8. /\ \A p \in DataPage : p # e => Images'[p] = Images[p]
      /\ Images'[e] = image /\ Images' \in PageMap /\ n # e
  <2>1. n # e
    BY <1>1, <1>2, <1>4, BoundsAssumption DEF DataPage
  <2> QED BY <1>1, <1>4, <1>5, <1>7, <2>1 DEF PageMap
<1>9. Images'[n] = ZeroPage
  BY <1>1, <1>2, <1>8
<1>10. \A p \in DataPage : Images'[p].next # 0 => Images'[p].next \in allocated /\ p < Images'[p].next
  BY <1>2, <1>4, <1>5, <1>8 DEF Inv, Pages
<1>11. OnChain(Images', header.root) = OnChain(Images, header.root) \cup {n}
       /\ IsEnd(Images', header.root, n)
  <2>1. Forward(Images') /\ Images'[n].next = 0 /\ Images'[e].next = n
    BY <1>5, <1>8, <1>9, <1>10, NothingOnZeroPage DEF Forward
  <2>2. \A p \in DataPage : p # e => Images'[p].next = Images[p].next
    BY <1>8
  <2> QED BY <1>1, <1>2, <1>3, <1>8, <2>1, <2>2, Lengthened
<1>12. Pages'
  <2>1. \A q \in DataPage \ allocated : Images'[q] = ZeroPage
    BY <1>4, <1>8 DEF Inv, Pages
  <2>2. {header.root, memHeader.root, cached'.page, job.page} \subseteq {0} \cup allocated
    BY <1>4, <1>6 DEF Inv, Pages
  <2>3. \A u \in allocated, q \in DataPage : q < u => q \in allocated
    BY DEF Inv, Pages
  <2> QED BY <1>6, <1>10, <2>1, <2>2, <2>3 DEF Pages
<1>13. Ends'
  BY <1>1, <1>2, <1>6, <1>8, <1>11 DEF Ends, n
<1>14. Writing'
  BY <1>1, <1>6, <1>9 DEF Inv, Writing, n
<1>15. AllStored'
  <2>1. Settled' = Settled
    BY <1>6 DEF Settled
  <2>2. Stored(Images, header.root, Settled, pageOf)
    BY <1>1 DEF Inv, AllStored
  <2>3. \A p \in OnChain(Images, header.root) : LiveIn(Images'[p]) = LiveIn(Images[p])
    BY <1>1, <1>5, <1>8, OnChainType
  <2>4. LiveIn(Images'[n]) = {}
    BY <1>9, NothingOnZeroPage
  <2>5. Stored(Images', header.root, Settled, pageOf)
    BY <1>1, <1>11, <2>2, <2>3, <2>4, StoredLengthened
  <2> QED BY <1>6, <2>1, <2>5 DEF AllStored
<1>16. LeftInOrder'
  BY <1>6 DEF LeftInOrder
<1>17. NextIdAhead'
  BY <1>1, <1>6 DEF Inv, NextIdAhead
<1> QED BY <1>12, <1>13, <1>14, <1>15, <1>16, <1>17 DEF Kept

LEMMA WritePageKept ==
  ASSUME Inv, harm = {}, harm' = {}, WritePage
  PROVE  Kept'
<1> DEFINE n == job.page
           r == job.record
           image == PackRecord(EmptyPage(0), r)
<1>1. /\ Images \in PageMap /\ Forward(Images) /\ header.root \in Ref /\ job # NoJob /\ pc = "page"
      /\ nodes \in [Id -> Value \cup {Gone}] /\ pageOf \in [Id -> {0} \cup DataPage]
      /\ n \in DataPage /\ r \in Record /\ ~ r.deleted /\ nodes[r.id] = r.value /\ r.id \in Id
      /\ Images[n] = ZeroPage
  BY Unharmed, JobType DEF Inv, Jobs, WritePage, Writing, Record
<1>2. PackIfFits(EmptyPage(0), r) = image
  <2>1. harm' = harm \cup IF PackIfFits(EmptyPage(0), r).records = <<>> THEN {"oversize"} ELSE {}
    BY DEF WritePage
  <2>2. PackIfFits(EmptyPage(0), r).records # <<>>
    BY <2>1
  <2> QED BY <2>2 DEF PackIfFits, EmptyPage
<1>3. LiveIn(image) = {r} /\ image.next = 0 /\ image \in Image
  BY <1>1, OnePacked
<1>4. /\ log' = [log EXCEPT ![n] = image] /\ cached' = [page |-> n, image |-> image]
      /\ pageOf' = [pageOf EXCEPT ![r.id] = n]
      /\ UNCHANGED <<main, header, allocated, nodes, killed>>
  BY <1>2 DEF WritePage
<1>5. \/ /\ memHeader.root = 0 /\ memHeader' = [memHeader EXCEPT !.root = n]
         /\ pc' = "root" /\ UNCHANGED job
      \/ memHeader.root # 0 /\ pc' = "ready" /\ job' = NoJob /\ UNCHANGED memHeader
  BY DEF WritePage
<1>6. memHeader.root = header.root /\ IsEnd(Images, header.root, IF cached.page = 0 THEN 0 ELSE n)
  BY <1>1 DEF Inv, Ends
<1>7. n \in allocated /\ n # 0
  BY <1>1 DEF Inv, Pages, DataPage
<1> HIDE DEF image
<1>8. Images' = [Images EXCEPT ![n] = image]
  BY <1>1, <1>3, <1>4, ImagesPut DEF Inv
<1> HIDE DEF n, r
<1>9. /\ \A p \in DataPage : Images'[p].next = Images[p].next
      /\ \A p \in DataPage : p # n => Images'[p] = Images[p]
      /\ Images'[n] = image /\ Images' \in PageMap /\ cached'.page = n /\ cached'.image = image
  BY <1>1, <1>3, <1>4, <1>8, NothingOnZeroPage DEF PageMap
<1>10. OnChain(Images', header.root) = OnChain(Images, header.root)
  BY <1>9, SamePointers
<1>11. /\ \A q \in DataPage \ allocated : Images'[q] = ZeroPage
       /\ \A q \in DataPage : Images'[q].next # 0 => Images'[q].next \in allocated /\ q < Images'[q].next
       /\ \A u \in allocated, q \in DataPage : q < u => q \in allocated
  BY <1>7, <1>9 DEF Inv, Pages
<1>12. memHeader'.nextId = memHeader.nextId
  BY <1>5 DEF Inv, TypeOK, Header
<1>13. NextIdAhead'
  <2>1. pc' # "closed"
    BY <1>5
  <2> QED BY <1>4, <1>12, <2>1 DEF Inv, NextIdAhead
<1>14. LeftInOrder'
  BY <1>5 DEF LeftInOrder
<1>15. Settled = [nodes EXCEPT ![r.id] = Gone] /\ Stored(Images, header.root, Settled, pageOf)
       /\ Settled \in [Id -> Value \cup {Gone}] /\ Settled[r.id] = Gone
  <2>1. Settled = [nodes EXCEPT ![r.id] = Gone]
    BY <1>1 DEF Settled, r
  <2> QED BY <1>1, <2>1 DEF Inv, AllStored
<1>16. CASE memHeader.root = 0
  <2>1. memHeader' = [memHeader EXCEPT !.root = n] /\ pc' = "root" /\ job' = job
    BY <1>5, <1>16
  <2>2. memHeader'.root = n /\ header.root = 0
    BY <1>6, <1>16, <2>1 DEF Inv, TypeOK, Header
  <2>3. Pages'
    <3>1. {header.root, memHeader'.root, cached'.page, job'.page} \subseteq {0} \cup allocated
      BY <1>7, <1>9, <2>1, <2>2 DEF n
    <3> QED BY <1>4, <1>11, <3>1 DEF Pages
  <2>4. Ends'
    <3>1. FirstPageWritten'
      BY <1>1, <1>4, <1>9, <2>1, <2>2 DEF FirstPageWritten, n, r, image
    <3> QED BY <1>9, <2>1, <3>1 DEF Ends
  <2>5. Writing'
    BY <1>1, <1>4, <2>1 DEF Writing, r
  <2>6. AllStored'
    <3>1. \A id \in Id : Settled[id] = Gone
      BY <1>1, <1>15, <2>2, EmptyChain DEF Stored
    <3>2. Settled' = Settled
      BY <1>4, <2>1 DEF Settled
    <3>3. Stored(Images', 0, Settled, pageOf')
      BY <1>9, <3>1, EmptyChain DEF Stored
    <3> QED BY <1>4, <2>2, <3>2, <3>3 DEF AllStored
  <2> QED BY <1>13, <1>14, <2>3, <2>4, <2>5, <2>6 DEF Kept
<1>17. CASE memHeader.root # 0
  <2>1. memHeader' = memHeader /\ pc' = "ready" /\ job' = NoJob
    BY <1>5, <1>17
  <2>2. n \in OnChain(Images, header.root)
    <3>1. (IF cached.page = 0 THEN 0 ELSE n) \in OnChain(Images, header.root)
      BY <1>6, <1>17 DEF IsEnd
    <3>2. 0 \notin OnChain(Images, header.root)
      BY DEF OnChain
    <3> QED BY <3>1, <3>2
  <2>3. Pages'
    <3>1. {header.root, memHeader.root, n, 0} \subseteq {0} \cup allocated
      BY <1>7 DEF Inv, Pages
    <3>2. job'.page = 0
      BY <2>1 DEF NoJob
    <3> QED BY <1>4, <1>9, <1>11, <2>1, <3>1, <3>2 DEF Pages
  <2>4. Ends'
    <3>1. IsEnd(Images', header.root, n)
      BY <1>3, <1>6, <1>9, <1>10, <1>17, <2>2 DEF IsEnd
    <3> QED BY <1>4, <1>6, <1>9, <2>1, <3>1 DEF Ends
  <2>5. Writing'
    BY <2>1 DEF Writing
  <2>6. AllStored'
    <3>1. ASSUME NEW x \in Record
          PROVE  x \in LiveIn(image) <=> (x \in LiveIn(Images[n]) /\ x.id # r.id) \/ (x = r /\ ~ r.deleted)
      BY <1>1, <1>3, NothingOnZeroPage
    <3>2. Stored([Images EXCEPT ![n] = image], header.root,
                 [Settled EXCEPT ![r.id] = IF r.deleted THEN Gone ELSE r.value],
                 [pageOf EXCEPT ![r.id] = n])
      <4>1. image.next = Images[n].next
        BY <1>1, <1>3, NothingOnZeroPage
      <4> QED BY <1>1, <1>3, <1>15, <2>2, <3>1, <4>1, StoredAnew
    <3>3. [Settled EXCEPT ![r.id] = IF r.deleted THEN Gone ELSE r.value] = nodes
      BY <1>1, <1>15
    <3>4. Settled' = nodes
      BY <1>4, <2>1 DEF Settled
    <3>5. Stored(Images', header.root, nodes, pageOf')
      BY <1>4, <1>8, <3>2, <3>3
    <3> QED BY <1>4, <2>1, <3>4, <3>5 DEF AllStored
  <2> QED BY <1>13, <1>14, <2>3, <2>4, <2>5, <2>6 DEF Kept
<1> QED BY <1>16, <1>17

LEMMA FlushRootKept ==
  ASSUME Inv, harm = {}, harm' = {}, FlushRoot
  PROVE  Kept'
<1> DEFINE n == job.page
           r == job.record
<1>1. /\ Images \in PageMap /\ Forward(Images) /\ job # NoJob /\ pc = "root"
      /\ nodes \in [Id -> Value \cup {Gone}] /\ n \in DataPage /\ r \in Record
      /\ ~ r.deleted /\ nodes[r.id] = r.value /\ r.id \in Id
  BY Unharmed, JobType DEF Inv, Jobs, FlushRoot, Writing, Record
<1>2. /\ header.root = 0 /\ memHeader.root = n /\ cached.page = n
      /\ Images[n] = PackRecord(EmptyPage(0), r) /\ pageOf[r.id] = n
      /\ (cached.page # 0 => cached.image = Images[cached.page])
  BY <1>1 DEF Inv, Ends, FirstPageWritten
<1>3. /\ header' = memHeader /\ pc' = "ready" /\ job' = NoJob
      /\ UNCHANGED <<main, log, allocated, memHeader, nodes, pageOf, cached, killed>>
  BY DEF FlushRoot
<1>4. Images' = Images /\ header'.root = n
  BY <1>2, <1>3, ImagesStay
<1>5. LiveIn(Images[n]) = {r} /\ Images[n].next = 0
  BY <1>1, <1>2, OnePacked
<1>6. Settled = [nodes EXCEPT ![r.id] = Gone] /\ Stored(Images, 0, Settled, pageOf)
      /\ Settled \in [Id -> Value \cup {Gone}]
  <2>1. Settled = [nodes EXCEPT ![r.id] = Gone]
    BY <1>1 DEF Settled
  <2> QED BY <1>1, <1>2, <2>1 DEF Inv, AllStored
<1>7. [Settled EXCEPT ![r.id] = r.value] = nodes
  BY <1>1, <1>6
<1>8. Stored(Images, n, nodes, pageOf) /\ IsEnd(Images, n, n)
  <2> HIDE DEF n, r
  <2>1. Stored(Images, n, [Settled EXCEPT ![r.id] = r.value], pageOf) /\ IsEnd(Images, n, n)
    BY <1>1, <1>2, <1>5, <1>6, StoredFirst
  <2> QED BY <1>7, <2>1
<1> HIDE DEF n, r
<1>9. Pages'
  <2>1. {n, 0} \subseteq {0} \cup allocated /\ job'.page = 0
    BY <1>3 DEF Inv, Pages, n, NoJob
  <2> QED BY <1>2, <1>3, <1>4, <2>1 DEF Inv, Pages
<1>10. Ends'
  BY <1>2, <1>3, <1>4, <1>8 DEF Ends
<1>11. Writing'
  BY <1>3 DEF Writing
<1>12. AllStored' /\ LeftInOrder'
  <2>1. Settled' = nodes
    BY <1>3 DEF Settled
  <2> QED BY <1>3, <1>4, <1>8, <2>1 DEF AllStored, LeftInOrder
<1>13. NextIdAhead'
  BY <1>3 DEF Inv, NextIdAhead
<1> QED BY <1>9, <1>10, <1>11, <1>12, <1>13 DEF Kept

-----------------------------------------------------------------------------
(* Checkpoint, closing, death and opening.                                 *)

LEMMA CheckpointKept ==
  ASSUME Inv, harm = {}, harm' = {}, Checkpoint
  PROVE  Kept'
<1>1. Images' = Images
  BY MergeKeepsImages DEF Inv, Checkpoint
<1>2. UNCHANGED <<header, allocated, pc, job, memHeader, nodes, pageOf, cached, killed>>
  BY DEF Checkpoint, memory
<1> QED BY <1>1, <1>2, QuietKept

LEMMA CloseCatalogKept ==
  ASSUME Inv, harm = {}, harm' = {}, CloseCatalog
  PROVE  Kept'
<1>1. /\ pc = "ready" /\ pc' = "closing" /\ job = NoJob
      /\ UNCHANGED <<main, log, job, memHeader, nodes, pageOf, cached, killed>>
  BY DEF CloseCatalog, Inv, Jobs
<1>2. Images' = Images /\ memHeader.root = header.root
  BY <1>1, ImagesStay DEF Inv, Ends
<1>3. header'.root = header.root
  BY <1>2 DEF CloseCatalog
<1>4. Pages'
  <2>1. CASE FreePages = {}
    <3>1. allocated' = allocated
      BY <2>1 DEF CloseCatalog
    <3> QED BY <1>1, <1>2, <1>3, <3>1 DEF Inv, Pages
  <2>2. CASE FreePages # {}
    <3> DEFINE n == LowestFree
    <3>1. n \in DataPage /\ allocated' = allocated \cup {n}
          /\ \A q \in DataPage : q \notin allocated => n <= q
      BY <2>2, LowestFreeIs DEF CloseCatalog, FreePages
    <3> HIDE DEF n
    <3>2. \A q \in DataPage : q < n => q \in allocated
      BY <3>1, BoundsAssumption DEF DataPage
    <3>3. \A p \in allocated', q \in DataPage : q < p => q \in allocated'
      BY <3>1, <3>2 DEF Inv, Pages
    <3>4. \A p \in DataPage \ allocated' : Images'[p] = ZeroPage
      BY <1>2, <3>1 DEF Inv, Pages
    <3>5. \A p \in DataPage : Images'[p].next # 0 => Images'[p].next \in allocated' /\ p < Images'[p].next
      BY <1>2, <3>1 DEF Inv, Pages
    <3>6. {header'.root, memHeader.root, cached.page, job.page} \subseteq {0} \cup allocated'
      BY <1>3, <3>1 DEF Inv, Pages
    <3> QED BY <1>1, <3>3, <3>4, <3>5, <3>6 DEF Pages
  <2> QED BY <2>1, <2>2
<1>5. Ends'
  BY <1>1, <1>2, <1>3 DEF Inv, Ends
<1>6. Writing'
  BY <1>1 DEF Writing
<1>7. AllStored' /\ LeftInOrder'
  <2>1. Settled' = Settled
    BY <1>1 DEF Settled
  <2> QED BY <1>1, <1>2, <1>3, <2>1 DEF Inv, AllStored, LeftInOrder
<1>8. NextIdAhead'
  BY <1>1 DEF Inv, NextIdAhead
<1> QED BY <1>4, <1>5, <1>6, <1>7, <1>8 DEF Kept

\* Whatever ends a session: what it leaves on disk is in order.
LEMMA ForgottenKept ==
  ASSUME Inv, harm = {}, harm' = {}, pc # "closed", Forgotten, Images' = Images,
         header'.root = header.root, memHeader' = memHeader, allocated' = allocated
  PROVE  Pages' /\ Ends' /\ Writing' /\ AllStored' /\ LeftInOrder'
<1>1. pc' = "closed" /\ job' = NoJob /\ cached' = NoCache
  BY DEF Forgotten
<1>2. cached'.page = 0 /\ job'.page = 0
  BY <1>1 DEF NoCache, NoJob
<1>3. Pages'
  BY <1>2 DEF Inv, Pages
<1>4. Ends' /\ Writing' /\ AllStored'
  BY <1>1 DEF Ends, Writing, AllStored
<1>5. OneEach(Images, header.root)
  BY StoredInOrder DEF Inv, AllStored
<1>6. LeftInOrder'
  BY <1>5 DEF LeftInOrder
<1> QED BY <1>3, <1>4, <1>6

LEMMA CloseFlushKept ==
  ASSUME Inv, harm = {}, harm' = {}, CloseFlush
  PROVE  Kept'
<1>1. /\ pc = "closing" /\ header' = memHeader /\ Forgotten
      /\ UNCHANGED <<allocated, memHeader, killed>>
  BY DEF CloseFlush
<1>2. Images' = Images /\ memHeader.root = header.root
  BY <1>1, MergeKeepsImages DEF Inv, CloseFlush, Ends
<1>3. header'.root = header.root
  BY <1>1, <1>2
<1>4. Pages' /\ Ends' /\ Writing' /\ AllStored' /\ LeftInOrder'
  BY <1>1, <1>2, <1>3, ForgottenKept
<1>5. NextIdAhead'
  <2>1. Restart = nodes
    BY <1>1, RestartIsSettled DEF Inv, Jobs, Settled
  <2>2. Restart' = Restart
    BY <1>2, <1>3 DEF Restart
  <2>3. nodes' = NoNodes
    BY <1>1 DEF Forgotten
  <2>4. \A id \in Id : ~ killed /\ nodes[id] # Gone => id < memHeader.nextId
    BY DEF Inv, NextIdAhead
  <2> QED BY <1>1, <2>1, <2>2, <2>3, <2>4 DEF NextIdAhead, NoNodes
<1> QED BY <1>4, <1>5 DEF Kept

LEMMA KillKept ==
  ASSUME Inv, harm = {}, harm' = {}, Kill
  PROVE  Kept'
<1>1. /\ pc # "closed" /\ Forgotten /\ killed' = TRUE
      /\ UNCHANGED <<main, log, header, allocated, memHeader>>
  BY DEF Kill, disk
<1>2. Images' = Images
  BY <1>1, ImagesStay
<1>3. Pages' /\ Ends' /\ Writing' /\ AllStored' /\ LeftInOrder'
  BY <1>1, <1>2, ForgottenKept
<1>4. NextIdAhead'
  BY <1>1 DEF NextIdAhead
<1> QED BY <1>3, <1>4 DEF Kept

LEMMA OpenKept ==
  ASSUME Inv, harm = {}, harm' = {}, Open
  PROVE  Kept'
<1> DEFINE chain == Chain(Images, header.root)
           end == ChainEnd(chain)
<1>1. /\ Images \in PageMap /\ Forward(Images) /\ header.root \in Ref /\ job = NoJob /\ pc = "closed"
  BY Unharmed DEF Inv, Jobs, Open
<1>2. /\ pc' = "ready" /\ memHeader' = header
      /\ nodes' = NodesIn(Live(Images, header.root))
      /\ pageOf' = PagesIn(Live(Images, header.root), chain)
      /\ cached' = IF end = 0 THEN NoCache ELSE [page |-> end, image |-> Latest(end)]
      /\ UNCHANGED <<header, allocated, job, killed>>
  BY DEF Open, Live
<1>3. Images' = Images
  BY MergeKeepsImages DEF Inv, Open
<1>4. IsEnd(Images, header.root, end) /\ end \in Ref
  BY <1>1, ChainEndIsEnd, ChainEndIs
<1> HIDE DEF end
<1>5. end # 0 => end \in allocated /\ end \in DataPage
  BY <1>4, ChainAllocated DEF IsEnd, Ref
<1>6. cached'.page = end /\ (end # 0 => cached'.image = Images[end])
  BY <1>2, <1>5 DEF NoCache, Latest, Images
<1>7. Pages'
  <2>1. {header.root, end, 0} \subseteq {0} \cup allocated /\ job.page = 0
    BY <1>1, <1>5 DEF Inv, Pages, NoJob
  <2> QED BY <1>2, <1>3, <1>6, <2>1 DEF Inv, Pages
<1>8. Ends'
  BY <1>2, <1>3, <1>4, <1>6 DEF Ends
<1>9. Writing'
  BY <1>1, <1>2 DEF Writing
<1>10. AllStored' /\ LeftInOrder'
  <2>1. Stored(Images, header.root, nodes', pageOf')
    BY <1>1, <1>2, InOrderIsStored DEF Inv, LeftInOrder
  <2>2. Settled' = nodes'
    BY <1>1, <1>2 DEF Settled
  <2> QED BY <1>2, <1>3, <2>1, <2>2 DEF AllStored, LeftInOrder
<1>11. NextIdAhead'
  <2>1. nodes' = Restart
    BY <1>2, RestartIs
  <2> QED BY <1>1, <1>2, <2>1 DEF Inv, NextIdAhead
<1> QED BY <1>7, <1>8, <1>9, <1>10, <1>11 DEF Kept

-----------------------------------------------------------------------------
(* The theorems.                                                           *)

LEMMA InitInv == Init => Inv
<1> SUFFICES ASSUME Init  PROVE Inv
  OBVIOUS
<1>1. TypeOK /\ Jobs
  BY InitType
<1>2. Images = [p \in DataPage |-> ZeroPage]
  BY DEF Init, Images
<1>3. header.root = 0 /\ memHeader.root = 0 /\ pc = "ready" /\ allocated = {}
      /\ job = NoJob /\ cached.page = 0 /\ job.page = 0 /\ nodes = NoNodes
  BY DEF Init, NoJob, NoCache
<1>4. Pages
  BY <1>2, <1>3, NothingOnZeroPage DEF Pages
<1>5. Ends /\ Writing /\ LeftInOrder
  BY <1>3 DEF Ends, Writing, LeftInOrder, IsEnd
<1>6. AllStored
  <2>1. Images \in PageMap
    BY <1>1, ImagesType
  <2>2. OnChain(Images, 0) = {}
    BY <2>1, EmptyChain
  <2>3. Settled = NoNodes
    BY <1>3 DEF Settled
  <2> QED BY <1>3, <2>2, <2>3 DEF AllStored, Stored, NoNodes
<1>7. NextIdAhead
  BY <1>3 DEF NextIdAhead, NoNodes
<1> QED BY <1>1, <1>4, <1>5, <1>6, <1>7 DEF Inv

\* What was lost stays on record.
LEMMA HarmGrows ==
  ASSUME [Next]_vars
  PROVE  harm \subseteq harm'
BY DEF Next, vars, disk, memory, Create, Update, Delete, FlushCount, ChainPage, WritePage, FlushRoot,
       Checkpoint, CloseCatalog, CloseFlush, Kill, Open

LEMMA StepInv ==
  ASSUME Inv, [Next]_vars
  PROVE  Inv'
<1>1. TypeOK' /\ Jobs'
  BY StepType DEF Inv
<1>2. CASE harm' # {}
  BY <1>1, <1>2 DEF Inv, Pages, Ends, Writing, AllStored, LeftInOrder, NextIdAhead
<1>3. CASE harm' = {}
  <2> SUFFICES Kept'
    BY <1>1 DEF Inv, Kept
  <2>1. harm = {}
    BY <1>3, HarmGrows
  <2>2. ASSUME NEW v \in Value, Create(v)  PROVE Kept'
    BY <1>3, <2>1, <2>2, CreateKept
  <2>3. ASSUME NEW id \in Id, NEW v \in Value, Update(id, v)  PROVE Kept'
    BY <1>3, <2>1, <2>3, UpdateKept
  <2>4. ASSUME NEW id \in Id, Delete(id)  PROVE Kept'
    BY <1>3, <2>1, <2>4, DeleteKept
  <2>5. CASE FlushCount
    BY <1>3, <2>1, <2>5, FlushCountKept
  <2>6. CASE ChainPage
    BY <1>3, <2>1, <2>6, ChainPageKept
  <2>7. CASE WritePage
    BY <1>3, <2>1, <2>7, WritePageKept
  <2>8. CASE FlushRoot
    BY <1>3, <2>1, <2>8, FlushRootKept
  <2>9. CASE Checkpoint
    BY <1>3, <2>1, <2>9, CheckpointKept
  <2>10. CASE CloseCatalog
    BY <1>3, <2>1, <2>10, CloseCatalogKept
  <2>11. CASE CloseFlush
    BY <1>3, <2>1, <2>11, CloseFlushKept
  <2>12. CASE Kill
    BY <1>3, <2>1, <2>12, KillKept
  <2>13. CASE Open
    BY <1>3, <2>1, <2>13, OpenKept
  <2>14. CASE UNCHANGED vars
    <3>1. Images' = Images
      BY <2>14, ImagesStay DEF vars, disk
    <3>2. UNCHANGED <<header, allocated, pc, job, memHeader, nodes, pageOf, cached, killed>>
      BY <2>14 DEF vars, disk, memory
    <3> QED BY <1>3, <2>1, <3>1, <3>2, QuietKept
  <2> QED
    BY <2>2, <2>3, <2>4, <2>5, <2>6, <2>7, <2>8, <2>9, <2>10, <2>11, <2>12, <2>13, <2>14 DEF Next
<1> QED BY <1>2, <1>3

\* For any pages, ids and contents: unless a record was lost in a recorded way, the chain of data
\* pages holds the nodes in memory (persist_node, rewrite_node_on_page), and what a session leaves
\* is in order for the next (load_nodes_from_pages).
THEOREM PagesInv == Spec => []Inv
<1>1. Inv /\ [Next]_vars => Inv'
  BY StepInv
<1> QED BY <1>1, InitInv, PTL DEF Spec

LEMMA InvRestartMatches == Inv => RestartMatches
<1> SUFFICES ASSUME Inv, harm = {}
             PROVE  /\ pc \in {"ready", "closing"} => Restart = nodes
                    /\ pc \in {"header", "chain", "page", "root"} =>
                         Restart \in {nodes, [nodes EXCEPT ![job.record.id] = Gone]}
  BY DEF RestartMatches
<1>1. pc # "closed" => Restart = Settled
  BY RestartIsSettled
<1> QED BY <1>1 DEF Inv, Jobs, Settled

\* R-PERSIST-001, -003, -004 at every step: what an operation left in memory is what a restart reads
\* from the pages, and a node whose creation is under way is found whole or not at all.
THEOREM RestartFindsMemory == Spec => []RestartMatches
BY PagesInv, InvRestartMatches, PTL

LEMMA InvMemoryMatches == Inv => MemoryMatches
<1> SUFFICES ASSUME Inv, harm = {}, pc \in {"ready", "closing"}
             PROVE  /\ cached.page # 0 => cached.image = Latest(cached.page)
                    /\ cached.page = ChainEnd(Chain(Images, header.root))
                    /\ \A id \in Id : nodes[id] # Gone =>
                         pageOf[id] = PagesIn(LiveRecords(Images, Chain(Images, header.root)),
                                              Chain(Images, header.root))[id]
  BY DEF MemoryMatches
<1>1. Images \in PageMap /\ Forward(Images) /\ header.root \in Ref /\ nodes \in [Id -> Value \cup {Gone}]
  BY Unharmed
<1>2. IsEnd(Images, header.root, cached.page) /\ (cached.page # 0 => cached.image = Images[cached.page])
  BY DEF Inv, Ends
<1>3. cached.page # 0 => cached.image = Latest(cached.page)
  <2>1. cached.page # 0 => cached.page \in DataPage
    BY CachedType DEF Inv, Ref
  <2> QED BY <1>2, <2>1 DEF Latest, Images
<1>4. cached.page = ChainEnd(Chain(Images, header.root))
  BY <1>1, <1>2, EndIsChainEnd
<1>5. Stored(Images, header.root, nodes, pageOf)
  BY DEF Inv, Jobs, AllStored, Settled
<1>6. \A id \in Id : nodes[id] # Gone =>
        PagesIn(Live(Images, header.root), Chain(Images, header.root))[id] = pageOf[id]
  BY <1>1, <1>5, StoredIsRead
<1> QED BY <1>3, <1>4, <1>6 DEF Live

\* current_node_data_page is the end of the chain as it is on disk, and node_page_map leads to the
\* record of every live node.
THEOREM MemoryIsOnDisk == Spec => []MemoryMatches
BY PagesInv, InvMemoryMatches, PTL

\* Of the nodes settled a step changes the one it is about.
LEMMA SettledChange ==
  ASSUME TypeOK, TypeOK', NEW i,
         \A id \in Id : id # i => nodes'[id] = nodes[id],
         job = NoJob \/ job.record.id = i, job' = NoJob \/ job'.record.id = i
  PROVE  \A id \in Id : id # i => Settled'[id] = Settled[id]
<1>1. nodes \in [Id -> Value \cup {Gone}] /\ nodes' \in [Id -> Value \cup {Gone}]
  BY DEF TypeOK
<1>2. \A id \in Id : id # i => Settled[id] = nodes[id]
  BY <1>1 DEF Settled
<1>3. \A id \in Id : id # i => Settled'[id] = nodes'[id]
  BY <1>1 DEF Settled
<1> QED BY <1>2, <1>3

LEMMA PersistJob ==
  ASSUME Inv, pc = "ready", NEW r, Persist(r) \/ Rewrite(r)
  PROVE  job = NoJob /\ (job' = NoJob \/ job'.record.id = r.id)
<1>1. job = NoJob
  BY DEF Inv, Jobs
<1> QED BY <1>1 DEF Persist, Rewrite, RewriteOnPage, PersistHere, PersistNewPage, PersistFails

LEMMA SettledStep ==
  ASSUME Inv, TypeOK', [Next]_vars, pc # "closed", pc' # "closed"
  PROVE  \E i : \A id \in Id : id # i => Settled'[id] = Settled[id]
<1>1. TypeOK /\ Jobs
  BY DEF Inv
<1>2. ASSUME NEW r, nodes' = [nodes EXCEPT ![r.id] = nodes'[r.id]], pc = "ready",
             Persist(r) \/ Rewrite(r)
      PROVE  \E i : \A id \in Id : id # i => Settled'[id] = Settled[id]
  <2>1. \A id \in Id : id # r.id => nodes'[id] = nodes[id]
    BY <1>1, <1>2 DEF TypeOK
  <2>2. job = NoJob /\ (job' = NoJob \/ job'.record.id = r.id)
    BY <1>2, PersistJob
  <2>3. \A id \in Id : id # r.id => Settled'[id] = Settled[id]
    BY <1>1, <2>1, <2>2, SettledChange
  <2> QED BY <2>3
<1>3. ASSUME nodes' = nodes, job' \in {job, NoJob}
      PROVE  \E i : \A id \in Id : id # i => Settled'[id] = Settled[id]
  <2>1. \A id \in Id : id # job.record.id => Settled'[id] = Settled[id]
    BY <1>1, <1>3, SettledChange
  <2> QED BY <2>1
<1>4. ASSUME NEW v \in Value, Create(v)
      PROVE  \E i : \A id \in Id : id # i => Settled'[id] = Settled[id]
  <2> DEFINE r == [id |-> memHeader.nextId, value |-> v, deleted |-> FALSE]
  <2>1. nodes' = [nodes EXCEPT ![r.id] = v] /\ pc = "ready" /\ Persist(r) /\ r.id \in Id
    BY <1>1, <1>4, BoundsAssumption DEF Create, TypeOK, Header, Id
  <2> HIDE DEF r
  <2>2. nodes' = [nodes EXCEPT ![r.id] = nodes'[r.id]]
    BY <1>1, <2>1 DEF TypeOK
  <2> QED BY <1>2, <2>1, <2>2
<1>5. ASSUME NEW id \in Id, NEW v \in Value, Update(id, v)
      PROVE  \E i : \A k \in Id : k # i => Settled'[k] = Settled[k]
  <2> DEFINE r == [id |-> id, value |-> v, deleted |-> FALSE]
  <2>1. nodes' = [nodes EXCEPT ![r.id] = v] /\ pc = "ready" /\ Rewrite(r) /\ r.id \in Id
    BY <1>5 DEF Update
  <2> HIDE DEF r
  <2>2. nodes' = [nodes EXCEPT ![r.id] = nodes'[r.id]]
    BY <1>1, <2>1 DEF TypeOK
  <2> QED BY <1>2, <2>1, <2>2
<1>6. ASSUME NEW id \in Id, Delete(id)
      PROVE  \E i : \A k \in Id : k # i => Settled'[k] = Settled[k]
  <2> DEFINE r == [id |-> id, value |-> nodes[id], deleted |-> TRUE]
  <2>1. nodes' = [nodes EXCEPT ![r.id] = Gone] /\ pc = "ready" /\ Rewrite(r) /\ r.id \in Id
    BY <1>6 DEF Delete
  <2> HIDE DEF r
  <2>2. nodes' = [nodes EXCEPT ![r.id] = nodes'[r.id]]
    BY <1>1, <2>1 DEF TypeOK
  <2> QED BY <1>2, <2>1, <2>2
<1>7. CASE FlushCount \/ ChainPage \/ Checkpoint \/ CloseCatalog \/ FlushRoot \/ UNCHANGED vars
  <2>1. nodes' = nodes /\ job' \in {job, NoJob}
    BY <1>7 DEF FlushCount, ChainPage, Checkpoint, CloseCatalog, FlushRoot, vars, memory
  <2> QED BY <1>3, <2>1
<1>8. CASE WritePage
  <2>1. nodes' = nodes /\ job' \in {job, NoJob}
    BY <1>8 DEF WritePage
  <2> QED BY <1>3, <2>1
<1>9. CASE CloseFlush \/ Kill \/ Open
  BY <1>9 DEF CloseFlush, Kill, Open, Forgotten
<1> QED BY <1>4, <1>5, <1>6, <1>7, <1>8, <1>9 DEF Next

LEMMA RestartStep ==
  ASSUME Inv, Inv', [Next]_vars, harm = {}, harm' = {}
  PROVE  \E i : \A id \in Id : id # i => Restart'[id] = Restart[id]
<1>1. CASE pc # "closed" /\ pc' # "closed"
  <2>1. Restart = Settled
    BY <1>1, RestartIsSettled
  <2>2. Restart' = Settled'
    <3>1. Images' \in PageMap /\ header'.root \in Ref /\ Settled' \in [Id -> Value \cup {Gone}]
      <4>1. TypeOK'
        BY DEF Inv
      <4>2. Images' \in [DataPage -> Image]
        BY <4>1 DEF TypeOK, Images
      <4>3. Settled' \in [Id -> Value \cup {Gone}]
        BY <4>1 DEF TypeOK, Settled
      <4> QED BY <4>1, <4>2, <4>3 DEF TypeOK, Header, Ref, PageMap
    <3>2. Stored(Images', header'.root, Settled', pageOf')
      BY <1>1 DEF Inv, AllStored
    <3>3. NodesIn(Live(Images', header'.root)) = Settled'
      BY <3>1, <3>2, StoredIsRead
    <3>4. Restart' = NodesIn(Live(Images', header'.root))
      BY DEF Restart, Live
    <3> QED BY <3>3, <3>4
  <2>3. \E i : \A id \in Id : id # i => Settled'[id] = Settled[id]
    BY <1>1, SettledStep DEF Inv
  <2> QED BY <2>1, <2>2, <2>3
<1>2. CASE pc = "closed" \/ pc' = "closed"
  <2>1. Open \/ Kill \/ CloseFlush \/ UNCHANGED vars
    <3>1. pc = "closed" /\ Next => Open
      BY DEF Next, Create, Update, Delete, FlushCount, ChainPage, WritePage, FlushRoot,
             Checkpoint, CloseCatalog, CloseFlush, Kill
    <3>2. \A r : pc = "ready" /\ (Persist(r) \/ Rewrite(r)) => pc' # "closed"
      BY DEF Persist, Rewrite, RewriteOnPage, PersistHere, PersistNewPage, PersistFails
    <3>3. ASSUME pc # "closed", pc' = "closed", Next  PROVE Kill \/ CloseFlush
      <4>1. ~ \E v \in Value : Create(v)
        BY <3>2, <3>3 DEF Create
      <4>2. ~ \E id \in Id, v \in Value : Update(id, v)
        BY <3>2, <3>3 DEF Update
      <4>3. ~ \E id \in Id : Delete(id)
        BY <3>2, <3>3 DEF Delete
      <4>4. ~ (FlushCount \/ ChainPage \/ WritePage \/ FlushRoot \/ Checkpoint \/ CloseCatalog \/ Open)
        BY <3>3 DEF FlushCount, ChainPage, WritePage, FlushRoot, Checkpoint, memory, CloseCatalog, Open
      <4> QED BY <3>3, <4>1, <4>2, <4>3, <4>4 DEF Next
    <3> QED BY <1>2, <3>1, <3>3
  <2>2. Images' = Images /\ header'.root = header.root
    <3>1. CASE Open
      BY <3>1, MergeKeepsImages DEF Inv, Open
    <3>2. CASE Kill
      BY <3>2, ImagesStay DEF Kill, disk
    <3>3. CASE CloseFlush
      BY <3>3, MergeKeepsImages DEF Inv, CloseFlush, Ends
    <3>4. CASE UNCHANGED vars
      BY <3>4, ImagesStay DEF vars, disk
    <3> QED BY <2>1, <3>1, <3>2, <3>3, <3>4
  <2>3. Restart' = Restart
    BY <2>2 DEF Restart
  <2> QED BY <2>3
<1> QED BY <1>1, <1>2

LEMMA AtMostOne ==
  ASSUME NEW S, NEW i, S \subseteq {i}
  PROVE  Cardinality(S) <= 1
<1>1. CASE S = {}
  BY <1>1, FS_EmptySet
<1>2. CASE S # {}
  <2>1. S = {i}
    BY <1>2
  <2>2. Cardinality(S) = 1
    BY <2>1, FS_Singleton
  <2> QED BY <2>2
<1> QED BY <1>1, <1>2

\* No single step of create_node, update_node or delete_node, checkpoint or death changes what a
\* restart finds for two nodes: between any two of them the pages hold every other node as it was.
THEOREM StepsTouchOneNode == Spec => OneNodeAtATime
<1>1. ASSUME Inv, Inv', [Next]_vars
      PROVE  [harm' = {} => \A before \in {Restart}, after \in {Restart'} :
                Cardinality({id \in Id : after[id] # before[id]}) <= 1]_vars
  <2> SUFFICES ASSUME harm' = {}
               PROVE  Cardinality({id \in Id : Restart'[id] # Restart[id]}) <= 1
    OBVIOUS
  <2>1. harm = {}
    BY <1>1, HarmGrows
  <2>2. PICK i : \A id \in Id : id # i => Restart'[id] = Restart[id]
    BY <1>1, <2>1, RestartStep
  <2>3. {id \in Id : Restart'[id] # Restart[id]} \subseteq {i}
    BY <2>2
  <2> QED BY <2>3, AtMostOne
<1>2. Inv /\ [Next]_vars => Inv'
  BY StepInv
<1> QED BY <1>1, <1>2, InitInv, PTL DEF Spec, OneNodeAtATime
=============================================================================

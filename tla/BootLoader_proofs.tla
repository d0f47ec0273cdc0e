-------------------------- MODULE BootLoader_proofs --------------------------
(* Theorems about module BootLoader for every memory, every firmware that   *)
(* lists it and every set of files: what the tables the kernel is given are *)
(* of the memory map, that its pages are not among the free ones, that the  *)
(* numbering of the free pages is sound, and when a program is its file.    *)
EXTENDS BootLoader, SequenceTheorems, FiniteSetTheorems, WellFoundedInduction, TLAPS

(* The least of a set of numbers.                                           *)
LEMMA LeastNumber ==
    ASSUME NEW S \in SUBSET Nat, S # {}
    PROVE  \E d \in S : \A e \in S : d <= e
<1>. DEFINE R == OpToRel(<, Nat)
<1>1. IsWellFoundedOn(R, Nat)
  BY NatLessThanWellFounded
<1>2. \A x, y \in Nat : x < y => <<x, y>> \in R
  BY DEF OpToRel
<1>. HIDE DEF R
<1>3. PICK d \in S : \A e \in S : ~(<<e, d>> \in R)
  BY <1>1, WFMin
<1>4. \A e \in S : ~(e < d)
  BY <1>2, <1>3
<1>5. \A e \in S : e \in Nat /\ d \in Nat
  OBVIOUS
<1>6. \A e \in S : d <= e
  BY <1>4, <1>5
<1>. QED  BY <1>6

(* Two steps of arithmetic.                                                 *)
LEMMA NextFits ==
    ASSUME NEW n \in Nat, NEW top \in Nat, n + 1 <= top
    PROVE  n + 1 \in 1 .. top
OBVIOUS

LEMMA OffsetFrom ==
    ASSUME NEW start \in Nat, NEW n \in Nat, NEW a \in Nat, a <= n + 1
    PROVE  start + (n + 1 - a) \in Nat
OBVIOUS

-----------------------------------------------------------------------------
(* Folds: FoldLeft over a sequence is the last of a sequence of steps *)

LEMMA MaxIs ==
    ASSUME NEW S \in SUBSET Int, NEW m \in S, \A x \in S : x <= m
    PROVE  Max(S) = m
<1>1. \A x \in S : (\A y \in S : x >= y) => x = m
  OBVIOUS
<1>2. \A y \in S : m >= y
  OBVIOUS
<1>. QED  BY <1>1, <1>2 DEF Max

(* The steps of a fold: from what it has so far and the next number.        *)
Steps(V, n) == [V \X (1 .. n) -> V]

IsFold(f, n, V, b, step) ==
    /\ f \in [SUBSET (1 .. n) -> V]
    /\ \A T \in SUBSET (1 .. n) :
          f[T] = IF T = {} THEN b ELSE step[<<f[T \ {Max(T)}], Max(T)>>]

FoldsWithin(f, n, V, b, step) ==
    \A T \in SUBSET (1 .. n) :
        T = {} \/ f[T \ {Max(T)}] \in V =>
            f[T] = IF T = {} THEN b ELSE step[<<f[T \ {Max(T)}], Max(T)>>]

IsTrace(h, n, V, b, step) ==
    /\ h \in [0 .. n -> V]
    /\ h[0] = b
    /\ \A k \in 1 .. n : h[k] = step[<<h[k - 1], k>>]

(* A fold over 1 .. n exists as a function of all subsets of 1 .. n.        *)
LEMMA FoldsExist ==
    ASSUME NEW n \in Nat, NEW V, NEW b \in V, NEW step \in Steps(V, n)
    PROVE  \E f : IsFold(f, n, V, b, step)
<1>. USE DEF Steps
<1>. DEFINE Folds(f, k) ==
                \A T \in SUBSET (1 .. k) :
                    f[T] = IF T = {} THEN b ELSE step[<<f[T \ {Max(T)}], Max(T)>>]
            None == {k \in Nat : k <= n /\ ~ \E f \in [SUBSET (1 .. k) -> V] : Folds(f, k)}
<1>1. None = {}
  <2>1. SUFFICES ASSUME None # {}  PROVE FALSE
    OBVIOUS
  <2>2. PICK d \in None : \A e \in None : d <= e
    BY <2>1, LeastNumber
  <2>3. d \in Nat /\ d <= n /\ ~ \E f \in [SUBSET (1 .. d) -> V] : Folds(f, d)
    OBVIOUS
  <2>. HIDE DEF None
  <2>4. CASE d = 0
    <3>. DEFINE f == [T \in SUBSET (1 .. 0) |-> b]
    <3>1. \A T \in SUBSET (1 .. 0) : T = {}
      OBVIOUS
    <3>2. f \in [SUBSET (1 .. 0) -> V] /\ Folds(f, 0)
      BY <3>1
    <3>. QED  BY <3>2, <2>3, <2>4
  <2>5. CASE d # 0
    <3>1. PICK c \in Nat : d = c + 1 /\ c <= n /\ c \notin None
      <4>1. d - 1 \in Nat /\ d = (d - 1) + 1 /\ d - 1 <= n /\ ~ (d <= d - 1)
        BY <2>3, <2>5
      <4>. QED  BY <4>1, <2>2
    <3>2. PICK f \in [SUBSET (1 .. c) -> V] : Folds(f, c)
      <4>. HIDE DEF Folds
      <4>. QED  BY <3>1 DEF None
    <3>. DEFINE g == [T \in SUBSET (1 .. d) |->
                         IF d \in T THEN step[<<f[T \ {d}], d>>] ELSE f[T]]
    <3>3. ASSUME NEW T \in SUBSET (1 .. d)
          PROVE  /\ T \ {d} \in SUBSET (1 .. c)
                 /\ d \notin T => T \in SUBSET (1 .. c)
                 /\ d \in T => Max(T) = d
      <4>1. \A x \in T : x \in Int /\ x <= d /\ (x # d => x \in 1 .. c)
        BY <3>1
      <4>2. d \in T => Max(T) = d
        BY <4>1, MaxIs
      <4>. QED  BY <4>1, <4>2
    <3>4. d \in 1 .. n /\ c \in Nat
      BY <3>1, <2>3
    <3>5. g \in [SUBSET (1 .. d) -> V]
      <4>1. ASSUME NEW T \in SUBSET (1 .. d)
            PROVE  (IF d \in T THEN step[<<f[T \ {d}], d>>] ELSE f[T]) \in V
        BY <3>3, <3>4
      <4>. QED  BY <4>1
    <3>6. ASSUME NEW T \in SUBSET (1 .. d)
          PROVE  g[T] = IF T = {} THEN b ELSE step[<<g[T \ {Max(T)}], Max(T)>>]
      <4>1. CASE d \in T
        <5>1. g[T] = step[<<f[T \ {d}], d>>] /\ Max(T) = d /\ T # {}
          BY <4>1, <3>3
        <5>2. T \ {d} \in SUBSET (1 .. d) /\ d \notin T \ {d}
          OBVIOUS
        <5>3. g[T \ {d}] = f[T \ {d}]
          BY <5>2
        <5>. QED  BY <5>1, <5>3
      <4>2. CASE d \notin T
        <5>1. g[T] = f[T] /\ T \in SUBSET (1 .. c)
          BY <4>2, <3>3
        <5>2. f[T] = IF T = {} THEN b ELSE step[<<f[T \ {Max(T)}], Max(T)>>]
          BY <5>1, <3>2
        <5>3. T \ {Max(T)} \in SUBSET (1 .. d) /\ d \notin T \ {Max(T)}
          BY <4>2
        <5>4. g[T \ {Max(T)}] = f[T \ {Max(T)}]
          BY <5>3
        <5>. QED  BY <5>1, <5>2, <5>4
      <4>. QED  BY <4>1, <4>2
    <3>7. Folds(g, d)
      BY <3>6
    <3>. QED  BY <3>5, <3>7, <2>3
  <2>. QED  BY <2>4, <2>5
<1>2. \E f \in [SUBSET (1 .. n) -> V] : Folds(f, n)
  <2>. HIDE DEF Folds, None
  <2>1. n \notin None /\ n <= n
    BY <1>1
  <2>. QED  BY <2>1 DEF None
<1>. QED  BY <1>2 DEF IsFold

(* Such a fold takes one step for every number, in their order.             *)
LEMMA FoldsAreTraces ==
    ASSUME NEW n \in Nat, NEW V, NEW b \in V, NEW step \in Steps(V, n), NEW f,
           FoldsWithin(f, n, V, b, step)
    PROVE  \E h : IsTrace(h, n, V, b, step) /\ h[n] = f[1 .. n]
<1>. USE DEF Steps, FoldsWithin
<1>1. f[1 .. 0] = b
  <2>1. 1 .. 0 = {} /\ 1 .. 0 \in SUBSET (1 .. n)
    OBVIOUS
  <2>. QED  BY <2>1
<1>2. ASSUME NEW k \in 1 .. n, f[1 .. k - 1] \in V
      PROVE  f[1 .. k] = step[<<f[1 .. k - 1], k>>] /\ f[1 .. k] \in V
  <2>1. /\ 1 .. k \in SUBSET (1 .. n) /\ 1 .. k # {} /\ 1 .. k \in SUBSET Int
        /\ k \in 1 .. k /\ \A x \in 1 .. k : x <= k
    OBVIOUS
  <2>2. Max(1 .. k) = k
    BY <2>1, MaxIs
  <2>3. (1 .. k) \ {k} = 1 .. k - 1
    OBVIOUS
  <2>4. f[1 .. k] = step[<<f[1 .. k - 1], k>>]
    BY <1>2, <2>1, <2>2, <2>3
  <2>. QED  BY <2>4, <1>2
<1>. DEFINE Out == {k \in Nat : k <= n /\ f[1 .. k] \notin V}
<1>3. Out = {}
  <2>1. SUFFICES ASSUME Out # {}  PROVE FALSE
    OBVIOUS
  <2>2. PICK d \in Out : \A e \in Out : d <= e
    BY <2>1, LeastNumber
  <2>3. d # 0
    BY <1>1
  <2>4. d - 1 \in Nat /\ d - 1 \notin Out /\ d \in 1 .. n
    BY <2>2, <2>3
  <2>5. f[1 .. d - 1] \in V
    BY <2>4
  <2>. QED  BY <2>4, <2>5, <1>2
<1>4. \A k \in 0 .. n : f[1 .. k] \in V
  BY <1>3
<1>. DEFINE h == [k \in 0 .. n |-> f[1 .. k]]
<1>5. h \in [0 .. n -> V]
  BY <1>4
<1>6. h[0] = b /\ h[n] = f[1 .. n]
  BY <1>1
<1>7. \A k \in 1 .. n : h[k] = step[<<h[k - 1], k>>]
  <2>1. ASSUME NEW k \in 1 .. n  PROVE h[k] = step[<<h[k - 1], k>>]
    <3>1. k - 1 \in 0 .. n /\ k \in 0 .. n
      OBVIOUS
    <3>. QED  BY <3>1, <1>2, <1>4
  <2>. QED  BY <2>1
<1>. QED  BY <1>5, <1>6, <1>7 DEF IsTrace

LEMMA MaxOfNumbers ==
    ASSUME NEW n \in Nat, NEW T \in SUBSET (1 .. n), T # {}
    PROVE  Max(T) \in T /\ \A x \in T : x <= Max(T)
<1>. DEFINE Below == {n - x : x \in T}
<1>0. \A x \in T : n - x \in Nat
  OBVIOUS
<1>1. Below \in SUBSET Nat /\ Below # {}
  BY <1>0
<1>2. PICK d \in Below : \A e \in Below : d <= e
  BY <1>1, LeastNumber
<1>3. PICK m \in T : d = n - m
  OBVIOUS
<1>4. \A x \in T : n - x \in Below /\ x \in Int
  OBVIOUS
<1>. HIDE DEF Below
<1>5. \A x \in T : x <= m
  BY <1>2, <1>3, <1>4
<1>6. T \in SUBSET Int
  OBVIOUS
<1>. QED  BY <1>5, <1>6, MaxIs

Regions == [Start : Nat, NumPages : Nat]

ThoseStepByStep(h, A, s, S) ==
    /\ h \in [0 .. Len(s) -> Seq(A)]
    /\ h[0] = <<>> /\ h[Len(s)] = Those(s, S)
    /\ \A k \in 1 .. Len(s) :
          h[k] = IF s[k] \in S THEN Append(h[k - 1], s[k]) ELSE h[k - 1]

LEMMA ThoseIsATrace ==
    ASSUME NEW A, NEW s \in Seq(A), NEW S
    PROVE  \E h : ThoseStepByStep(h, A, s, S)
<1>. DEFINE n == Len(s)
            step == [p \in Seq(A) \X (1 .. n) |->
                        IF s[p[2]] \in S THEN Append(p[1], s[p[2]]) ELSE p[1]]
            iter[T \in SUBSET DOMAIN s] ==
                IF T = {} THEN <<>>
                ELSE IF s[Max(T)] \in S
                     THEN Append(iter[T \ {Max(T)}], s[Max(T)])
                     ELSE iter[T \ {Max(T)}]
<1>1. Those(s, S) = iter[DOMAIN s]
  BY DEF Those, FoldLeft, MapThenFoldSet
<1>2. DOMAIN s = 1 .. n /\ n \in Nat /\ <<>> \in Seq(A)
  OBVIOUS
<1>3. step \in [Seq(A) \X (1 .. n) -> Seq(A)]
  <2>1. \A p \in Seq(A) \X (1 .. n) :
           (IF s[p[2]] \in S THEN Append(p[1], s[p[2]]) ELSE p[1]) \in Seq(A)
    OBVIOUS
  <2>. QED  BY <2>1
<1>4. ASSUME NEW t \in Seq(A), NEW k \in 1 .. n
      PROVE  step[<<t, k>>] = IF s[k] \in S THEN Append(t, s[k]) ELSE t
  OBVIOUS
<1>5. ASSUME NEW T \in SUBSET (1 .. n), T # {}
      PROVE  T \ {Max(T)} \in SUBSET (1 .. n) /\ Max(T) \in 1 .. n
  <2>1. Max(T) \in T
    BY MaxOfNumbers, <1>2, <1>5
  <2>. QED  BY <2>1
<1>. DEFINE V == Seq(A)  b == <<>>
<1>a. n \in Nat /\ b \in V /\ step \in Steps(V, n)
  BY <1>2, <1>3 DEF Steps
<1>. HIDE DEF step, n, V, b
<1>6. iter = [T \in SUBSET DOMAIN s |->
                IF T = {} THEN <<>>
                ELSE IF s[Max(T)] \in S
                     THEN Append(iter[T \ {Max(T)}], s[Max(T)])
                     ELSE iter[T \ {Max(T)}]]
  <2>. HIDE DEF iter
  <2>1. PICK f : IsFold(f, n, V, b, step)
    BY FoldsExist, <1>a
  <2>2. \A T \in SUBSET (1 .. n) :
              f[T] = IF T = {} THEN <<>>
                     ELSE IF s[Max(T)] \in S
                          THEN Append(f[T \ {Max(T)}], s[Max(T)])
                          ELSE f[T \ {Max(T)}]
    BY <2>1, <1>4, <1>5 DEF V, b, IsFold
  <2>3. f = [T \in SUBSET DOMAIN s |->
                IF T = {} THEN <<>>
                ELSE IF s[Max(T)] \in S
                     THEN Append(f[T \ {Max(T)}], s[Max(T)])
                     ELSE f[T \ {Max(T)}]]
    BY <2>1, <2>2, <1>2 DEF V, IsFold
  <2>. QED  BY <2>3 DEF iter
<1>. HIDE DEF iter
<1>7. FoldsWithin(iter, n, V, b, step)
  BY <1>2, <1>4, <1>5, <1>6 DEF V, b, FoldsWithin
<1>8. PICK h : IsTrace(h, n, V, b, step) /\ h[n] = iter[1 .. n]
  BY <1>a, <1>7, FoldsAreTraces
<1>9. \A k \in 1 .. n : h[k - 1] \in Seq(A)
  BY <1>2, <1>8 DEF V, IsTrace
<1>10. \A k \in 1 .. n : h[k] = IF s[k] \in S THEN Append(h[k - 1], s[k]) ELSE h[k - 1]
  BY <1>4, <1>8, <1>9 DEF IsTrace
<1>11. h \in [0 .. n -> Seq(A)] /\ h[0] = <<>> /\ h[n] = Those(s, S)
  BY <1>1, <1>2, <1>8 DEF V, b, IsTrace
<1>. QED  BY <1>10, <1>11 DEF n, ThoseStepByStep

(* The sum of the pages of a table, region by region.                       *)
SumsOf(h, s) ==
    /\ h \in [0 .. Len(s) -> Nat]
    /\ h[0] = 0 /\ h[Len(s)] = AllPages(s)
    /\ \A k \in 1 .. Len(s) : h[k] = h[k - 1] + s[k].NumPages

LEMMA PagesAreATrace ==
    ASSUME NEW s \in Seq(Regions)
    PROVE  \E h : SumsOf(h, s)
<1>. DEFINE n == Len(s)
            step == [p \in Nat \X (1 .. n) |->
                        p[1] + s[p[2]].NumPages]
            iter[T \in SUBSET DOMAIN s] ==
                IF T = {} THEN 0
                ELSE iter[T \ {Max(T)}] + s[Max(T)].NumPages
<1>1. AllPages(s) = iter[DOMAIN s]
  BY DEF AllPages, FoldLeft, MapThenFoldSet
<1>2. DOMAIN s = 1 .. n /\ n \in Nat /\ 0 \in Nat
  OBVIOUS
<1>3. step \in [Nat \X (1 .. n) -> Nat]
  <2>1. ASSUME NEW p \in Nat \X (1 .. n)  PROVE p[1] + s[p[2]].NumPages \in Nat
    <3>1. p[1] \in Nat /\ s[p[2]] \in Regions
      OBVIOUS
    <3>2. s[p[2]].NumPages \in Nat
      BY <3>1 DEF Regions
    <3>. QED  BY <3>1, <3>2
  <2>. QED  BY <2>1
<1>4. ASSUME NEW t \in Nat, NEW k \in 1 .. n
      PROVE  step[<<t, k>>] = t + s[k].NumPages
  OBVIOUS
<1>5. ASSUME NEW T \in SUBSET (1 .. n), T # {}
      PROVE  T \ {Max(T)} \in SUBSET (1 .. n) /\ Max(T) \in 1 .. n
  <2>1. Max(T) \in T
    BY MaxOfNumbers, <1>2, <1>5
  <2>. QED  BY <2>1
<1>. DEFINE V == Nat  b == 0
<1>a. n \in Nat /\ b \in V /\ step \in Steps(V, n)
  BY <1>2, <1>3 DEF Steps
<1>. HIDE DEF step, n, V, b
<1>6. iter = [T \in SUBSET DOMAIN s |->
                IF T = {} THEN 0
                ELSE iter[T \ {Max(T)}] + s[Max(T)].NumPages]
  <2>. HIDE DEF iter
  <2>1. PICK f : IsFold(f, n, V, b, step)
    BY FoldsExist, <1>a
  <2>2. \A T \in SUBSET (1 .. n) :
              f[T] = IF T = {} THEN 0
                     ELSE f[T \ {Max(T)}] + s[Max(T)].NumPages
    BY <2>1, <1>4, <1>5 DEF V, b, IsFold
  <2>3. f = [T \in SUBSET DOMAIN s |->
                IF T = {} THEN 0
                ELSE f[T \ {Max(T)}] + s[Max(T)].NumPages]
    BY <2>1, <2>2, <1>2 DEF V, IsFold
  <2>. QED  BY <2>3 DEF iter
<1>. HIDE DEF iter
<1>7. FoldsWithin(iter, n, V, b, step)
  BY <1>2, <1>4, <1>5, <1>6 DEF V, b, FoldsWithin
<1>8. PICK h : IsTrace(h, n, V, b, step) /\ h[n] = iter[1 .. n]
  BY <1>a, <1>7, FoldsAreTraces
<1>9. \A k \in 1 .. n : h[k - 1] \in Nat
  BY <1>2, <1>8 DEF V, IsTrace
<1>10. \A k \in 1 .. n : h[k] = h[k - 1] + s[k].NumPages
  BY <1>4, <1>8, <1>9 DEF IsTrace
<1>11. h \in [0 .. n -> Nat] /\ h[0] = 0 /\ h[n] = AllPages(s)
  BY <1>1, <1>2, <1>8 DEF V, b, IsTrace
<1>. QED  BY <1>10, <1>11 DEF n, SumsOf

MapEntries == [Type : MemoryTypes, Region : Regions]

(* What a descriptor does to the tables, and the tables filled descriptor   *)
(* by descriptor.                                                           *)
Layouts == [Num : [1 .. 4 -> Nat], Regions : [1 .. 4 * MaxRegions -> Regions]]

Counted(layout, d) ==
    IF TableOf(d.Type) = {} THEN layout
    ELSE Stored(layout, CHOOSE t \in TableOf(d.Type) : TRUE, d.Region)

LEMMA CountedIsALayout ==
    ASSUME NEW layout \in Layouts, NEW d \in MapEntries
    PROVE  Counted(layout, d) \in Layouts
<1>1. CASE TableOf(d.Type) = {}
  BY <1>1 DEF Counted
<1>2. CASE TableOf(d.Type) # {}
  <2>1. PICK t \in 1 .. 4 : Counted(layout, d) = Stored(layout, t, d.Region)
    BY <1>2 DEF Counted, TableOf
  <2>2. /\ layout.Num \in [1 .. 4 -> Nat]
        /\ layout.Regions \in [1 .. 4 * MaxRegions -> Regions]
        /\ d.Region \in Regions
    BY DEF Layouts, MapEntries
  <2>3. [layout.Num EXCEPT ![t] = @ + 1] \in [1 .. 4 -> Nat]
    BY <2>2
  <2>. DEFINE cell == (t - 1) * MaxRegions + layout.Num[t] + 1
  <2>4. [c \in DOMAIN layout.Regions |-> IF c = cell THEN d.Region ELSE layout.Regions[c]]
           \in [1 .. 4 * MaxRegions -> Regions]
    <3>. HIDE DEF cell
    <3>. QED  BY <2>2
  <2>. QED  BY <2>1, <2>3, <2>4 DEF Stored, Layouts
<1>. QED  BY <1>1, <1>2

LEMMA FilledIsATrace ==
    ASSUME NEW s \in Seq(MapEntries), NEW base \in Layouts
    PROVE  \E h \in [0 .. Len(s) -> Layouts] :
              /\ h[0] = base /\ h[Len(s)] = Filled(base, s)
              /\ \A k \in 1 .. Len(s) :
                    h[k] = Counted(h[k - 1], s[k])
<1>. DEFINE n == Len(s)
            step == [p \in Layouts \X (1 .. n) |->
                        Counted(p[1], s[p[2]])]
            iter[T \in SUBSET DOMAIN s] ==
                IF T = {} THEN base
                ELSE Counted(iter[T \ {Max(T)}], s[Max(T)])
<1>1. Filled(base, s) = iter[DOMAIN s]
  BY DEF Filled, FoldLeft, MapThenFoldSet, Counted
<1>2. DOMAIN s = 1 .. n /\ n \in Nat /\ base \in Layouts
  OBVIOUS
<1>3. step \in [Layouts \X (1 .. n) -> Layouts]
  <2>1. ASSUME NEW p \in Layouts \X (1 .. n)  PROVE Counted(p[1], s[p[2]]) \in Layouts
    <3>1. p[1] \in Layouts /\ s[p[2]] \in MapEntries
      OBVIOUS
    <3>. QED  BY <3>1, CountedIsALayout
  <2>. QED  BY <2>1
<1>4. ASSUME NEW t \in Layouts, NEW k \in 1 .. n
      PROVE  step[<<t, k>>] = Counted(t, s[k])
  OBVIOUS
<1>5. ASSUME NEW T \in SUBSET (1 .. n), T # {}
      PROVE  T \ {Max(T)} \in SUBSET (1 .. n) /\ Max(T) \in 1 .. n
  <2>1. Max(T) \in T
    BY MaxOfNumbers, <1>2, <1>5
  <2>. QED  BY <2>1
<1>. DEFINE V == Layouts  b == base
<1>a. n \in Nat /\ b \in V /\ step \in Steps(V, n)
  BY <1>2, <1>3 DEF Steps
<1>. HIDE DEF step, n, V, b
<1>6. iter = [T \in SUBSET DOMAIN s |->
                IF T = {} THEN base
                ELSE Counted(iter[T \ {Max(T)}], s[Max(T)])]
  <2>. HIDE DEF iter
  <2>1. PICK f : IsFold(f, n, V, b, step)
    BY FoldsExist, <1>a
  <2>2. \A T \in SUBSET (1 .. n) :
              f[T] = IF T = {} THEN base
                     ELSE Counted(f[T \ {Max(T)}], s[Max(T)])
    BY <2>1, <1>4, <1>5 DEF V, b, IsFold
  <2>3. f = [T \in SUBSET DOMAIN s |->
                IF T = {} THEN base
                ELSE Counted(f[T \ {Max(T)}], s[Max(T)])]
    BY <2>1, <2>2, <1>2 DEF V, IsFold
  <2>. QED  BY <2>3 DEF iter
<1>. HIDE DEF iter
<1>7. FoldsWithin(iter, n, V, b, step)
  BY <1>2, <1>4, <1>5, <1>6 DEF V, b, FoldsWithin
<1>8. PICK h : IsTrace(h, n, V, b, step) /\ h[n] = iter[1 .. n]
  BY <1>a, <1>7, FoldsAreTraces
<1>9. \A k \in 1 .. n : h[k - 1] \in Layouts
  BY <1>2, <1>8 DEF V, IsTrace
<1>10. \A k \in 1 .. n : h[k] = Counted(h[k - 1], s[k])
  BY <1>4, <1>8, <1>9 DEF IsTrace
<1>11. h \in [0 .. n -> Layouts] /\ h[0] = base /\ h[n] = Filled(base, s)
  BY <1>1, <1>2, <1>8 DEF V, b, IsTrace
<1>. QED  BY <1>10, <1>11 DEF n

(* Those keeps the order: g says where each of its entries comes from.      *)
ComesFrom(g, t, s, S, k) ==
    /\ g \in [1 .. Len(t) -> 1 .. k]
    /\ \A i, j \in 1 .. Len(t) : i < j => g[i] < g[j]
    /\ \A i \in 1 .. Len(t) : t[i] = s[g[i]] /\ t[i] \in S

LEMMA ThoseComeInOrder ==
    ASSUME NEW A, NEW s \in Seq(A), NEW S
    PROVE  Those(s, S) \in Seq(A) /\ \E g : ComesFrom(g, Those(s, S), s, S, Len(s))
<1>0. PICK h : ThoseStepByStep(h, A, s, S)
  BY ThoseIsATrace
<1>1. /\ h \in [0 .. Len(s) -> Seq(A)]
      /\ h[0] = <<>> /\ h[Len(s)] = Those(s, S)
      /\ \A k \in 1 .. Len(s) :
            h[k] = IF s[k] \in S THEN Append(h[k - 1], s[k]) ELSE h[k - 1]
  BY <1>0 DEF ThoseStepByStep
<1>. DEFINE Not == {k \in Nat : k <= Len(s) /\ ~ \E g : ComesFrom(g, h[k], s, S, k)}
<1>2. \E g : ComesFrom(g, h[0], s, S, 0)
  <2>1. ComesFrom([i \in 1 .. 0 |-> 0], h[0], s, S, 0)
    BY <1>1 DEF ComesFrom
  <2>. QED  BY <2>1
<1>3. ASSUME NEW k \in 1 .. Len(s), NEW g, ComesFrom(g, h[k - 1], s, S, k - 1)
      PROVE  \E f : ComesFrom(f, h[k], s, S, k)
  <2>. DEFINE t == h[k - 1]
  <2>1. t \in Seq(A) /\ s[k] \in A /\ Len(t) \in Nat
    <3>1. k - 1 \in 0 .. Len(s)
      OBVIOUS
    <3>. QED  BY <3>1, <1>1
  <2>2. CASE s[k] \in S
    <3>. DEFINE f == [i \in 1 .. Len(t) + 1 |-> IF i <= Len(t) THEN g[i] ELSE k]
    <3>1. /\ h[k] = Append(t, s[k])
          /\ Len(h[k]) = Len(t) + 1
          /\ \A i \in 1 .. Len(t) : h[k][i] = t[i]
          /\ h[k][Len(t) + 1] = s[k]
      <4>1. h[k] = Append(t, s[k])
        BY <1>1, <2>2
      <4>2. /\ Len(Append(t, s[k])) = Len(t) + 1
            /\ \A i \in 1 .. Len(t) : Append(t, s[k])[i] = t[i]
            /\ Append(t, s[k])[Len(t) + 1] = s[k]
        <5>. HIDE DEF t
        <5>. QED  BY <2>1, AppendProperties
      <4>. QED  BY <4>1, <4>2
    <3>2. \A i \in 1 .. Len(t) : g[i] \in 1 .. k - 1
      BY <1>3 DEF ComesFrom
    <3>. HIDE DEF t
    <3>3. \A i \in 1 .. Len(t) + 1 : i <= Len(t) \/ i = Len(t) + 1
      BY <2>1
    <3>4. f \in [1 .. Len(h[k]) -> 1 .. k]
      <4>1. \A i \in 1 .. Len(t) + 1 : (IF i <= Len(t) THEN g[i] ELSE k) \in 1 .. k
        BY <3>2, <3>3, <2>1
      <4>. QED  BY <4>1, <3>1
    <3>5. \A i, j \in 1 .. Len(h[k]) : i < j => f[i] < f[j]
      <4>1. \A i, j \in 1 .. Len(t) : i < j => g[i] < g[j]
        BY <1>3 DEF ComesFrom, t
      <4>. QED  BY <4>1, <3>1, <3>2, <3>3, <2>1
    <3>6. \A i \in 1 .. Len(h[k]) : h[k][i] = s[f[i]] /\ h[k][i] \in S
      <4>1. \A i \in 1 .. Len(t) : t[i] = s[g[i]] /\ t[i] \in S
        BY <1>3 DEF ComesFrom, t
      <4>. QED  BY <4>1, <3>1, <3>3, <2>1, <2>2
    <3>. QED  BY <3>4, <3>5, <3>6 DEF ComesFrom
  <2>3. CASE s[k] \notin S
    <3>1. h[k] = t
      BY <1>1, <2>3
    <3>2. ComesFrom(g, h[k], s, S, k)
      BY <3>1, <1>3, <2>1 DEF ComesFrom
    <3>. QED  BY <3>2
  <2>. QED  BY <2>2, <2>3
<1>4. Not = {}
  <2>1. SUFFICES ASSUME Not # {}  PROVE FALSE
    OBVIOUS
  <2>2. PICK d \in Not : \A e \in Not : d <= e
    BY <2>1, LeastNumber
  <2>3. d \in Nat /\ d <= Len(s) /\ ~ \E g : ComesFrom(g, h[d], s, S, d)
    OBVIOUS
  <2>4. d # 0
    BY <2>3, <1>2
  <2>. HIDE DEF Not
  <2>5. d - 1 \in Nat /\ d - 1 \notin Not /\ d \in 1 .. Len(s) /\ d - 1 <= Len(s)
    BY <2>2, <2>3, <2>4
  <2>6. \E g : ComesFrom(g, h[d - 1], s, S, d - 1)
    BY <2>5 DEF Not
  <2>. QED  BY <2>5, <2>6, <1>3, <2>3
<1>5. Len(s) \in Nat /\ Len(s) <= Len(s)
  OBVIOUS
<1>6. \E g : ComesFrom(g, h[Len(s)], s, S, Len(s))
  BY <1>4, <1>5
<1>7. h[Len(s)] \in Seq(A)
  BY <1>1, <1>5
<1>. QED  BY <1>1, <1>6, <1>7

-----------------------------------------------------------------------------
(* The region tables *)

LEMMA SlotsAreApart ==
    ASSUME NEW t \in 1 .. 4, NEW u \in 1 .. 4,
           NEW i \in 1 .. MaxRegions, NEW j \in 1 .. MaxRegions
    PROVE  /\ (t - 1) * MaxRegions + i \in 1 .. 4 * MaxRegions
           /\ (t - 1) * MaxRegions + i = (u - 1) * MaxRegions + j => t = u /\ i = j
<1>1. MaxRegions \in Nat
  BY BootLoaderAssumption
<1>2. \A v \in 1 .. 4 : (v - 1) * MaxRegions = IF v = 1 THEN 0
                                              ELSE IF v = 2 THEN MaxRegions
                                              ELSE IF v = 3 THEN 2 * MaxRegions
                                              ELSE 3 * MaxRegions
  BY <1>1
<1>. QED  BY <1>1, <1>2

LEMMA TablesAreApart ==
    ASSUME NEW type, NEW t \in TableOf(type)
    PROVE  t \in 1 .. 4 /\ TableOf(type) = {t} /\ Tables[t] = type
BY DEF TableOf, Tables

LEMMA NothingIsEmpty ==
    /\ EmptyLayout \in Layouts
    /\ \A t \in 1 .. 4 : EmptyLayout.Num[t] = 0
BY DEF EmptyLayout, Layouts, NoRegionYet, Region, Regions

LEMMA CountedInOneTable ==
    ASSUME NEW layout \in Layouts, NEW d \in MapEntries, NEW u \in 1 .. 4
    PROVE  Counted(layout, d).Num[u] =
              IF d.Type = Tables[u] THEN layout.Num[u] + 1 ELSE layout.Num[u]
<1>1. layout.Num \in [1 .. 4 -> Nat]
  BY DEF Layouts
<1>2. CASE TableOf(d.Type) = {}
  BY <1>2 DEF Counted, TableOf
<1>3. CASE TableOf(d.Type) # {}
  <2>1. PICK t \in TableOf(d.Type) : TRUE
    BY <1>3
  <2>2. t \in 1 .. 4 /\ TableOf(d.Type) = {t} /\ Tables[t] = d.Type
    BY TablesAreApart
  <2>3. Counted(layout, d) = Stored(layout, t, d.Region)
    BY <2>2 DEF Counted
  <2>4. Counted(layout, d).Num = [layout.Num EXCEPT ![t] = @ + 1]
    BY <2>3 DEF Stored
  <2>5. d.Type = Tables[u] <=> u = t
    <3>1. u \in TableOf(d.Type) <=> d.Type = Tables[u]
      BY DEF TableOf
    <3>. QED  BY <3>1, <2>2
  <2>. QED  BY <1>1, <2>2, <2>4, <2>5
<1>. QED  BY <1>2, <1>3

(* With room in every table, an entry goes behind the others of its table   *)
(* and disturbs none.                                                       *)
LEMMA CountedInItsPlace ==
    ASSUME NEW layout \in Layouts, NEW d \in MapEntries, NEW t \in 1 .. 4,
           NEW i \in 1 .. MaxRegions,
           \A u \in 1 .. 4 : Counted(layout, d).Num[u] <= MaxRegions
    PROVE  LET cell == (t - 1) * MaxRegions + i
           IN  Counted(layout, d).Regions[cell] =
                  IF d.Type = Tables[t] /\ i = layout.Num[t] + 1 THEN d.Region
                  ELSE layout.Regions[cell]
<1>. DEFINE cell == (t - 1) * MaxRegions + i
<1>1. /\ layout.Num \in [1 .. 4 -> Nat]
      /\ layout.Regions \in [1 .. 4 * MaxRegions -> Regions]
      /\ MaxRegions \in Nat /\ cell \in 1 .. 4 * MaxRegions
  BY BootLoaderAssumption, SlotsAreApart DEF Layouts
<1>2. CASE TableOf(d.Type) = {}
  BY <1>2 DEF Counted, TableOf
<1>3. CASE TableOf(d.Type) # {}
  <2>1. PICK u \in TableOf(d.Type) : TRUE
    BY <1>3
  <2>2. u \in 1 .. 4 /\ TableOf(d.Type) = {u} /\ Tables[u] = d.Type
    BY TablesAreApart
  <2>3. Counted(layout, d) = Stored(layout, u, d.Region)
    BY <2>2 DEF Counted
  <2>4. layout.Num[u] + 1 \in 1 .. MaxRegions
    <3>1. Counted(layout, d).Num[u] = layout.Num[u] + 1
      BY <2>2, CountedInOneTable
    <3>2. PICK held \in Nat : held = layout.Num[u]
      BY <2>2, <1>1
    <3>3. held + 1 <= MaxRegions
      BY <3>1, <3>2, <2>2
    <3>4. held + 1 \in 1 .. MaxRegions
      BY <3>3, <1>1, NextFits
    <3>. QED  BY <3>4, <3>2
  <2>5. PICK n \in 1 .. MaxRegions : n = layout.Num[u] + 1
    BY <2>4
  <2>6. (u - 1) * MaxRegions + layout.Num[u] + 1 = (u - 1) * MaxRegions + n
    <3>1. PICK held \in Nat : held = layout.Num[u]
      BY <2>2, <1>1
    <3>2. PICK base \in Int : base = (u - 1) * MaxRegions
      BY <2>2, <1>1
    <3>3. base + held + 1 = base + n
      BY <3>1, <3>2, <2>5
    <3>. QED  BY <3>1, <3>2, <3>3
  <2>. DEFINE put == (u - 1) * MaxRegions + n
  <2>7. Counted(layout, d).Regions =
           [c \in 1 .. 4 * MaxRegions |-> IF c = put THEN d.Region ELSE layout.Regions[c]]
    <3>. HIDE DEF put
    <3>1. Counted(layout, d).Regions =
             [c \in DOMAIN layout.Regions |->
                IF c = (u - 1) * MaxRegions + layout.Num[u] + 1 THEN d.Region
                ELSE layout.Regions[c]]
      BY <2>3 DEF Stored
    <3>2. (u - 1) * MaxRegions + layout.Num[u] + 1 = put
      BY <2>6 DEF put
    <3>3. DOMAIN layout.Regions = 1 .. 4 * MaxRegions
      BY <1>1
    <3>. QED  BY <3>1, <3>2, <3>3
  <2>8. cell = put <=> t = u /\ i = n
    BY <2>2, SlotsAreApart
  <2>9. d.Type = Tables[t] <=> t = u
    <3>1. t \in TableOf(d.Type) <=> d.Type = Tables[t]
      BY DEF TableOf
    <3>. QED  BY <3>1, <2>2
  <2>. HIDE DEF cell, put
  <2>10. Counted(layout, d).Regions[cell] =
            IF cell = put THEN d.Region ELSE layout.Regions[cell]
    BY <2>7, <1>1
  <2>. QED  BY <2>5, <2>8, <2>9, <2>10 DEF cell
<1>. QED  BY <1>2, <1>3

LEMMA FullTablesStayFull ==
    ASSUME NEW n \in Nat, NEW ds \in [1 .. n -> MapEntries],
           NEW h \in [0 .. n -> Layouts],
           \A k \in 1 .. n : h[k] = Counted(h[k - 1], ds[k]),
           NEW u \in 1 .. 4, h[n].Num[u] <= MaxRegions
    PROVE  \A k \in 0 .. n : h[k].Num[u] <= MaxRegions
<1>. DEFINE Over == {j \in Nat : j <= n /\ ~ (h[n - j].Num[u] <= MaxRegions)}
<1>0. MaxRegions \in Nat
  BY BootLoaderAssumption
<1>1. ASSUME NEW k \in 1 .. n, h[k].Num[u] <= MaxRegions
      PROVE  h[k - 1].Num[u] <= MaxRegions
  <2>1. h[k - 1] \in Layouts /\ ds[k] \in MapEntries
    BY <1>1
  <2>2. h[k - 1].Num[u] \in Nat
    BY <2>1 DEF Layouts
  <2>3. h[k].Num[u] = h[k - 1].Num[u] + 1 \/ h[k].Num[u] = h[k - 1].Num[u]
    <3>1. h[k] = Counted(h[k - 1], ds[k])
      BY <1>1
    <3>. HIDE DEF Counted
    <3>2. Counted(h[k - 1], ds[k]).Num[u] =
             IF ds[k].Type = Tables[u] THEN h[k - 1].Num[u] + 1 ELSE h[k - 1].Num[u]
      BY <2>1, CountedInOneTable
    <3>. QED  BY <3>1, <3>2
  <2>4. PICK now \in Nat : now = h[k - 1].Num[u]
    BY <2>2
  <2>5. now + 1 <= MaxRegions \/ now <= MaxRegions
    BY <2>3, <2>4, <1>1
  <2>6. now <= MaxRegions
    BY <2>4, <2>5, <1>0
  <2>. QED  BY <2>4, <2>6
<1>2. Over = {}
  <2>1. SUFFICES ASSUME Over # {}  PROVE FALSE
    OBVIOUS
  <2>2. PICK d \in Over : \A e \in Over : d <= e
    BY <2>1, LeastNumber
  <2>3. d \in Nat /\ d <= n /\ ~ (h[n - d].Num[u] <= MaxRegions)
    OBVIOUS
  <2>4. d # 0
    <3>1. n - 0 = n
      OBVIOUS
    <3>. QED  BY <2>3, <3>1
  <2>. HIDE DEF Over
  <2>5. d - 1 \in Nat /\ d - 1 \notin Over /\ d - 1 <= n
    BY <2>2, <2>3, <2>4
  <2>6. PICK k \in 1 .. n : k = n - (d - 1) /\ k - 1 = n - d
    BY <2>3, <2>4
  <2>7. h[k].Num[u] <= MaxRegions
    BY <2>5, <2>6 DEF Over
  <2>. QED  BY <2>6, <2>7, <1>1, <2>3
<1>3. ASSUME NEW k \in 0 .. n  PROVE h[k].Num[u] <= MaxRegions
  <2>1. PICK j \in Nat : j = n - k /\ j <= n /\ n - j = k
    OBVIOUS
  <2>2. j \notin Over
    BY <1>2
  <2>. QED  BY <2>1, <2>2
<1>. QED  BY <1>3

(* The tables that no count of UpdateMemoryMap runs over hold the regions   *)
(* of the descriptors with their type, in the order of the map.             *)
LEMMA TablesAreTheMap ==
    ASSUME NEW ds \in Seq(MapEntries), NEW t \in 1 .. 4,
           ~ TooManyRegions(Filled(EmptyLayout, ds))
    PROVE  LET wanted == Those(ds, {d \in Range(ds) : d.Type = Tables[t]})
           IN  RegionsOf(Filled(EmptyLayout, ds), t) =
                  [i \in DOMAIN wanted |-> wanted[i].Region]
<1>. DEFINE n == Len(ds)
            S == {d \in Range(ds) : d.Type = Tables[t]}
            slot(i) == (t - 1) * MaxRegions + i
<1>1. PICK h \in [0 .. Len(ds) -> Layouts] :
              /\ h[0] = EmptyLayout /\ h[Len(ds)] = Filled(EmptyLayout, ds)
              /\ \A k \in 1 .. Len(ds) : h[k] = Counted(h[k - 1], ds[k])
  BY FilledIsATrace, NothingIsEmpty
<1>a. PICK w : ThoseStepByStep(w, MapEntries, ds, S)
  <2>. HIDE DEF S
  <2>. QED  BY ThoseIsATrace
<1>2. /\ w \in [0 .. Len(ds) -> Seq(MapEntries)]
      /\ w[0] = <<>> /\ w[Len(ds)] = Those(ds, S)
      /\ \A k \in 1 .. Len(ds) :
            w[k] = IF ds[k] \in S THEN Append(w[k - 1], ds[k]) ELSE w[k - 1]
  <2>. HIDE DEF S
  <2>. QED  BY <1>a DEF ThoseStepByStep
<1>3. n \in Nat /\ ds \in [1 .. n -> MapEntries] /\ MaxRegions \in Nat
  BY BootLoaderAssumption
<1>. HIDE DEF n
<1>4. \A k \in 1 .. n : ds[k] \in S <=> ds[k].Type = Tables[t]
  BY <1>3 DEF Range
<1>. HIDE DEF S
<1>5. \A u \in 1 .. 4 : h[n].Num[u] <= MaxRegions
  <2>1. h[n] \in Layouts /\ h[n] = Filled(EmptyLayout, ds)
    BY <1>1, <1>3 DEF n
  <2>2. \A u \in 1 .. 4 : h[n].Num[u] \in Nat
    BY <2>1 DEF Layouts
  <2>. QED  BY <2>1, <2>2, <1>3 DEF TooManyRegions
<1>6. \A k \in 0 .. n, u \in 1 .. 4 : h[k].Num[u] <= MaxRegions
  <2>1. h \in [0 .. n -> Layouts] /\ \A k \in 1 .. n : h[k] = Counted(h[k - 1], ds[k])
    BY <1>1 DEF n
  <2>. QED  BY <2>1, <1>3, <1>5, FullTablesStayFull
<1>. DEFINE Holds(k) == /\ h[k].Num[t] = Len(w[k])
                        /\ \A i \in 1 .. Len(w[k]) : h[k].Regions[slot(i)] = w[k][i].Region
<1>7. Holds(0)
  BY <1>1, <1>2, NothingIsEmpty
<1>8. ASSUME NEW k \in 1 .. n, Holds(k - 1)  PROVE Holds(k)
  <2>1. /\ k - 1 \in 0 .. n /\ k \in 0 .. n
        /\ h[k - 1] \in Layouts /\ ds[k] \in MapEntries
        /\ h[k] = Counted(h[k - 1], ds[k])
        /\ w[k - 1] \in Seq(MapEntries) /\ w[k] \in Seq(MapEntries)
        /\ Len(w[k - 1]) \in Nat
    BY <1>1, <1>2, <1>3 DEF n
  <2>2. h[k].Num[t] = IF ds[k] \in S THEN Len(w[k - 1]) + 1 ELSE Len(w[k - 1])
    <3>1. Counted(h[k - 1], ds[k]).Num[t] =
             IF ds[k].Type = Tables[t] THEN h[k - 1].Num[t] + 1 ELSE h[k - 1].Num[t]
      BY <2>1, CountedInOneTable
    <3>. QED  BY <3>1, <2>1, <1>4, <1>8
  <2>3. /\ Len(w[k]) = IF ds[k] \in S THEN Len(w[k - 1]) + 1 ELSE Len(w[k - 1])
        /\ \A i \in 1 .. Len(w[k - 1]) : w[k][i] = w[k - 1][i]
        /\ ds[k] \in S => w[k][Len(w[k - 1]) + 1] = ds[k]
    <3>1. w[k] = IF ds[k] \in S THEN Append(w[k - 1], ds[k]) ELSE w[k - 1]
      BY <1>2 DEF n
    <3>. DEFINE v == w[k - 1]
    <3>2. /\ Len(Append(v, ds[k])) = Len(v) + 1
          /\ \A i \in 1 .. Len(v) : Append(v, ds[k])[i] = v[i]
          /\ Append(v, ds[k])[Len(v) + 1] = ds[k]
      <4>1. v \in Seq(MapEntries)
        BY <2>1
      <4>. HIDE DEF v
      <4>. QED  BY <2>1, <4>1, AppendProperties
    <3>. QED  BY <3>1, <3>2
  <2>4. Len(w[k]) <= MaxRegions
    BY <2>1, <2>2, <2>3, <1>6
  <2>5. ASSUME NEW i \in 1 .. Len(w[k])
        PROVE  h[k].Regions[slot(i)] = w[k][i].Region
    <3>1. i \in 1 .. MaxRegions
      BY <2>1, <2>4, <1>3
    <3>2. h[k].Regions[slot(i)] =
             IF ds[k].Type = Tables[t] /\ i = h[k - 1].Num[t] + 1 THEN ds[k].Region
             ELSE h[k - 1].Regions[slot(i)]
      <4>1. \A u \in 1 .. 4 : Counted(h[k - 1], ds[k]).Num[u] <= MaxRegions
        BY <2>1, <1>6
      <4>2. Counted(h[k - 1], ds[k]).Regions[slot(i)] =
               IF ds[k].Type = Tables[t] /\ i = h[k - 1].Num[t] + 1 THEN ds[k].Region
               ELSE h[k - 1].Regions[slot(i)]
        BY <3>1, <4>1, <2>1, CountedInItsPlace
      <4>. QED  BY <4>2, <2>1
    <3>3. CASE i \in 1 .. Len(w[k - 1])
      <4>1. i # h[k - 1].Num[t] + 1
        BY <3>3, <2>1, <1>8
      <4>. QED  BY <3>2, <3>3, <4>1, <2>3, <1>8
    <3>4. CASE i \notin 1 .. Len(w[k - 1])
      <4>1. ds[k] \in S /\ i = Len(w[k - 1]) + 1
        BY <3>4, <2>1, <2>3
      <4>2. ds[k].Type = Tables[t] /\ i = h[k - 1].Num[t] + 1
        BY <4>1, <1>4, <1>8
      <4>. QED  BY <3>2, <4>1, <4>2, <2>3
    <3>. QED  BY <3>3, <3>4
  <2>. QED  BY <2>2, <2>3, <2>5
<1>9. Holds(n)
  <2>. DEFINE Not == {k \in Nat : k <= n /\ ~ Holds(k)}
  <2>. HIDE DEF Holds
  <2>1. SUFFICES ASSUME Not # {}  PROVE FALSE
    BY <1>3
  <2>2. PICK d \in Not : \A e \in Not : d <= e
    BY <2>1, LeastNumber
  <2>3. d # 0
    BY <1>7
  <2>4. d - 1 \in Nat /\ d - 1 \notin Not /\ d \in 1 .. n /\ d - 1 <= n
    BY <2>2, <2>3, <1>3
  <2>. QED  BY <2>4, <1>8
<1>. DEFINE wanted == Those(ds, S)
<1>10. RegionsOf(h[n], t) = [i \in DOMAIN wanted |-> wanted[i].Region]
  <2>1. wanted = w[n] /\ DOMAIN wanted = 1 .. Len(w[n])
    BY <1>2, <1>3 DEF n
  <2>2. RegionsOf(h[n], t) = [i \in 1 .. Len(w[n]) |-> h[n].Regions[slot(i)]]
    BY <1>9 DEF RegionsOf
  <2>. QED  BY <2>1, <2>2, <1>9
<1>. QED  BY <1>1, <1>10 DEF n, S

-----------------------------------------------------------------------------
(* The firmware's map *)

IsStretch(m, first, last) ==
    /\ last \in first .. NumPages - 1
    /\ Stretch(m, first) = [Type |-> m[first], Region |-> Region(first, last - first + 1)]
    /\ \A page \in first .. last : m[page] = m[first]

LEMMA StretchesEnd ==
    ASSUME NEW m \in [MemPages -> MemoryTypes], NEW first \in MemPages
    PROVE  \E last : IsStretch(m, first, last)
<1>1. NumPages \in Nat /\ first \in Nat /\ first <= NumPages - 1
  BY BootLoaderAssumption DEF MemPages
<1>. DEFINE Stops == {p \in first .. NumPages - 1 : p = NumPages - 1 \/ m[p + 1] # m[first]}
<1>2. Stops \in SUBSET Nat /\ NumPages - 1 \in Stops
  BY <1>1
<1>3. PICK p \in Stops : \A e \in Stops : p <= e
  BY <1>2, LeastNumber
<1>4. p \in first .. NumPages - 1 /\ p \in Nat /\ (p = NumPages - 1 \/ m[p + 1] # m[first])
  BY <1>1
<1>. HIDE DEF Stops
<1>5. \A page \in first .. p : m[page] = m[first]
  <2>. DEFINE Others == {q \in first .. p : m[q] # m[first]}
  <2>1. SUFFICES ASSUME Others # {}  PROVE FALSE
    OBVIOUS
  <2>2. Others \in SUBSET Nat
    BY <1>1, <1>4
  <2>3. PICK q \in Others : \A e \in Others : q <= e
    BY <2>1, <2>2, LeastNumber
  <2>4. q \in first .. p /\ m[q] # m[first] /\ q \in Nat
    BY <2>2
  <2>5. q - 1 \in first .. p /\ ~ (q <= q - 1) /\ (q - 1) + 1 = q /\ ~ (p <= q - 1)
        /\ q - 1 \in first .. NumPages - 1
    BY <2>4, <1>1, <1>4
  <2>7. q - 1 \in Stops
    BY <2>4, <2>5, <1>1 DEF Stops
  <2>. QED  BY <2>5, <2>7, <1>3
<1>6. p \in first .. NumPages - 1 /\ /\ \A page \in first .. p : m[page] = m[first]
                                     /\ p = NumPages - 1 \/ m[p + 1] # m[first]
  BY <1>4, <1>5
<1>. DEFINE last == CHOOSE l \in first .. NumPages - 1 :
                       /\ \A page \in first .. l : m[page] = m[first]
                       /\ l = NumPages - 1 \/ m[l + 1] # m[first]
<1>7. last \in first .. NumPages - 1 /\ \A page \in first .. last : m[page] = m[first]
  BY <1>6
<1>8. Stretch(m, first) = [Type |-> m[first], Region |-> Region(first, last - first + 1)]
  BY DEF Stretch
<1>. HIDE DEF last
<1>9. IsStretch(m, first, last)
  BY <1>7, <1>8 DEF IsStretch
<1>. QED  BY <1>9

LEMMA StretchIsOfItsPages ==
    ASSUME NEW m \in [MemPages -> MemoryTypes], NEW first \in MemPages
    PROVE  LET d == Stretch(m, first)
           IN  /\ d \in MapEntries /\ d.Type = m[first]
               /\ d.Region.Start = first /\ d.Region.NumPages >= 1
               /\ \A page \in RegionPages(d.Region) : page \in MemPages /\ m[page] = m[first]
<1>1. PICK last : IsStretch(m, first, last)
  BY StretchesEnd
<1>2. /\ NumPages \in Nat /\ first \in Nat /\ last \in first .. NumPages - 1
      /\ m[first] \in MemoryTypes
  BY <1>1, BootLoaderAssumption DEF IsStretch, MemPages
<1>3. Stretch(m, first) = [Type |-> m[first],
                           Region |-> [Start |-> first, NumPages |-> last - first + 1]]
  BY <1>1 DEF IsStretch, Region
<1>4. last - first + 1 \in Nat /\ last - first + 1 >= 1
  BY <1>2
<1>5. Stretch(m, first) \in MapEntries
  BY <1>2, <1>3, <1>4 DEF MapEntries, Regions
<1>6. RegionPages(Stretch(m, first).Region) = first .. last
  <2>1. first + (last - first + 1) - 1 = last
    BY <1>2
  <2>. QED  BY <2>1, <1>3 DEF RegionPages
<1>7. \A page \in first .. last : page \in MemPages /\ m[page] = m[first]
  BY <1>1, <1>2 DEF IsStretch, MemPages
<1>8. /\ Stretch(m, first).Type = m[first]
      /\ Stretch(m, first).Region.Start = first
      /\ Stretch(m, first).Region.NumPages = last - first + 1
  BY <1>3
<1>. QED  BY <1>4, <1>5, <1>6, <1>7, <1>8

LEMMA StretchesAreApart ==
    ASSUME NEW m \in [MemPages -> MemoryTypes], NEW first \in MemPages, NEW second \in MemPages,
           first < second, BeginsStretch(m, second)
    PROVE  RegionPages(Stretch(m, first).Region) \cap RegionPages(Stretch(m, second).Region) = {}
<1>1. PICK last : IsStretch(m, first, last)
  BY StretchesEnd
<1>2. PICK end : IsStretch(m, second, end)
  BY StretchesEnd
<1>3. /\ NumPages \in Nat /\ first \in Nat /\ second \in Nat
      /\ last \in first .. NumPages - 1 /\ end \in second .. NumPages - 1
  BY <1>1, <1>2, BootLoaderAssumption DEF IsStretch, MemPages
<1>4. last < second
  <2>1. SUFFICES ASSUME ~ (last < second)  PROVE FALSE
    OBVIOUS
  <2>2. second \in first .. last /\ second - 1 \in first .. last /\ second # 0
    BY <2>1, <1>3
  <2>3. m[second] = m[first] /\ m[second - 1] = m[first]
    BY <2>2, <1>1 DEF IsStretch
  <2>. QED  BY <2>2, <2>3 DEF BeginsStretch
<1>5. RegionPages(Stretch(m, first).Region) = first .. last
  <2>1. first + (last - first + 1) - 1 = last
    BY <1>3
  <2>. QED  BY <2>1, <1>1 DEF RegionPages, Region, IsStretch
<1>6. RegionPages(Stretch(m, second).Region) = second .. end
  <2>1. second + (end - second + 1) - 1 = end
    BY <1>3
  <2>. QED  BY <2>1, <1>2 DEF RegionPages, Region, IsStretch
<1>. QED  BY <1>3, <1>4, <1>5, <1>6

(* The map has one entry for every stretch, whatever page it begins with.   *)
Starts(f, ds, m) ==
    /\ f \in [1 .. Len(ds) -> MemPages]
    /\ \A i, j \in 1 .. Len(ds) : f[i] = f[j] => i = j
    /\ \A i \in 1 .. Len(ds) : BeginsStretch(m, f[i]) /\ ds[i] = Stretch(m, f[i])

LEMMA MapIsOfStretches ==
    ASSUME NEW m \in [MemPages -> MemoryTypes], listing \in MemPages
    PROVE  Descriptors(m) \in Seq(MapEntries) /\ \E f : Starts(f, Descriptors(m), m)
<1>. DEFINE pages == [i \in 1 .. NumPages |-> (listing + i - 1) % NumPages]
            S == {page \in MemPages : BeginsStretch(m, page)}
            firsts == Those(pages, S)
<1>1. NumPages \in Nat /\ NumPages > 0 /\ listing \in Nat /\ listing < NumPages
  BY BootLoaderAssumption DEF MemPages
<1>2. ASSUME NEW i \in 1 .. NumPages
      PROVE  (listing + i - 1) % NumPages =
                IF listing + i - 1 < NumPages THEN listing + i - 1
                ELSE listing + i - 1 - NumPages
  BY <1>1
<1>3. pages \in Seq(MemPages) /\ Len(pages) = NumPages
  <2>1. pages \in [1 .. NumPages -> MemPages]
    BY <1>1, <1>2 DEF MemPages
  <2>. QED  BY <2>1, <1>1
<1>4. \A i, j \in 1 .. NumPages : pages[i] = pages[j] => i = j
  BY <1>1, <1>2
<1>. HIDE DEF pages, S
<1>5. firsts \in Seq(MemPages) /\ \E g : ComesFrom(g, firsts, pages, S, NumPages)
  BY <1>3, ThoseComeInOrder
<1>6. PICK g : ComesFrom(g, firsts, pages, S, NumPages)
  BY <1>5
<1>7. Descriptors(m) = [i \in DOMAIN firsts |-> Stretch(m, firsts[i])]
  BY DEF Descriptors, pages, S
<1>. HIDE DEF firsts
<1>8. DOMAIN firsts = 1 .. Len(firsts) /\ Len(firsts) \in Nat /\ firsts \in [1 .. Len(firsts) -> MemPages]
  BY <1>5
<1>9. \A i \in 1 .. Len(firsts) : Stretch(m, firsts[i]) \in MapEntries
  BY <1>8, StretchIsOfItsPages
<1>10. /\ Descriptors(m) \in Seq(MapEntries) /\ Len(Descriptors(m)) = Len(firsts)
       /\ \A i \in 1 .. Len(firsts) : Descriptors(m)[i] = Stretch(m, firsts[i])
  <2>1. Descriptors(m) \in [1 .. Len(firsts) -> MapEntries]
    BY <1>7, <1>8, <1>9
  <2>. QED  BY <2>1, <1>7, <1>8
<1>11. \A i, j \in 1 .. Len(firsts) : firsts[i] = firsts[j] => i = j
  <2>1. /\ \A i \in 1 .. Len(firsts) : g[i] \in 1 .. NumPages /\ firsts[i] = pages[g[i]]
        /\ \A i, j \in 1 .. Len(firsts) : i < j => g[i] < g[j]
    BY <1>6 DEF ComesFrom
  <2>2. ASSUME NEW i \in 1 .. Len(firsts), NEW j \in 1 .. Len(firsts), firsts[i] = firsts[j]
        PROVE  i = j
    <3>1. g[i] = g[j] /\ g[i] \in 1 .. NumPages
      BY <2>1, <2>2, <1>4
    <3>2. ~ (i < j) /\ ~ (j < i)
      BY <2>1, <3>1, <1>1
    <3>. QED  BY <3>2, <1>8
  <2>. QED  BY <2>2
<1>12. \A i \in 1 .. Len(firsts) : BeginsStretch(m, firsts[i])
  BY <1>6 DEF ComesFrom, S
<1>13. Starts(firsts, Descriptors(m), m)
  BY <1>8, <1>10, <1>11, <1>12 DEF Starts
<1>. QED  BY <1>10, <1>13

(* A table of regions that are apart and hold pages of one type only.       *)
HoldsPagesOf(regions, m, type) ==
    /\ regions \in Seq(Regions)
    /\ \A i \in 1 .. Len(regions) :
          /\ regions[i].NumPages >= 1
          /\ \A page \in RegionPages(regions[i]) : page \in MemPages /\ m[page] = type
    /\ \A i, j \in 1 .. Len(regions) :
          i # j => RegionPages(regions[i]) \cap RegionPages(regions[j]) = {}

LEMMA TablesHoldTheirPages ==
    ASSUME NEW m \in [MemPages -> MemoryTypes], NEW t \in 1 .. 4, listing \in MemPages,
           ~ TooManyRegions(Filled(EmptyLayout, Descriptors(m)))
    PROVE  HoldsPagesOf(RegionsOf(Filled(EmptyLayout, Descriptors(m)), t), m, Tables[t])
<1>. DEFINE ds == Descriptors(m)
            S == {d \in Range(ds) : d.Type = Tables[t]}
            wanted == Those(ds, S)
            regions == RegionsOf(Filled(EmptyLayout, ds), t)
<1>1. ds \in Seq(MapEntries)
  BY MapIsOfStretches
<1>2. PICK f : Starts(f, ds, m)
  BY MapIsOfStretches
<1>3. regions = [i \in DOMAIN wanted |-> wanted[i].Region]
  BY <1>1, TablesAreTheMap
<1>4. \A d \in S : d.Type = Tables[t]
  OBVIOUS
<1>. HIDE DEF ds, S, regions
<1>5. wanted \in Seq(MapEntries) /\ \E g : ComesFrom(g, wanted, ds, S, Len(ds))
  BY <1>1, ThoseComeInOrder
<1>6. PICK g : ComesFrom(g, wanted, ds, S, Len(ds))
  BY <1>5
<1>. HIDE DEF wanted
<1>7. /\ DOMAIN wanted = 1 .. Len(wanted) /\ Len(wanted) \in Nat /\ Len(ds) \in Nat
      /\ \A i \in 1 .. Len(wanted) : wanted[i] \in MapEntries
  BY <1>1, <1>5
<1>8. /\ regions \in Seq(Regions) /\ Len(regions) = Len(wanted)
      /\ \A i \in 1 .. Len(wanted) : regions[i] = wanted[i].Region
  <2>1. \A i \in 1 .. Len(wanted) : wanted[i].Region \in Regions
    BY <1>7 DEF MapEntries
  <2>2. regions \in [1 .. Len(wanted) -> Regions]
    BY <2>1, <1>3, <1>7
  <2>. QED  BY <2>2, <1>3, <1>7
<1>9. \A i \in 1 .. Len(wanted) :
         /\ g[i] \in 1 .. Len(ds) /\ wanted[i] = ds[g[i]]
         /\ wanted[i].Type = Tables[t]
  BY <1>4, <1>6 DEF ComesFrom
<1>10. \A k \in 1 .. Len(ds) :
          f[k] \in MemPages /\ BeginsStretch(m, f[k]) /\ ds[k] = Stretch(m, f[k])
  BY <1>2 DEF Starts
<1>11. ASSUME NEW i \in 1 .. Len(wanted)
       PROVE  /\ regions[i].NumPages >= 1
              /\ \A page \in RegionPages(regions[i]) : page \in MemPages /\ m[page] = Tables[t]
  <2>1. /\ f[g[i]] \in MemPages /\ wanted[i] = Stretch(m, f[g[i]])
        /\ wanted[i].Type = Tables[t] /\ regions[i] = wanted[i].Region
    BY <1>8, <1>9, <1>10
  <2>. QED  BY <2>1, StretchIsOfItsPages
<1>12. ASSUME NEW i \in 1 .. Len(wanted), NEW j \in 1 .. Len(wanted), i # j
       PROVE  RegionPages(regions[i]) \cap RegionPages(regions[j]) = {}
  <2>1. g[i] # g[j]
    <3>1. g[i] < g[j] \/ g[j] < g[i]
      <4>1. i < j \/ j < i
        BY <1>12, <1>7
      <4>. QED  BY <4>1, <1>6 DEF ComesFrom
    <3>. QED  BY <3>1, <1>7, <1>9
  <2>2. f[g[i]] # f[g[j]]
    BY <2>1, <1>9, <1>2 DEF Starts
  <2>3. PICK p \in MemPages, q \in MemPages :
           /\ p # q /\ BeginsStretch(m, p) /\ BeginsStretch(m, q)
           /\ regions[i] = Stretch(m, p).Region /\ regions[j] = Stretch(m, q).Region
    <3>1. /\ f[g[i]] \in MemPages /\ f[g[j]] \in MemPages
          /\ BeginsStretch(m, f[g[i]]) /\ BeginsStretch(m, f[g[j]])
      <4>1. g[i] \in 1 .. Len(ds) /\ g[j] \in 1 .. Len(ds)
        BY <1>9
      <4>. QED  BY <4>1, <1>10
    <3>2. ASSUME NEW k \in 1 .. Len(wanted)
          PROVE  regions[k] = Stretch(m, f[g[k]]).Region
      <4>1. g[k] \in 1 .. Len(ds) /\ wanted[k] = ds[g[k]]
        BY <1>9
      <4>2. wanted[k] = Stretch(m, f[g[k]])
        BY <4>1, <1>10
      <4>. QED  BY <4>2, <1>8
    <3>3. regions[i] = Stretch(m, f[g[i]]).Region /\ regions[j] = Stretch(m, f[g[j]]).Region
      BY <3>2
    <3>. QED  BY <2>2, <3>1, <3>2, <3>3
  <2>4. p < q \/ q < p
    BY <2>3, BootLoaderAssumption DEF MemPages
  <2>. QED  BY <2>3, <2>4, StretchesAreApart
<1>13. HoldsPagesOf(regions, m, Tables[t])
  BY <1>8, <1>11, <1>12 DEF HoldsPagesOf
<1>. QED  BY <1>13 DEF regions, ds

LEMMA NothingHoldsNothing ==
    ASSUME NEW m, NEW t \in 1 .. 4
    PROVE  HoldsPagesOf(RegionsOf(EmptyLayout, t), m, Tables[t])
<1>1. RegionsOf(EmptyLayout, t) \in [1 .. 0 -> Regions]
  BY NothingIsEmpty DEF RegionsOf
<1>2. RegionsOf(EmptyLayout, t) \in Seq(Regions) /\ Len(RegionsOf(EmptyLayout, t)) = 0
  BY <1>1
<1>. QED  BY <1>2 DEF HoldsPagesOf

-----------------------------------------------------------------------------
(* The walks over a table of regions *)

(* Both loops stop at a region or go on with the next one and another       *)
(* number; the table ends them.                                             *)
GoesOn(f, r, x, n, here, value, next) ==
    f[<<r, x>>] = IF r > n THEN NoRegion
              ELSE IF here[<<r, x>>] THEN value[<<r, x>>] ELSE f[<<r + 1, next[<<r, x>>]>>]

LEMMA WalksOverTablesExist ==
    ASSUME NEW n \in Nat, NEW here, NEW value, NEW next,
           \A r \in 1 .. n, x \in Nat : next[<<r, x>>] \in Nat
    PROVE  \E f : /\ f = [w \in (1 .. n + 1) \X Nat |-> f[w]]
                  /\ \A r \in 1 .. n + 1, x \in Nat : GoesOn(f, r, x, n, here, value, next)
<1>. DEFINE Walks(f, c) ==
                /\ f = [w \in (1 .. n + 1) \X Nat |-> f[w]]
                /\ \A r \in 1 .. n + 1, x \in Nat :
                      r >= c => GoesOn(f, r, x, n, here, value, next)
            Not == {j \in Nat : j <= n /\ ~ \E f : Walks(f, n + 1 - j)}
<1>1. \E f : Walks(f, n + 1)
  <2>. DEFINE f == [w \in (1 .. n + 1) \X Nat |-> NoRegion]
  <2>1. \A r \in 1 .. n + 1, x \in Nat : f[<<r, x>>] = NoRegion
    OBVIOUS
  <2>2. f = [w \in (1 .. n + 1) \X Nat |-> f[w]]
    OBVIOUS
  <2>. HIDE DEF f
  <2>3. \A r \in 1 .. n + 1 : r >= n + 1 => r > n
    OBVIOUS
  <2>4. Walks(f, n + 1)
    BY <2>1, <2>2, <2>3 DEF GoesOn
  <2>. QED  BY <2>4
<1>2. ASSUME NEW c \in 1 .. n, NEW f, Walks(f, c + 1)
      PROVE  \E g : Walks(g, c)
  <2>. DEFINE g == [w \in (1 .. n + 1) \X Nat |->
                       IF w[1] = c
                       THEN IF here[w] THEN value[w] ELSE f[<<c + 1, next[w]>>]
                       ELSE f[w]]
  <2>1. /\ \A r \in 1 .. n + 1, x \in Nat : r # c => g[<<r, x>>] = f[<<r, x>>]
        /\ \A x \in Nat : g[<<c, x>>] = IF here[<<c, x>>] THEN value[<<c, x>>]
                                         ELSE f[<<c + 1, next[<<c, x>>]>>]
    OBVIOUS
  <2>2. g = [w \in (1 .. n + 1) \X Nat |-> g[w]]
    OBVIOUS
  <2>. HIDE DEF g
  <2>3. ASSUME NEW r \in 1 .. n + 1, NEW x \in Nat, r >= c
        PROVE  GoesOn(g, r, x, n, here, value, next)
    <3>1. CASE r = c
      <4>1. next[<<c, x>>] \in Nat /\ c + 1 \in 1 .. n + 1 /\ c + 1 # c /\ ~ (c > n)
        OBVIOUS
      <4>2. g[<<c + 1, next[<<c, x>>]>>] = f[<<c + 1, next[<<c, x>>]>>]
        BY <4>1, <2>1
      <4>. QED  BY <3>1, <4>1, <4>2, <2>1 DEF GoesOn
    <3>2. CASE r # c
      <4>1. r >= c + 1 /\ g[<<r, x>>] = f[<<r, x>>]
        BY <3>2, <2>1, <2>3
      <4>2. GoesOn(f, r, x, n, here, value, next)
        BY <4>1, <1>2
      <4>3. r <= n => g[<<r + 1, next[<<r, x>>]>>] = f[<<r + 1, next[<<r, x>>]>>]
        <5>1. r <= n => r \in 1 .. n /\ r + 1 \in 1 .. n + 1 /\ r + 1 # c
          BY <4>1
        <5>. QED  BY <5>1, <2>1
      <4>4. r <= n \/ r > n
        OBVIOUS
      <4>. QED  BY <4>1, <4>2, <4>3, <4>4 DEF GoesOn
    <3>. QED  BY <3>1, <3>2
  <2>4. Walks(g, c)
    BY <2>2, <2>3
  <2>. QED  BY <2>4
<1>3. Not = {}
  <2>. HIDE DEF Walks
  <2>1. SUFFICES ASSUME Not # {}  PROVE FALSE
    OBVIOUS
  <2>2. PICK d \in Not : \A e \in Not : d <= e
    BY <2>1, LeastNumber
  <2>3. d \in Nat /\ d <= n /\ ~ \E f : Walks(f, n + 1 - d)
    OBVIOUS
  <2>. HIDE DEF Not
  <2>4. d # 0
    <3>1. n + 1 - 0 = n + 1
      OBVIOUS
    <3>. QED  BY <3>1, <1>1, <2>3
  <2>5. d - 1 \in Nat /\ d - 1 \notin Not /\ d - 1 <= n
    BY <2>2, <2>3, <2>4
  <2>6. PICK c \in 1 .. n : c = n + 1 - d /\ c + 1 = n + 1 - (d - 1)
    BY <2>3, <2>4
  <2>7. \E f : Walks(f, c + 1)
    BY <2>5, <2>6 DEF Not
  <2>. QED  BY <2>3, <2>6, <2>7, <1>2
<1>4. \E f : Walks(f, 1)
  <2>. HIDE DEF Walks, Not
  <2>1. n \notin Not /\ n <= n /\ n + 1 - n = 1
    BY <1>3
  <2>. QED  BY <2>1 DEF Not
<1>5. ASSUME NEW f, Walks(f, 1)
      PROVE  \A r \in 1 .. n + 1, x \in Nat : GoesOn(f, r, x, n, here, value, next)
  <2>1. \A r \in 1 .. n + 1 : r >= 1
    OBVIOUS
  <2>. QED  BY <2>1, <1>5
<1>. QED  BY <1>4, <1>5

AddressStep(f, layout, r, left) ==
    f[<<r, left>>] = IF left < layout[r].NumPages THEN layout[r].Start + left
                     ELSE f[<<r + 1, left - layout[r].NumPages>>]

LEMMA AddressStepByStep ==
    ASSUME NEW layout \in Seq(Regions), NEW number \in Nat
    PROVE  \E f : /\ f[<<1, number>>] = AddressOfNumber(layout, number)
                  /\ \A r \in 1 .. Len(layout), left \in Nat : AddressStep(f, layout, r, left)
<1>. DEFINE n == Len(layout)
            D == (1 .. n) \X Nat
            here == [w \in D |-> w[2] < layout[w[1]].NumPages]
            value == [w \in D |-> layout[w[1]].Start + w[2]]
            next == [w \in D |-> IF w[2] < layout[w[1]].NumPages THEN 0
                                 ELSE w[2] - layout[w[1]].NumPages]
            walk[w \in (1 .. n + 1) \X Nat] ==
                LET r == w[1]  left == w[2]
                IN  IF r > n THEN NoRegion
                    ELSE IF left < layout[r].NumPages THEN layout[r].Start + left
                    ELSE walk[<<r + 1, left - layout[r].NumPages>>]
<1>1. AddressOfNumber(layout, number) = walk[<<1, number>>]
  BY DEF AddressOfNumber
<1>2. n \in Nat /\ \A r \in 1 .. n : layout[r].NumPages \in Nat
  <2>1. n \in Nat /\ \A r \in 1 .. n : layout[r] \in Regions
    OBVIOUS
  <2>. QED  BY <2>1 DEF Regions
<1>. HIDE DEF n
<1>3. ASSUME NEW r \in 1 .. n, NEW x \in Nat
      PROVE  /\ here[<<r, x>>] = (x < layout[r].NumPages)
             /\ value[<<r, x>>] = layout[r].Start + x
             /\ ~ (x < layout[r].NumPages) => next[<<r, x>>] = x - layout[r].NumPages
             /\ next[<<r, x>>] \in Nat
  BY <1>2
<1>. HIDE DEF here, value, next, walk
<1>4. \A r \in 1 .. n, x \in Nat : next[<<r, x>>] \in Nat
  BY <1>3
<1>5. PICK f : /\ f = [w \in (1 .. n + 1) \X Nat |-> f[w]]
               /\ \A r \in 1 .. n + 1, x \in Nat : GoesOn(f, r, x, n, here, value, next)
  BY <1>2, <1>4, WalksOverTablesExist
<1>6. ASSUME NEW r \in 1 .. n + 1, NEW x \in Nat
      PROVE  f[<<r, x>>] = IF r > n THEN NoRegion
                           ELSE IF x < layout[r].NumPages THEN layout[r].Start + x
                           ELSE f[<<r + 1, x - layout[r].NumPages>>]
  <2>1. GoesOn(f, r, x, n, here, value, next)
    BY <1>5
  <2>2. r > n \/ r \in 1 .. n
    BY <1>2
  <2>. QED  BY <2>1, <2>2, <1>3 DEF GoesOn
<1>7. \A w \in (1 .. n + 1) \X Nat :
         f[w] = IF w[1] > n THEN NoRegion
                ELSE IF w[2] < layout[w[1]].NumPages THEN layout[w[1]].Start + w[2]
                ELSE f[<<w[1] + 1, w[2] - layout[w[1]].NumPages>>]
  BY <1>6
<1>8. f = [w \in (1 .. n + 1) \X Nat |->
             IF w[1] > n THEN NoRegion
             ELSE IF w[2] < layout[w[1]].NumPages THEN layout[w[1]].Start + w[2]
             ELSE f[<<w[1] + 1, w[2] - layout[w[1]].NumPages>>]]
  BY <1>5, <1>7
<1>9. walk = [w \in (1 .. n + 1) \X Nat |->
                IF w[1] > n THEN NoRegion
                ELSE IF w[2] < layout[w[1]].NumPages THEN layout[w[1]].Start + w[2]
                ELSE walk[<<w[1] + 1, w[2] - layout[w[1]].NumPages>>]]
  BY <1>8 DEF walk
<1>10. ASSUME NEW r \in 1 .. n, NEW x \in Nat  PROVE AddressStep(walk, layout, r, x)
  <2>1. <<r, x>> \in (1 .. n + 1) \X Nat /\ ~ (r > n)
    BY <1>2
  <2>. QED  BY <2>1, <1>9 DEF AddressStep
<1>. QED  BY <1>1, <1>10 DEF n

IndexStep(f, layout, address, r, passed) ==
    f[<<r, passed>>] = IF address \in RegionPages(layout[r])
                       THEN passed + (address - layout[r].Start) - 1
                       ELSE f[<<r + 1, passed + layout[r].NumPages>>]

LEMMA IndexStepByStep ==
    ASSUME NEW layout \in Seq(Regions), NEW address
    PROVE  \E f : /\ f[<<1, 0>>] = MemoryAddressToPageIndex(layout, address)
                  /\ \A r \in 1 .. Len(layout), passed \in Nat :
                        IndexStep(f, layout, address, r, passed)
<1>. DEFINE n == Len(layout)
            D == (1 .. n) \X Nat
            here == [w \in D |-> address \in RegionPages(layout[w[1]])]
            value == [w \in D |-> w[2] + (address - layout[w[1]].Start) - 1]
            next == [w \in D |-> w[2] + layout[w[1]].NumPages]
            walk[w \in (1 .. n + 1) \X Nat] ==
                LET r == w[1]  passed == w[2]
                IN  IF r > n THEN NoRegion
                    ELSE IF address \in RegionPages(layout[r])
                         THEN passed + (address - layout[r].Start) - 1
                    ELSE walk[<<r + 1, passed + layout[r].NumPages>>]
<1>1. MemoryAddressToPageIndex(layout, address) = walk[<<1, 0>>]
  BY DEF MemoryAddressToPageIndex
<1>2. n \in Nat /\ \A r \in 1 .. n : layout[r].NumPages \in Nat
  <2>1. n \in Nat /\ \A r \in 1 .. n : layout[r] \in Regions
    OBVIOUS
  <2>. QED  BY <2>1 DEF Regions
<1>. HIDE DEF n
<1>3. ASSUME NEW r \in 1 .. n, NEW x \in Nat
      PROVE  /\ here[<<r, x>>] = (address \in RegionPages(layout[r]))
             /\ value[<<r, x>>] = x + (address - layout[r].Start) - 1
             /\ next[<<r, x>>] = x + layout[r].NumPages
             /\ next[<<r, x>>] \in Nat
  BY <1>2
<1>. HIDE DEF here, value, next, walk
<1>4. \A r \in 1 .. n, x \in Nat : next[<<r, x>>] \in Nat
  BY <1>3
<1>5. PICK f : /\ f = [w \in (1 .. n + 1) \X Nat |-> f[w]]
               /\ \A r \in 1 .. n + 1, x \in Nat : GoesOn(f, r, x, n, here, value, next)
  BY <1>2, <1>4, WalksOverTablesExist
<1>6. ASSUME NEW r \in 1 .. n + 1, NEW x \in Nat
      PROVE  f[<<r, x>>] = IF r > n THEN NoRegion
                           ELSE IF address \in RegionPages(layout[r])
                                THEN x + (address - layout[r].Start) - 1
                           ELSE f[<<r + 1, x + layout[r].NumPages>>]
  <2>1. GoesOn(f, r, x, n, here, value, next)
    BY <1>5
  <2>2. r > n \/ r \in 1 .. n
    BY <1>2
  <2>. QED  BY <2>1, <2>2, <1>3 DEF GoesOn
<1>7. \A w \in (1 .. n + 1) \X Nat :
         f[w] = IF w[1] > n THEN NoRegion
                ELSE IF address \in RegionPages(layout[w[1]])
                     THEN w[2] + (address - layout[w[1]].Start) - 1
                ELSE f[<<w[1] + 1, w[2] + layout[w[1]].NumPages>>]
  BY <1>6
<1>8. f = [w \in (1 .. n + 1) \X Nat |->
             IF w[1] > n THEN NoRegion
             ELSE IF address \in RegionPages(layout[w[1]])
                  THEN w[2] + (address - layout[w[1]].Start) - 1
             ELSE f[<<w[1] + 1, w[2] + layout[w[1]].NumPages>>]]
  BY <1>5, <1>7
<1>9. walk = [w \in (1 .. n + 1) \X Nat |->
                IF w[1] > n THEN NoRegion
                ELSE IF address \in RegionPages(layout[w[1]])
                     THEN w[2] + (address - layout[w[1]].Start) - 1
                ELSE walk[<<w[1] + 1, w[2] + layout[w[1]].NumPages>>]]
  BY <1>8 DEF walk
<1>10. ASSUME NEW r \in 1 .. n, NEW x \in Nat  PROVE IndexStep(walk, layout, address, r, x)
  <2>1. <<r, x>> \in (1 .. n + 1) \X Nat /\ ~ (r > n)
    BY <1>2
  <2>. QED  BY <2>1, <1>9 DEF IndexStep
<1>. QED  BY <1>1, <1>10 DEF n

LEMMA SumsAscend ==
    ASSUME NEW s \in Seq(Regions), NEW h, SumsOf(h, s),
           NEW i \in 0 .. Len(s), NEW j \in 0 .. Len(s), i <= j
    PROVE  h[i] <= h[j]
<1>. DEFINE Not == {k \in Nat : i <= k /\ k <= Len(s) /\ ~ (h[i] <= h[k])}
<1>1. Len(s) \in Nat /\ \A k \in 1 .. Len(s) : s[k] \in Regions
  OBVIOUS
<1>2. \A k \in 0 .. Len(s) : h[k] \in Nat
  BY DEF SumsOf
<1>3. Not = {}
  <2>1. SUFFICES ASSUME Not # {}  PROVE FALSE
    OBVIOUS
  <2>2. PICK d \in Not : \A e \in Not : d <= e
    BY <2>1, LeastNumber
  <2>3. d \in Nat /\ i <= d /\ d <= Len(s) /\ ~ (h[i] <= h[d])
    OBVIOUS
  <2>. HIDE DEF Not
  <2>4. d # i
    BY <2>3, <1>2
  <2>5. /\ d - 1 \in Nat /\ i <= d - 1 /\ d - 1 <= Len(s) /\ ~ (d <= d - 1)
        /\ d \in 1 .. Len(s) /\ d - 1 \in 0 .. Len(s) /\ d \in 0 .. Len(s)
    BY <2>3, <2>4, <1>1
  <2>6. h[i] <= h[d - 1]
    BY <2>2, <2>5 DEF Not
  <2>7. h[d] = h[d - 1] + s[d].NumPages
    BY <2>5 DEF SumsOf
  <2>8. s[d].NumPages \in Nat
    BY <2>5, <1>1 DEF Regions
  <2>9. PICK low \in Nat, before \in Nat, size \in Nat :
                low = h[i] /\ before = h[d - 1] /\ size = s[d].NumPages
    BY <2>5, <2>8, <1>2
  <2>10. low <= before + size
    <3>1. low <= before
      BY <2>6, <2>9
    <3>. QED  BY <3>1
  <2>. QED  BY <2>3, <2>7, <2>9, <2>10
<1>4. j \in Nat /\ j <= Len(s)
  BY <1>1
<1>. QED  BY <1>3, <1>4

LEMMA NumbersAreInARegion ==
    ASSUME NEW s \in Seq(Regions), NEW h, SumsOf(h, s),
           NEW number \in Nat, number < AllPages(s)
    PROVE  \E k \in 1 .. Len(s) : h[k - 1] <= number /\ number < h[k]
<1>. DEFINE Over == {k \in Nat : k <= Len(s) /\ number < h[k]}
<1>1. Len(s) \in Nat /\ Len(s) <= Len(s) /\ number < h[Len(s)]
  BY DEF SumsOf
<1>2. PICK d \in Over : \A e \in Over : d <= e
  <2>1. Len(s) \in Over
    BY <1>1
  <2>. QED  BY <2>1, LeastNumber
<1>3. d \in Nat /\ d <= Len(s) /\ number < h[d]
  OBVIOUS
<1>4. d # 0
  BY <1>3 DEF SumsOf
<1>. HIDE DEF Over
<1>5. d - 1 \in Nat /\ d - 1 <= Len(s) /\ ~ (d <= d - 1) /\ d \in 1 .. Len(s) /\ d - 1 \in 0 .. Len(s)
  BY <1>1, <1>3, <1>4
<1>6. ~ (number < h[d - 1])
  BY <1>2, <1>5 DEF Over
<1>7. h[d - 1] \in Nat
  BY <1>5 DEF SumsOf
<1>8. h[d - 1] <= number
  BY <1>6, <1>7
<1>. QED  BY <1>3, <1>5, <1>8

(* Where a number leads to, and what number an address has.                 *)
LEMMA AddressOfNumberIs ==
    ASSUME NEW s \in Seq(Regions), NEW h, SumsOf(h, s), NEW number \in Nat,
           NEW k \in 1 .. Len(s), h[k - 1] <= number, number < h[k]
    PROVE  AddressOfNumber(s, number) = s[k].Start + (number - h[k - 1])
<1>1. PICK f : /\ f[<<1, number>>] = AddressOfNumber(s, number)
               /\ \A r \in 1 .. Len(s), left \in Nat : AddressStep(f, s, r, left)
  BY AddressStepByStep
<1>2. Len(s) \in Nat /\ \A r \in 1 .. Len(s) : s[r] \in Regions
  OBVIOUS
<1>3. /\ h[0] = 0 /\ \A r \in 0 .. Len(s) : h[r] \in Nat
      /\ \A r \in 1 .. Len(s) : h[r] = h[r - 1] + s[r].NumPages
  BY DEF SumsOf
<1>. DEFINE Not == {r \in Nat : 1 <= r /\ r <= k /\
                       ~ (f[<<1, number>>] = f[<<r, number - h[r - 1]>>])}
<1>4. \A r \in 1 .. k : h[r - 1] <= number
  <2>1. ASSUME NEW r \in 1 .. k  PROVE h[r - 1] <= number
    <3>1. r - 1 \in 0 .. Len(s) /\ k - 1 \in 0 .. Len(s) /\ r - 1 <= k - 1
      BY <1>2
    <3>2. h[r - 1] <= h[k - 1]
      BY <3>1, SumsAscend
    <3>. QED  BY <3>1, <3>2, <1>3
  <2>. QED  BY <2>1
<1>5. Not = {}
  <2>1. SUFFICES ASSUME Not # {}  PROVE FALSE
    OBVIOUS
  <2>2. PICK d \in Not : \A e \in Not : d <= e
    BY <2>1, LeastNumber
  <2>3. /\ d \in Nat /\ 1 <= d /\ d <= k
        /\ ~ (f[<<1, number>>] = f[<<d, number - h[d - 1]>>])
    OBVIOUS
  <2>. HIDE DEF Not
  <2>4. d # 1
    <3>1. number - h[1 - 1] = number
      BY <1>3
    <3>. QED  BY <2>3, <3>1
  <2>5. PICK c \in Nat : c = d - 1 /\ 1 <= c /\ c \in 1 .. k /\ c + 1 \in 1 .. k
                         /\ c \in 1 .. Len(s) /\ ~ (d <= c) /\ d = c + 1 /\ c <= k
                         /\ c - 1 \in 0 .. Len(s) /\ c \in 0 .. Len(s)
    BY <2>3, <2>4, <1>2
  <2>6. f[<<1, number>>] = f[<<c, number - h[c - 1]>>]
    BY <2>2, <2>5 DEF Not
  <2>7. h[c - 1] <= number /\ h[(c + 1) - 1] <= number
    BY <2>5, <1>4
  <2>8. (c + 1) - 1 = c
    BY <2>5
  <2>9. h[c] = h[c - 1] + s[c].NumPages /\ h[c] \in Nat /\ h[c - 1] \in Nat /\ s[c].NumPages \in Nat
    <3>1. s[c] \in Regions
      BY <2>5, <1>2
    <3>. QED  BY <3>1, <2>5, <1>3 DEF Regions
  <2>10. PICK left \in Nat : left = number - h[c - 1]
    BY <2>7, <2>9
  <2>11. ~ (left < s[c].NumPages) /\ left - s[c].NumPages = number - h[c]
    <3>1. PICK before \in Nat, size \in Nat :
                  before = h[c - 1] /\ size = s[c].NumPages /\ h[c] = before + size
      BY <2>9
    <3>2. before + size <= number /\ left = number - before
      <4>1. h[c] <= number
        BY <2>7, <2>8
      <4>. QED  BY <3>1, <4>1, <2>10
    <3>3. number \in Nat
      OBVIOUS
    <3>4. PICK rest \in Nat : rest = number - (before + size)
      BY <3>2, <3>3
    <3>5. left = size + rest
      BY <3>2, <3>4
    <3>6. ~ (left < size) /\ left - size = rest
      BY <3>5
    <3>. QED  BY <3>1, <3>4, <3>6
  <2>12. AddressStep(f, s, c, left)
    BY <1>1, <2>5, <2>10
  <2>13. f[<<c, left>>] = f[<<c + 1, left - s[c].NumPages>>]
    BY <2>11, <2>12 DEF AddressStep
  <2>14. f[<<c, number - h[c - 1]>>] = f[<<d, number - h[d - 1]>>]
    BY <2>5, <2>8, <2>10, <2>11, <2>13
  <2>. QED  BY <2>3, <2>6, <2>14
<1>6. f[<<1, number>>] = f[<<k, number - h[k - 1]>>]
  <2>1. k \in Nat /\ 1 <= k /\ k <= k
    OBVIOUS
  <2>. QED  BY <2>1, <1>5
<1>7. /\ h[k] = h[k - 1] + s[k].NumPages /\ h[k - 1] \in Nat /\ s[k].NumPages \in Nat
      /\ k - 1 \in 0 .. Len(s)
  <2>1. s[k] \in Regions /\ k - 1 \in 0 .. Len(s)
    BY <1>2
  <2>. QED  BY <2>1, <1>3 DEF Regions
<1>8. PICK left \in Nat : left = number - h[k - 1] /\ left < s[k].NumPages
  BY <1>7
<1>9. AddressStep(f, s, k, left)
  BY <1>1, <1>8
<1>10. f[<<k, left>>] = s[k].Start + left
  BY <1>8, <1>9 DEF AddressStep
<1>. QED  BY <1>1, <1>6, <1>8, <1>10

LEMMA IndexOfAddressIs ==
    ASSUME NEW s \in Seq(Regions), NEW h, SumsOf(h, s), NEW address \in Int,
           NEW k \in 1 .. Len(s), address \in RegionPages(s[k]),
           \A r \in 1 .. Len(s) : r # k => address \notin RegionPages(s[r])
    PROVE  MemoryAddressToPageIndex(s, address) = h[k - 1] + (address - s[k].Start) - 1
<1>1. PICK f : /\ f[<<1, 0>>] = MemoryAddressToPageIndex(s, address)
               /\ \A r \in 1 .. Len(s), passed \in Nat : IndexStep(f, s, address, r, passed)
  BY IndexStepByStep
<1>2. Len(s) \in Nat
  OBVIOUS
<1>3. /\ h[0] = 0 /\ \A r \in 0 .. Len(s) : h[r] \in Nat
      /\ \A r \in 1 .. Len(s) : h[r] = h[r - 1] + s[r].NumPages
  BY DEF SumsOf
<1>. DEFINE Not == {r \in Nat : 1 <= r /\ r <= k /\ ~ (f[<<1, 0>>] = f[<<r, h[r - 1]>>])}
<1>4. Not = {}
  <2>1. SUFFICES ASSUME Not # {}  PROVE FALSE
    OBVIOUS
  <2>2. PICK d \in Not : \A e \in Not : d <= e
    BY <2>1, LeastNumber
  <2>3. d \in Nat /\ 1 <= d /\ d <= k /\ ~ (f[<<1, 0>>] = f[<<d, h[d - 1]>>])
    OBVIOUS
  <2>. HIDE DEF Not
  <2>4. d # 1
    <3>1. h[1 - 1] = 0
      BY <1>3
    <3>. QED  BY <2>3, <3>1
  <2>5. PICK c \in Nat : c = d - 1 /\ 1 <= c /\ c # k /\ c <= k
                         /\ c \in 1 .. Len(s) /\ ~ (d <= c) /\ d = c + 1
                         /\ c - 1 \in 0 .. Len(s) /\ (c + 1) - 1 = c
    BY <2>3, <2>4, <1>2
  <2>6. f[<<1, 0>>] = f[<<c, h[c - 1]>>]
    BY <2>2, <2>5 DEF Not
  <2>7. IndexStep(f, s, address, c, h[c - 1])
    BY <1>1, <1>3, <2>5
  <2>8. f[<<c, h[c - 1]>>] = f[<<c + 1, h[c]>>]
    BY <2>5, <2>7, <1>3 DEF IndexStep
  <2>. QED  BY <2>3, <2>5, <2>6, <2>8
<1>5. f[<<1, 0>>] = f[<<k, h[k - 1]>>]
  <2>1. k \in Nat /\ 1 <= k /\ k <= k
    OBVIOUS
  <2>. QED  BY <2>1, <1>4
<1>6. IndexStep(f, s, address, k, h[k - 1])
  <2>1. k - 1 \in 0 .. Len(s)
    BY <1>2
  <2>. QED  BY <2>1, <1>1, <1>3
<1>. QED  BY <1>1, <1>5, <1>6 DEF IndexStep

(* In a table of regions that are apart, the walk from a number ends in one *)
(* of them, and the walk from there leads back.                             *)
LEMMA NumbersAndAddresses ==
    ASSUME NEW s \in Seq(Regions), NEW h, SumsOf(h, s), NEW m, NEW type,
           HoldsPagesOf(s, m, type), NEW i \in 0 .. TotalPagesOf(s) - 1
    PROVE  \E k \in 1 .. Len(s) :
              /\ h[k - 1] <= i + 1 /\ i + 1 < h[k]
              /\ PageIndexToMemoryAddress(s, i) = s[k].Start + (i + 1 - h[k - 1])
              /\ PageIndexToMemoryAddress(s, i) \in RegionPages(s[k])
              /\ MemoryAddressToPageIndex(s, PageIndexToMemoryAddress(s, i)) = i
<1>. DEFINE address == PageIndexToMemoryAddress(s, i)
<1>1. Len(s) \in Nat /\ Len(s) \in 0 .. Len(s)
  OBVIOUS
<1>2. AllPages(s) \in Nat
  BY <1>1 DEF SumsOf
<1>3. PICK number \in Nat : number = i + 1 /\ number < AllPages(s) /\ i \in Nat
  BY <1>2 DEF TotalPagesOf
<1>4. PICK k \in 1 .. Len(s) : h[k - 1] <= number /\ number < h[k]
  BY <1>3, NumbersAreInARegion
<1>5. AddressOfNumber(s, number) = s[k].Start + (number - h[k - 1])
  BY <1>3, <1>4, AddressOfNumberIs
<1>6. address = s[k].Start + (number - h[k - 1])
  BY <1>3, <1>5 DEF PageIndexToMemoryAddress
<1>. HIDE DEF address
<1>7. /\ h[k] = h[k - 1] + s[k].NumPages /\ h[k - 1] \in Nat
      /\ s[k].NumPages \in Nat /\ s[k].Start \in Nat
  <2>1. s[k] \in Regions /\ k - 1 \in 0 .. Len(s)
    BY <1>1
  <2>. QED  BY <2>1 DEF Regions, SumsOf
<1>8. address \in Int /\ address \in RegionPages(s[k])
  <2>1. PICK left \in Nat : left = number - h[k - 1] /\ left < s[k].NumPages
    BY <1>3, <1>4, <1>7
  <2>2. address = s[k].Start + left
    BY <2>1, <1>6
  <2>3. \A a, b, l \in Nat : l < b => a + l \in a .. a + b - 1
    OBVIOUS
  <2>4. s[k].Start + left \in s[k].Start .. s[k].Start + s[k].NumPages - 1
    BY <2>1, <2>3, <1>7
  <2>. QED  BY <2>2, <2>4, <1>7 DEF RegionPages
<1>9. \A r \in 1 .. Len(s) : r # k => address \notin RegionPages(s[r])
  BY <1>8 DEF HoldsPagesOf
<1>10. MemoryAddressToPageIndex(s, address) = h[k - 1] + (address - s[k].Start) - 1
  BY <1>8, <1>9, IndexOfAddressIs
<1>11. PICK b \in Nat, start \in Nat : b = h[k - 1] /\ start = s[k].Start
  BY <1>7
<1>12. b <= number /\ number < h[k] /\ address = start + (number - b)
  BY <1>4, <1>6, <1>11
<1>13. MemoryAddressToPageIndex(s, address) = b + (address - start) - 1
  BY <1>10, <1>11
<1>14. MemoryAddressToPageIndex(s, address) = i
  BY <1>3, <1>12, <1>13
<1>15. address = start + (i + 1 - b) /\ b <= i + 1
  BY <1>3, <1>12
<1>16. i + 1 < h[k]
  BY <1>3, <1>12
<1>17. /\ h[k - 1] <= i + 1
       /\ address = s[k].Start + (i + 1 - h[k - 1])
  BY <1>11, <1>15
<1>. QED  BY <1>8, <1>14, <1>16, <1>17 DEF address

(* What AddressesAreAsAssumed says of the table of free regions.            *)
LEMMA TablesAreNumbered ==
    ASSUME NEW s \in Seq(Regions), NEW m, NEW type, HoldsPagesOf(s, m, type),
           NEW i \in 0 .. TotalPagesOf(s) - 1
    PROVE  /\ PageIndexToMemoryAddress(s, i) \notin {NoRegion, s[1].Start}
           /\ MemoryAddressToPageIndex(s, PageIndexToMemoryAddress(s, i)) = i
           /\ \A j \in 0 .. i - 1 :
                 /\ PageIndexToMemoryAddress(s, j) # PageIndexToMemoryAddress(s, i)
                 /\ (\A a, b \in DOMAIN s : a < b => s[a].Start < s[b].Start) =>
                       PageIndexToMemoryAddress(s, j) < PageIndexToMemoryAddress(s, i)
<1>. DEFINE Addr(x) == PageIndexToMemoryAddress(s, x)
<1>1. Len(s) \in Nat /\ Len(s) \in 0 .. Len(s) /\ DOMAIN s = 1 .. Len(s)
  OBVIOUS
<1>2. PICK h : SumsOf(h, s)
  BY PagesAreATrace
<1>3. /\ h[0] = 0 /\ \A r \in 0 .. Len(s) : h[r] \in Nat
      /\ \A r \in 1 .. Len(s) : h[r] = h[r - 1] + s[r].NumPages
  BY <1>2 DEF SumsOf
<1>4. \A r \in 1 .. Len(s) :
         /\ s[r].Start \in Nat /\ s[r].NumPages \in Nat /\ s[r].NumPages >= 1
         /\ r - 1 \in 0 .. Len(s) /\ r \in 0 .. Len(s)
         /\ s[r].Start \in RegionPages(s[r])
  <2>1. \A r \in 1 .. Len(s) : s[r] \in Regions /\ s[r].NumPages >= 1
    BY DEF HoldsPagesOf
  <2>2. \A r \in 1 .. Len(s) : s[r].Start \in Nat /\ s[r].NumPages \in Nat
    BY <2>1 DEF Regions
  <2>. QED  BY <2>1, <2>2, <1>1 DEF RegionPages
<1>5. PICK k \in 1 .. Len(s) :
              /\ h[k - 1] <= i + 1 /\ i + 1 < h[k]
              /\ Addr(i) = s[k].Start + (i + 1 - h[k - 1])
              /\ Addr(i) \in RegionPages(s[k])
              /\ MemoryAddressToPageIndex(s, Addr(i)) = i
  BY <1>2, NumbersAndAddresses
<1>6. Addr(i) \in Nat
  <2>1. PICK before \in Nat : before = h[k - 1] /\ before <= i + 1
    BY <1>3, <1>4, <1>5
  <2>2. PICK start \in Nat : start = s[k].Start
    BY <1>4
  <2>3. i \in Nat
    OBVIOUS
  <2>4. start + (i + 1 - before) \in Nat
    BY <2>1, <2>2, <2>3, OffsetFrom
  <2>. QED  BY <2>1, <2>2, <2>4, <1>5
<1>7. Addr(i) # s[1].Start
  <2>1. CASE k = 1
    <3>1. h[1 - 1] = 0
      BY <1>3
    <3>. QED  BY <2>1, <3>1, <1>4, <1>5
  <2>2. CASE k # 1
    <3>1. 1 \in 1 .. Len(s)
      BY <1>1, <1>5
    <3>2. RegionPages(s[1]) \cap RegionPages(s[k]) = {}
      BY <2>2, <3>1 DEF HoldsPagesOf
    <3>. QED  BY <3>1, <3>2, <1>4, <1>5
  <2>. QED  BY <2>1, <2>2
<1>8. ASSUME NEW j \in 0 .. i - 1  PROVE Addr(j) # Addr(i)
  <2>1. j \in 0 .. TotalPagesOf(s) - 1 /\ j # i
    <3>1. TotalPagesOf(s) \in Nat
      BY <1>2, <1>1 DEF TotalPagesOf, SumsOf
    <3>2. PICK total \in Nat : total = TotalPagesOf(s)
      BY <3>1
    <3>3. i \in 0 .. total - 1
      BY <3>2
    <3>4. j \in 0 .. total - 1 /\ j # i
      BY <3>2, <3>3
    <3>. QED  BY <3>2, <3>4
  <2>2. MemoryAddressToPageIndex(s, Addr(j)) = j
    BY <2>1, <1>2, NumbersAndAddresses
  <2>. QED  BY <2>1, <2>2, <1>5
<1>9. ASSUME NEW j \in 0 .. i - 1, \A a, b \in DOMAIN s : a < b => s[a].Start < s[b].Start
      PROVE  Addr(j) < Addr(i)
  <2>1. j \in 0 .. TotalPagesOf(s) - 1 /\ j < i /\ j \in Nat /\ i \in Nat
    BY <1>2, <1>1 DEF TotalPagesOf, SumsOf
  <2>2. PICK l \in 1 .. Len(s) :
              /\ h[l - 1] <= j + 1 /\ j + 1 < h[l]
              /\ Addr(j) = s[l].Start + (j + 1 - h[l - 1])
              /\ Addr(j) \in RegionPages(s[l])
    BY <2>1, <1>2, NumbersAndAddresses
  <2>3. l <= k
    <3>1. SUFFICES ASSUME ~ (l <= k)  PROVE FALSE
      OBVIOUS
    <3>2. k <= l - 1 /\ l - 1 \in 0 .. Len(s) /\ k \in 0 .. Len(s)
      BY <3>1, <1>1
    <3>3. h[k] <= h[l - 1]
      BY <3>2, <1>2, SumsAscend
    <3>4. h[k] \in Nat /\ h[l - 1] \in Nat
      BY <3>2, <1>3
    <3>5. h[l - 1] <= j + 1 /\ i + 1 < h[k]
      BY <2>2, <1>5
    <3>. QED  BY <3>3, <3>4, <3>5, <2>1
  <2>4. CASE l = k
    <3>1. h[k - 1] \in Nat /\ s[k].Start \in Nat
      BY <1>3, <1>4
    <3>2. Addr(j) = s[k].Start + (j + 1 - h[k - 1]) /\ Addr(i) = s[k].Start + (i + 1 - h[k - 1])
      BY <2>2, <2>4, <1>5
    <3>. QED  BY <3>1, <3>2, <2>1
  <2>5. CASE l # k
    <3>1. s[l].Start < s[k].Start
      BY <2>3, <2>5, <1>1, <1>9
    <3>2. RegionPages(s[l]) \cap RegionPages(s[k]) = {}
      BY <2>5 DEF HoldsPagesOf
    <3>3. s[k].Start \notin RegionPages(s[l])
      BY <3>2, <1>4
    <3>4. s[l].Start + s[l].NumPages - 1 < s[k].Start
      BY <3>1, <3>3, <1>4 DEF RegionPages
    <3>5. Addr(j) <= s[l].Start + s[l].NumPages - 1 /\ s[k].Start <= Addr(i)
      BY <2>2, <1>4, <1>5 DEF RegionPages
    <3>6. Addr(j) \in Nat
      <4>1. h[l - 1] \in Nat /\ s[l].Start \in Nat
        BY <1>3, <1>4
      <4>2. h[l - 1] <= j + 1 /\ Addr(j) = s[l].Start + (j + 1 - h[l - 1])
        BY <2>2
      <4>3. PICK before \in Nat, start \in Nat : before = h[l - 1] /\ start = s[l].Start
        BY <4>1
      <4>4. before <= j + 1 /\ Addr(j) = start + (j + 1 - before)
        BY <4>2, <4>3
      <4>5. j \in Nat
        BY <2>1
      <4>6. start + (j + 1 - before) \in Nat
        BY <4>3, <4>4, <4>5, OffsetFrom
      <4>. QED  BY <4>4, <4>6
    <3>7. PICK end \in Int : end = s[l].Start + s[l].NumPages - 1
      BY <1>4
    <3>8. end < s[k].Start /\ Addr(j) <= end /\ s[k].Start \in Nat
      BY <3>4, <3>5, <3>7, <1>4
    <3>. QED  BY <3>5, <3>6, <3>8, <1>6
  <2>. QED  BY <2>4, <2>5
<1>10. Addr(i) # NoRegion
  BY <1>6 DEF NoRegion
<1>. QED  BY <1>5, <1>7, <1>8, <1>9, <1>10

-----------------------------------------------------------------------------
(* The loop headers of a file, and the size of its image *)

LEMMA GreatestOfMany ==
    ASSUME NEW n \in Nat, NEW f, \A i \in 1 .. n : f[i] \in Int, NEW b \in Int
    PROVE  \E m \in {b} \cup {f[i] : i \in 1 .. n} :
              \A x \in {b} \cup {f[i] : i \in 1 .. n} : x <= m
<1>. DEFINE All(k) == {b} \cup {f[i] : i \in 1 .. k}
            Top(k) == \E m \in All(k) : \A x \in All(k) : x <= m
            Not == {k \in Nat : k <= n /\ ~ Top(k)}
<1>1. Top(0)
  <2>1. All(0) = {b} /\ b <= b
    OBVIOUS
  <2>. QED  BY <2>1
<1>2. ASSUME NEW k \in Nat, k + 1 \in 1 .. n, Top(k)  PROVE Top(k + 1)
  <2>1. All(k + 1) = All(k) \cup {f[k + 1]}
    <3>1. 1 .. k + 1 = (1 .. k) \cup {k + 1}
      OBVIOUS
    <3>. QED  BY <3>1
  <2>2. \A x \in All(k) : x \in Int
    BY <1>2
  <2>. HIDE DEF All
  <2>3. PICK m \in All(k) : \A x \in All(k) : x <= m
    BY <1>2
  <2>4. f[k + 1] \in Int /\ m \in Int
    BY <1>2, <2>2
  <2>5. CASE f[k + 1] <= m
    BY <2>1, <2>3, <2>5
  <2>6. CASE ~ (f[k + 1] <= m)
    <3>1. \A x \in All(k + 1) : x <= f[k + 1]
      BY <2>1, <2>2, <2>3, <2>4, <2>6
    <3>. QED  BY <2>1, <3>1
  <2>. QED  BY <2>5, <2>6
<1>3. Not = {}
  <2>. HIDE DEF Top
  <2>1. SUFFICES ASSUME Not # {}  PROVE FALSE
    OBVIOUS
  <2>2. PICK d \in Not : \A e \in Not : d <= e
    BY <2>1, LeastNumber
  <2>3. d \in Nat /\ d <= n /\ ~ Top(d) /\ d # 0
    BY <1>1
  <2>4. PICK c \in Nat : d = c + 1 /\ c <= n /\ ~ (d <= c) /\ c + 1 \in 1 .. n
    <3>1. d - 1 \in Nat /\ d = (d - 1) + 1 /\ d - 1 <= n /\ ~ (d <= d - 1) /\ (d - 1) + 1 \in 1 .. n
      BY <2>3
    <3>. QED  BY <3>1
  <2>5. Top(c)
    BY <2>2, <2>4
  <2>. QED  BY <2>3, <2>4, <2>5, <1>2
<1>4. Top(n)
  <2>. HIDE DEF Top
  <2>1. n <= n
    OBVIOUS
  <2>. QED  BY <2>1, <1>3
<1>. QED  BY <1>4

Headers == [type : Nat, offset : Nat, v_address : Nat, file_size : Nat, mem_size : Nat]

LEMMA LoopHeadersAre ==
    ASSUME NEW file \in FileRecords
    PROVE  LET n == num_loader_headers(file)
           IN  /\ file.headers \in Seq(Headers)
               /\ n \in 0 .. Len(file.headers)
               /\ LoopHeaders(file) \in Seq(Headers) /\ Len(LoopHeaders(file)) = n
               /\ \A i \in 1 .. n : LoopHeaders(file)[i] =
                     IF file.headers[i].type = PT_LOAD THEN file.headers[i] ELSE EmptyHeader
<1>. DEFINE n == num_loader_headers(file)  hs == file.headers  ph == program_headers(file)
            loads == {i \in DOMAIN hs : hs[i].type = PT_LOAD}
<1>1. hs \in Seq(Headers)
  BY DEF FileRecords, Headers
<1>. HIDE DEF hs
<1>2. DOMAIN hs = 1 .. Len(hs) /\ Len(hs) \in Nat /\ \A i \in 1 .. Len(hs) : hs[i] \in Headers
  BY <1>1
<1>3. n = Cardinality(loads)
  BY DEF num_loader_headers, Quantify, hs
<1>4. n \in 0 .. Len(hs)
  <2>1. IsFiniteSet(1 .. Len(hs)) /\ Cardinality(1 .. Len(hs)) = Len(hs)
    <3>1. PICK count \in Nat : count = Len(hs)
      BY <1>2
    <3>2. IsFiniteSet(1 .. count)
      BY FS_Interval
    <3>3. Cardinality(1 .. count) = IF 1 > count THEN 0 ELSE count - 1 + 1
      BY FS_Interval
    <3>4. Cardinality(1 .. count) = count
      BY <3>3
    <3>. QED  BY <3>1, <3>2, <3>4
  <2>2. loads \subseteq 1 .. Len(hs)
    BY <1>2
  <2>3. Cardinality(loads) <= Len(hs) /\ IsFiniteSet(loads)
    BY <2>1, <2>2, FS_Subset
  <2>4. Cardinality(loads) \in Nat
    BY <2>3, FS_CardinalityType
  <2>. QED  BY <2>3, <2>4, <1>2, <1>3
<1>. HIDE DEF n
<1>5. EmptyHeader \in Headers
  BY DEF EmptyHeader, Headers
<1>6. /\ ph \in [1 .. Len(hs) -> Headers]
      /\ \A i \in 1 .. Len(hs) : ph[i] = IF hs[i].type = PT_LOAD THEN hs[i] ELSE EmptyHeader
  <2>1. ph = [i \in DOMAIN hs |-> IF hs[i].type = PT_LOAD THEN hs[i] ELSE EmptyHeader]
    BY DEF program_headers, hs
  <2>. QED  BY <2>1, <1>2, <1>5
<1>7. ph \in Seq(Headers) /\ Len(ph) = Len(hs)
  BY <1>2, <1>6
<1>8. LoopHeaders(file) = SubSeq(ph, 1, n)
  BY DEF LoopHeaders, n
<1>. HIDE DEF ph
<1>9. /\ SubSeq(ph, 1, n) \in Seq(Headers) /\ Len(SubSeq(ph, 1, n)) = n
      /\ \A i \in 1 .. n : SubSeq(ph, 1, n)[i] = ph[i]
  BY <1>2, <1>4, <1>7
<1>10. \A i \in 1 .. n : i \in 1 .. Len(hs)
  BY <1>2, <1>4
<1>. QED  BY <1>1, <1>4, <1>6, <1>8, <1>9, <1>10 DEF n, hs

LEMMA MinIs ==
    ASSUME NEW S \in SUBSET Int, NEW m \in S, \A x \in S : m <= x
    PROVE  Min(S) = m
<1>1. \A x \in S : (\A y \in S : x <= y) => x = m
  OBVIOUS
<1>. QED  BY <1>1 DEF Min

LEMMA LeastOfMany ==
    ASSUME NEW n \in Nat, NEW f, \A i \in 1 .. n : f[i] \in Int, NEW b \in Int
    PROVE  \E m \in {b} \cup {f[i] : i \in 1 .. n} :
              \A x \in {b} \cup {f[i] : i \in 1 .. n} : m <= x
<1>. DEFINE g == [i \in 1 .. n |-> -f[i]]
            All == {-b} \cup {g[i] : i \in 1 .. n}
<1>1. \A i \in 1 .. n : g[i] = -f[i] /\ g[i] \in Int
  OBVIOUS
<1>2. -b \in Int
  OBVIOUS
<1>. HIDE DEF g
<1>3. PICK m \in All : \A x \in All : x <= m
  BY <1>1, <1>2, GreatestOfMany
<1>4. \A x \in {b} \cup {f[i] : i \in 1 .. n} : x \in Int /\ -x \in All
  BY <1>1
<1>5. \A x \in All : x \in Int /\ -x \in {b} \cup {f[i] : i \in 1 .. n}
  BY <1>1, <1>2
<1>. HIDE DEF All
<1>6. m \in Int /\ -m \in {b} \cup {f[i] : i \in 1 .. n}
  BY <1>3, <1>5
<1>7. \A x \in {b} \cup {f[i] : i \in 1 .. n} : -m <= x
  BY <1>3, <1>4, <1>6
<1>. QED  BY <1>6, <1>7

(* The lowest address in the loop headers is one of them, or the top.       *)
LEMMA LowestIs ==
    ASSUME NEW file \in FileRecords
    PROVE  LET loop == LoopHeaders(file)
           IN  /\ min_vaddr(file) \in Nat
               /\ \A i \in 1 .. Len(loop) : min_vaddr(file) <= loop[i].v_address
               /\ \/ min_vaddr(file) = TopAddress
                  \/ \E i \in 1 .. Len(loop) : min_vaddr(file) = loop[i].v_address
<1>. DEFINE loop == LoopHeaders(file)
            f == [i \in 1 .. Len(loop) |-> loop[i].v_address]
            All == {TopAddress} \cup {f[i] : i \in 1 .. Len(loop)}
<1>1. loop \in Seq(Headers) /\ Len(loop) \in Nat
  BY LoopHeadersAre
<1>2. min_vaddr(file) = Min({TopAddress} \cup {h.v_address : h \in Range(loop)})
  BY DEF min_vaddr
<1>. HIDE DEF loop
<1>3. \A i \in 1 .. Len(loop) : loop[i] \in Headers /\ loop[i].v_address \in Nat
  <2>1. \A i \in 1 .. Len(loop) : loop[i] \in Headers
    BY <1>1
  <2>. QED  BY <2>1 DEF Headers
<1>4. Range(loop) = {loop[i] : i \in 1 .. Len(loop)}
  BY <1>1 DEF Range
<1>5. {h.v_address : h \in Range(loop)} = {f[i] : i \in 1 .. Len(loop)}
  BY <1>4
<1>6. min_vaddr(file) = Min(All)
  BY <1>2, <1>5
<1>7. \A i \in 1 .. Len(loop) : f[i] = loop[i].v_address /\ f[i] \in Nat
  BY <1>3
<1>8. TopAddress \in Nat
  BY ElfLoaderAssumption
<1>. HIDE DEF f
<1>9. PICK m \in All : \A x \in All : m <= x
  <2>1. \A i \in 1 .. Len(loop) : f[i] \in Int
    BY <1>7
  <2>2. TopAddress \in Int
    BY <1>8
  <2>. QED  BY <1>1, <2>1, <2>2, LeastOfMany
<1>10. \A x \in All : x \in Nat
  BY <1>7, <1>8
<1>. HIDE DEF All
<1>11. Min(All) = m
  BY <1>9, <1>10, MinIs
<1>12. m \in Nat /\ (m = TopAddress \/ \E i \in 1 .. Len(loop) : m = loop[i].v_address)
  BY <1>7, <1>9, <1>10 DEF All
<1>13. \A i \in 1 .. Len(loop) : m <= loop[i].v_address
  BY <1>7, <1>9 DEF All
<1>. QED  BY <1>6, <1>11, <1>12, <1>13 DEF loop

(* The size of an image is the end of the segment that ends last.           *)
LEMMA SizeIs ==
    ASSUME NEW file \in FileRecords
    PROVE  LET loop == LoopHeaders(file)
           IN  /\ memory_size(file) \in Nat
               /\ \A i \in 1 .. Len(loop) :
                     loop[i].v_address - min_vaddr(file) + loop[i].mem_size <= memory_size(file)
<1>. DEFINE loop == LoopHeaders(file)
            f == [i \in 1 .. Len(loop) |-> RelativeAddress(file, loop[i].v_address) + loop[i].mem_size]
            All == {0} \cup {f[i] : i \in 1 .. Len(loop)}
<1>1. loop \in Seq(Headers) /\ Len(loop) \in Nat
  BY LoopHeadersAre
<1>2. memory_size(file) =
        Max({0} \cup {RelativeAddress(file, h.v_address) + h.mem_size : h \in Range(loop)})
  BY DEF memory_size
<1>3. min_vaddr(file) \in Nat
  BY LowestIs
<1>. HIDE DEF loop
<1>4. \A i \in 1 .. Len(loop) : loop[i].v_address \in Nat /\ loop[i].mem_size \in Nat
  <2>1. \A i \in 1 .. Len(loop) : loop[i] \in Headers
    BY <1>1
  <2>. QED  BY <2>1 DEF Headers
<1>5. Range(loop) = {loop[i] : i \in 1 .. Len(loop)}
  BY <1>1 DEF Range
<1>6. {RelativeAddress(file, h.v_address) + h.mem_size : h \in Range(loop)} =
        {f[i] : i \in 1 .. Len(loop)}
  BY <1>5
<1>7. memory_size(file) = Max(All)
  BY <1>2, <1>6
<1>8. \A i \in 1 .. Len(loop) :
          f[i] = loop[i].v_address - min_vaddr(file) + loop[i].mem_size /\ f[i] \in Int
  BY <1>3, <1>4 DEF RelativeAddress
<1>. HIDE DEF f
<1>9. PICK m \in All : \A x \in All : x <= m
  <2>1. \A i \in 1 .. Len(loop) : f[i] \in Int
    BY <1>8
  <2>2. 0 \in Int
    OBVIOUS
  <2>. QED  BY <1>1, <2>1, <2>2, GreatestOfMany
<1>10. \A x \in All : x \in Int
  BY <1>8
<1>11. 0 \in All
  OBVIOUS
<1>12. \A i \in 1 .. Len(loop) : f[i] \in All
  OBVIOUS
<1>. HIDE DEF All
<1>13. Max(All) = m
  BY <1>9, <1>10, MaxIs
<1>14. m \in Nat
  BY <1>9, <1>10, <1>11
<1>15. \A i \in 1 .. Len(loop) : loop[i].v_address - min_vaddr(file) + loop[i].mem_size <= m
  BY <1>8, <1>9, <1>12
<1>. QED  BY <1>7, <1>13, <1>14, <1>15 DEF loop

(* What a call of the reader without an error has done.                     *)
LEMMA ReaderSucceeds ==
    ASSUME NEW file, NEW hasBase, NEW space, elfloader_read(file, hasBase, space).error = "None"
    PROVE  LET result == elfloader_read(file, hasBase, space)
           IN  /\ result.memory_size = memory_size(file)
               /\ HeaderError(file) = "None"
               /\ hasBase => /\ result.image = CopiedImage(file)
                             /\ result.entrypoint = RelativeAddress(file, file.entry)
<1>1. HeaderError(file) = "None"
  BY DEF elfloader_read, Result
<1>2. hasBase => ~ (space < memory_size(file))
  BY <1>1 DEF elfloader_read, Result
<1>3. elfloader_read(file, hasBase, space) =
        IF ~ hasBase THEN Result("None", memory_size(file), RelativeAddress(file, file.entry), NoImage)
        ELSE Result("None", memory_size(file), RelativeAddress(file, file.entry), CopiedImage(file))
  BY <1>1, <1>2 DEF elfloader_read
<1>. QED  BY <1>1, <1>3 DEF Result

-----------------------------------------------------------------------------
(* The image of a file *)

Loads(file) == {i \in DOMAIN file.headers : file.headers[i].type = PT_LOAD}

LEMMA LoadsAre ==
    ASSUME NEW file \in FileRecords
    PROVE  /\ file.headers \in Seq(Headers) /\ DOMAIN file.headers = 1 .. Len(file.headers)
           /\ Loads(file) \in SUBSET (1 .. Len(file.headers)) /\ IsFiniteSet(Loads(file))
           /\ Cardinality(Loads(file)) = num_loader_headers(file)
           /\ num_loader_headers(file) \in 0 .. Len(file.headers)
           /\ LoadHeaders(file) = {file.headers[i] : i \in Loads(file)}
           /\ \A i \in Loads(file) :
                 /\ file.headers[i].v_address \in Nat /\ file.headers[i].offset \in Nat
                 /\ file.headers[i].mem_size \in Nat /\ file.headers[i].file_size \in Nat
                 /\ file.headers[i].type = PT_LOAD
<1>. DEFINE hs == file.headers
<1>1. hs \in Seq(Headers) /\ num_loader_headers(file) \in 0 .. Len(hs)
  BY LoopHeadersAre
<1>2. num_loader_headers(file) = Cardinality(Loads(file))
  BY DEF num_loader_headers, Quantify, Loads
<1>3. LoadHeaders(file) = {hs[i] : i \in Loads(file)}
  BY DEF LoadHeaders, Loads, Range
<1>4. Loads(file) = {i \in DOMAIN hs : hs[i].type = PT_LOAD}
  BY DEF Loads
<1>. HIDE DEF hs
<1>5. DOMAIN hs = 1 .. Len(hs) /\ Len(hs) \in Nat
  BY <1>1
<1>6. Loads(file) \in SUBSET (1 .. Len(hs))
  BY <1>4, <1>5
<1>7. IsFiniteSet(Loads(file))
  <2>1. IsFiniteSet(1 .. Len(hs))
    BY <1>5, FS_Interval
  <2>. QED  BY <1>6, <2>1, FS_Subset
<1>8. \A i \in Loads(file) : hs[i] \in Headers /\ hs[i].type = PT_LOAD
  BY <1>1, <1>4, <1>5
<1>9. \A i \in Loads(file) :
          /\ hs[i].v_address \in Nat /\ hs[i].offset \in Nat
          /\ hs[i].mem_size \in Nat /\ hs[i].file_size \in Nat
  BY <1>8 DEF Headers
<1>. QED  BY <1>1, <1>2, <1>3, <1>5, <1>6, <1>7, <1>8, <1>9 DEF hs

LEMMA LowestLoadIs ==
    ASSUME NEW file \in FileRecords, Loads(file) # {}
    PROVE  /\ LowestAddress(file) \in Nat
           /\ \A i \in Loads(file) : LowestAddress(file) <= file.headers[i].v_address
           /\ \E i \in Loads(file) : LowestAddress(file) = file.headers[i].v_address
<1>. DEFINE S == {file.headers[i].v_address : i \in Loads(file)}
<1>1. /\ LoadHeaders(file) = {file.headers[i] : i \in Loads(file)}
      /\ \A i \in Loads(file) : file.headers[i].v_address \in Nat
  BY LoadsAre
<1>2. {h.v_address : h \in LoadHeaders(file)} = S
  BY <1>1
<1>3. S \in SUBSET Nat /\ S # {}
  BY <1>1
<1>4. \A i \in Loads(file) : file.headers[i].v_address \in S
  OBVIOUS
<1>5. \A x \in S : x \in Nat /\ \E i \in Loads(file) : x = file.headers[i].v_address
  BY <1>1
<1>. HIDE DEF S
<1>6. PICK d \in S : \A e \in S : d <= e
  BY <1>3, LeastNumber
<1>7. S \in SUBSET Int
  BY <1>3
<1>8. Min(S) = d
  BY <1>6, <1>7, MinIs
<1>9. LowestAddress(file) = d
  BY <1>2, <1>8 DEF LowestAddress
<1>. QED  BY <1>4, <1>5, <1>6, <1>9

(* With the headers to load in front, the loops go over just these.         *)
LEMMA LoadsInFront ==
    ASSUME NEW file \in FileRecords, LoadHeadersComeFirst(file)
    PROVE  Loads(file) = 1 .. num_loader_headers(file)
<1>. DEFINE n == num_loader_headers(file)  hs == file.headers
<1>1. /\ Loads(file) \in SUBSET (1 .. Len(hs)) /\ IsFiniteSet(Loads(file)) /\ Len(hs) \in Nat
      /\ Cardinality(Loads(file)) = n /\ n \in Nat /\ DOMAIN hs = 1 .. Len(hs)
  BY LoadsAre
<1>2. ASSUME NEW j \in Loads(file)  PROVE j \in 1 .. n
  <2>1. j \in 1 .. Len(hs) /\ hs[j].type = PT_LOAD
    BY <1>1 DEF Loads
  <2>2. \A i \in 1 .. j : i \in Loads(file)
    <3>1. \A i \in 1 .. j : i \in DOMAIN hs /\ (i < j \/ i = j)
      BY <1>1, <2>1
    <3>. QED  BY <1>1, <2>1, <3>1 DEF LoadHeadersComeFirst, Loads
  <2>3. 1 .. j \in SUBSET Loads(file)
    BY <2>2
  <2>4. Cardinality(1 .. j) <= n
    BY <1>1, <2>3, FS_Subset
  <2>5. Cardinality(1 .. j) = j
    <3>1. j \in Nat /\ j >= 1
      BY <1>1, <2>1
    <3>2. Cardinality(1 .. j) = IF 1 > j THEN 0 ELSE j - 1 + 1
      BY <3>1, FS_Interval
    <3>. QED  BY <3>1, <3>2
  <2>. QED  BY <1>1, <2>1, <2>4, <2>5
<1>3. Loads(file) \in SUBSET (1 .. n)
  BY <1>2
<1>4. IsFiniteSet(1 .. n) /\ Cardinality(1 .. n) = n
  BY <1>1, FS_Interval
<1>. QED  BY <1>1, <1>3, <1>4, FS_Subset

(* Otherwise they go over a gap, and leave a header to load out.            *)
LEMMA LoadsNotInFront ==
    ASSUME NEW file \in FileRecords, ~ LoadHeadersComeFirst(file)
    PROVE  /\ \E k \in 1 .. num_loader_headers(file) : k \notin Loads(file)
           /\ \E l \in Loads(file) : l > num_loader_headers(file)
<1>. DEFINE n == num_loader_headers(file)  hs == file.headers
<1>1. /\ Loads(file) \in SUBSET (1 .. Len(hs)) /\ IsFiniteSet(Loads(file)) /\ Len(hs) \in Nat
      /\ Cardinality(Loads(file)) = n /\ n \in Nat /\ DOMAIN hs = 1 .. Len(hs)
  BY LoadsAre
<1>2. IsFiniteSet(1 .. n) /\ Cardinality(1 .. n) = n
  BY <1>1, FS_Interval
<1>3. PICK i \in 1 .. Len(hs), j \in 1 .. Len(hs) :
          i < j /\ hs[j].type = PT_LOAD /\ hs[i].type # PT_LOAD
  BY <1>1 DEF LoadHeadersComeFirst
<1>4. j \in Loads(file) /\ i \notin Loads(file)
  BY <1>1, <1>3 DEF Loads
<1>5. \E k \in 1 .. n : k \notin Loads(file)
  <2>1. SUFFICES ASSUME \A k \in 1 .. n : k \in Loads(file)  PROVE FALSE
    OBVIOUS
  <2>2. 1 .. n = Loads(file)
    BY <1>1, <1>2, <2>1, FS_Subset
  <2>. QED  BY <1>1, <1>3, <1>4, <2>2
<1>6. \E l \in Loads(file) : l > n
  <2>1. SUFFICES ASSUME \A l \in Loads(file) : ~ (l > n)  PROVE FALSE
    OBVIOUS
  <2>2. Loads(file) \in SUBSET (1 .. n)
    BY <1>1, <2>1
  <2>3. 1 .. n = Loads(file)
    BY <1>1, <1>2, <2>2, FS_Subset
  <2>. QED  BY <1>5, <2>3
<1>. QED  BY <1>5, <1>6

LEMMA TidyFiles ==
    ASSUME NEW file \in FileRecords, IsTidy(file)
    PROVE  /\ Loads(file) # {}
           /\ \A i \in Loads(file) :
                 LET h == file.headers[i]
                 IN  /\ h.mem_size >= 1 /\ h.file_size <= h.mem_size
                     /\ h.offset + h.file_size <= file.size /\ h.v_address <= TopAddress
           /\ \A i, j \in Loads(file) :
                 i # j => Addresses(file.headers[i]) \cap Addresses(file.headers[j]) = {}
           /\ \E i \in Loads(file) : file.entry \in Addresses(file.headers[i])
<1>1. LoadHeaders(file) = {file.headers[i] : i \in Loads(file)}
  BY LoadsAre
<1>. QED  BY <1>1 DEF IsTidy, Loads

LEMMA LowestInFront ==
    ASSUME NEW file \in FileRecords, IsTidy(file), LoadHeadersComeFirst(file)
    PROVE  min_vaddr(file) = LowestAddress(file)
<1>. DEFINE n == num_loader_headers(file)  hs == file.headers  loop == LoopHeaders(file)
            L == LowestAddress(file)  M == min_vaddr(file)
<1>1. Loads(file) = 1 .. n /\ \A i \in Loads(file) : hs[i].type = PT_LOAD
  BY LoadsInFront, LoadsAre
<1>2. Len(loop) = n /\ \A i \in 1 .. n : loop[i] = hs[i]
  BY <1>1, LoopHeadersAre
<1>3. /\ M \in Nat /\ \A i \in 1 .. Len(loop) : M <= loop[i].v_address
      /\ \/ M = TopAddress
         \/ \E i \in 1 .. Len(loop) : M = loop[i].v_address
  BY LowestIs
<1>4. Loads(file) # {} /\ \A i \in Loads(file) : hs[i].v_address <= TopAddress
  BY TidyFiles
<1>5. /\ L \in Nat /\ \A i \in Loads(file) : L <= hs[i].v_address
      /\ \E i \in Loads(file) : L = hs[i].v_address
  BY <1>4, LowestLoadIs
<1>. HIDE DEF n, hs, loop, L, M
<1>6. M <= L /\ L <= TopAddress
  BY <1>1, <1>2, <1>3, <1>4, <1>5
<1>7. TopAddress \in Nat
  BY ElfLoaderAssumption
<1>8. CASE M = TopAddress
  BY <1>3, <1>5, <1>6, <1>7, <1>8 DEF L, M
<1>9. CASE \E i \in 1 .. Len(loop) : M = loop[i].v_address
  <2>1. L <= M
    BY <1>1, <1>2, <1>5, <1>9
  <2>. QED  BY <1>3, <1>5, <1>6, <2>1 DEF L, M
<1>. QED  BY <1>3, <1>8, <1>9

(* With the headers to load in front, the cells of a segment are where they *)
(* should be and hold what the buffer of the file holds.                    *)
LEMMA CellsOfASegment ==
    ASSUME NEW file \in FileRecords, IsTidy(file), LoadHeadersComeFirst(file),
           NEW k \in Loads(file), NEW c \in 0 .. file.headers[k].mem_size - 1
    PROVE  LET h == file.headers[k]
               cell == h.v_address - LowestAddress(file) + c
           IN  /\ cell \in DOMAIN CopiedImage(file)
               /\ CopiedImage(file)[cell] =
                     IF c < h.file_size THEN FileData(file)[h.offset + c] ELSE Zero
<1>. DEFINE n == num_loader_headers(file)  hs == file.headers  loop == LoopHeaders(file)
            L == LowestAddress(file)
            cell == hs[k].v_address - L + c
            over == {i \in DOMAIN loop : cell \in Segment(file, loop[i])}
<1>1. Loads(file) = 1 .. n /\ n \in Nat
  BY LoadsInFront, LoadsAre
<1>2. \A i \in 1 .. n : /\ hs[i].v_address \in Nat /\ hs[i].offset \in Nat
                        /\ hs[i].mem_size \in Nat /\ hs[i].file_size \in Nat
                        /\ hs[i].type = PT_LOAD
  BY <1>1, LoadsAre
<1>3. loop \in Seq(Headers) /\ Len(loop) = n /\ \A i \in 1 .. n : loop[i] = hs[i]
  BY <1>2, LoopHeadersAre
<1>4. min_vaddr(file) = L /\ L \in Nat /\ L <= hs[k].v_address
  BY LowestInFront, LowestLoadIs
<1>5. /\ memory_size(file) \in Nat
      /\ \A i \in 1 .. Len(loop) :
            loop[i].v_address - min_vaddr(file) + loop[i].mem_size <= memory_size(file)
  BY SizeIs
<1>6. \A i \in Loads(file) :
          i # k => Addresses(hs[i]) \cap Addresses(hs[k]) = {}
  BY TidyFiles
<1>7. CopiedImage(file) =
        [a \in 0 .. memory_size(file) - 1 |->
            LET o == {i \in DOMAIN loop : a \in Segment(file, loop[i])}
            IN  IF o = {} THEN Unwritten ELSE CellOf(file, loop[Max(o)], a)]
  BY DEF CopiedImage
<1>. HIDE DEF n, hs, loop, L
<1>8. k \in 1 .. n /\ c \in 0 .. hs[k].mem_size - 1
  BY <1>1 DEF hs
<1>9. cell \in 0 .. memory_size(file) - 1
  <2>1. hs[k].v_address - L + hs[k].mem_size <= memory_size(file)
    BY <1>3, <1>4, <1>5, <1>8
  <2>2. PICK v \in Nat, z \in Nat : v = hs[k].v_address /\ z = hs[k].mem_size
    BY <1>2, <1>8
  <2>3. PICK m \in Nat : m = memory_size(file)
    BY <1>5
  <2>4. PICK l \in Nat : l = L /\ l <= v
    BY <1>4, <2>2
  <2>5. c \in 0 .. z - 1 /\ v - l + z <= m
    BY <1>8, <2>1, <2>2, <2>3, <2>4
  <2>6. v - l + c \in 0 .. m - 1
    BY <2>4, <2>5
  <2>. QED  BY <2>2, <2>3, <2>4, <2>6
<1>10. \A i \in 1 .. n : Segment(file, loop[i]) =
          hs[i].v_address - L .. hs[i].v_address - L + hs[i].mem_size - 1
  BY <1>3, <1>4 DEF Segment, RelativeAddress
<1>11. k \in over
  <2>1. cell \in Segment(file, loop[k])
    BY <1>2, <1>4, <1>8, <1>10
  <2>. QED  BY <1>3, <1>8, <2>1
<1>12. \A i \in over : i = k
  <2>1. SUFFICES ASSUME NEW i \in over, i # k  PROVE FALSE
    OBVIOUS
  <2>2. i \in 1 .. n /\ cell \in Segment(file, loop[i])
    BY <1>3
  <2>3. hs[i].v_address \in Nat /\ hs[i].mem_size \in Nat /\ hs[k].v_address \in Nat /\ hs[k].mem_size \in Nat
    BY <1>2, <1>8, <2>2
  <2>4. cell \in hs[i].v_address - L .. hs[i].v_address - L + hs[i].mem_size - 1
    BY <1>10, <2>2
  <2>5. hs[k].v_address + c \in Addresses(hs[i])
    BY <1>4, <1>8, <2>3, <2>4 DEF Addresses
  <2>6. hs[k].v_address + c \in Addresses(hs[k])
    BY <1>8, <2>3 DEF Addresses
  <2>. QED  BY <1>1, <1>6, <2>1, <2>2, <2>5, <2>6
<1>13. over = {k}
  BY <1>11, <1>12
<1>14. Max({k}) = k
  <2>1. {k} \in SUBSET Int /\ k \in {k} /\ \A x \in {k} : x <= k
    BY <1>1, <1>8
  <2>. QED  BY <2>1, MaxIs
<1>15. CopiedImage(file)[cell] = CellOf(file, loop[k], cell)
  BY <1>7, <1>9, <1>13, <1>14
<1>16. cell - RelativeAddress(file, hs[k].v_address) = c
  BY <1>2, <1>4, <1>8 DEF RelativeAddress
<1>17. CellOf(file, loop[k], cell) =
          IF c < hs[k].file_size THEN FileData(file)[hs[k].offset + c] ELSE Zero
  BY <1>3, <1>8, <1>16 DEF CellOf
<1>. QED  BY <1>7, <1>9, <1>15, <1>17 DEF hs, L

(* ReadFile has zeroed the trimmed cells and left the others alone.         *)
LEMMA ContentIs ==
    ASSUME NEW file \in FileRecords, NEW x \in 0 .. file.size - 1
    PROVE  FileData(file)[x] = x <=> x \notin TrimmedCells(file)
BY DEF FileData, Zero

(* What is left out or put at the wrong place is missed in the image.       *)
LEMMA NoImageWithAGap ==
    ASSUME NEW file \in FileRecords, IsTidy(file), ~ LoadHeadersComeFirst(file)
    PROVE  ~ IsImageOf(CopiedImage(file), file)
<1>. DEFINE n == num_loader_headers(file)  hs == file.headers  loop == LoopHeaders(file)
            L == LowestAddress(file)  image == CopiedImage(file)
            Over(a) == {i \in DOMAIN loop : a \in Segment(file, loop[i])}
<1>0. SUFFICES ASSUME IsImageOf(image, file)  PROVE FALSE
  OBVIOUS
<1>1. PICK gap \in 1 .. n : gap \notin Loads(file)
  BY LoadsNotInFront
<1>2. PICK out \in Loads(file) : out > n
  BY LoadsNotInFront
<1>3. /\ Loads(file) \in SUBSET (1 .. Len(hs)) /\ n \in 0 .. Len(hs) /\ Len(hs) \in Nat
      /\ DOMAIN hs = 1 .. Len(hs)
      /\ LoadHeaders(file) = {hs[i] : i \in Loads(file)}
      /\ \A i \in Loads(file) :
            /\ hs[i].v_address \in Nat /\ hs[i].offset \in Nat
            /\ hs[i].mem_size \in Nat /\ hs[i].file_size \in Nat
  BY LoadsAre
<1>4. /\ Loads(file) # {}
      /\ \A i \in Loads(file) : hs[i].mem_size >= 1
      /\ \A i, j \in Loads(file) : i # j => Addresses(hs[i]) \cap Addresses(hs[j]) = {}
  BY TidyFiles
<1>5. /\ L \in Nat /\ \A i \in Loads(file) : L <= hs[i].v_address
      /\ \E i \in Loads(file) : L = hs[i].v_address
  BY <1>4, LowestLoadIs
<1>6. /\ DOMAIN loop = 1 .. n /\ Len(loop) = n
      /\ \A i \in 1 .. n : loop[i] = IF i \in Loads(file) THEN hs[i] ELSE EmptyHeader
  <2>1. \A i \in 1 .. n : i \in DOMAIN hs /\ (i \in Loads(file) <=> hs[i].type = PT_LOAD)
    BY <1>3 DEF Loads
  <2>. QED  BY <2>1, LoopHeadersAre
<1>7. EmptyHeader.v_address = 0 /\ EmptyHeader.mem_size = 0
  BY DEF EmptyHeader
<1>8. /\ min_vaddr(file) \in Nat
      /\ \A i \in 1 .. Len(loop) : min_vaddr(file) <= loop[i].v_address
  BY LowestIs
<1>9. \A h \in LoadHeaders(file) : \A i \in 0 .. h.mem_size - 1 :
          /\ h.v_address - L + i \in DOMAIN image
          /\ image[h.v_address - L + i] = IF i < h.file_size THEN h.offset + i ELSE Zero
  BY <1>0 DEF IsImageOf
<1>10. \A a \in DOMAIN image : Over(a) = {} => image[a] = Unwritten
  BY DEF CopiedImage
<1>. HIDE DEF n, hs, loop, L, image
<1>11. min_vaddr(file) = 0
  <2>1. loop[gap] = EmptyHeader /\ gap \in 1 .. Len(loop)
    BY <1>1, <1>6
  <2>. QED  BY <1>7, <1>8, <2>1
<1>12. \A i \in 1 .. n : Segment(file, loop[i]) =
          IF i \in Loads(file) THEN Addresses(hs[i]) ELSE {}
  <2>1. ASSUME NEW i \in 1 .. n, i \in Loads(file)
        PROVE  Segment(file, loop[i]) = Addresses(hs[i])
    BY <1>3, <1>6, <1>11, <2>1 DEF Segment, RelativeAddress, Addresses
  <2>2. ASSUME NEW i \in 1 .. n, i \notin Loads(file)
        PROVE  Segment(file, loop[i]) = {}
    BY <1>6, <1>7, <1>11, <2>2 DEF Segment, RelativeAddress
  <2>. QED  BY <2>1, <2>2
(* No cell of a segment that is written has the content that is wanted of   *)
(* the first cell of another, or of one that is left out.                   *)
<1>13. ASSUME NEW k \in Loads(file), Over(hs[k].v_address - L) = {}  PROVE FALSE
  <2>1. hs[k] \in LoadHeaders(file) /\ 0 \in 0 .. hs[k].mem_size - 1
    <3>1. hs[k].mem_size \in Nat /\ hs[k].mem_size >= 1
      BY <1>3, <1>4
    <3>. QED  BY <1>3, <3>1
  <2>2. PICK v \in Nat, o \in Nat : v = hs[k].v_address /\ o = hs[k].offset
    BY <1>3
  <2>3. /\ v - L + 0 \in DOMAIN image
        /\ image[v - L + 0] = IF 0 < hs[k].file_size THEN o + 0 ELSE Zero
    BY <1>9, <2>1, <2>2
  <2>4. v - L + 0 = v - L /\ o + 0 \in Nat
    BY <1>5, <2>2
  <2>5. image[v - L] = Unwritten
    BY <1>10, <1>13, <2>2, <2>3, <2>4
  <2>. QED  BY <2>3, <2>4, <2>5 DEF Unwritten, Zero
<1>14. CASE L = 0
  <2>1. Over(hs[out].v_address - L) = {}
    <3>1. SUFFICES ASSUME NEW i \in 1 .. n, hs[out].v_address - L \in Segment(file, loop[i])
                   PROVE  FALSE
      BY <1>6
    <3>2. i \in Loads(file) /\ hs[out].v_address - L \in Addresses(hs[i])
      BY <1>12, <3>1
    <3>3. hs[out].v_address \in Nat /\ hs[out].mem_size \in Nat /\ hs[out].mem_size >= 1
      BY <1>3, <1>4
    <3>4. hs[out].v_address - L = hs[out].v_address
      BY <1>14, <3>3
    <3>5. hs[out].v_address \in Addresses(hs[out])
      BY <3>3 DEF Addresses
    <3>6. i # out
      BY <1>2, <1>3
    <3>. QED  BY <1>4, <3>2, <3>4, <3>5, <3>6
  <2>. QED  BY <1>13, <2>1
<1>15. CASE L # 0
  <2>1. PICK low \in Loads(file) : L = hs[low].v_address
    BY <1>5
  <2>2. hs[low].v_address - L = 0
    BY <1>5, <2>1
  <2>3. Over(0) = {}
    <3>1. SUFFICES ASSUME NEW i \in 1 .. n, 0 \in Segment(file, loop[i])
                   PROVE  FALSE
      BY <1>6
    <3>2. i \in Loads(file) /\ 0 \in Addresses(hs[i])
      BY <1>12, <3>1
    <3>3. hs[i].v_address \in Nat /\ hs[i].mem_size \in Nat /\ L <= hs[i].v_address
      BY <1>3, <1>5, <3>2
    <3>. QED  BY <1>5, <1>15, <3>2, <3>3 DEF Addresses
  <2>. QED  BY <1>13, <2>2, <2>3
<1>. QED  BY <1>14, <1>15

LEMMA NoImageWithALineEnd ==
    ASSUME NEW file \in FileRecords, IsTidy(file), LoadHeadersComeFirst(file),
           LineEndIsContent(file)
    PROVE  ~ IsImageOf(CopiedImage(file), file)
<1>. DEFINE hs == file.headers  L == LowestAddress(file)  image == CopiedImage(file)
<1>1. SUFFICES ASSUME IsImageOf(image, file)  PROVE FALSE
  OBVIOUS
<1>2. /\ LoadHeaders(file) = {hs[i] : i \in Loads(file)}
      /\ \A i \in Loads(file) :
            /\ hs[i].v_address \in Nat /\ hs[i].offset \in Nat
            /\ hs[i].mem_size \in Nat /\ hs[i].file_size \in Nat
  BY LoadsAre
<1>3. \A i \in Loads(file) :
          hs[i].file_size <= hs[i].mem_size /\ hs[i].offset + hs[i].file_size <= file.size
  BY TidyFiles
<1>4. PICK k \in Loads(file) :
          TrimmedCells(file) \cap (hs[k].offset .. hs[k].offset + hs[k].file_size - 1) # {}
  BY <1>2 DEF LineEndIsContent
<1>5. PICK x \in TrimmedCells(file) : x \in hs[k].offset .. hs[k].offset + hs[k].file_size - 1
  BY <1>4
<1>6. PICK o \in Nat, z \in Nat, f \in Nat :
          o = hs[k].offset /\ z = hs[k].mem_size /\ f = hs[k].file_size
  BY <1>2
<1>7. file.size \in Nat
  BY DEF FileRecords
<1>8. x \in o .. o + f - 1 /\ f <= z /\ o + f <= file.size
  BY <1>3, <1>5, <1>6
<1>9. PICK c \in 0 .. z - 1 : c < f /\ o + c = x /\ x \in 0 .. file.size - 1 /\ x \in Nat
  <2>1. x - o \in 0 .. z - 1 /\ x - o < f /\ o + (x - o) = x
        /\ x \in 0 .. file.size - 1 /\ x \in Nat
    BY <1>6, <1>7, <1>8
  <2>. QED  BY <2>1
<1>10. c \in 0 .. hs[k].mem_size - 1
  BY <1>6, <1>9
<1>11. image[hs[k].v_address - L + c] = FileData(file)[x]
  BY <1>6, <1>9, <1>10, CellsOfASegment
<1>12. image[hs[k].v_address - L + c] = x
  <2>1. hs[k] \in LoadHeaders(file)
    BY <1>2
  <2>2. image[hs[k].v_address - L + c] = IF c < hs[k].file_size THEN hs[k].offset + c ELSE Zero
    BY <1>1, <1>10, <2>1 DEF IsImageOf
  <2>. QED  BY <1>6, <1>9, <2>2
<1>. QED  BY <1>5, <1>9, <1>11, <1>12, ContentIs

LEMMA ImageOtherwise ==
    ASSUME NEW file \in FileRecords, IsTidy(file), LoadHeadersComeFirst(file),
           ~ LineEndIsContent(file)
    PROVE  /\ IsImageOf(CopiedImage(file), file)
           /\ RelativeAddress(file, file.entry) \in DOMAIN CopiedImage(file)
<1>. DEFINE hs == file.headers  L == LowestAddress(file)  image == CopiedImage(file)
<1>1. /\ LoadHeaders(file) = {hs[i] : i \in Loads(file)}
      /\ \A i \in Loads(file) :
            /\ hs[i].v_address \in Nat /\ hs[i].offset \in Nat
            /\ hs[i].mem_size \in Nat /\ hs[i].file_size \in Nat
  BY LoadsAre
<1>2. \A i \in Loads(file) : hs[i].offset + hs[i].file_size <= file.size
  BY TidyFiles
<1>3. file.size \in Nat
  BY DEF FileRecords
<1>4. ASSUME NEW k \in Loads(file), NEW c \in 0 .. hs[k].mem_size - 1
      PROVE  /\ hs[k].v_address - L + c \in DOMAIN image
             /\ image[hs[k].v_address - L + c] =
                   IF c < hs[k].file_size THEN hs[k].offset + c ELSE Zero
  <2>1. /\ hs[k].v_address - L + c \in DOMAIN image
        /\ image[hs[k].v_address - L + c] =
              IF c < hs[k].file_size THEN FileData(file)[hs[k].offset + c] ELSE Zero
    BY CellsOfASegment
  <2>2. CASE c < hs[k].file_size
    <3>1. PICK o \in Nat, f \in Nat : o = hs[k].offset /\ f = hs[k].file_size
      BY <1>1
    <3>2. c \in Nat
      OBVIOUS
    <3>3. c < f /\ o + f <= file.size
      BY <1>2, <2>2, <3>1
    <3>4. o + c \in 0 .. file.size - 1 /\ o + c \in o .. o + f - 1
      BY <1>3, <3>1, <3>2, <3>3
    <3>5. o + c \notin TrimmedCells(file)
      <4>1. hs[k] \in LoadHeaders(file)
        BY <1>1
      <4>. QED  BY <3>1, <3>4, <4>1 DEF LineEndIsContent
    <3>6. FileData(file)[o + c] = o + c
      BY <3>4, <3>5, ContentIs
    <3>. QED  BY <2>1, <2>2, <3>1, <3>6
  <2>3. CASE ~ (c < hs[k].file_size)
    BY <2>1, <2>3
  <2>. QED  BY <2>2, <2>3
<1>5. IsImageOf(image, file)
  BY <1>1, <1>4 DEF IsImageOf
<1>6. PICK k \in Loads(file) : file.entry \in Addresses(hs[k])
  BY TidyFiles
<1>7. L \in Nat /\ min_vaddr(file) = L
  BY <1>6, LowestInFront, LowestLoadIs
<1>8. PICK v \in Nat, z \in Nat : v = hs[k].v_address /\ z = hs[k].mem_size
  BY <1>1
<1>9. file.entry \in v .. v + z - 1
  BY <1>6, <1>8 DEF Addresses
<1>. HIDE DEF L, hs, image
<1>10. PICK c \in 0 .. z - 1 : file.entry - L = v - L + c
  <2>1. file.entry - v \in 0 .. z - 1 /\ file.entry - L = v - L + (file.entry - v)
    BY <1>7, <1>8, <1>9
  <2>. QED  BY <2>1
<1>11. RelativeAddress(file, file.entry) = v - L + c
  BY <1>7, <1>10 DEF RelativeAddress
<1>12. v - L + c \in DOMAIN image
  BY <1>4, <1>8, <1>10
<1>. QED  BY <1>5, <1>11, <1>12 DEF image

-----------------------------------------------------------------------------
(* The inductive invariant *)

Places ==
    {"InitProtocols", "Autorun", "Prompt", "ReadFile", "Measure", "Allocate", "Load",
     "Called", "GetMemoryLayout", "GetFramebufferInfo", "ExitBootServices", "Ready",
     "Panic"}

Outcomes ==
    {NoProgram.result} \cup
    {elfloader_read(file, hasBase, space) :
        file \in Files, hasBase \in BOOLEAN, space \in Nat}

Programs ==
    [file : Files \cup {NoFile}, data : MemPages \cup {NULL}, size : Nat,
     base : MemPages \cup {NULL}, result : Outcomes]

TypeOK ==
    /\ mem \in [MemPages -> MemoryTypes]
    /\ listing \in MemPages /\ spare \in Spares /\ events \in Nat
    /\ Size \in Nat /\ keyCurrent \in BOOLEAN
    /\ updating \in {"No", "First", "Pool", "Second"}
    /\ at \in Places
    /\ program \in Programs

(* The map as it is, and what it is in the tables.                          *)
FinalMap == Descriptors(mem)
FinalTables == Filled(EmptyLayout, FinalMap)

(* The tables are empty from the first GetMemoryMap to the second. With the *)
(* key of the map as it is, they are those of that map or empty, and Size   *)
(* is its length: what a firmware that wants more than it returns finds too *)
(* small at the next update.                                                *)
MapInv ==
    /\ updating \in {"Pool", "Second"} => Layout = EmptyLayout
    /\ keyCurrent /\ at # "Panic" =>
          /\ \/ Layout = EmptyLayout
             \/ Layout = FinalTables /\ ~ TooManyRegions(FinalTables)
          /\ updating \in {"No", "First"} => Size = Len(FinalMap)
    /\ events = 0 =>
          /\ (\/ at = "GetMemoryLayout" /\ updating = "No"
              \/ at = "GetFramebufferInfo"
              \/ at = "ExitBootServices" /\ updating \in {"First", "No"}) => keyCurrent
          /\ at \in {"ExitBootServices", "Ready"} /\ updating = "No" /\ keyCurrent /\ spare # 0 =>
                Layout = FinalTables
    /\ at = "Ready" => keyCurrent
    /\ updating # "No" => at \in {"Autorun", "GetMemoryLayout", "ExitBootServices"}

(* The pages of the image are the program's own from AllocatePageBoundary   *)
(* on, and its image is what the second elfloader_read made of its file.    *)
ProgramInv ==
    /\ at \in {"ReadFile", "Measure"} => program.file \in Files /\ program.base = NULL
    /\ at \in {"Allocate", "Load", "Called"} \/ KernelRuns =>
          program.file \in Files /\ program.size = memory_size(program.file)
    /\ at = "Allocate" => program.base = NULL
    /\ (at \in {"Load", "Called"} \/ KernelRuns) /\ program.base # NULL =>
              \A page \in ImagePages(program.base, program.size) :
                  page \in MemPages /\ mem[page] = "LoaderCode"
    /\ at = "Called" \/ KernelRuns =>
          /\ program.result =
                elfloader_read(program.file, program.base # NULL, program.size)
          /\ program.result.error = "None"
    /\ KernelRuns => program.base # NULL

IInv == TypeOK /\ MapInv /\ ProgramInv

LEMMA MapType ==
    ASSUME TypeOK
    PROVE  FinalMap \in Seq(MapEntries) /\ Len(FinalMap) \in Nat /\ spare \in Nat
<1>1. mem \in [MemPages -> MemoryTypes] /\ listing \in MemPages /\ spare \in Nat
  BY BootLoaderAssumption DEF TypeOK
<1>2. FinalMap \in Seq(MapEntries)
  BY <1>1, MapIsOfStretches DEF FinalMap
<1>. QED  BY <1>1, <1>2

LEMMA MapStays ==
    ASSUME UNCHANGED <<mem, listing>>
    PROVE  FinalMap' = FinalMap /\ FinalTables' = FinalTables
<1>1. FinalMap' = FinalMap
  BY DEF FinalMap, Descriptors
<1>. QED  BY <1>1 DEF FinalTables

LEMMA InitIInv == Init => IInv
<1>1. SUFFICES ASSUME Init  PROVE IInv
  OBVIOUS
<1>2. TypeOK
  <2>1. mem \in [MemPages -> MemoryTypes]
    BY <1>1, BootLoaderAssumption DEF Init, MemPages
  <2>2. program \in Programs
    <3>1. NoFile \in Files \cup {NoFile} /\ NULL \in MemPages \cup {NULL} /\ 0 \in Nat
      OBVIOUS
    <3>2. NoProgram.result \in Outcomes
      BY DEF Outcomes
    <3>. QED  BY <1>1, <3>1, <3>2 DEF Init, NoProgram, Programs
  <2>. QED  BY <1>1, <2>1, <2>2 DEF Init, TypeOK, Places
<1>3. MapInv
  BY <1>1 DEF Init, MapInv
<1>4. ProgramInv
  BY <1>1 DEF Init, ProgramInv, KernelRuns
<1>. QED  BY <1>2, <1>3, <1>4 DEF IInv

-----------------------------------------------------------------------------
(* UpdateMemoryMap keeps the invariant. *)

LEMMA FirstGetMemoryMapKeeps ==
    ASSUME IInv, FirstGetMemoryMap
    PROVE  IInv'
<1>. USE DEF IInv, FirstGetMemoryMap, firmware
<1>0. FinalMap' = FinalMap /\ FinalTables' = FinalTables
  BY MapStays
<1>1. FinalMap \in Seq(MapEntries) /\ Len(FinalMap) \in Nat /\ spare \in Nat
  BY MapType
<1>2. Wanted(mem) = Len(FinalMap) + spare
  BY DEF Wanted, FinalMap
<1>3. TypeOK'
  <2>1. Size' = Wanted(mem) + 2 \/ Size' = Len(FinalMap)
    BY DEF FinalMap
  <2>2. Size' \in Nat
    BY <1>1, <1>2, <2>1
  <2>3. keyCurrent' \in BOOLEAN
    BY DEF TypeOK
  <2>. QED  BY <2>2, <2>3 DEF TypeOK
<1>4. MapInv'
  <2>1. Layout' = EmptyLayout /\ updating = "First"
    BY DEF ClearedLayout
  <2>2. CASE Size < Wanted(mem)
    BY <1>0, <2>1, <2>2 DEF MapInv
  <2>3. CASE ~ (Size < Wanted(mem))
    <3>1. Size' = Len(FinalMap) /\ keyCurrent' /\ updating' = "No" /\ UNCHANGED <<at, spare, events>>
      BY <2>3 DEF FinalMap
    <3>2. (keyCurrent /\ at # "Panic") => spare = 0
      BY <1>1, <1>2, <2>1, <2>3 DEF MapInv, TypeOK
    <3>3. events = 0 /\ at = "ExitBootServices" => keyCurrent
      BY <2>1 DEF MapInv
    <3>. QED  BY <1>0, <2>1, <3>1, <3>2, <3>3 DEF MapInv
  <2>. QED  BY <2>2, <2>3
<1>5. ProgramInv'
  BY DEF ProgramInv, KernelRuns
<1>. QED  BY <1>3, <1>4, <1>5

(* AllocatePool turns free pages into the loader's data, and no others.     *)
LEMMA PoolIsOfFreePages ==
    ASSUME TypeOK, NEW page \in MemPages \cup {NULL}, PoolTakes(page)
    PROVE  /\ mem' \in [MemPages -> MemoryTypes] /\ keyCurrent' \in BOOLEAN
           /\ \A p \in MemPages : mem[p] = "LoaderCode" => mem'[p] = "LoaderCode"
           /\ UNCHANGED <<mem, keyCurrent>> \/ ~ keyCurrent'
<1>1. CASE page = NULL /\ UNCHANGED <<mem, keyCurrent>>
  BY <1>1 DEF TypeOK
<1>2. CASE /\ page \in MemPages /\ mem[page] = "Conventional"
           /\ mem' = [mem EXCEPT ![page] = "LoaderData"]
           /\ keyCurrent' = FALSE
  <2>1. mem \in [MemPages -> MemoryTypes]
    BY DEF TypeOK
  <2>2. mem' \in [MemPages -> MemoryTypes]
    <3>1. mem' = [mem EXCEPT ![page] = "LoaderData"]
      BY <1>2
    <3>2. "LoaderData" \in MemoryTypes
      BY DEF MemoryTypes
    <3>. QED  BY <2>1, <3>1, <3>2
  <2>3. ASSUME NEW p \in MemPages, mem[p] = "LoaderCode"  PROVE mem'[p] = "LoaderCode"
    <3>1. p # page
      BY <1>2, <2>3
    <3>. QED  BY <1>2, <2>1, <2>3, <3>1
  <2>4. keyCurrent' \in BOOLEAN /\ ~ keyCurrent'
    BY <1>2
  <2>. QED  BY <2>2, <2>3, <2>4
<1>. QED  BY <1>1, <1>2 DEF PoolTakes

LEMMA AllocateMapBufferKeeps ==
    ASSUME IInv, AllocateMapBuffer
    PROVE  IInv'
<1>. USE DEF IInv, AllocateMapBuffer
<1>1. CASE \E page \in MemPages \cup {NULL} : PoolTakes(page) /\ updating' = "Second" /\ UNCHANGED at
  <2>1. PICK page \in MemPages \cup {NULL} : PoolTakes(page) /\ updating' = "Second" /\ UNCHANGED at
    BY <1>1
  <2>2. /\ mem' \in [MemPages -> MemoryTypes] /\ keyCurrent' \in BOOLEAN
        /\ \A p \in MemPages : mem[p] = "LoaderCode" => mem'[p] = "LoaderCode"
        /\ UNCHANGED <<mem, keyCurrent>> \/ ~ keyCurrent'
    BY <2>1, PoolIsOfFreePages
  <2>3. TypeOK'
    BY <2>1, <2>2 DEF TypeOK
  <2>4. MapInv'
    BY <2>1 DEF MapInv
  <2>5. ProgramInv'
    BY <2>1, <2>2 DEF ProgramInv, KernelRuns
  <2>. QED  BY <2>3, <2>4, <2>5
<1>2. CASE PoolFails /\ Panic
  <2>. USE <1>2 DEF PoolFails, Panic
  <2>1. TypeOK'
    BY DEF TypeOK, Places
  <2>2. MapInv'
    BY DEF MapInv
  <2>3. ProgramInv'
    BY DEF ProgramInv, KernelRuns
  <2>. QED  BY <2>1, <2>2, <2>3
<1>. QED  BY <1>1, <1>2

LEMMA SecondGetMemoryMapKeeps ==
    ASSUME IInv, SecondGetMemoryMap
    PROVE  IInv'
<1>. USE DEF IInv, SecondGetMemoryMap, firmware
<1>0. FinalMap' = FinalMap /\ FinalTables' = FinalTables
  BY MapStays
<1>1. FinalMap \in Seq(MapEntries) /\ Len(FinalMap) \in Nat /\ spare \in Nat
  BY MapType
<1>2. Wanted(mem) = Len(FinalMap) + spare
  BY DEF Wanted, FinalMap
<1>3. TypeOK'
  <2>1. Size' = Wanted(mem) \/ Size' = Len(FinalMap)
    BY DEF FinalMap
  <2>2. Size' \in Nat
    BY <1>1, <1>2, <2>1
  <2>3. keyCurrent' \in BOOLEAN
    BY DEF TypeOK
  <2>4. at' \in Places /\ updating' = "No"
    BY DEF TypeOK, Panic, Places
  <2>. QED  BY <2>2, <2>3, <2>4 DEF TypeOK
<1>4. MapInv'
  <2>1. Layout = EmptyLayout /\ updating = "Second"
    BY DEF MapInv
  <2>2. CASE Panic
    BY <2>2 DEF Panic, MapInv
  <2>3. CASE ~ Panic
    <3>1. /\ Layout' = FinalTables /\ ~ TooManyRegions(FinalTables)
          /\ Size' = Len(FinalMap) /\ keyCurrent' /\ updating' = "No" /\ UNCHANGED <<at, spare, events>>
      BY <2>1, <2>3 DEF FinalMap, FinalTables
    <3>. QED  BY <1>0, <2>1, <3>1 DEF MapInv
  <2>. QED  BY <2>2, <2>3
<1>5. ProgramInv'
  <2>1. UNCHANGED <<mem, program>> /\ (at' = "Panic" \/ UNCHANGED at)
    BY DEF Panic
  <2>. QED  BY <2>1 DEF ProgramInv, KernelRuns
<1>. QED  BY <1>3, <1>4, <1>5

-----------------------------------------------------------------------------
(* The firmware, the loader and the kernel keep it. *)

LEMMA FirmwareEventKeeps ==
    ASSUME IInv, FirmwareEvent
    PROVE  IInv'
<1>. USE DEF IInv, FirmwareEvent
<1>1. PICK page \in MemPages :
          /\ mem[page] \in {"Conventional", "BootServices"}
          /\ mem' = [mem EXCEPT ![page] =
                        IF @ = "Conventional" THEN "BootServices" ELSE "Conventional"]
  OBVIOUS
<1>2. mem \in [MemPages -> MemoryTypes] /\ events \in Nat
  BY DEF TypeOK
<1>3. mem' \in [MemPages -> MemoryTypes]
  <2>1. {"Conventional", "BootServices"} \subseteq MemoryTypes
    BY DEF MemoryTypes
  <2>. QED  BY <1>1, <1>2, <2>1
<1>4. ASSUME NEW p \in MemPages, mem[p] = "LoaderCode"  PROVE mem'[p] = "LoaderCode"
  <2>1. p # page
    BY <1>1, <1>4
  <2>. QED  BY <1>1, <1>2, <1>4, <2>1
<1>5. TypeOK'
  <2>1. events' \in Nat
    BY <1>2
  <2>2. keyCurrent' \in BOOLEAN
    OBVIOUS
  <2>. QED  BY <1>3, <2>1, <2>2 DEF TypeOK
<1>6. MapInv'
  <2>1. events' # 0 /\ keyCurrent' = FALSE
    BY <1>2
  <2>. QED  BY <2>1 DEF MapInv
<1>7. ProgramInv'
  BY <1>4 DEF ProgramInv, KernelRuns
<1>. QED  BY <1>5, <1>6, <1>7

(* Steps that leave the firmware and the program alone.                     *)
LEMMA InitProtocolsKeeps ==
    ASSUME IInv, InitProtocols
    PROVE  IInv'
<1>. USE DEF IInv, InitProtocols, firmware, Panic
<1>0. FinalMap' = FinalMap /\ FinalTables' = FinalTables
  BY MapStays
<1>1. TypeOK'
  BY DEF TypeOK, Places
<1>2. MapInv'
  BY <1>0 DEF MapInv
<1>3. ProgramInv'
  BY DEF ProgramInv, KernelRuns
<1>. QED  BY <1>1, <1>2, <1>3

LEMMA GetFramebufferInfoKeeps ==
    ASSUME IInv, GetFramebufferInfo
    PROVE  IInv'
<1>. USE DEF IInv, GetFramebufferInfo, firmware, Panic
<1>0. FinalMap' = FinalMap /\ FinalTables' = FinalTables
  BY MapStays
<1>1. TypeOK'
  BY DEF TypeOK, Places
<1>2. MapInv'
  BY <1>0 DEF MapInv
<1>3. ProgramInv'
  BY DEF ProgramInv, KernelRuns
<1>. QED  BY <1>1, <1>2, <1>3

LEMMA ExitUEFIModeKeeps ==
    ASSUME IInv, ExitUEFIMode
    PROVE  IInv'
<1>. USE DEF IInv, ExitUEFIMode, firmware
<1>0. FinalMap' = FinalMap /\ FinalTables' = FinalTables
  BY MapStays
<1>1. TypeOK'
  BY DEF TypeOK, Places
<1>2. MapInv'
  BY <1>0 DEF MapInv
<1>3. ProgramInv'
  BY DEF ProgramInv, KernelRuns
<1>. QED  BY <1>1, <1>2, <1>3

LEMMA ExitBootServicesKeeps ==
    ASSUME IInv, ExitBootServices
    PROVE  IInv'
<1>. USE DEF IInv, ExitBootServices, firmware, Panic
<1>0. FinalMap' = FinalMap /\ FinalTables' = FinalTables
  BY MapStays
<1>1. TypeOK'
  BY DEF TypeOK, Places
<1>2. MapInv'
  BY <1>0 DEF MapInv
<1>3. ProgramInv'
  BY DEF ProgramInv, KernelRuns
<1>. QED  BY <1>1, <1>2, <1>3

(* A step of the loader between two updates.                                *)
LEMMA LoaderStepsKeepTheMap ==
    ASSUME MapInv, updating = "No", updating' = "No",
           at' \in {"Prompt", "ReadFile", "Measure", "Allocate", "Load", "Called"},
           UNCHANGED <<listing, spare, events, Size, Layout>>, at # "Panic",
           UNCHANGED <<mem, keyCurrent>> \/ ~ keyCurrent'
    PROVE  MapInv'
<1>1. CASE UNCHANGED <<mem, keyCurrent>>
  <2>1. FinalMap' = FinalMap /\ FinalTables' = FinalTables
    BY <1>1, MapStays
  <2>. QED  BY <1>1, <2>1 DEF MapInv
<1>2. CASE ~ keyCurrent'
  BY <1>2 DEF MapInv
<1>. QED  BY <1>1, <1>2

LEMMA PanicKeeps ==
    ASSUME IInv, Panic, UNCHANGED <<listing, spare, events, Size, Layout, mem, keyCurrent, program>>
    PROVE  IInv'
<1>. USE DEF IInv, Panic
<1>1. TypeOK'
  BY DEF TypeOK, Places
<1>2. MapInv'
  BY DEF MapInv
<1>3. ProgramInv'
  BY DEF ProgramInv, KernelRuns
<1>. QED  BY <1>1, <1>2, <1>3

LEMMA NoProgramIsOne == NoProgram \in Programs
<1>1. NoFile \in Files \cup {NoFile} /\ NULL \in MemPages \cup {NULL} /\ 0 \in Nat
  OBVIOUS
<1>2. NoProgram.result \in Outcomes
  BY DEF Outcomes
<1>. QED  BY <1>1, <1>2 DEF NoProgram, Programs

LEMMA AutorunKeeps ==
    ASSUME IInv, Autorun
    PROVE  IInv'
<1>. USE DEF IInv, Autorun
<1>1. CASE \E page \in MemPages \cup {NULL} : PoolTakes(page) /\ at' = "Prompt" /\ UNCHANGED updating
  <2>1. PICK page \in MemPages \cup {NULL} : PoolTakes(page) /\ at' = "Prompt" /\ UNCHANGED updating
    BY <1>1
  <2>2. /\ mem' \in [MemPages -> MemoryTypes] /\ keyCurrent' \in BOOLEAN
        /\ UNCHANGED <<mem, keyCurrent>> \/ ~ keyCurrent'
    BY <2>1, PoolIsOfFreePages
  <2>3. TypeOK'
    BY <2>1, <2>2 DEF TypeOK, Places
  <2>4. MapInv'
    BY <2>1, <2>2, LoaderStepsKeepTheMap
  <2>5. ProgramInv'
    BY <2>1 DEF ProgramInv, KernelRuns
  <2>. QED  BY <2>3, <2>4, <2>5
<1>2. CASE PoolFails /\ Panic
  BY <1>2, PanicKeeps DEF PoolFails
<1>. QED  BY <1>1, <1>2

LEMMA EnterLineKeeps ==
    ASSUME IInv, EnterLine
    PROVE  IInv'
<1>. USE DEF IInv, EnterLine
<1>1. PICK file \in Files : GetFile(file)
  OBVIOUS
<1>2. CASE /\ \E page \in MemPages \cup {NULL} : PoolTakes(page)
           /\ program' = [NoProgram EXCEPT !.file = file]
           /\ at' = "ReadFile"
           /\ UNCHANGED updating
  <2>1. PICK page \in MemPages \cup {NULL} : PoolTakes(page)
    BY <1>2
  <2>2. /\ mem' \in [MemPages -> MemoryTypes] /\ keyCurrent' \in BOOLEAN
        /\ UNCHANGED <<mem, keyCurrent>> \/ ~ keyCurrent'
    BY <2>1, PoolIsOfFreePages
  <2>3. program' \in Programs /\ program'.file = file /\ program'.base = NULL
    BY <1>2, NoProgramIsOne DEF Programs, NoProgram
  <2>4. TypeOK'
    BY <1>2, <2>2, <2>3 DEF TypeOK, Places
  <2>5. MapInv'
    BY <1>2, <2>2, LoaderStepsKeepTheMap
  <2>6. ProgramInv'
    BY <1>2, <2>3 DEF ProgramInv, KernelRuns
  <2>. QED  BY <2>4, <2>5, <2>6
<1>3. CASE PoolFails /\ Panic /\ UNCHANGED program
  BY <1>3, PanicKeeps DEF PoolFails
<1>. QED  BY <1>1, <1>2, <1>3 DEF GetFile

LEMMA ReadFileKeeps ==
    ASSUME IInv, ReadFile
    PROVE  IInv'
<1>. USE DEF IInv, ReadFile
<1>0. updating = "No" /\ program \in Programs
  BY DEF MapInv, TypeOK
<1>1. CASE \E page \in MemPages \cup {NULL} :
              /\ PoolTakes(page)
              /\ program' = [program EXCEPT !.data = page]
              /\ at' = "Measure"
              /\ UNCHANGED updating
  <2>1. PICK page \in MemPages \cup {NULL} :
              /\ PoolTakes(page)
              /\ program' = [program EXCEPT !.data = page]
              /\ at' = "Measure"
              /\ UNCHANGED updating
    BY <1>1
  <2>2. /\ mem' \in [MemPages -> MemoryTypes] /\ keyCurrent' \in BOOLEAN
        /\ UNCHANGED <<mem, keyCurrent>> \/ ~ keyCurrent'
    BY <2>1, PoolIsOfFreePages
  <2>3. /\ program' \in Programs
        /\ program'.file = program.file /\ program'.base = program.base
    BY <1>0, <2>1 DEF Programs
  <2>4. TypeOK'
    BY <2>1, <2>2, <2>3 DEF TypeOK, Places
  <2>5. MapInv'
    BY <1>0, <2>1, <2>2, LoaderStepsKeepTheMap
  <2>6. ProgramInv'
    BY <2>1, <2>3 DEF ProgramInv, KernelRuns
  <2>. QED  BY <2>4, <2>5, <2>6
<1>2. CASE at' = "Prompt" /\ program' = NoProgram /\ UNCHANGED <<mem, keyCurrent, updating>>
  <2>1. TypeOK'
    BY <1>2, NoProgramIsOne DEF TypeOK, Places
  <2>2. MapInv'
    BY <1>0, <1>2, LoaderStepsKeepTheMap
  <2>3. ProgramInv'
    BY <1>2 DEF ProgramInv, KernelRuns
  <2>. QED  BY <2>1, <2>2, <2>3
<1>3. CASE PoolFails /\ Panic /\ UNCHANGED program
  BY <1>3, PanicKeeps DEF PoolFails
<1>. QED  BY <1>1, <1>2, <1>3

LEMMA MeasureKeeps ==
    ASSUME IInv, Measure
    PROVE  IInv'
<1>. USE DEF IInv, Measure, firmware
<1>0. updating = "No" /\ program \in Programs /\ program.file \in Files /\ program.base = NULL
  BY DEF MapInv, TypeOK, ProgramInv
<1>. DEFINE result == elfloader_read(program.file, FALSE, 0)
<1>1. CASE result.error # "None"
  <2>1. at' = "Prompt" /\ program' = NoProgram
    BY <1>1
  <2>2. TypeOK'
    BY <2>1, NoProgramIsOne DEF TypeOK, Places
  <2>3. MapInv'
    BY <1>0, <2>1, LoaderStepsKeepTheMap
  <2>4. ProgramInv'
    BY <2>1 DEF ProgramInv, KernelRuns
  <2>. QED  BY <2>2, <2>3, <2>4
<1>2. CASE result.error = "None"
  <2>1. at' = "Allocate" /\ program' = [program EXCEPT !.size = result.memory_size]
    BY <1>2
  <2>2. result.memory_size = memory_size(program.file)
    <3>. DEFINE file == program.file  has == FALSE
    <3>1. result = elfloader_read(file, has, 0)
      OBVIOUS
    <3>. HIDE DEF file, has, result
    <3>2. elfloader_read(file, has, 0).error = "None"
      BY <1>2, <3>1
    <3>3. elfloader_read(file, has, 0).memory_size = memory_size(file)
      BY <3>2, ReaderSucceeds
    <3>. QED  BY <3>1, <3>3 DEF file
  <2>3. memory_size(program.file) \in Nat
    BY <1>0, BootLoaderAssumption, SizeIs
  <2>. HIDE DEF result
  <2>4. /\ program' \in Programs /\ program'.size = memory_size(program.file)
        /\ program'.file = program.file /\ program'.base = NULL
    BY <1>0, <2>1, <2>2, <2>3 DEF Programs
  <2>5. TypeOK'
    BY <2>1, <2>4 DEF TypeOK, Places
  <2>6. MapInv'
    BY <1>0, <2>1, LoaderStepsKeepTheMap
  <2>7. ProgramInv'
    BY <1>0, <2>1, <2>4 DEF ProgramInv, KernelRuns
  <2>. QED  BY <2>5, <2>6, <2>7
<1>. QED  BY <1>1, <1>2

LEMMA AllocateImageKeeps ==
    ASSUME IInv, AllocateImage
    PROVE  IInv'
<1>. USE DEF IInv, AllocateImage
<1>0. /\ updating = "No" /\ program \in Programs /\ mem \in [MemPages -> MemoryTypes]
      /\ program.file \in Files /\ program.base = NULL
      /\ program.size = memory_size(program.file)
  BY DEF MapInv, TypeOK, ProgramInv
<1>1. CASE \E base \in MemPages :
              /\ \A page \in ImagePages(base, program.size) :
                    page \in MemPages /\ mem[page] = "Conventional"
              /\ mem' = [page \in MemPages |->
                            IF page \in ImagePages(base, program.size)
                            THEN "LoaderCode" ELSE mem[page]]
              /\ keyCurrent' = FALSE
              /\ program' = [program EXCEPT !.base = base]
  <2>1. PICK base \in MemPages :
              /\ \A page \in ImagePages(base, program.size) :
                    page \in MemPages /\ mem[page] = "Conventional"
              /\ mem' = [page \in MemPages |->
                            IF page \in ImagePages(base, program.size)
                            THEN "LoaderCode" ELSE mem[page]]
              /\ keyCurrent' = FALSE
              /\ program' = [program EXCEPT !.base = base]
    BY <1>1
  <2>2. mem' \in [MemPages -> MemoryTypes]
    <3>1. "LoaderCode" \in MemoryTypes
      BY DEF MemoryTypes
    <3>. QED  BY <1>0, <2>1, <3>1
  <2>3. /\ program' \in Programs /\ program'.size = program.size
        /\ program'.file = program.file /\ program'.base = base
    BY <1>0, <2>1 DEF Programs
  <2>4. TypeOK'
    <3>1. keyCurrent' \in BOOLEAN
      BY <2>1
    <3>. QED  BY <2>2, <2>3, <3>1 DEF TypeOK, Places
  <2>5. MapInv'
    BY <1>0, <2>1, LoaderStepsKeepTheMap
  <2>6. \A page \in ImagePages(program'.base, program'.size) :
            page \in MemPages /\ mem'[page] = "LoaderCode"
    BY <2>1, <2>3
  <2>7. ProgramInv'
    BY <1>0, <2>3, <2>6 DEF ProgramInv, KernelRuns
  <2>. QED  BY <2>4, <2>5, <2>7
<1>2. CASE UNCHANGED <<mem, keyCurrent, program>>
  <2>1. TypeOK'
    BY <1>2 DEF TypeOK, Places
  <2>2. MapInv'
    BY <1>0, <1>2, LoaderStepsKeepTheMap
  <2>3. ProgramInv'
    BY <1>0, <1>2 DEF ProgramInv, KernelRuns
  <2>. QED  BY <2>1, <2>2, <2>3
<1>. QED  BY <1>1, <1>2

LEMMA LoadElfKeeps ==
    ASSUME IInv, LoadElf
    PROVE  IInv'
<1>. USE DEF IInv, LoadElf, firmware
<1>. DEFINE result == elfloader_read(program.file, program.base # NULL, program.size)
<1>0. /\ updating = "No" /\ program \in Programs
      /\ program.file \in Files /\ program.size = memory_size(program.file)
  BY DEF MapInv, TypeOK, ProgramInv
<1>1. CASE result.error # "None"
  BY <1>1, PanicKeeps
<1>2. CASE result.error = "None"
  <2>1. /\ program' = [program EXCEPT !.result = result]
        /\ at' = IF program.file = Kernel /\ program.base # NULL
                 THEN "GetMemoryLayout" ELSE "Called"
        /\ updating' = IF at' = "Called" THEN "No" ELSE "First"
    BY <1>2
  <2>2. result \in Outcomes
    <3>1. program.size \in Nat /\ (program.base # NULL) \in BOOLEAN
      BY <1>0 DEF Programs
    <3>. DEFINE has == program.base # NULL
    <3>2. has \in BOOLEAN /\ result = elfloader_read(program.file, has, program.size)
      BY <3>1
    <3>. HIDE DEF has, result
    <3>3. \E file \in Files, hasBase \in BOOLEAN, space \in Nat :
              result = elfloader_read(file, hasBase, space)
      BY <1>0, <3>1, <3>2
    <3>. QED  BY <3>3 DEF Outcomes
  <2>3. result = elfloader_read(program.file, program.base # NULL, program.size)
    OBVIOUS
  <2>. HIDE DEF result
  <2>4. /\ program' \in Programs /\ program'.result = result /\ program'.size = program.size
        /\ program'.file = program.file /\ program'.base = program.base
    BY <1>0, <2>1, <2>2 DEF Programs
  <2>5. TypeOK'
    BY <2>1, <2>4 DEF TypeOK, Places
  <2>6. MapInv'
    <3>1. CASE at' = "Called"
      BY <1>0, <2>1, <3>1, LoaderStepsKeepTheMap
    <3>2. CASE at' = "GetMemoryLayout" /\ updating' = "First"
      <4>1. FinalMap' = FinalMap /\ FinalTables' = FinalTables
        BY MapStays
      <4>. QED  BY <1>0, <3>2, <4>1 DEF MapInv
    <3>. QED  BY <2>1, <3>1, <3>2
  <2>7. ProgramInv'
    <3>1. program'.result = elfloader_read(program'.file, program'.base # NULL, program'.size)
      BY <2>3, <2>4
    <3>2. program'.result.error = "None"
      BY <1>2, <2>4
    <3>3. program'.base # NULL => \A page \in ImagePages(program'.base, program'.size) :
                                      page \in MemPages /\ mem'[page] = "LoaderCode"
      BY <2>4 DEF ProgramInv
    <3>4. at' = "Called" \/ (at' = "GetMemoryLayout" /\ program'.base # NULL)
      BY <2>1, <2>4
    <3>. QED  BY <1>0, <2>4, <3>1, <3>2, <3>3, <3>4 DEF ProgramInv, KernelRuns
  <2>. QED  BY <2>5, <2>6, <2>7
<1>. QED  BY <1>1, <1>2

LEMMA ReturnKeeps ==
    ASSUME IInv, Return
    PROVE  IInv'
<1>. USE DEF IInv, Return
<1>0. updating = "No" /\ mem \in [MemPages -> MemoryTypes]
  BY DEF MapInv, TypeOK
<1>1. mem' \in [MemPages -> MemoryTypes]
  <2>1. "Conventional" \in MemoryTypes
    BY DEF MemoryTypes
  <2>. QED  BY <1>0, <2>1
<1>2. TypeOK'
  <2>1. keyCurrent' \in BOOLEAN
    OBVIOUS
  <2>. QED  BY <1>1, <2>1, NoProgramIsOne DEF TypeOK, Places
<1>3. MapInv'
  BY <1>0, LoaderStepsKeepTheMap
<1>4. ProgramInv'
  BY DEF ProgramInv, KernelRuns
<1>. QED  BY <1>2, <1>3, <1>4

LEMMA StepsKeepIInv == IInv /\ [Next]_vars => IInv'
<1>1. SUFFICES ASSUME IInv, [Next]_vars  PROVE IInv'
  OBVIOUS
<1>2. CASE UNCHANGED vars
  <2>1. FinalMap' = FinalMap /\ FinalTables' = FinalTables
    BY <1>2, MapStays DEF vars
  <2>2. TypeOK'
    BY <1>1, <1>2 DEF IInv, vars, TypeOK
  <2>3. MapInv'
    BY <1>1, <1>2, <2>1 DEF IInv, vars, MapInv
  <2>4. ProgramInv'
    BY <1>1, <1>2 DEF IInv, vars, ProgramInv, KernelRuns
  <2>. QED  BY <2>2, <2>3, <2>4 DEF IInv
<1>3. CASE UpdateMemoryMap
  BY <1>1, <1>3, FirstGetMemoryMapKeeps, AllocateMapBufferKeeps, SecondGetMemoryMapKeeps
     DEF UpdateMemoryMap
<1>4. CASE FirmwareEvent \/ InitProtocols \/ Autorun \/ EnterLine
  BY <1>1, <1>4, FirmwareEventKeeps, InitProtocolsKeeps, AutorunKeeps, EnterLineKeeps
<1>5. CASE ReadFile \/ Measure \/ AllocateImage \/ LoadElf \/ Return
  BY <1>1, <1>5, ReadFileKeeps, MeasureKeeps, AllocateImageKeeps, LoadElfKeeps, ReturnKeeps
<1>6. CASE GetFramebufferInfo \/ ExitUEFIMode \/ ExitBootServices
  BY <1>1, <1>6, GetFramebufferInfoKeeps, ExitUEFIModeKeeps, ExitBootServicesKeeps
<1>. QED  BY <1>1, <1>2, <1>3, <1>4, <1>5, <1>6 DEF Next

LEMMA BootInvariant == Spec => []IInv
BY InitIInv, StepsKeepIInv, PTL DEF Spec

(* What the tables are once the firmware is gone.                           *)
LEMMA TablesWhenReady ==
    ASSUME IInv, at = "Ready"
    PROVE  \/ Layout = FinalTables /\ ~ TooManyRegions(FinalTables)
           \/ Layout = EmptyLayout /\ (spare = 0 \/ events > 0)
<1>1. events \in Nat
  BY DEF IInv, TypeOK
<1>2. keyCurrent /\ updating = "No"
  BY DEF IInv, MapInv
<1>3. events > 0 \/ events = 0
  BY <1>1
<1>4. ~ TooManyRegions(EmptyLayout)
  BY BootLoaderAssumption, NothingIsEmpty DEF TooManyRegions
<1>5. \/ Layout = EmptyLayout
      \/ Layout = FinalTables /\ ~ TooManyRegions(FinalTables)
  BY <1>2 DEF IInv, MapInv
<1>6. events = 0 /\ spare # 0 => Layout = FinalTables
  BY <1>2 DEF IInv, MapInv
<1>. QED  BY <1>3, <1>4, <1>5, <1>6

LEMMA FreeRegionsAreFree ==
    ASSUME IInv, at = "Ready"
    PROVE  HoldsPagesOf(FreeRegions, mem, "Conventional")
<1>1. mem \in [MemPages -> MemoryTypes] /\ listing \in MemPages
  BY DEF IInv, TypeOK
<1>2. Tables[1] = "Conventional" /\ 1 \in 1 .. 4
  BY DEF Tables
<1>3. CASE Layout = FinalTables /\ ~ TooManyRegions(FinalTables)
  <2>1. ~ TooManyRegions(Filled(EmptyLayout, Descriptors(mem)))
    BY <1>3 DEF FinalTables, FinalMap
  <2>2. HoldsPagesOf(RegionsOf(Filled(EmptyLayout, Descriptors(mem)), 1), mem, Tables[1])
    BY <1>1, <1>2, <2>1, TablesHoldTheirPages
  <2>. QED  BY <1>2, <1>3, <2>2 DEF FreeRegions, FinalTables, FinalMap
<1>4. CASE Layout = EmptyLayout
  <2>1. HoldsPagesOf(RegionsOf(EmptyLayout, 1), mem, Tables[1])
    BY <1>2, NothingHoldsNothing
  <2>. QED  BY <1>2, <1>4, <2>1 DEF FreeRegions
<1>. QED  BY <1>3, <1>4, TablesWhenReady

LEMMA CellsAreOnItsPages ==
    ASSUME NEW size \in Nat, NEW cell \in 0 .. size - 1
    PROVE  cell \div PageCells \in 0 .. PagesOf(size) - 1
<1>1. PageCells \in Nat /\ PageCells >= 1
  BY BootLoaderAssumption
<1>. DEFINE q == cell \div PageCells  r == cell % PageCells
            u == size + PageCells - 1
            v == u \div PageCells  w == u % PageCells
<1>2. cell \in Nat /\ cell <= size - 1
  OBVIOUS
<1>3. q \in Nat /\ r \in Nat /\ r < PageCells /\ cell = PageCells * q + r
  BY <1>1, <1>2
<1>4. u \in Nat
  BY <1>1
<1>5. v \in Nat /\ w \in Nat /\ w < PageCells /\ u = PageCells * v + w
  BY <1>1, <1>4
<1>6. u >= cell + PageCells
  BY <1>1, <1>2
<1>. HIDE DEF q, r, v, w
<1>7. q < v
  <2>1. SUFFICES ASSUME v <= q  PROVE FALSE
    BY <1>3, <1>5
  <2>2. PageCells * v <= PageCells * q
    BY <1>1, <1>3, <1>5, <2>1
  <2>. QED  BY <1>1, <1>2, <1>3, <1>5, <1>6, <2>2
<1>. QED  BY <1>3, <1>5, <1>7 DEF PagesOf, q, v

-----------------------------------------------------------------------------
(* The theorems *)

(* Whatever the firmware does with memory while the loader works, and       *)
(* whichever programs were run before, the tables behind the pointer the    *)
(* kernel got from GetMemoryLayout are the last memory map, region by       *)
(* region and in its order, or empty - and these only without a spare       *)
(* descriptor or after a change of memory (UpdateMemoryMap and              *)
(* ExitUEFIMode, uefiboot_libc.c, lines 97-160).                            *)
THEOREM KernelSeesTheMapItLeaves == Spec => []KernelSeesTheFinalMap
<1>1. IInv => KernelSeesTheFinalMap
  <2>1. SUFFICES ASSUME IInv, at = "Ready"
                 PROVE  \/ \A t \in 1 .. 4 :
                              LET wanted == Those(Descriptors(mem),
                                                  {d \in Range(Descriptors(mem)) : d.Type = Tables[t]})
                              IN  RegionsOf(Layout, t) = [i \in DOMAIN wanted |-> wanted[i].Region]
                        \/ Layout = EmptyLayout /\ (spare = 0 \/ events > 0)
    BY DEF KernelSeesTheFinalMap
  <2>2. Descriptors(mem) \in Seq(MapEntries)
    BY <2>1, MapIsOfStretches DEF IInv, TypeOK
  <2>3. CASE Layout = FinalTables /\ ~ TooManyRegions(FinalTables)
    BY <2>2, <2>3, TablesAreTheMap DEF FinalTables, FinalMap
  <2>. QED  BY <2>1, <2>3, TablesWhenReady
<1>. QED  BY <1>1, BootInvariant, PTL

(* The pages the kernel is in are not among those its allocator hands out,  *)
(* for every file, page size and memory: the reader's size of the image,    *)
(* the pages AllocatePageBoundary took for it (line 520) and the types that *)
(* are counted as free (line 129) agree.                                    *)
THEOREM KernelIsKept == Spec => []KernelIsNotFreeMemory
<1>1. IInv => KernelIsNotFreeMemory
  <2>1. SUFFICES ASSUME IInv, at = "Ready",
                        NEW cell \in DOMAIN program.result.image, NEW r \in DOMAIN FreeRegions,
                        program.base + cell \div PageCells \in RegionPages(FreeRegions[r])
                 PROVE  FALSE
    BY DEF KernelIsNotFreeMemory
  <2>. DEFINE file == program.file  base == program.base  page == base + cell \div PageCells
  <2>2. /\ file \in FileRecords /\ program.size = memory_size(file) /\ base # NULL
        /\ base \in MemPages \cup {NULL}
        /\ program.result = elfloader_read(file, base # NULL, program.size)
        /\ program.result.error = "None"
        /\ \A p \in ImagePages(base, program.size) : p \in MemPages /\ mem[p] = "LoaderCode"
    BY <2>1, BootLoaderAssumption DEF IInv, ProgramInv, KernelRuns, TypeOK, Programs
  <2>3. program.result.image = CopiedImage(file)
    <3>. DEFINE has == base # NULL
    <3>1. has /\ program.result = elfloader_read(file, has, program.size)
      BY <2>2
    <3>. HIDE DEF has, file
    <3>2. elfloader_read(file, has, program.size).error = "None"
      BY <2>2, <3>1
    <3>3. has => elfloader_read(file, has, program.size).image = CopiedImage(file)
      BY <3>2, ReaderSucceeds
    <3>. QED  BY <3>1, <3>3
  <2>4. memory_size(file) \in Nat
    BY <2>2, SizeIs
  <2>5. cell \in 0 .. memory_size(file) - 1
    BY <2>1, <2>3 DEF CopiedImage
  <2>6. base \in Nat
    BY <2>2, BootLoaderAssumption DEF MemPages
  <2>7. cell \div PageCells \in 0 .. PagesOf(memory_size(file)) - 1
    BY <2>4, <2>5, CellsAreOnItsPages
  <2>8. page \in ImagePages(base, memory_size(file))
    <3>1. PagesOf(memory_size(file)) \in Int
      BY <2>4, BootLoaderAssumption DEF PagesOf
    <3>. QED  BY <2>6, <2>7, <3>1 DEF ImagePages
  <2>9. mem[page] = "LoaderCode"
    BY <2>2, <2>8
  <2>10. HoldsPagesOf(FreeRegions, mem, "Conventional")
    BY <2>1, FreeRegionsAreFree
  <2>11. r \in 1 .. Len(FreeRegions)
    BY <2>1, <2>10 DEF HoldsPagesOf
  <2>12. mem[page] = "Conventional"
    BY <2>1, <2>10, <2>11 DEF HoldsPagesOf
  <2>. QED  BY <2>9, <2>12
<1>. QED  BY <1>1, BootInvariant, PTL

(* On every table of free regions the kernel is given, in whatever order    *)
(* the firmware lists its regions, both walks of Allocator.c (lines 19-56)  *)
(* end inside of it, are inverse to each other, never reach the first page  *)
(* and take different numbers to different addresses, in their order if the *)
(* regions are: what module Allocator assumes of its Address.               *)
THEOREM AddressesAre == Spec => []AddressesAreAsAssumed
<1>1. IInv => AddressesAreAsAssumed
  <2>1. SUFFICES ASSUME IInv, at = "Ready", NEW i \in Indexes
                 PROVE  /\ Address(i) \notin {NoRegion, FreeRegions[1].Start}
                        /\ MemoryAddressToPageIndex(FreeRegions, Address(i)) = i
                        /\ \A j \in 0 .. i - 1 :
                              /\ Address(j) # Address(i)
                              /\ RegionsAscend => Address(j) < Address(i)
    BY DEF AddressesAreAsAssumed
  <2>2. HoldsPagesOf(FreeRegions, mem, "Conventional")
    BY <2>1, FreeRegionsAreFree
  <2>3. FreeRegions \in Seq(Regions)
    BY <2>2 DEF HoldsPagesOf
  <2>4. i \in 0 .. TotalPagesOf(FreeRegions) - 1
    BY <2>1 DEF Indexes
  <2>5. RegionsAscend <=> \A a, b \in DOMAIN FreeRegions :
                              a < b => FreeRegions[a].Start < FreeRegions[b].Start
    BY DEF RegionsAscend
  <2>. HIDE DEF RegionsAscend, FreeRegions
  <2>. QED  BY <2>2, <2>3, <2>4, <2>5, TablesAreNumbered DEF Address
<1>. QED  BY <1>1, BootInvariant, PTL

(* For every tidy file, whatever others there are: the image that the       *)
(* second elfloader_read leaves is the file's, and the entry inside of it,  *)
(* if and only if nothing in front of a header to load is left out and no   *)
(* segment lost a line end to ReadFile.                                     *)
THEOREM ImagesAre == Spec => []ImageIsTheFile
<1>1. IInv => ImageIsTheFile
  <2>. DEFINE file == program.file  base == program.base  has == base # NULL
              image == program.result.image
  <2>1. SUFFICES ASSUME IInv, KernelRuns \/ at = "Called", base # NULL, IsTidy(file)
                 PROVE  (IsImageOf(image, file) /\ program.result.entrypoint \in DOMAIN image)
                        <=> (LoadHeadersComeFirst(file) /\ ~ LineEndIsContent(file))
    BY DEF ImageIsTheFile
  <2>2. /\ file \in FileRecords /\ has
        /\ program.result = elfloader_read(file, has, program.size)
        /\ program.result.error = "None"
    BY <2>1, BootLoaderAssumption DEF IInv, ProgramInv
  <2>. HIDE DEF file, has
  <2>3. elfloader_read(file, has, program.size).error = "None"
    BY <2>2
  <2>4. has => /\ elfloader_read(file, has, program.size).image = CopiedImage(file)
               /\ elfloader_read(file, has, program.size).entrypoint = RelativeAddress(file, file.entry)
    BY <2>3, ReaderSucceeds
  <2>5. image = CopiedImage(file) /\ program.result.entrypoint = RelativeAddress(file, file.entry)
    BY <2>2, <2>4
  <2>6. CASE ~ LoadHeadersComeFirst(file)
    BY <2>1, <2>2, <2>5, <2>6, NoImageWithAGap
  <2>7. CASE LoadHeadersComeFirst(file) /\ LineEndIsContent(file)
    BY <2>1, <2>2, <2>5, <2>7, NoImageWithALineEnd
  <2>8. CASE LoadHeadersComeFirst(file) /\ ~ LineEndIsContent(file)
    BY <2>1, <2>2, <2>5, <2>8, ImageOtherwise
  <2>. QED  BY <2>6, <2>7, <2>8
<1>. QED  BY <1>1, BootInvariant, PTL
=============================================================================

-------------------------- MODULE Allocator_proofs --------------------------
(* Theorems about module Allocator for every size of memory, every          *)
(* numbering of its pages and every set of requests.                        *)
EXTENDS Allocator, SequencesExt, SequenceTheorems, TLAPS

-----------------------------------------------------------------------------
(* What InsertAt and RemoveAt of the community module SequencesExt do to a  *)
(* linked list of the kernel.                                               *)

(* Insertion into and removal from a list, entry by entry.                  *)
LEMMA InsertAtEntries ==
    ASSUME NEW S, NEW s \in Seq(S), NEW p \in 1 .. Len(s) + 1, NEW e \in S
    PROVE  /\ InsertAt(s, p, e) \in Seq(S)
           /\ Len(InsertAt(s, p, e)) = Len(s) + 1
           /\ \A i \in 1 .. p - 1 : InsertAt(s, p, e)[i] = s[i]
           /\ InsertAt(s, p, e)[p] = e
           /\ \A i \in p + 1 .. Len(s) + 1 : InsertAt(s, p, e)[i] = s[i - 1]
<1>1. /\ SubSeq(s, 1, p - 1) \in Seq(S)
      /\ Len(SubSeq(s, 1, p - 1)) = p - 1
      /\ \A i \in 1 .. p - 1 : SubSeq(s, 1, p - 1)[i] = s[i]
  OBVIOUS
<1>2. /\ SubSeq(s, p, Len(s)) \in Seq(S)
      /\ Len(SubSeq(s, p, Len(s))) = Len(s) - p + 1
      /\ \A i \in 1 .. Len(s) - p + 1 : SubSeq(s, p, Len(s))[i] = s[p + i - 1]
  OBVIOUS
<1>. DEFINE front == SubSeq(s, 1, p - 1)  back == SubSeq(s, p, Len(s))
            head == front \o <<e>>
<1>3. InsertAt(s, p, e) = head \o back
  BY DEF InsertAt
<1>4. front \in Seq(S) /\ Len(front) = p - 1 /\ <<e>> \in Seq(S) /\ Len(<<e>>) = 1
  BY <1>1
<1>. HIDE DEF front
<1>5. /\ head \in Seq(S)
      /\ Len(head) = p
      /\ \A i \in 1 .. p : head[i] = IF i < p THEN front[i] ELSE e
  BY <1>4
<1>. HIDE DEF back, head
<1>6. /\ head \o back \in Seq(S)
      /\ Len(head \o back) = Len(s) + 1
      /\ \A i \in 1 .. Len(s) + 1 :
            (head \o back)[i] = IF i <= p THEN head[i] ELSE back[i - p]
  BY <1>2, <1>5 DEF back
<1>7. ASSUME NEW i \in 1 .. p - 1  PROVE (head \o back)[i] = s[i]
  BY <1>1, <1>5, <1>6 DEF front
<1>8. (head \o back)[p] = e
  BY <1>5, <1>6
<1>9. ASSUME NEW i \in p + 1 .. Len(s) + 1  PROVE (head \o back)[i] = s[i - 1]
  <2>1. i \in 1 .. Len(s) + 1 /\ ~ (i <= p)
    OBVIOUS
  <2>2. PICK k \in 1 .. Len(s) - p + 1 : k = i - p /\ p + k - 1 = i - 1
    OBVIOUS
  <2>3. back[k] = s[p + k - 1]
    BY <1>2 DEF back
  <2>. QED  BY <1>6, <2>1, <2>2, <2>3
<1>. QED  BY <1>3, <1>6, <1>7, <1>8, <1>9

LEMMA RemoveAtEntries ==
    ASSUME NEW S, NEW s \in Seq(S), NEW p \in 1 .. Len(s)
    PROVE  /\ RemoveAt(s, p) \in Seq(S)
           /\ Len(RemoveAt(s, p)) = Len(s) - 1
           /\ \A i \in 1 .. p - 1 : RemoveAt(s, p)[i] = s[i]
           /\ \A i \in p .. Len(s) - 1 : RemoveAt(s, p)[i] = s[i + 1]
<1>1. /\ SubSeq(s, 1, p - 1) \in Seq(S)
      /\ Len(SubSeq(s, 1, p - 1)) = p - 1
      /\ \A i \in 1 .. p - 1 : SubSeq(s, 1, p - 1)[i] = s[i]
  OBVIOUS
<1>2. /\ SubSeq(s, p + 1, Len(s)) \in Seq(S)
      /\ Len(SubSeq(s, p + 1, Len(s))) = Len(s) - p
      /\ \A i \in 1 .. Len(s) - p : SubSeq(s, p + 1, Len(s))[i] = s[p + i]
  OBVIOUS
<1>. DEFINE front == SubSeq(s, 1, p - 1)  back == SubSeq(s, p + 1, Len(s))
<1>3. RemoveAt(s, p) = front \o back
  BY DEF RemoveAt
<1>4. /\ front \in Seq(S) /\ Len(front) = p - 1
      /\ back \in Seq(S) /\ Len(back) = Len(s) - p
      /\ \A i \in 1 .. p - 1 : front[i] = s[i]
      /\ \A i \in 1 .. Len(s) - p : back[i] = s[p + i]
  BY <1>1, <1>2
<1>. HIDE DEF front, back
<1>5. /\ front \o back \in Seq(S)
      /\ Len(front \o back) = Len(front) + Len(back)
      /\ \A i \in 1 .. Len(front) + Len(back) :
            (front \o back)[i] = IF i <= Len(front) THEN front[i]
                                                   ELSE back[i - Len(front)]
  BY <1>4, ConcatProperties
<1>6. ASSUME NEW i \in 1 .. Len(s) - 1, i < p  PROVE (front \o back)[i] = s[i]
  BY <1>4, <1>5, <1>6
<1>7. ASSUME NEW i \in 1 .. Len(s) - 1, i >= p  PROVE (front \o back)[i] = s[i + 1]
  <2>1. ~ (i <= Len(front)) /\ i \in 1 .. Len(front) + Len(back)
    BY <1>4, <1>7
  <2>2. PICK k \in 1 .. Len(s) - p : k = i - Len(front) /\ p + k = i + 1
    BY <1>4, <1>7
  <2>. QED  BY <1>4, <1>5, <2>1, <2>2
<1>. QED  BY <1>3, <1>4, <1>5, <1>6, <1>7

LEMMA RangeMembers ==
    ASSUME NEW S, NEW s \in Seq(S)
    PROVE  \A x : x \in Range(s) <=> \E i \in 1 .. Len(s) : s[i] = x
BY DOMAIN s = 1 .. Len(s) DEF Range

(* A list without repetitions stays one, and its members change by the one  *)
(* that is inserted or removed.                                             *)
NoRepetition(s) == \A i, j \in 1 .. Len(s) : s[i] = s[j] => i = j

LEMMA InsertAtMembers ==
    ASSUME NEW S, NEW s \in Seq(S), NEW p \in 1 .. Len(s) + 1, NEW e \in S,
           NoRepetition(s), e \notin Range(s)
    PROVE  /\ NoRepetition(InsertAt(s, p, e))
           /\ Range(InsertAt(s, p, e)) = Range(s) \cup {e}
<1>. DEFINE t == InsertAt(s, p, e)
<1>1. /\ t \in Seq(S)
      /\ Len(t) = Len(s) + 1
      /\ \A i \in 1 .. p - 1 : t[i] = s[i]
      /\ t[p] = e
      /\ \A i \in p + 1 .. Len(s) + 1 : t[i] = s[i - 1]
  BY InsertAtEntries
<1>. HIDE DEF t
<1>2. \A i \in 1 .. Len(s) : s[i] # e
  BY RangeMembers
<1>3. ASSUME NEW i \in 1 .. Len(t), NEW j \in 1 .. Len(t), i < j, t[i] = t[j]
      PROVE  FALSE
  <2>1. i \in 1 .. Len(s) + 1 /\ j \in 1 .. Len(s) + 1 /\ Len(s) \in Nat
    BY <1>1, <1>3
  <2>2. CASE j < p
    BY <2>1, <2>2, <1>1, <1>3 DEF NoRepetition
  <2>3. CASE j = p
    BY <2>1, <2>3, <1>1, <1>2, <1>3
  <2>4. CASE j > p /\ i = p
    <3>1. t[i] = e /\ t[j] = s[j - 1] /\ j - 1 \in 1 .. Len(s)
      BY <2>1, <2>4, <1>1
    <3>. QED  BY <3>1, <1>2, <1>3
  <2>5. CASE j > p /\ i < p
    <3>1. t[i] = s[i] /\ t[j] = s[j - 1] /\ j - 1 \in 1 .. Len(s) /\ i \in 1 .. Len(s)
      BY <2>1, <2>5, <1>1
    <3>2. i = j - 1
      BY <3>1, <1>3 DEF NoRepetition
    <3>. QED  BY <3>2, <2>1, <2>5
  <2>6. CASE j > p /\ i > p
    <3>1. t[i] = s[i - 1] /\ t[j] = s[j - 1] /\ j - 1 \in 1 .. Len(s) /\ i - 1 \in 1 .. Len(s)
      BY <2>1, <2>6, <1>1
    <3>2. i - 1 = j - 1
      BY <3>1, <1>3 DEF NoRepetition
    <3>. QED  BY <3>2, <2>1, <1>3
  <2>. QED  BY <2>1, <2>2, <2>3, <2>4, <2>5, <2>6
<1>4. NoRepetition(t)
  <2>1. SUFFICES ASSUME NEW i \in 1 .. Len(t), NEW j \in 1 .. Len(t), t[i] = t[j]
                 PROVE  i = j
    BY DEF NoRepetition
  <2>2. ~ (i < j) /\ ~ (j < i)
    BY <2>1, <1>3
  <2>. QED  BY <2>2, <1>1
<1>5. ASSUME NEW x  PROVE (\E i \in 1 .. Len(t) : t[i] = x) <=> x \in Range(s) \cup {e}
  <2>1. ASSUME NEW i \in 1 .. Len(t), t[i] = x  PROVE x \in Range(s) \cup {e}
    <3>1. \/ t[i] = s[i] /\ i \in 1 .. Len(s)
          \/ t[i] = e
          \/ t[i] = s[i - 1] /\ i - 1 \in 1 .. Len(s)
      BY <1>1
    <3>. QED  BY <3>1, <2>1, RangeMembers
  <2>2. ASSUME NEW i \in 1 .. Len(s)  PROVE \E k \in 1 .. Len(t) : t[k] = s[i]
    <3>1. CASE i < p
      BY <3>1, <1>1
    <3>2. CASE i >= p
      <4>1. i + 1 \in 1 .. Len(t) /\ t[i + 1] = s[i]
        BY <3>2, <1>1
      <4>. QED  BY <4>1
    <3>. QED  BY <3>1, <3>2
  <2>3. p \in 1 .. Len(t) /\ t[p] = e
    BY <1>1
  <2>4. (\E i \in 1 .. Len(s) : s[i] = x) <=> x \in Range(s)
    BY RangeMembers
  <2>. QED  BY <2>1, <2>2, <2>3, <2>4
<1>6. Range(t) = Range(s) \cup {e}
  BY <1>1, <1>5, RangeMembers
<1>. QED  BY <1>4, <1>6 DEF t

LEMMA RemoveAtMembers ==
    ASSUME NEW S, NEW s \in Seq(S), NEW p \in 1 .. Len(s), NoRepetition(s)
    PROVE  /\ NoRepetition(RemoveAt(s, p))
           /\ Range(RemoveAt(s, p)) = Range(s) \ {s[p]}
<1>. DEFINE t == RemoveAt(s, p)
             from(i) == IF i < p THEN i ELSE i + 1
<1>1. /\ t \in Seq(S)
      /\ Len(t) = Len(s) - 1
      /\ \A i \in 1 .. p - 1 : t[i] = s[i]
      /\ \A i \in p .. Len(s) - 1 : t[i] = s[i + 1]
  BY RemoveAtEntries
<1>. HIDE DEF t
<1>2. ASSUME NEW i \in 1 .. Len(t)
      PROVE  t[i] = s[from(i)] /\ from(i) \in 1 .. Len(s) /\ from(i) # p
  <2>1. CASE i < p
    BY <1>1, <2>1
  <2>2. CASE ~ (i < p)
    BY <1>1, <2>2
  <2>. QED  BY <2>1, <2>2
<1>3. NoRepetition(t)
  <2>1. SUFFICES ASSUME NEW i \in 1 .. Len(t), NEW j \in 1 .. Len(t), t[i] = t[j]
                 PROVE  i = j
    BY DEF NoRepetition
  <2>2. from(i) = from(j)
    BY <2>1, <1>2 DEF NoRepetition
  <2>. QED  BY <2>2, <1>1
<1>4. ASSUME NEW x
      PROVE (\E i \in 1 .. Len(t) : t[i] = x) <=> x \in Range(s) \ {s[p]}
  <2>1. ASSUME NEW i \in 1 .. Len(t), t[i] = x  PROVE x \in Range(s) \ {s[p]}
    BY <2>1, <1>2, RangeMembers DEF NoRepetition
  <2>2. ASSUME NEW i \in 1 .. Len(s), s[i] # s[p]  PROVE \E k \in 1 .. Len(t) : t[k] = s[i]
    <3>1. CASE i < p
      <4>1. i \in 1 .. Len(t) /\ t[i] = s[i]
        BY <3>1, <1>1
      <4>. QED  BY <4>1
    <3>2. CASE i > p
      <4>1. i - 1 \in 1 .. Len(t) /\ t[i - 1] = s[i]
        BY <3>2, <1>1
      <4>. QED  BY <4>1
    <3>. QED  BY <3>1, <3>2, <2>2
  <2>. QED  BY <2>1, <2>2, RangeMembers
<1>5. Range(t) = Range(s) \ {s[p]}
  BY <1>1, <1>4, RangeMembers
<1>. QED  BY <1>3, <1>5 DEF t

-----------------------------------------------------------------------------
(* The tiling of memory, as a fact about the size words alone.              *)
Words == [Pages -> 0 .. TotalPages]
HeadsOf(N) == {p \in Pages : N[p] > 0}
InBounds(N) == \A h \in Pages : N[h] > 0 => h + N[h] <= TotalPages
Disjoint(N) ==
    \A g, h \in Pages : N[g] > 0 /\ N[h] > 0 /\ g < h => g + N[g] <= h
Covers(N) ==
    \A p \in Pages : \E h \in Pages : N[h] > 0 /\ h <= p /\ p < h + N[h]
Tiles(N) == InBounds(N) /\ Disjoint(N) /\ Covers(N)

SplitWords(N, b, n) == [N EXCEPT ![b] = n, ![b + n] = N[b] - n]
JoinWords(N, a, b)  == [N EXCEPT ![a] = N[a] + N[b], ![b] = 0]

LEMMA WordsAreNaturals ==
    ASSUME NEW N \in Words
    PROVE  \A p \in Pages : N[p] \in Nat /\ p \in Nat /\ p < TotalPages
BY TotalPagesAssumption DEF Words, Pages

(* Cutting a run in two keeps the tiling and adds one head.                 *)
LEMMA SplitKeepsTiling ==
    ASSUME NEW N \in Words, Tiles(N),
           NEW b \in Pages, NEW n \in Nat, 0 < n, n < N[b]
    PROVE  /\ b + n \in Pages
           /\ N[b + n] = 0
           /\ SplitWords(N, b, n) \in Words
           /\ Tiles(SplitWords(N, b, n))
           /\ HeadsOf(SplitWords(N, b, n)) = HeadsOf(N) \cup {b + n}
<1>. DEFINE M == SplitWords(N, b, n)
            c == b + n
<1>1. /\ TotalPages \in Nat
      /\ \A p \in Pages : N[p] \in Nat /\ p \in Nat /\ p < TotalPages
      /\ \A p \in Nat : p < TotalPages => p \in Pages
  BY TotalPagesAssumption, WordsAreNaturals DEF Pages
<1>2. b + N[b] <= TotalPages
  BY <1>1 DEF InBounds, Tiles
<1>3. c \in Pages /\ b < c /\ c < b + N[b] /\ c + (N[b] - n) = b + N[b]
  BY <1>1, <1>2
<1>4. N[c] = 0
  BY <1>1, <1>3 DEF Disjoint, Tiles
<1>5. M \in Words /\ M[b] = n /\ M[c] = N[b] - n
  BY <1>1, <1>2, <1>3 DEF SplitWords, Words
<1>6. \A p \in Pages : p # b /\ p # c => M[p] = N[p]
  BY <1>1, <1>3 DEF SplitWords, Words
<1>. HIDE DEF M, c
<1>7. HeadsOf(M) = HeadsOf(N) \cup {c}
  BY <1>1, <1>3, <1>5, <1>6 DEF HeadsOf
<1>8. InBounds(M)
  BY <1>1, <1>2, <1>3, <1>5, <1>6 DEF InBounds, Tiles, c
<1>9. Disjoint(M)
  <2>1. SUFFICES ASSUME NEW g \in Pages, NEW h \in Pages,
                        M[g] > 0, M[h] > 0, g < h
                 PROVE  g + M[g] <= h
    BY DEF Disjoint
  <2>2. \A x, y \in Pages : N[x] > 0 /\ N[y] > 0 /\ x < y => x + N[x] <= y
    BY DEF Disjoint, Tiles
  <2>3. CASE g # b /\ g # c /\ h # c
    BY <1>1, <1>6, <2>1, <2>2, <2>3
  <2>4. CASE g = b
    BY <1>1, <1>3, <1>5, <1>6, <2>1, <2>2, <2>4 DEF c
  <2>5. CASE g = c
    BY <1>1, <1>3, <1>5, <1>6, <2>1, <2>2, <2>5 DEF c
  <2>6. CASE g # b /\ g # c /\ h = c
    <3>1. M[g] = N[g] /\ N[g] > 0 /\ N[b] > 0 /\ (g < b \/ b < g)
      BY <1>1, <1>6, <2>1, <2>6
    <3>2. CASE g < b
      BY <1>1, <1>3, <2>2, <2>6, <3>1, <3>2
    <3>3. CASE b < g
      BY <1>1, <1>3, <2>1, <2>2, <2>6, <3>1, <3>3
    <3>. QED  BY <3>1, <3>2, <3>3
  <2>. QED  BY <2>3, <2>4, <2>5, <2>6
<1>10. Covers(M)
  <2>1. SUFFICES ASSUME NEW p \in Pages
                 PROVE  \E h \in Pages : M[h] > 0 /\ h <= p /\ p < h + M[h]
    BY DEF Covers
  <2>2. PICK h \in Pages : N[h] > 0 /\ h <= p /\ p < h + N[h]
    BY DEF Covers, Tiles
  <2>3. CASE h # b
    <3>1. M[h] = N[h]
      BY <1>4, <1>6, <2>2, <2>3
    <3>. QED  BY <2>2, <3>1
  <2>4. CASE h = b /\ p < c
    BY <1>5, <2>2, <2>4 DEF c
  <2>5. CASE h = b /\ ~ (p < c)
    BY <1>1, <1>3, <1>5, <2>2, <2>5
  <2>. QED  BY <2>3, <2>4, <2>5
<1>. QED  BY <1>3, <1>4, <1>5, <1>7, <1>8, <1>9, <1>10 DEF Tiles, M, c

(* Joining two adjacent runs keeps the tiling and drops one head.           *)
LEMMA JoinKeepsTiling ==
    ASSUME NEW N \in Words, Tiles(N),
           NEW a \in HeadsOf(N), NEW b \in HeadsOf(N), a + N[a] = b
    PROVE  /\ JoinWords(N, a, b) \in Words
           /\ Tiles(JoinWords(N, a, b))
           /\ HeadsOf(JoinWords(N, a, b)) = HeadsOf(N) \ {b}
<1>. DEFINE M == JoinWords(N, a, b)
<1>1. /\ TotalPages \in Nat
      /\ \A p \in Pages : N[p] \in Nat /\ p \in Nat /\ p < TotalPages
  BY TotalPagesAssumption, WordsAreNaturals
<1>2. a \in Pages /\ b \in Pages /\ N[a] > 0 /\ N[b] > 0 /\ a < b
  BY <1>1 DEF HeadsOf
<1>3. b + N[b] <= TotalPages
  BY <1>2 DEF InBounds, Tiles
<1>4. M \in Words /\ M[a] = N[a] + N[b] /\ M[b] = 0
  BY <1>1, <1>2, <1>3 DEF JoinWords, Words
<1>5. \A p \in Pages : p # a /\ p # b => M[p] = N[p]
  BY <1>1, <1>2 DEF JoinWords, Words
<1>. HIDE DEF M
<1>6. HeadsOf(M) = HeadsOf(N) \ {b}
  BY <1>1, <1>2, <1>4, <1>5 DEF HeadsOf
<1>7. InBounds(M)
  BY <1>1, <1>2, <1>3, <1>4, <1>5 DEF InBounds, Tiles
<1>8. Disjoint(M)
  <2>1. SUFFICES ASSUME NEW g \in Pages, NEW h \in Pages,
                        M[g] > 0, M[h] > 0, g < h
                 PROVE  g + M[g] <= h
    BY DEF Disjoint
  <2>2. \A x, y \in Pages : N[x] > 0 /\ N[y] > 0 /\ x < y => x + N[x] <= y
    BY DEF Disjoint, Tiles
  <2>3. g # b /\ h # b
    BY <1>4, <2>1
  <2>4. CASE g = a
    <3>1. N[h] > 0 /\ h # a
      BY <1>1, <1>2, <1>5, <2>1, <2>3, <2>4
    <3>2. b < h
      BY <1>1, <1>2, <2>1, <2>2, <2>3, <2>4, <3>1
    <3>3. b + N[b] <= h
      BY <1>2, <2>2, <3>1, <3>2
    <3>. QED  BY <1>1, <1>2, <1>4, <2>4, <3>3
  <2>5. CASE g # a
    <3>1. M[g] = N[g] /\ N[h] > 0
      BY <1>1, <1>2, <1>5, <2>1, <2>3, <2>5
    <3>. QED  BY <2>1, <2>2, <3>1
  <2>. QED  BY <2>4, <2>5
<1>9. Covers(M)
  <2>1. SUFFICES ASSUME NEW p \in Pages
                 PROVE  \E h \in Pages : M[h] > 0 /\ h <= p /\ p < h + M[h]
    BY DEF Covers
  <2>2. PICK h \in Pages : N[h] > 0 /\ h <= p /\ p < h + N[h]
    BY DEF Covers, Tiles
  <2>3. CASE h = a \/ h = b
    BY <1>1, <1>2, <1>4, <2>2, <2>3
  <2>4. CASE h # a /\ h # b
    BY <1>5, <2>2, <2>4
  <2>. QED  BY <2>3, <2>4
<1>. QED  BY <1>4, <1>6, <1>7, <1>8, <1>9 DEF Tiles, M

-----------------------------------------------------------------------------
(* The inductive invariant. TypeOK is not inductive alone: that the sum of  *)
(* two sizes is again a size needs the tiling.                              *)
IInv == TypeOK /\ NoPageLostOrShared

(* While the kernel runs: the invariant in the vocabulary of the lemmas.    *)
Sound ==
    /\ FreeList \in Seq(Pages)
    /\ NumberOfPages \in Words
    /\ live \in SUBSET Pages
    /\ Tiles(NumberOfPages)
    /\ NoRepetition(FreeList)
    /\ Listed \cap live = {}
    /\ Listed \cup live = HeadsOf(NumberOfPages)

LEMMA InvariantIsSound == IInv /\ panic = NoPanic => Sound
<1>. SUFFICES ASSUME IInv, panic = NoPanic  PROVE Sound
  OBVIOUS
<1>1. TypeOK /\ RunsTileMemory /\ ListIsExact
  BY DEF IInv, NoPageLostOrShared
<1>2. Tiles(NumberOfPages)
  BY <1>1 DEF RunsTileMemory, RunsInBounds, RunsDisjoint, RunsCover, Heads,
              Tiles, InBounds, Disjoint, Covers
<1>. QED  BY <1>1, <1>2 DEF TypeOK, ListIsExact, Heads, HeadsOf, NoRepetition, Sound, Words

LEMMA SoundIsInvariant == Sound /\ panic \in Panics => IInv
<1>. SUFFICES ASSUME Sound, panic \in Panics  PROVE IInv
  OBVIOUS
<1>1. RunsTileMemory
  BY DEF RunsTileMemory, RunsInBounds, RunsDisjoint, RunsCover, Heads,
         Sound, Tiles, InBounds, Disjoint, Covers
<1>2. ListIsExact
  BY DEF ListIsExact, Heads, HeadsOf, NoRepetition, Sound
<1>. QED  BY <1>1, <1>2 DEF IInv, NoPageLostOrShared, TypeOK, Sound, Words

LEMMA InitSound == Init => Sound /\ panic \in Panics
<1>. SUFFICES ASSUME Init  PROVE Sound /\ panic \in Panics
  OBVIOUS
<1>. USE TotalPagesAssumption DEF Init
<1>1. 0 \in Pages /\ NumberOfPages \in Words /\ FreeList \in Seq(Pages) /\ live \in SUBSET Pages
  BY DEF Pages, Words
<1>2. Tiles(NumberOfPages)
  BY DEF Pages, Tiles, InBounds, Disjoint, Covers
<1>3. Listed = {0} /\ HeadsOf(NumberOfPages) = {0}
  BY <1>1 DEF Listed, Range, HeadsOf, Pages
<1>4. NoRepetition(FreeList)
  BY DEF NoRepetition
<1>. QED  BY <1>1, <1>2, <1>3, <1>4 DEF Sound, Panics, NoPanic

(* The request of an allocation and the run it takes.                       *)
LEMMA BestRun ==
    ASSUME Sound, NEW need \in Nat, 0 < need, NEW i \in Fits(need)
    PROVE  /\ i \in 1 .. Len(FreeList)
           /\ FreeList[i] \in Listed
           /\ FreeList[i] \in Pages
           /\ NumberOfPages[FreeList[i]] >= need
           /\ NoRepetition(RemoveAt(FreeList, i))
           /\ RemoveAt(FreeList, i) \in Seq(Pages)
           /\ Range(RemoveAt(FreeList, i)) = Listed \ {FreeList[i]}
<1>1. i \in 1 .. Len(FreeList) /\ NumberOfPages[FreeList[i]] >= need
  BY DEF Fits
<1>2. FreeList \in Seq(Pages) /\ NoRepetition(FreeList)
  BY DEF Sound
<1>3. FreeList[i] \in Listed /\ FreeList[i] \in Pages
  BY <1>1, <1>2, RangeMembers DEF Listed
<1>4. RemoveAt(FreeList, i) \in Seq(Pages)
  BY <1>1, <1>2, RemoveAtEntries
<1>. QED  BY <1>1, <1>2, <1>3, <1>4, RemoveAtMembers DEF Listed

LEMMA TakeWholeSound ==
    ASSUME Sound, NEW need \in Nat, 0 < need, NEW i \in Fits(need),
           TakeWhole(i, need)
    PROVE  Sound'
<1>1. /\ FreeList[i] \in Listed /\ FreeList[i] \in Pages
      /\ NoRepetition(FreeList') /\ FreeList' \in Seq(Pages)
      /\ Range(FreeList') = Listed \ {FreeList[i]}
      /\ live' = live \cup {FreeList[i]} /\ NumberOfPages' = NumberOfPages
  BY BestRun DEF TakeWhole
<1>. QED  BY <1>1 DEF Sound, Listed

LEMMA SplitSound ==
    ASSUME Sound, NEW need \in Nat, 0 < need, NEW i \in Fits(need),
           Split(i, need)
    PROVE  Sound'
<1>. DEFINE best == FreeList[i]
            leftOver == best + need
            unlinked == RemoveAt(FreeList, i)
<1>1. PICK p \in 1 .. Len(unlinked) + 1 : FreeList' = InsertAt(unlinked, p, leftOver)
  BY DEF Split
<1>2. /\ NumberOfPages[best] > need
      /\ NumberOfPages' = SplitWords(NumberOfPages, best, need)
      /\ live' = live \cup {best}
  BY DEF Split, SplitWords
<1>3. /\ best \in Listed /\ best \in Pages
      /\ NoRepetition(unlinked) /\ unlinked \in Seq(Pages)
      /\ Range(unlinked) = Listed \ {best}
  BY BestRun
<1>. HIDE DEF best, unlinked
<1>4. /\ leftOver \in Pages
      /\ NumberOfPages[leftOver] = 0
      /\ NumberOfPages' \in Words
      /\ Tiles(NumberOfPages')
      /\ HeadsOf(NumberOfPages') = HeadsOf(NumberOfPages) \cup {leftOver}
  <2>1. NumberOfPages \in Words /\ Tiles(NumberOfPages) /\ need < NumberOfPages[best]
    BY <1>2, <1>3, WordsAreNaturals DEF Sound
  <2>. QED  BY <1>2, <1>3, <2>1, SplitKeepsTiling
<1>5. leftOver \notin Listed /\ leftOver \notin live /\ best # leftOver
  BY <1>3, <1>4, WordsAreNaturals DEF Sound, HeadsOf
<1>. HIDE DEF leftOver
<1>6. /\ FreeList' \in Seq(Pages)
      /\ NoRepetition(FreeList')
      /\ Range(FreeList') = (Listed \ {best}) \cup {leftOver}
  <2>1. leftOver \notin Range(unlinked)
    BY <1>3, <1>5
  <2>2. FreeList' \in Seq(Pages)
    BY <1>1, <1>3, <1>4, InsertAtEntries DEF leftOver
  <2>. QED  BY <1>1, <1>3, <1>4, <2>1, <2>2, InsertAtMembers DEF leftOver
<1>. QED  BY <1>2, <1>3, <1>4, <1>5, <1>6 DEF Sound, Listed

(* After the first half of a release, the run that starts at h is part of a *)
(* free run that is in the list; only the merge with the run after it is    *)
(* left to do.                                                              *)
LEMMA FirstHalfOfRelease ==
    ASSUME Sound, NEW h \in live, NEW p \in 1 .. Len(FreeList) + 1
    PROVE  /\ JoinedWords(h, p) \in Words
           /\ Tiles(JoinedWords(h, p))
           /\ JoinedList(h, p) \in Seq(Pages)
           /\ NoRepetition(JoinedList(h, p))
           /\ Range(JoinedList(h, p)) \cap (live \ {h}) = {}
           /\ Range(JoinedList(h, p)) \cup (live \ {h}) = HeadsOf(JoinedWords(h, p))
           /\ JoinedHead(h, p) \in Range(JoinedList(h, p))
           /\ JoinedWords(h, p)[JoinedHead(h, p)] = JoinedSize(h, p)
<1>. USE DEF Listed
<1>1. /\ FreeList \in Seq(Pages) /\ NoRepetition(FreeList)
      /\ NumberOfPages \in Words /\ Tiles(NumberOfPages)
      /\ h \in Pages /\ h \in HeadsOf(NumberOfPages) /\ h \notin Listed
  BY DEF Sound
<1>2. CASE TouchesBefore(h, p)
  <2>. DEFINE b == FreeList[p - 1]
  <2>1. /\ p - 1 \in 1 .. Len(FreeList)
        /\ b + NumberOfPages[b] = h
    BY <1>2 DEF TouchesBefore
  <2>2. b \in Listed /\ b \in HeadsOf(NumberOfPages) /\ b \in Pages
    BY <1>1, <2>1, RangeMembers DEF Sound
  <2>3. /\ JoinedHead(h, p) = b
        /\ JoinedSize(h, p) = NumberOfPages[b] + NumberOfPages[h]
        /\ JoinedList(h, p) = FreeList
        /\ JoinedWords(h, p) = JoinWords(NumberOfPages, b, h)
    BY <1>2 DEF JoinedHead, JoinedSize, JoinedList, JoinedWords, JoinWords
  <2>. HIDE DEF b
  <2>4. /\ JoinWords(NumberOfPages, b, h) \in Words
        /\ Tiles(JoinWords(NumberOfPages, b, h))
        /\ HeadsOf(JoinWords(NumberOfPages, b, h)) = HeadsOf(NumberOfPages) \ {h}
    BY <1>1, <2>1, <2>2, JoinKeepsTiling
  <2>5. JoinWords(NumberOfPages, b, h)[b] = NumberOfPages[b] + NumberOfPages[h]
    BY <1>1, <2>2 DEF JoinWords, Words
  <2>. QED  BY <1>1, <2>2, <2>3, <2>4, <2>5 DEF Sound
<1>3. CASE ~ TouchesBefore(h, p)
  <2>1. /\ JoinedHead(h, p) = h
        /\ JoinedSize(h, p) = NumberOfPages[h]
        /\ JoinedList(h, p) = InsertAt(FreeList, p, h)
        /\ JoinedWords(h, p) = NumberOfPages
    BY <1>3 DEF JoinedHead, JoinedSize, JoinedList, JoinedWords
  <2>2. InsertAt(FreeList, p, h) \in Seq(Pages)
    BY <1>1, InsertAtEntries
  <2>3. /\ NoRepetition(InsertAt(FreeList, p, h))
        /\ Range(InsertAt(FreeList, p, h)) = Listed \cup {h}
    BY <1>1, InsertAtMembers
  <2>. QED  BY <1>1, <2>1, <2>2, <2>3 DEF Sound
<1>. QED  BY <1>2, <1>3

(* Where the run after the released one is, and that it is another run.     *)
LEMMA RunAfter ==
    ASSUME Sound, NEW h \in live, NEW p \in 1 .. Len(FreeList)
    PROVE  LET k == IF TouchesBefore(h, p) THEN p ELSE p + 1
           IN  /\ k \in 1 .. Len(JoinedList(h, p))
               /\ JoinedList(h, p)[k] = FreeList[p]
               /\ FreeList[p] # JoinedHead(h, p)
               /\ FreeList[p] \in Range(JoinedList(h, p))
               /\ JoinedWords(h, p)[FreeList[p]] = NumberOfPages[FreeList[p]]
<1>. USE DEF Listed
<1>1. /\ FreeList \in Seq(Pages) /\ NoRepetition(FreeList)
      /\ NumberOfPages \in Words
      /\ h \in Pages /\ h \notin Listed
  BY DEF Sound
<1>2. FreeList[p] \in Listed /\ FreeList[p] \in Pages /\ FreeList[p] # h
  BY <1>1, RangeMembers
<1>3. CASE TouchesBefore(h, p)
  <2>1. p - 1 \in 1 .. Len(FreeList)
    BY <1>3 DEF TouchesBefore
  <2>2. FreeList[p - 1] # FreeList[p] /\ FreeList[p - 1] \in Pages
    BY <1>1, <2>1 DEF NoRepetition
  <2>3. /\ JoinedHead(h, p) = FreeList[p - 1]
        /\ JoinedList(h, p) = FreeList
        /\ JoinedWords(h, p)[FreeList[p]] = NumberOfPages[FreeList[p]]
    BY <1>1, <1>2, <1>3, <2>2 DEF JoinedHead, JoinedList, JoinedWords, Words
  <2>. QED  BY <1>2, <1>3, <2>2, <2>3
<1>4. CASE ~ TouchesBefore(h, p)
  <2>1. /\ JoinedHead(h, p) = h
        /\ JoinedList(h, p) = InsertAt(FreeList, p, h)
        /\ JoinedWords(h, p) = NumberOfPages
    BY <1>4 DEF JoinedHead, JoinedList, JoinedWords
  <2>2. /\ Len(InsertAt(FreeList, p, h)) = Len(FreeList) + 1
        /\ InsertAt(FreeList, p, h) \in Seq(Pages)
        /\ \A i \in p + 1 .. Len(FreeList) + 1 :
              InsertAt(FreeList, p, h)[i] = FreeList[i - 1]
    <3>1. p \in 1 .. Len(FreeList) + 1
      OBVIOUS
    <3>. QED  BY <1>1, <3>1, InsertAtEntries
  <2>3. /\ p + 1 \in 1 .. Len(InsertAt(FreeList, p, h))
        /\ InsertAt(FreeList, p, h)[p + 1] = FreeList[p]
    BY <1>1, <2>2
  <2>4. FreeList[p] \in Range(InsertAt(FreeList, p, h))
    BY <2>2, <2>3, RangeMembers
  <2>. QED  BY <1>2, <1>4, <2>1, <2>3, <2>4
<1>. QED  BY <1>3, <1>4

LEMMA FreePagesSound ==
    ASSUME Sound, NEW h \in live, FreePages(h)
    PROVE  Sound'
<1>1. PICK p \in 1 .. Len(FreeList) + 1 : 
          \/ /\ ~ TouchesAfter(h, p)
             /\ FreeList' = JoinedList(h, p)
             /\ NumberOfPages' = JoinedWords(h, p)
          \/ /\ TouchesAfter(h, p)
             /\ FreeList' = RemoveAt(JoinedList(h, p),
                                     IF TouchesBefore(h, p) THEN p ELSE p + 1)
             /\ NumberOfPages' =
                   [JoinedWords(h, p) EXCEPT
                       ![JoinedHead(h, p)] =
                           JoinedSize(h, p) + NumberOfPages[FreeList[p]],
                       ![FreeList[p]] = 0]
  BY DEF FreePages
<1>2. live' = live \ {h} /\ live' \in SUBSET Pages
  BY DEF FreePages, Sound
<1>. DEFINE W == JoinedWords(h, p)
            L == JoinedList(h, p)
            head == JoinedHead(h, p)
            a == FreeList[p]
<1>3. /\ W \in Words /\ Tiles(W)
      /\ L \in Seq(Pages) /\ NoRepetition(L)
      /\ Range(L) \cap live' = {}
      /\ Range(L) \cup live' = HeadsOf(W)
      /\ head \in Range(L)
      /\ W[head] = JoinedSize(h, p)
  BY <1>2, FirstHalfOfRelease
<1>4. CASE ~ TouchesAfter(h, p)
  BY <1>1, <1>2, <1>3, <1>4 DEF Sound, Listed
<1>5. CASE TouchesAfter(h, p)
  <2>1. p \in 1 .. Len(FreeList) /\ head + W[head] = a
    BY <1>3, <1>5 DEF TouchesAfter
  <2>. DEFINE k == IF TouchesBefore(h, p) THEN p ELSE p + 1
  <2>2. k \in 1 .. Len(L) /\ L[k] = a /\ a # head /\ a \in Range(L) /\ W[a] = NumberOfPages[a]
    BY <2>1, RunAfter
  <2>3. FreeList' = RemoveAt(L, k) /\ NumberOfPages' = JoinWords(W, head, a)
    BY <1>1, <1>3, <1>5, <2>2 DEF JoinWords
  <2>. HIDE DEF W, L, head, a, k
  <2>4. head \in HeadsOf(W) /\ a \in HeadsOf(W)
    BY <1>3, <2>2
  <2>5. /\ NumberOfPages' \in Words /\ Tiles(NumberOfPages')
        /\ HeadsOf(NumberOfPages') = HeadsOf(W) \ {a}
    BY <1>3, <2>1, <2>3, <2>4, JoinKeepsTiling
  <2>6. /\ NoRepetition(FreeList')
        /\ Range(FreeList') = Range(L) \ {a}
    BY <1>3, <2>2, <2>3, RemoveAtMembers
  <2>7. FreeList' \in Seq(Pages)
    BY <1>3, <2>2, <2>3, RemoveAtEntries
  <2>. QED  BY <1>2, <1>3, <2>2, <2>5, <2>6, <2>7 DEF Sound, Listed
<1>. QED  BY <1>4, <1>5

-----------------------------------------------------------------------------
(* A panic ends the run of the kernel, in the middle of an allocation or    *)
(* not: whatever it leaves behind is well typed.                            *)
LEMMA PanicIsTyped ==
    ASSUME Sound, NEW need \in Nat, 0 < need
    PROVE  /\ OutOfMemory(need) => IInv'
           /\ \A i \in Fits(need) : SplitPanics(i, need) => IInv'
<1>1. ASSUME OutOfMemory(need)  PROVE IInv'
  BY <1>1 DEF OutOfMemory, IInv, NoPageLostOrShared, TypeOK, Sound, Words,
              Panics, NoPanic
<1>2. ASSUME NEW i \in Fits(need), SplitPanics(i, need)  PROVE IInv'
  <2>1. FreeList' \in Seq(Pages) /\ FreeList[i] \in Pages
    BY <1>2, BestRun DEF SplitPanics
  <2>2. FreeList[i] + need + 1 \in Nat
    BY <2>1 DEF Pages
  <2>. QED  BY <1>2, <2>1, <2>2 DEF SplitPanics, IInv, NoPageLostOrShared,
                 TypeOK, Sound, Words, Panics, NoPanic
<1>. QED  BY <1>1, <1>2

(* Every step of the allocator keeps the invariant.                         *)
LEMMA NextKeepsIInv == IInv /\ [Next]_vars => IInv'
<1>. SUFFICES ASSUME IInv, [Next]_vars  PROVE IInv'
  OBVIOUS
<1>1. CASE UNCHANGED vars
  BY <1>1 DEF vars, IInv, TypeOK, NoPageLostOrShared, RunsTileMemory, RunsInBounds,
      RunsDisjoint, RunsCover, ListIsExact, Listed, Heads
<1>2. ASSUME NEW pages \in Requests, AllocatePages(pages)  PROVE IInv'
  <2>. DEFINE need == pages + 1
  <2>1. need \in Nat /\ 0 < need
    BY RequestsAssumption
  <2>2. panic = NoPanic /\ panic \in Panics
    BY <1>2 DEF AllocatePages, IInv, TypeOK
  <2>3. Sound
    BY <2>2, InvariantIsSound
  <2>4. \/ OutOfMemory(need)
        \/ \E i \in Fits(need) :
              TakeWhole(i, need) \/ Split(i, need) \/ SplitPanics(i, need)
    BY <1>2 DEF AllocatePages
  <2>. HIDE DEF need
  <2>5. CASE OutOfMemory(need)
    BY <2>1, <2>3, <2>5, PanicIsTyped
  <2>6. ASSUME NEW i \in Fits(need), TakeWhole(i, need)  PROVE IInv'
    <3>1. Sound' /\ (panic \in Panics)'
      BY <2>1, <2>2, <2>3, <2>6, TakeWholeSound DEF TakeWhole
    <3>. QED  BY <3>1, SoundIsInvariant, PTL
  <2>7. ASSUME NEW i \in Fits(need), Split(i, need)  PROVE IInv'
    <3>1. Sound' /\ (panic \in Panics)'
      BY <2>1, <2>2, <2>3, <2>7, SplitSound DEF Split
    <3>. QED  BY <3>1, SoundIsInvariant, PTL
  <2>8. ASSUME NEW i \in Fits(need), SplitPanics(i, need)  PROVE IInv'
    BY <2>1, <2>3, <2>8, PanicIsTyped
  <2>. QED  BY <2>4, <2>5, <2>6, <2>7, <2>8
<1>3. ASSUME NEW h \in live, FreePages(h)  PROVE IInv'
  <2>1. Sound
    BY <1>3, InvariantIsSound DEF FreePages
  <2>2. Sound' /\ (panic \in Panics)'
    BY <1>3, <2>1, FreePagesSound DEF FreePages, IInv, TypeOK
  <2>. QED  BY <2>2, SoundIsInvariant, PTL
<1>4. CASE Halted
  BY <1>1, <1>4 DEF Halted
<1>. QED  BY <1>1, <1>2, <1>3, <1>4 DEF Next

(* The size words, the list and the held runs describe memory exactly, from *)
(* boot until a panic: the inductive invariant of the allocator.            *)
THEOREM Invariant == Spec => []IInv
<1>1. Init => IInv
  BY InitSound, SoundIsInvariant
<1>. QED  BY <1>1, NextKeepsIInv, PTL DEF Spec

(* TypeOK holds in every reachable state.                                   *)
THEOREM TypeCorrect == Spec => []TypeOK
<1>1. IInv => TypeOK
  BY DEF IInv
<1>. QED  BY <1>1, Invariant, PTL

(* No page is lost and no page has two owners, whatever the sizes, the      *)
(* addresses of the pages and the order of calls.                           *)
THEOREM PagesAreSafe == Spec => []NoPageLostOrShared
<1>1. IInv => NoPageLostOrShared
  BY DEF IInv
<1>. QED  BY <1>1, Invariant, PTL
=============================================================================

----------------------- MODULE AllocatorOrder_proofs -----------------------
(* What the order of the free list gives when the regions ascend: the list  *)
(* is sorted by page index, every two free neighbours are merged, and an    *)
(* out-of-memory panic means that there is no room.                         *)
EXTENDS Allocator_proofs

Sorted(s) == \A i, j \in 1 .. Len(s) : i < j => s[i] < s[j]
Coalesced == \A g, h \in Listed : g + NumberOfPages[g] # h

(* Removing an entry, or inserting one where the walk stops, keeps a list   *)
(* sorted.                                                                  *)
LEMMA RemoveAtSorted ==
    ASSUME NEW s \in Seq(Pages), Sorted(s), NEW p \in 1 .. Len(s)
    PROVE  Sorted(RemoveAt(s, p))
<1>. DEFINE t == RemoveAt(s, p)
            from(i) == IF i < p THEN i ELSE i + 1
<1>1. /\ t \in Seq(Pages)
      /\ Len(t) = Len(s) - 1
      /\ \A i \in 1 .. p - 1 : t[i] = s[i]
      /\ \A i \in p .. Len(s) - 1 : t[i] = s[i + 1]
  BY RemoveAtEntries
<1>. HIDE DEF t
<1>2. ASSUME NEW i \in 1 .. Len(t)
      PROVE  t[i] = s[from(i)] /\ from(i) \in 1 .. Len(s)
  <2>1. CASE i < p
    BY <1>1, <2>1
  <2>2. CASE ~ (i < p)
    BY <1>1, <2>2
  <2>. QED  BY <2>1, <2>2
<1>3. ASSUME NEW i \in 1 .. Len(t), NEW j \in 1 .. Len(t), i < j
      PROVE  t[i] < t[j]
  <2>1. from(i) < from(j)
    BY <1>3
  <2>. QED  BY <1>2, <2>1 DEF Sorted
<1>. QED  BY <1>3 DEF Sorted, t

LEMMA InsertAtSorted ==
    ASSUME NEW s \in Seq(Pages), Sorted(s), NEW e \in Pages, e \notin Range(s),
           NEW p \in 1 .. Len(s) + 1,
           \A i \in 1 .. p - 1 : s[i] < e,
           p <= Len(s) => ~ (s[p] < e)
    PROVE  Sorted(InsertAt(s, p, e))
<1>. DEFINE t == InsertAt(s, p, e)
<1>1. /\ t \in Seq(Pages)
      /\ Len(t) = Len(s) + 1
      /\ \A i \in 1 .. p - 1 : t[i] = s[i]
      /\ t[p] = e
      /\ \A i \in p + 1 .. Len(s) + 1 : t[i] = s[i - 1]
  BY InsertAtEntries
<1>. HIDE DEF t
<1>2. e \in Int /\ \A i \in 1 .. Len(s) : s[i] \in Int
  <2>1. \A x \in Pages : x \in Int
    BY TotalPagesAssumption DEF Pages
  <2>2. \A i \in 1 .. Len(s) : s[i] \in Pages
    OBVIOUS
  <2>. QED  BY <2>1, <2>2
<1>3. ASSUME NEW i \in p .. Len(s)  PROVE e < s[i]
  <2>1. p \in 1 .. Len(s) /\ ~ (s[p] < e) /\ s[p] # e
    BY RangeMembers
  <2>2. e < s[p]
    BY <1>2, <2>1
  <2>3. i = p \/ s[p] < s[i]
    BY <2>1 DEF Sorted
  <2>. QED  BY <1>2, <2>1, <2>2, <2>3
<1>4. ASSUME NEW i \in 1 .. Len(t), NEW j \in 1 .. Len(t), i < j
      PROVE  t[i] < t[j]
  <2>1. CASE j < p
    BY <1>1, <1>4, <2>1 DEF Sorted
  <2>2. CASE j = p
    BY <1>1, <1>4, <2>2
  <2>3. CASE j > p
    <3>1. t[j] = s[j - 1] /\ j - 1 \in p .. Len(s)
      BY <1>1, <2>3
    <3>2. CASE i < p
      <4>1. t[i] = s[i] /\ i \in 1 .. Len(s) /\ j - 1 \in 1 .. Len(s) /\ i < j - 1
        BY <1>1, <3>1, <3>2
      <4>. QED  BY <3>1, <4>1 DEF Sorted
    <3>3. CASE i = p
      BY <1>1, <1>3, <3>1, <3>3
    <3>4. CASE i > p
      <4>1. t[i] = s[i - 1] /\ i - 1 \in 1 .. Len(s) /\ j - 1 \in 1 .. Len(s) /\ i - 1 < j - 1
        BY <1>1, <1>4, <3>1, <3>4
      <4>. QED  BY <3>1, <4>1 DEF Sorted
    <3>. QED  BY <3>2, <3>3, <3>4
  <2>. QED  BY <2>1, <2>2, <2>3
<1>. QED  BY <1>4 DEF Sorted, t

-----------------------------------------------------------------------------
LEMMA TakeWholeOrder ==
    ASSUME Sound, Sorted(FreeList), Coalesced,
           NEW need \in Nat, 0 < need, NEW i \in Fits(need), TakeWhole(i, need)
    PROVE  Sorted(FreeList') /\ Coalesced'
<1>1. /\ FreeList' = RemoveAt(FreeList, i) /\ NumberOfPages' = NumberOfPages
      /\ i \in 1 .. Len(FreeList) /\ FreeList \in Seq(Pages)
      /\ Listed' = Listed \ {FreeList[i]}
  BY BestRun DEF TakeWhole, Listed, Sound
<1>. QED  BY <1>1, RemoveAtSorted DEF Coalesced

LEMMA SplitOrder ==
    ASSUME Sound, Sorted(FreeList), Coalesced, AddressesAscend,
           NEW need \in Nat, 0 < need, NEW i \in Fits(need), Split(i, need)
    PROVE  Sorted(FreeList') /\ Coalesced'
<1>. DEFINE best == FreeList[i]
            leftOver == best + need
            unlinked == RemoveAt(FreeList, i)
<1>1. PICK p \in 1 .. Len(unlinked) + 1 :
          /\ FreeList' = InsertAt(unlinked, p, leftOver)
          /\ \A j \in 1 .. p - 1 : Address[unlinked[j]] < Address[leftOver]
          /\ p <= Len(unlinked) => ~ (Address[unlinked[p]] < Address[leftOver])
  BY DEF Split, LinkPoint
<1>2. /\ NumberOfPages[best] > need
      /\ NumberOfPages' = SplitWords(NumberOfPages, best, need)
  BY DEF Split, SplitWords
<1>3. /\ i \in 1 .. Len(FreeList) /\ FreeList \in Seq(Pages)
      /\ best \in Listed /\ best \in Pages
      /\ NoRepetition(unlinked) /\ unlinked \in Seq(Pages)
      /\ Range(unlinked) = Listed \ {best}
      /\ Sorted(unlinked)
  BY BestRun, RemoveAtSorted DEF Sound
<1>. HIDE DEF best, unlinked
<1>4. /\ NumberOfPages \in Words /\ Tiles(NumberOfPages)
      /\ Listed \subseteq HeadsOf(NumberOfPages)
  BY DEF Sound
<1>5. /\ TotalPages \in Nat
      /\ \A q \in Pages : NumberOfPages[q] \in Nat /\ q \in Nat /\ q < TotalPages
  BY <1>4, TotalPagesAssumption, WordsAreNaturals
<1>6. /\ leftOver \in Pages
      /\ NumberOfPages[leftOver] = 0
      /\ leftOver # best
  <2>1. need < NumberOfPages[best]
    BY <1>2, <1>3, <1>5
  <2>. QED  BY <1>3, <1>4, <1>5, <2>1, SplitKeepsTiling
<1>7. leftOver \notin Listed
  BY <1>4, <1>6 DEF HeadsOf
<1>8. /\ \A j \in 1 .. p - 1 : unlinked[j] < leftOver
      /\ p <= Len(unlinked) => ~ (unlinked[p] < leftOver)
  <2>1. \A j \in 1 .. Len(unlinked) : unlinked[j] \in Pages
    BY <1>3
  <2>2. \A x, y \in Pages : Address[x] \in Nat /\ (x < y => Address[x] < Address[y])
    BY AddressAssumption DEF AddressesAscend
  <2>3. ASSUME NEW j \in 1 .. p - 1  PROVE unlinked[j] < leftOver
    <3>1. unlinked[j] \in Pages /\ Address[unlinked[j]] < Address[leftOver]
      BY <1>1, <2>1
    <3>2. ~ (leftOver < unlinked[j]) /\ leftOver # unlinked[j]
      BY <1>6, <2>2, <3>1
    <3>. QED  BY <1>5, <1>6, <3>1, <3>2
  <2>4. ASSUME p <= Len(unlinked)  PROVE ~ (unlinked[p] < leftOver)
    BY <1>1, <1>6, <2>1, <2>2, <2>4
  <2>. QED  BY <2>3, <2>4
<1>9. Sorted(FreeList')
  BY <1>1, <1>3, <1>6, <1>7, <1>8, InsertAtSorted
<1>10. Listed' = (Listed \ {best}) \cup {leftOver}
  BY <1>1, <1>3, <1>6, <1>7, InsertAtMembers DEF Listed
<1>11. /\ NumberOfPages'[leftOver] = NumberOfPages[best] - need
       /\ \A g \in Pages : g # best /\ g # leftOver => NumberOfPages'[g] = NumberOfPages[g]
  BY <1>2, <1>3, <1>4, <1>6 DEF SplitWords, Words
<1>12. Coalesced'
  <2>1. SUFFICES ASSUME NEW g \in Listed', NEW h \in Listed',
                        g + NumberOfPages'[g] = h
                 PROVE  FALSE
    BY DEF Coalesced
  <2>2. \A x, y \in Pages : /\ NumberOfPages[x] > 0 /\ NumberOfPages[y] > 0
                            /\ x < y
                            => x + NumberOfPages[x] <= y
    BY <1>4 DEF Tiles, Disjoint
  <2>3. \A x \in Listed : x \in Pages /\ NumberOfPages[x] > 0
    BY <1>4 DEF HeadsOf
  <2>4. CASE g = leftOver
    <3>1. best + NumberOfPages[best] = h
      BY <1>3, <1>5, <1>11, <2>1, <2>4
    <3>2. h \in Listed
      BY <1>3, <1>5, <1>10, <2>4, <2>1, <1>11, <1>2, <1>6
    <3>. QED  BY <1>3, <3>1, <3>2 DEF Coalesced
  <2>5. CASE g # leftOver
    <3>1. g \in Listed /\ g # best /\ NumberOfPages'[g] = NumberOfPages[g]
      BY <1>10, <1>11, <2>3, <2>5
    <3>2. CASE h # leftOver
      BY <1>10, <2>1, <3>1, <3>2 DEF Coalesced
    <3>3. CASE h = leftOver
      <4>1. g + NumberOfPages[g] = best + need
        BY <2>1, <3>1, <3>3
      <4>2. g < best \/ best < g
        BY <1>3, <1>5, <2>3, <3>1
      <4>3. CASE g < best
        BY <1>3, <1>5, <2>2, <2>3, <3>1, <4>1, <4>3
      <4>4. CASE best < g
        BY SMTT(40), <1>2, <1>3, <1>5, <2>2, <2>3, <3>1, <4>1, <4>4
      <4>. QED  BY <4>2, <4>3, <4>4
    <3>. QED  BY <3>2, <3>3
  <2>. QED  BY <2>4, <2>5
<1>. QED  BY <1>9, <1>12

(* The neighbours of a run that is released: a free run that ends where the *)
(* released one starts is the one in front of the walk's end, and a free    *)
(* run that starts where the released one ends is the one behind it.        *)
LEMMA Neighbours ==
    ASSUME Sound, Sorted(FreeList), NEW h \in live,
           NEW p \in 1 .. Len(FreeList) + 1,
           \A i \in 1 .. p - 1 : FreeList[i] < h,
           p <= Len(FreeList) => ~ (FreeList[p] < h),
           NEW g \in Listed
    PROVE  /\ g + NumberOfPages[g] = h =>
                 p > 1 /\ p - 1 \in 1 .. Len(FreeList) /\ g = FreeList[p - 1]
           /\ h + NumberOfPages[h] = g =>
                 p \in 1 .. Len(FreeList) /\ g = FreeList[p]
<1>1. /\ FreeList \in Seq(Pages)
      /\ NumberOfPages \in Words /\ Tiles(NumberOfPages)
      /\ h \in HeadsOf(NumberOfPages) /\ h \notin Listed
      /\ Listed \subseteq HeadsOf(NumberOfPages)
  BY DEF Sound
<1>2. \A q \in Pages : NumberOfPages[q] \in Nat /\ q \in Nat
  BY <1>1, WordsAreNaturals
<1>3. \A x, y \in HeadsOf(NumberOfPages) :
         x < y => /\ x \in Nat /\ y \in Nat /\ NumberOfPages[x] \in Nat
                  /\ NumberOfPages[x] > 0 /\ NumberOfPages[y] > 0
                  /\ x + NumberOfPages[x] <= y
  BY <1>1, <1>2 DEF HeadsOf, Tiles, Disjoint
<1>4. \A i \in 1 .. Len(FreeList) : FreeList[i] \in Listed /\ FreeList[i] \in HeadsOf(NumberOfPages)
  BY <1>1, RangeMembers DEF Listed
<1>5. PICK k \in 1 .. Len(FreeList) : FreeList[k] = g
  BY <1>1, RangeMembers DEF Listed
<1>6. /\ g \in Nat /\ h \in Nat /\ NumberOfPages[g] \in Nat /\ NumberOfPages[h] \in Nat
      /\ NumberOfPages[g] > 0 /\ NumberOfPages[h] > 0
      /\ \A i \in 1 .. Len(FreeList) : FreeList[i] \in Nat
  BY <1>1, <1>2, <1>4 DEF HeadsOf
<1>7. ASSUME g + NumberOfPages[g] = h
      PROVE  p > 1 /\ p - 1 \in 1 .. Len(FreeList) /\ g = FreeList[p - 1]
  <2>1. g < h
    BY <1>6, <1>7
  <2>2. k < p
    <3>1. SUFFICES ASSUME p <= k  PROVE FALSE
      OBVIOUS
    <3>2. p \in 1 .. Len(FreeList) /\ ~ (FreeList[p] < h)
      BY <3>1
    <3>3. p = k \/ FreeList[p] < FreeList[k]
      BY <3>1, <3>2 DEF Sorted
    <3>. QED  BY <1>5, <1>6, <2>1, <3>2, <3>3
  <2>3. p - 1 \in 1 .. Len(FreeList) /\ FreeList[p - 1] < h
    BY <2>2
  <2>4. k = p - 1
    <3>1. SUFFICES ASSUME k < p - 1  PROVE FALSE
      BY <2>2
    <3>2. g < FreeList[p - 1]
      BY <1>5, <2>3, <3>1 DEF Sorted
    <3>3. h <= FreeList[p - 1]
      BY <1>1, <1>3, <1>4, <1>7, <2>3, <3>2
    <3>. QED  BY <1>6, <2>3, <3>3
  <2>. QED  BY <1>5, <2>3, <2>4
<1>8. ASSUME h + NumberOfPages[h] = g
      PROVE  p \in 1 .. Len(FreeList) /\ g = FreeList[p]
  <2>1. h < g
    BY <1>6, <1>8
  <2>2. ~ (k < p)
    BY <1>5, <1>6, <2>1
  <2>3. p \in 1 .. Len(FreeList)
    BY <2>2
  <2>4. k = p
    <3>1. SUFFICES ASSUME p < k  PROVE FALSE
      BY <2>2
    <3>2. FreeList[p] < g
      BY <1>5, <2>3, <3>1 DEF Sorted
    <3>3. h < FreeList[p]
      <4>1. ~ (FreeList[p] < h) /\ FreeList[p] # h
        BY <1>1, <1>4, <2>3
      <4>. QED  BY <1>6, <2>3, <4>1
    <3>4. g <= FreeList[p]
      BY <1>1, <1>3, <1>4, <1>8, <2>3, <3>3
    <3>. QED  BY <1>6, <2>3, <3>2, <3>4
  <2>. QED  BY <1>5, <2>3, <2>4
<1>. QED  BY <1>7, <1>8

LEMMA FreePagesOrder ==
    ASSUME Sound, Sorted(FreeList), Coalesced, NEW h \in live, FreePages(h)
    PROVE  Sorted(FreeList') /\ Coalesced'
<1>1. PICK p \in 1 .. Len(FreeList) + 1 :
          /\ \A i \in 1 .. p - 1 : FreeList[i] < h
          /\ p <= Len(FreeList) => ~ (FreeList[p] < h)
          /\ \/ /\ ~ TouchesAfter(h, p)
                /\ FreeList' = JoinedList(h, p)
                /\ NumberOfPages' = JoinedWords(h, p)
             \/ /\ TouchesAfter(h, p)
                /\ FreeList' = RemoveAt(JoinedList(h, p),
                                        IF TouchesBefore(h, p) THEN p ELSE p + 1)
                /\ NumberOfPages' =
                      [JoinedWords(h, p) EXCEPT
                          ![JoinedHead(h, p)] =
                              JoinedSize(h, p) + NumberOfPages[FreeList[p]],
                          ![FreeList[p]] = 0]
  BY DEF FreePages, ReleasePoint
<1>. DEFINE W == JoinedWords(h, p)
            L == JoinedList(h, p)
            head == JoinedHead(h, p)
            a == FreeList[p]
            k == IF TouchesBefore(h, p) THEN p ELSE p + 1
<1>2. /\ FreeList \in Seq(Pages) /\ NumberOfPages \in Words
      /\ h \in Pages /\ h \notin Listed
      /\ Listed \subseteq Pages
      /\ NumberOfPages[h] > 0
      /\ \A q \in Pages : NumberOfPages[q] \in Nat /\ q \in Nat
      /\ \A q \in Listed : NumberOfPages[q] > 0
  BY WordsAreNaturals DEF Sound, HeadsOf
<1>3. /\ W \in Words
      /\ L \in Seq(Pages) /\ NoRepetition(L)
      /\ head \in Range(L)
      /\ W[head] = JoinedSize(h, p)
  BY FirstHalfOfRelease
<1>4. TouchesBefore(h, p) =>
          /\ p - 1 \in 1 .. Len(FreeList)
          /\ head = FreeList[p - 1] /\ head \in Listed
          /\ head + NumberOfPages[head] = h
          /\ JoinedSize(h, p) = NumberOfPages[head] + NumberOfPages[h]
          /\ L = FreeList
  <2>. SUFFICES ASSUME TouchesBefore(h, p)
       PROVE  /\ p - 1 \in 1 .. Len(FreeList)
              /\ head = FreeList[p - 1] /\ head \in Listed
              /\ head + NumberOfPages[head] = h
              /\ JoinedSize(h, p) = NumberOfPages[head] + NumberOfPages[h]
              /\ L = FreeList
    OBVIOUS
  <2>1. p - 1 \in 1 .. Len(FreeList)
    BY DEF TouchesBefore
  <2>2. FreeList[p - 1] \in Listed
    BY <1>2, <2>1, RangeMembers DEF Listed
  <2>. QED  BY <2>1, <2>2 DEF TouchesBefore, JoinedHead, JoinedSize, JoinedList
<1>5. ~ TouchesBefore(h, p) =>
          head = h /\ JoinedSize(h, p) = NumberOfPages[h] /\ L = InsertAt(FreeList, p, h)
  BY DEF JoinedHead, JoinedSize, JoinedList
<1>6. Sorted(L)
  <2>1. CASE TouchesBefore(h, p)
    BY <1>4, <2>1
  <2>2. CASE ~ TouchesBefore(h, p)
    <3>1. h \notin Range(FreeList)
      BY <1>2 DEF Listed
    <3>. QED  BY <1>1, <1>2, <1>5, <2>2, <3>1, InsertAtSorted
  <2>. QED  BY <2>1, <2>2
<1>7. TouchesAfter(h, p) =>
          /\ p \in 1 .. Len(FreeList) /\ a \in Listed
          /\ k \in 1 .. Len(L) /\ L[k] = a /\ a # head
  <2>. SUFFICES ASSUME TouchesAfter(h, p)
                PROVE  /\ p \in 1 .. Len(FreeList) /\ a \in Listed
                       /\ k \in 1 .. Len(L) /\ L[k] = a /\ a # head
    OBVIOUS
  <2>1. p \in 1 .. Len(FreeList)
    BY DEF TouchesAfter
  <2>2. a \in Listed
    BY <1>2, <2>1, RangeMembers DEF Listed
  <2>. QED  BY <2>1, <2>2, RunAfter
<1>8. /\ head \in Pages
      /\ head + JoinedSize(h, p) = h + NumberOfPages[h]
      /\ head < h + NumberOfPages[h]
      /\ JoinedSize(h, p) \in Nat
  BY SMTT(40), <1>2, <1>4, <1>5
<1>9. \A x \in Pages : x # head /\ x # h => W[x] = NumberOfPages[x]
  BY <1>2, <1>4 DEF JoinedWords, JoinedHead, Words
<1>10. Range(L) \subseteq Listed \cup {head}
  <2>1. CASE TouchesBefore(h, p)
    BY <1>4, <2>1 DEF Listed
  <2>2. CASE ~ TouchesBefore(h, p)
    <3>1. h \notin Range(FreeList) /\ NoRepetition(FreeList)
      BY <1>2 DEF Listed, Sound
    <3>. QED  BY <1>2, <1>5, <2>2, <3>1, InsertAtMembers DEF Listed
  <2>. QED  BY <2>1, <2>2
<1>11. a \in Listed => h # a
  BY <1>2
<1>. HIDE DEF W, L, head, a, k
<1>12. /\ Sorted(FreeList')
       /\ Listed' \subseteq Range(L)
       /\ \A x \in Listed' : x # head => x \in Listed /\ NumberOfPages'[x] = NumberOfPages[x]
       /\ ~ TouchesAfter(h, p) => head + NumberOfPages'[head] = h + NumberOfPages[h]
       /\ TouchesAfter(h, p) =>
             head + NumberOfPages'[head] = a + NumberOfPages[a] /\ head < a
  <2>1. CASE ~ TouchesAfter(h, p)
    <3>1. FreeList' = L /\ NumberOfPages' = W
      BY <1>1, <2>1 DEF L, W
    <3>. QED  BY <1>2, <1>3, <1>6, <1>8, <1>9, <1>10, <2>1, <3>1 DEF Listed
  <2>2. CASE TouchesAfter(h, p)
    <3>1. /\ FreeList' = RemoveAt(L, k)
          /\ NumberOfPages' = [W EXCEPT ![head] = JoinedSize(h, p) + NumberOfPages[a], ![a] = 0]
      BY <1>1, <2>2 DEF L, W, head, a, k
    <3>2. Listed' = Range(L) \ {a} /\ Sorted(FreeList')
      BY <1>3, <1>6, <1>7, <2>2, <3>1, RemoveAtMembers, RemoveAtSorted DEF Listed
    <3>3. h + NumberOfPages[h] = a
      BY <1>8, <2>2 DEF TouchesAfter, head, a
    <3>4. /\ NumberOfPages'[head] = JoinedSize(h, p) + NumberOfPages[a]
          /\ \A x \in Pages : x # head /\ x # a => NumberOfPages'[x] = W[x]
      BY <1>2, <1>3, <1>7, <1>8, <2>2, <3>1 DEF Words
    <3>5. head + NumberOfPages'[head] = a + NumberOfPages[a] /\ head < a
      BY SMTT(40), <1>2, <1>7, <1>8, <2>2, <3>3, <3>4
    <3>. QED  BY <1>2, <1>9, <1>10, <2>2, <3>2, <3>4, <3>5
  <2>. QED  BY <2>1, <2>2
<1>13. Coalesced'
  <2>1. SUFFICES ASSUME NEW g \in Listed', NEW x \in Listed',
                        g + NumberOfPages'[g] = x
                 PROVE  FALSE
    BY DEF Coalesced
  <2>2. CASE g = head /\ ~ TouchesAfter(h, p)
    <3>1. h + NumberOfPages[h] = x /\ x # head
      BY <1>2, <1>8, <1>12, <2>1, <2>2
    <3>2. x \in Listed
      BY <1>12, <3>1
    <3>3. p \in 1 .. Len(FreeList) /\ x = FreeList[p]
      BY <1>1, <3>1, <3>2, Neighbours
    <3>. QED  BY <1>8, <2>2, <3>1, <3>3 DEF TouchesAfter, head
  <2>3. CASE g = head /\ TouchesAfter(h, p)
    <3>1. a + NumberOfPages[a] = x /\ a \in Listed
      BY <1>7, <1>12, <2>1, <2>3
    <3>2. x # head
      BY <1>2, <1>8, <1>12, <2>3, <3>1
    <3>3. x \in Listed
      BY <1>12, <3>2
    <3>. QED  BY <3>1, <3>3 DEF Coalesced
  <2>4. CASE g # head
    <3>1. g \in Listed /\ g + NumberOfPages[g] = x
      BY <1>12, <2>1, <2>4
    <3>2. CASE x # head \/ TouchesBefore(h, p)
      <4>1. x \in Listed
        BY <1>4, <1>12, <3>2 DEF head
      <4>. QED  BY <3>1, <4>1 DEF Coalesced
    <3>3. CASE x = head /\ ~ TouchesBefore(h, p)
      <4>1. g + NumberOfPages[g] = h
        BY <1>5, <3>1, <3>3 DEF head
      <4>2. p > 1 /\ g = FreeList[p - 1]
        BY <1>1, <3>1, <4>1, Neighbours
      <4>. QED  BY <3>3, <4>1, <4>2 DEF TouchesBefore
    <3>. QED  BY <3>2, <3>3
  <2>. QED  BY <2>2, <2>3, <2>4
<1>. QED  BY <1>12, <1>13

-----------------------------------------------------------------------------
(* When no free run is long enough, no stretch of free pages is: a stretch  *)
(* longer than the run it starts in would reach a run that starts where     *)
(* that one ends.                                                           *)
LEMMA NoFitMeansNoRoom ==
    ASSUME Sound, Coalesced, NEW need \in Nat, 0 < need, Fits(need) = {},
           NEW first \in Nat
    PROVE  ~ (first .. first + need - 1 \subseteq FreePageSet)
<1>1. /\ \A q \in Pages : NumberOfPages[q] \in Nat /\ q \in Nat
      /\ Listed \subseteq HeadsOf(NumberOfPages) /\ HeadsOf(NumberOfPages) \subseteq Pages
      /\ FreeList \in Seq(Pages)
  BY WordsAreNaturals DEF Sound, HeadsOf
<1>2. \A g \in Listed : NumberOfPages[g] < need
  <2>1. \A i \in 1 .. Len(FreeList) : ~ (NumberOfPages[FreeList[i]] >= need)
    BY DEF Fits
  <2>2. SUFFICES ASSUME NEW g \in Listed  PROVE NumberOfPages[g] < need
    OBVIOUS
  <2>3. PICK i \in 1 .. Len(FreeList) : FreeList[i] = g
    BY <1>1, RangeMembers DEF Listed
  <2>. QED  BY <1>1, <2>1, <2>3
<1>3. \A q \in FreePageSet : \E g \in Listed : g <= q /\ q < g + NumberOfPages[g]
  BY <1>1 DEF FreePageSet, Run
<1>4. SUFFICES ASSUME first .. first + need - 1 \subseteq FreePageSet  PROVE FALSE
  OBVIOUS
<1>5. PICK a \in Listed : a <= first /\ first < a + NumberOfPages[a]
  <2>1. first \in FreePageSet
    BY <1>4
  <2>. QED  BY <1>3, <2>1
<1>. DEFINE e == a + NumberOfPages[a]
<1>6. a \in Nat /\ NumberOfPages[a] \in Nat /\ e \in first .. first + need - 1
  BY <1>1, <1>2, <1>5
<1>7. PICK b \in Listed : b <= e /\ e < b + NumberOfPages[b]
  BY <1>3, <1>4, <1>6
<1>8. /\ NumberOfPages[a] > 0 /\ NumberOfPages[b] > 0
      /\ b \in Nat /\ NumberOfPages[b] \in Nat
      /\ a < b => a + NumberOfPages[a] <= b
      /\ b < a => b + NumberOfPages[b] <= a
  BY <1>1 DEF Sound, Tiles, Disjoint, HeadsOf
<1>9. b = e
  BY <1>6, <1>7, <1>8
<1>. QED  BY <1>9 DEF Coalesced

(* The invariant with the order of the list in it.                          *)
OrderInv == IInv /\ FreeListSorted /\ FreeRunsCoalesced /\ OutOfMemoryIsReal

LEMMA NextKeepsOrder == AddressesAscend /\ OrderInv /\ [Next]_vars => OrderInv'
<1>. SUFFICES ASSUME AddressesAscend, OrderInv, [Next]_vars  PROVE OrderInv'
  OBVIOUS
<1>1. IInv /\ IInv' /\ Sorted(FreeList) /\ (panic = NoPanic => Sound /\ Coalesced)
  BY NextKeepsIInv, InvariantIsSound
     DEF OrderInv, FreeListSorted, FreeRunsCoalesced, Sorted, Coalesced
<1>2. ASSUME Sorted(FreeList'), Coalesced', panic' = NoPanic  PROVE OrderInv'
  BY <1>1, <1>2 DEF OrderInv, FreeListSorted, FreeRunsCoalesced, Sorted, Coalesced,
                    OutOfMemoryIsReal, OutOfMemoryMeansNoRoom, NoPanic
<1>3. CASE UNCHANGED vars
  BY <1>1, <1>3 DEF vars, OrderInv, FreeListSorted, FreeRunsCoalesced, Listed,
       OutOfMemoryIsReal, OutOfMemoryMeansNoRoom, FreePageSet, Run
<1>4. ASSUME NEW pages \in Requests, AllocatePages(pages)  PROVE OrderInv'
  <2>. DEFINE need == pages + 1
  <2>1. need \in Nat /\ 0 < need /\ panic = NoPanic
    BY <1>4, RequestsAssumption DEF AllocatePages
  <2>2. \/ OutOfMemory(need)
        \/ \E i \in Fits(need) :
              TakeWhole(i, need) \/ Split(i, need) \/ SplitPanics(i, need)
    BY <1>4 DEF AllocatePages
  <2>. HIDE DEF need
  <2>3. CASE OutOfMemory(need)
    <3>1. /\ panic' = [kind |-> "OutOfMemory", value |-> need] /\ Fits(need) = {}
          /\ FreeList' = FreeList /\ NumberOfPages' = NumberOfPages
      BY <2>3 DEF OutOfMemory
    <3>2. \A first \in Nat : ~ (first .. first + need - 1 \subseteq FreePageSet)
      BY <1>1, <2>1, <3>1, NoFitMeansNoRoom
    <3>3. FreePageSet' = FreePageSet
      BY <3>1 DEF FreePageSet, Run, Listed
    <3>. QED  BY <1>1, <3>1, <3>2, <3>3 DEF OrderInv, FreeListSorted, Sorted,
              FreeRunsCoalesced, NoPanic, OutOfMemoryIsReal, OutOfMemoryMeansNoRoom
  <2>4. ASSUME NEW i \in Fits(need), TakeWhole(i, need)  PROVE OrderInv'
    BY <1>1, <1>2, <2>1, <2>4, TakeWholeOrder DEF TakeWhole
  <2>5. ASSUME NEW i \in Fits(need), Split(i, need)  PROVE OrderInv'
    BY <1>1, <1>2, <2>1, <2>5, SplitOrder DEF Split
  <2>6. ASSUME NEW i \in Fits(need), SplitPanics(i, need)  PROVE OrderInv'
    <3>1. Sorted(FreeList') /\ panic'.kind = "PageIndex"
      BY <1>1, <2>1, <2>6, BestRun, RemoveAtSorted DEF SplitPanics, Sound
    <3>. QED  BY <1>1, <3>1 DEF OrderInv, FreeListSorted, Sorted,
              FreeRunsCoalesced, NoPanic, OutOfMemoryIsReal, OutOfMemoryMeansNoRoom
  <2>. QED  BY <2>2, <2>3, <2>4, <2>5, <2>6
<1>5. ASSUME NEW h \in live, FreePages(h)  PROVE OrderInv'
  BY <1>1, <1>2, <1>5, FreePagesOrder DEF FreePages
<1>6. CASE Halted
  BY <1>3, <1>6 DEF Halted
<1>. QED  BY <1>3, <1>4, <1>5, <1>6 DEF Next

LEMMA InitOrder == Init => OrderInv
<1>. SUFFICES ASSUME Init  PROVE OrderInv
  OBVIOUS
<1>1. IInv
  BY InitSound, SoundIsInvariant
<1>2. FreeListSorted
  BY DEF Init, FreeListSorted
<1>3. FreeRunsCoalesced
  BY TotalPagesAssumption DEF Init, FreeRunsCoalesced, Listed, Range, Pages
<1>4. OutOfMemoryIsReal
  BY DEF Init, OutOfMemoryIsReal, OutOfMemoryMeansNoRoom, NoPanic
<1>. QED  BY <1>1, <1>2, <1>3, <1>4 DEF OrderInv

LEMMA OrderInvariant == Spec => []OrderInv
<1>1. OrderInv /\ [Next]_vars => OrderInv'
  <2>1. CASE AddressesAscend
    BY <2>1, NextKeepsOrder
  <2>2. CASE ~ AddressesAscend
    BY <2>2, NextKeepsIInv
       DEF OrderInv, FreeListSorted, FreeRunsCoalesced, OutOfMemoryIsReal, AddressesAscend
  <2>. QED  BY <2>1, <2>2
<1>. QED  BY <1>1, InitOrder, PTL DEF Spec

(* With ascending regions the list is sorted by page index, so that the     *)
(* walk of FreePages finds the neighbours of every run.                     *)
THEOREM ListStaysSorted == Spec => []FreeListSorted
<1>1. OrderInv => FreeListSorted
  BY DEF OrderInv
<1>. QED  BY <1>1, OrderInvariant, PTL

(* With ascending regions no two free runs are ever adjacent.               *)
THEOREM FreeRunsStayMerged == Spec => []FreeRunsCoalesced
<1>1. OrderInv => FreeRunsCoalesced
  BY DEF OrderInv
<1>. QED  BY <1>1, OrderInvariant, PTL

(* With ascending regions an out-of-memory panic is never due to the way    *)
(* the list cuts the free pages into runs.                                  *)
THEOREM OutOfMemoryIsNeverFalse == Spec => []OutOfMemoryIsReal
<1>1. OrderInv => OutOfMemoryIsReal
  BY DEF OrderInv
<1>. QED  BY <1>1, OrderInvariant, PTL

-----------------------------------------------------------------------------
(* The refinement. The free pages are the pages nobody holds, so a step is  *)
(* described by what it does to the held runs.                              *)
HeldStretches == {[first |-> h, pages |-> NumberOfPages[h]] : h \in live}

LEMMA FreeIsTheRest ==
    ASSUME Sound
    PROVE  /\ FreePageSet = Pages \ HeldPageSet
           /\ \A g, h \in live : g # h => Run(g) \cap Run(h) = {}
           /\ \A h \in live : Run(h) \subseteq Pages
           /\ \A g \in Listed : Run(g) \subseteq FreePageSet
<1>1. /\ TotalPages \in Nat
      /\ \A q \in Pages : NumberOfPages[q] \in Nat /\ q \in Nat
      /\ \A q \in Nat : q < TotalPages => q \in Pages
  BY TotalPagesAssumption, WordsAreNaturals DEF Sound, Pages
<1>. DEFINE H == HeadsOf(NumberOfPages)
<1>2. /\ H \subseteq Pages
      /\ Listed \cup live = H /\ Listed \cap live = {}
  BY DEF Sound, HeadsOf
<1>. HIDE DEF H
<1>3. \A h \in H : \A q : q \in Run(h) <=> q \in Nat /\ h <= q /\ q < h + NumberOfPages[h]
  BY <1>1, <1>2 DEF Run
<1>4. ASSUME NEW g \in H, NEW h \in H, g # h  PROVE Run(g) \cap Run(h) = {}
  <2>1. /\ g < h => g + NumberOfPages[g] <= h
        /\ h < g => h + NumberOfPages[h] <= g
    BY <1>1, <1>2 DEF Sound, Tiles, Disjoint, H, HeadsOf
  <2>2. g < h \/ h < g
    BY <1>1, <1>2, <1>4
  <2>3. ASSUME NEW q \in Run(g), q \in Run(h)  PROVE FALSE
    BY <1>1, <1>2, <1>3, <2>1, <2>2, <2>3
  <2>. QED  BY <2>3
<1>5. ASSUME NEW h \in H  PROVE Run(h) \subseteq Pages
  <2>1. h + NumberOfPages[h] <= TotalPages
    BY <1>2 DEF Sound, Tiles, InBounds, H, HeadsOf
  <2>. QED  BY <1>1, <1>2, <1>3, <2>1
<1>6. \A q \in Pages : \E h \in H : q \in Run(h)
  BY <1>1, <1>3 DEF Sound, Tiles, Covers, H, HeadsOf
<1>7. /\ \A q : q \in FreePageSet <=> \E g \in Listed : q \in Run(g)
      /\ \A q : q \in HeldPageSet <=> \E g \in live : q \in Run(g)
  BY DEF FreePageSet, HeldPageSet
<1>8. FreePageSet = Pages \ HeldPageSet
  <2>1. ASSUME NEW q \in FreePageSet  PROVE q \in Pages \ HeldPageSet
    BY <1>2, <1>4, <1>5, <1>7, <2>1
  <2>2. ASSUME NEW q \in Pages \ HeldPageSet  PROVE q \in FreePageSet
    BY <1>2, <1>6, <1>7, <2>2
  <2>. QED  BY <2>1, <2>2
<1>. QED  BY <1>2, <1>4, <1>5, <1>7, <1>8

LEMMA FreeAndHeld ==
    Sound => FreePageSet = Pages \ HeldPageSet
BY FreeIsTheRest

(* The pages of a run, for given size words.                                *)
RunOf(N, h) == h .. h + N[h] - 1
HeldIn(N, heads) == UNION {RunOf(N, h) : h \in heads}

LEMMA HeldNowAndNext ==
    /\ HeldPageSet = HeldIn(NumberOfPages, live)
    /\ HeldPageSet' = HeldIn(NumberOfPages', live')
BY DEF HeldPageSet, Run, HeldIn, RunOf

(* An allocation hands out the first need pages of the best run and leaves  *)
(* every held run as it is.                                                 *)
LEMMA TakeSteps ==
    ASSUME Sound, Sound', NEW pages \in Nat, NEW i \in Fits(pages + 1),
           panic = NoPanic,
           TakeWhole(i, pages + 1) \/ Split(i, pages + 1)
    PROVE  Pool!Take(pages)
<1>. DEFINE need == pages + 1
            best == FreeList[i]
            taken == Pool!Stretch(best, need)
<1>1. /\ best \in Listed /\ best \in Pages
      /\ NumberOfPages[best] >= need /\ need \in Nat
      /\ NumberOfPages \in Words /\ NumberOfPages[best] \in Nat /\ best \in Nat
  BY BestRun, WordsAreNaturals DEF Sound
<1>2. /\ live' = live \cup {best} /\ panic' = panic
      /\ NumberOfPages'[best] = need
      /\ \A h \in live : NumberOfPages'[h] = NumberOfPages[h]
  <2>1. CASE TakeWhole(i, need)
    BY <2>1 DEF TakeWhole
  <2>2. CASE Split(i, need)
    <3>1. /\ live' = live \cup {best} /\ panic' = panic
          /\ NumberOfPages[best] > need
          /\ NumberOfPages' = SplitWords(NumberOfPages, best, need)
      BY <2>2 DEF Split, SplitWords
    <3>2. best + need \in Pages /\ NumberOfPages[best + need] = 0 /\ best # best + need
      BY <1>1, <3>1, SplitKeepsTiling DEF Sound
    <3>3. best \notin live /\ best + need \notin live /\ live \subseteq Pages
      BY <1>1, <3>2 DEF Sound, HeadsOf
    <3>. QED  BY <1>1, <3>1, <3>2, <3>3 DEF SplitWords, Words
  <2>. QED  BY <2>1, <2>2
<1>3. taken \subseteq Run(best)
  BY <1>1 DEF Run, Pool!Stretch
<1>. HIDE DEF need, best
<1>4. taken \subseteq FreePageSet
  BY <1>1, <1>3, FreeIsTheRest
<1>5. /\ RunOf(NumberOfPages', best) = taken
      /\ \A h \in live : RunOf(NumberOfPages', h) = RunOf(NumberOfPages, h)
  BY <1>2 DEF RunOf, Pool!Stretch
<1>. HIDE DEF taken
<1>6. HeldPageSet' = HeldPageSet \cup taken
  BY <1>2, <1>5, HeldNowAndNext DEF HeldIn
<1>7. FreePageSet' = FreePageSet \ taken
  <2>1. FreePageSet = Pages \ HeldPageSet
    BY FreeAndHeld
  <2>2. (FreePageSet = Pages \ HeldPageSet)'
    BY FreeAndHeld, PTL
  <2>. QED  BY <1>6, <2>1, <2>2
<1>8. HeldStretches' = HeldStretches \cup {[first |-> best, pages |-> need]}
  BY <1>2 DEF HeldStretches
<1>. QED  BY <1>1, <1>2, <1>4, <1>7, <1>8
     DEF Pool!Take, Pool!Pages, Pages, HeldStretches, taken, need, NoPanic

(* A release gives back exactly the released run.                           *)
LEMMA ReturnSteps ==
    ASSUME Sound, Sound', NEW h \in live, FreePages(h)
    PROVE  Pool!Return([first |-> h, pages |-> NumberOfPages[h]])
<1>1. /\ live' = live \ {h} /\ panic' = panic /\ panic = NoPanic
      /\ \A g \in live' : NumberOfPages'[g] = NumberOfPages[g]
  <2>1. live' = live \ {h} /\ panic' = panic /\ panic = NoPanic
    BY DEF FreePages
  <2>2. PICK p \in 1 .. Len(FreeList) + 1 :
            \/ /\ ~ TouchesAfter(h, p)
               /\ NumberOfPages' = JoinedWords(h, p)
            \/ /\ TouchesAfter(h, p)
               /\ NumberOfPages' =
                     [JoinedWords(h, p) EXCEPT
                         ![JoinedHead(h, p)] =
                             JoinedSize(h, p) + NumberOfPages[FreeList[p]],
                         ![FreeList[p]] = 0]
    BY DEF FreePages
  <2>3. /\ FreeList \in Seq(Pages) /\ NumberOfPages \in Words
        /\ live \subseteq Pages /\ Listed \cap live = {}
    BY DEF Sound
  <2>4. ASSUME NEW g \in live'  PROVE NumberOfPages'[g] = NumberOfPages[g]
    <3>1. g \in live /\ g # h /\ g \in Pages /\ g \notin Listed
      BY <2>1, <2>3
    <3>2. \A k \in 1 .. Len(FreeList) : g # FreeList[k]
      BY <2>3, <3>1, RangeMembers DEF Listed
    <3>3. TouchesBefore(h, p) => g # FreeList[p - 1]
      BY <3>2 DEF TouchesBefore
    <3>4. g # JoinedHead(h, p) /\ JoinedWords(h, p)[g] = NumberOfPages[g]
      BY <2>3, <3>1, <3>3 DEF JoinedHead, JoinedWords, Words
    <3>5. JoinedWords(h, p) \in Words
      BY FirstHalfOfRelease
    <3>6. TouchesAfter(h, p) => g # FreeList[p]
      BY <3>2 DEF TouchesAfter
    <3>. QED  BY <2>2, <3>1, <3>4, <3>5, <3>6 DEF Words
  <2>. QED  BY <2>1, <2>4
<1>2. /\ \A g \in live' : RunOf(NumberOfPages', g) = RunOf(NumberOfPages, g)
      /\ \A g \in live' : RunOf(NumberOfPages, g) \cap RunOf(NumberOfPages, h) = {}
      /\ RunOf(NumberOfPages, h) \subseteq Pages
  BY <1>1, FreeIsTheRest DEF RunOf, Run
<1>3. HeldPageSet' = HeldPageSet \ RunOf(NumberOfPages, h)
  <2>. HIDE DEF RunOf
  <2>1. \A q : q \in HeldIn(NumberOfPages', live') <=> \E g \in live' : q \in RunOf(NumberOfPages, g)
    BY <1>2 DEF HeldIn
  <2>2. \A q : q \in HeldIn(NumberOfPages, live) <=> \E g \in live : q \in RunOf(NumberOfPages, g)
    BY DEF HeldIn
  <2>. QED  BY <1>1, <1>2, <2>1, <2>2, HeldNowAndNext
<1>4. FreePageSet' = FreePageSet \cup RunOf(NumberOfPages, h)
  <2>1. FreePageSet = Pages \ HeldPageSet
    BY FreeAndHeld
  <2>2. (FreePageSet = Pages \ HeldPageSet)'
    BY FreeAndHeld, PTL
  <2>3. RunOf(NumberOfPages, h) \subseteq HeldPageSet
    BY HeldNowAndNext DEF HeldIn
  <2>. QED  BY <1>2, <1>3, <2>1, <2>2, <2>3
<1>5. HeldStretches' = HeldStretches \ {[first |-> h, pages |-> NumberOfPages[h]]}
  BY <1>1 DEF HeldStretches
<1>. QED  BY <1>1, <1>4, <1>5
     DEF Pool!Return, Pool!Stretch, RunOf, HeldStretches, NoPanic

(* A panic of the allocator is one of the two situations in which the pool  *)
(* may give up.                                                             *)
LEMMA PanicSteps ==
    ASSUME Sound, NEW pages \in Nat, panic = NoPanic,
           \/ OutOfMemory(pages + 1) /\ Coalesced
           \/ \E i \in Fits(pages + 1) : SplitPanics(i, pages + 1)
    PROVE  Pool!GiveUp(pages)
<1>1. CASE OutOfMemory(pages + 1) /\ Coalesced
  <2>1. /\ Fits(pages + 1) = {} /\ panic' # NoPanic
        /\ FreePageSet' = FreePageSet /\ HeldStretches' = HeldStretches
    BY <1>1 DEF OutOfMemory, NoPanic, FreePageSet, HeldStretches, Listed, Run
  <2>2. Pool!NoRoom(pages)
    <3>1. \A first \in Nat : ~ (first .. first + (pages + 1) - 1 \subseteq FreePageSet)
      <4>1. pages + 1 \in Nat /\ 0 < pages + 1
        OBVIOUS
      <4>. HIDE DEF FreePageSet
      <4>. QED  BY <1>1, <2>1, <4>1, NoFitMeansNoRoom
    <3>2. \A first \in Pool!Pages : first \in Nat
      BY TotalPagesAssumption DEF Pool!Pages
    <3>. QED  BY <3>1, <3>2 DEF Pool!NoRoom, Pool!Stretch
  <2>. QED  BY <2>1, <2>2 DEF Pool!GiveUp, HeldStretches
<1>2. ASSUME NEW i \in Fits(pages + 1), SplitPanics(i, pages + 1)
      PROVE  Pool!GiveUp(pages)
  <2>. DEFINE best == FreeList[i]
              need == pages + 1
  <2>1. /\ best \in Listed /\ best \in Pages /\ best \in Nat
        /\ NumberOfPages[best] \in Nat /\ TotalPages \in Nat
        /\ best + NumberOfPages[best] <= TotalPages
        /\ Range(RemoveAt(FreeList, i)) \subseteq Listed
    <3>1. best \in Listed /\ best \in Pages /\ Range(RemoveAt(FreeList, i)) \subseteq Listed
      BY BestRun
    <3>2. NumberOfPages[best] > 0 /\ NumberOfPages \in Words
      BY <3>1 DEF Sound, HeadsOf
    <3>. QED  BY <3>1, <3>2, TotalPagesAssumption, WordsAreNaturals DEF Sound, Tiles, InBounds
  <2>2. NumberOfPages[best] > need /\ ~ (best + need + 1 < TotalPages)
    BY <1>2 DEF SplitPanics, HasPointer
  <2>3. /\ best = TotalPages - pages - 2
        /\ NumberOfPages[best] = pages + 2
    BY <2>1, <2>2
  <2>4. Pool!OnePageTooMany(pages)
    <3>1. Run(best) \subseteq FreePageSet
      BY <2>1, FreeIsTheRest
    <3>. QED  BY <2>3, <3>1 DEF Pool!OnePageTooMany, Pool!Stretch, Run
  <2>5. /\ panic' # NoPanic /\ NumberOfPages' = NumberOfPages /\ live' = live
        /\ Listed' \subseteq Listed
    BY <1>2, <2>1 DEF SplitPanics, NoPanic, Listed
  <2>6. FreePageSet' \subseteq FreePageSet /\ HeldStretches' = HeldStretches
    BY <2>5 DEF FreePageSet, Run, HeldStretches
  <2>. QED  BY <2>4, <2>5, <2>6 DEF Pool!GiveUp, HeldStretches
<1>. QED  BY <1>1, <1>2

(* The page the panic of line 22 is about is the last one, in a run that    *)
(* the list no longer holds.                                                *)
LEMMA SplitPanicIsTheLastPage ==
    ASSUME Sound, NEW need \in Nat, 0 < need, NEW i \in Fits(need),
           SplitPanics(i, need)
    PROVE  PageIndexPanicIsTheLastPage'
<1>. DEFINE best == FreeList[i]
            last == TotalPages - 1
<1>1. /\ best \in Listed /\ best \in Pages
      /\ Range(RemoveAt(FreeList, i)) = Listed \ {best}
  BY BestRun
<1>2. /\ NumberOfPages \in Words /\ NumberOfPages[best] > 0
      /\ Listed \subseteq HeadsOf(NumberOfPages) /\ live \subseteq HeadsOf(NumberOfPages)
      /\ best \notin live
  BY <1>1 DEF Sound, HeadsOf
<1>3. /\ TotalPages \in Nat /\ best + NumberOfPages[best] <= TotalPages
      /\ \A q \in Pages : NumberOfPages[q] \in Nat /\ q \in Nat
  BY <1>1, <1>2, TotalPagesAssumption, WordsAreNaturals DEF Sound, Tiles, InBounds
<1>4. /\ NumberOfPages[best] > need /\ ~ (best + need + 1 < TotalPages)
      /\ panic' = [kind |-> "PageIndex", value |-> best + need + 1]
      /\ NumberOfPages' = NumberOfPages /\ live' = live /\ Listed' = Listed \ {best}
  BY <1>1 DEF SplitPanics, HasPointer, Listed
<1>5. best + need + 1 = TotalPages /\ best + NumberOfPages[best] = TotalPages
  BY <1>1, <1>3, <1>4
<1>6. ASSUME NEW g \in HeadsOf(NumberOfPages), g # best  PROVE last \notin Run(g)
  <2>1. /\ g < best => g + NumberOfPages[g] <= best
        /\ best < g => best + NumberOfPages[best] <= g
    BY <1>1, <1>2 DEF Sound, Tiles, Disjoint, HeadsOf
  <2>2. g \in Pages /\ g + NumberOfPages[g] <= TotalPages
    BY DEF HeadsOf, Sound, Tiles, InBounds
  <2>3. g < best /\ best <= last
    <3>1. g < TotalPages
      BY <1>3, <2>2 DEF Pages
    <3>. QED  BY <1>1, <1>3, <1>5, <1>6, <2>1, <2>2, <3>1 DEF Pages
  <2>. QED  BY <1>1, <1>3, <2>1, <2>2, <2>3 DEF Run
<1>. HIDE DEF best, last
<1>7. last \notin FreePageSet'
  BY <1>2, <1>4, <1>6 DEF FreePageSet, Run
<1>8. last \notin HeldPageSet'
  BY <1>2, <1>4, <1>6 DEF HeldPageSet, Run
<1>. QED  BY <1>4, <1>5, <1>7, <1>8 DEF PageIndexPanicIsTheLastPage, last

(* A page index is refused only for the last page of memory, in the middle  *)
(* of an allocation that had a run to give.                                 *)
THEOREM PageIndexPanicExplained == Spec => []PageIndexPanicIsTheLastPage
<1>1. Init => PageIndexPanicIsTheLastPage
  BY DEF Init, PageIndexPanicIsTheLastPage, NoPanic
<1>2. IInv /\ PageIndexPanicIsTheLastPage /\ [Next]_vars => PageIndexPanicIsTheLastPage'
  <2>. SUFFICES ASSUME IInv, PageIndexPanicIsTheLastPage, [Next]_vars
                PROVE  PageIndexPanicIsTheLastPage'
    OBVIOUS
  <2>1. ASSUME panic'.kind # "PageIndex"  PROVE PageIndexPanicIsTheLastPage'
    BY <2>1 DEF PageIndexPanicIsTheLastPage
  <2>2. CASE UNCHANGED vars
    BY <2>2 DEF vars, PageIndexPanicIsTheLastPage, FreePageSet, HeldPageSet, Listed, Run
  <2>3. ASSUME NEW pages \in Requests, AllocatePages(pages)
        PROVE  PageIndexPanicIsTheLastPage'
    <3>1. /\ pages + 1 \in Nat /\ 0 < pages + 1 /\ Sound /\ panic = NoPanic
          /\ \/ OutOfMemory(pages + 1)
             \/ \E i \in Fits(pages + 1) :
                   \/ TakeWhole(i, pages + 1) \/ Split(i, pages + 1)
                   \/ SplitPanics(i, pages + 1)
      BY <2>3, RequestsAssumption, InvariantIsSound DEF AllocatePages
    <3>2. CASE \E i \in Fits(pages + 1) : SplitPanics(i, pages + 1)
      BY <3>1, <3>2, SplitPanicIsTheLastPage
    <3>3. CASE OutOfMemory(pages + 1)
      BY <2>1, <3>3 DEF OutOfMemory
    <3>4. ASSUME NEW i \in Fits(pages + 1), TakeWhole(i, pages + 1) \/ Split(i, pages + 1)
          PROVE  PageIndexPanicIsTheLastPage'
      <4>1. panic' = panic
        BY <3>4 DEF TakeWhole, Split
      <4>. QED  BY <2>1, <3>1, <4>1 DEF NoPanic
    <3>. QED  BY <3>1, <3>2, <3>3, <3>4
  <2>4. ASSUME NEW h \in live, FreePages(h)  PROVE PageIndexPanicIsTheLastPage'
    BY <2>1, <2>4 DEF FreePages, NoPanic
  <2>5. CASE Halted
    BY <2>2, <2>5 DEF Halted
  <2>. QED  BY <2>2, <2>3, <2>4, <2>5 DEF Next
<1>. QED  BY <1>1, <1>2, Invariant, PTL DEF Spec

(* With ascending regions the allocator is a pool of pages: the free list,  *)
(* its headers and its merging implement module PagePool.                   *)
THEOREM AllocatorIsAPool == AddressesAscend /\ Spec => ImplementsPool
<1>. SUFFICES ASSUME AddressesAscend  PROVE Spec => Pool!Spec
  BY DEF ImplementsPool
<1>1. Init => Pool!Init
  <2>. SUFFICES ASSUME Init  PROVE Pool!Init
    OBVIOUS
  <2>1. Listed = {0} /\ live = {} /\ NumberOfPages[0] = TotalPages
    BY TotalPagesAssumption DEF Init, Listed, Range, Pages
  <2>2. FreePageSet = 0 .. TotalPages - 1
    <3>1. FreePageSet = Run(0)
      BY <2>1 DEF FreePageSet
    <3>. QED  BY <2>1, <3>1, TotalPagesAssumption DEF Run
  <2>. QED  BY <2>1, <2>2 DEF Init, Pool!Init, Pool!Pages
<1>2. OrderInv /\ OrderInv' /\ [Next]_vars => [Pool!Next]_(Pool!vars)
  <2>. SUFFICES ASSUME OrderInv, OrderInv', [Next]_vars
                PROVE  [Pool!Next]_(Pool!vars)
    OBVIOUS
  <2>1. /\ panic = NoPanic => Sound /\ Coalesced
        /\ panic' = NoPanic => Sound'
    <3>1. panic = NoPanic => Sound
      BY InvariantIsSound DEF OrderInv
    <3>2. (panic = NoPanic => Sound)'
      BY InvariantIsSound, PTL DEF OrderInv
    <3>. QED  BY <3>1, <3>2 DEF OrderInv, FreeRunsCoalesced, Coalesced, NoPanic
  <2>2. CASE UNCHANGED vars
    BY <2>2 DEF vars, Pool!vars, FreePageSet, Listed, Run
  <2>3. ASSUME NEW pages \in Requests, AllocatePages(pages)  PROVE Pool!Next
    <3>1. pages \in Nat /\ panic = NoPanic
      BY <2>3, RequestsAssumption DEF AllocatePages
    <3>2. \/ OutOfMemory(pages + 1)
          \/ \E i \in Fits(pages + 1) :
                TakeWhole(i, pages + 1) \/ Split(i, pages + 1) \/ SplitPanics(i, pages + 1)
      BY <2>3 DEF AllocatePages
    <3>3. CASE \E i \in Fits(pages + 1) : TakeWhole(i, pages + 1) \/ Split(i, pages + 1)
      <4>1. panic' = NoPanic
        BY <3>1, <3>3 DEF TakeWhole, Split
      <4>2. Pool!Take(pages)
        BY <2>1, <3>1, <3>3, <4>1, TakeSteps
      <4>. QED  BY <4>2 DEF Pool!Next
    <3>4. CASE OutOfMemory(pages + 1) \/ \E i \in Fits(pages + 1) : SplitPanics(i, pages + 1)
      <4>1. Pool!GiveUp(pages)
        BY <2>1, <3>1, <3>4, PanicSteps
      <4>. QED  BY <4>1 DEF Pool!Next
    <3>. QED  BY <3>2, <3>3, <3>4
  <2>4. ASSUME NEW h \in live, FreePages(h)  PROVE Pool!Next
    <3>1. panic = NoPanic /\ panic' = NoPanic
      BY <2>4 DEF FreePages
    <3>2. Pool!Return([first |-> h, pages |-> NumberOfPages[h]])
      BY <2>1, <2>4, <3>1, ReturnSteps
    <3>3. PICK block : block = [first |-> h, pages |-> NumberOfPages[h]]
      OBVIOUS
    <3>4. Pool!Return(block)
      BY <3>2, <3>3 DEF Pool!Return
    <3>5. block \in {[first |-> g, pages |-> NumberOfPages[g]] : g \in live}
      BY <2>4, <3>3
    <3>. QED  BY <3>4, <3>5 DEF Pool!Next
  <2>5. CASE Halted
    BY <2>2, <2>5 DEF Halted
  <2>. QED  BY <2>2, <2>3, <2>4, <2>5 DEF Next
<1>. QED  BY <1>1, <1>2, OrderInvariant, PTL DEF Spec, Pool!Spec
=============================================================================

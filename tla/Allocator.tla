----------------------------- MODULE Allocator -----------------------------
(* The page allocator of the kernel (src/system/kernel/Allocator.c): a      *)
(* linked list of free runs, each described by a header written in the      *)
(* run's own first page; best-fit allocation that splits a run, and a       *)
(* release that merges the run with its neighbours.                         *)
(*                                                                          *)
(* A page is named by its index, as in the code; Address gives the machine  *)
(* address, in pages, of each index (module MemoryLayout computes it). The  *)
(* list is a sequence of header indexes: entry i+1 is entry i's Next.       *)
(* Allocation orders the list by ADDRESS (line 110) and release walks it by *)
(* INDEX (line 133): both orders are kept apart here.                       *)
EXTENDS Integers, SequencesExt

CONSTANTS
    TotalPages,   \* gAllocator.TotalPages: page indexes are 0 .. TotalPages-1
    Address,      \* PageIndexToMemoryAddress without its panic, in pages
    Requests      \* the page counts that callers ask for

Pages == 0 .. TotalPages - 1

ASSUME TotalPagesAssumption == TotalPages \in Nat /\ TotalPages >= 2
ASSUME AddressAssumption ==
    /\ Address \in [Pages -> Nat]
    /\ \A p, q \in Pages : Address[p] = Address[q] => p = q
ASSUME RequestsAssumption == Requests \subseteq Nat

(* The firmware listed its conventional regions by ascending address. Only  *)
(* the order of the free list, never the ownership of pages, rests on it.   *)
AddressesAscend == \A p, q \in Pages : p < q => Address[p] < Address[q]

VARIABLES
    FreeList,       \* the header pages of the free runs, in list order
    NumberOfPages,  \* the size word in each header page; 0 where a page heads no run
    live,           \* the header pages of the runs callers hold
    panic           \* the panic that stopped the kernel, if any

vars == <<FreeList, NumberOfPages, live, panic>>

NoPanic == [kind |-> "None", value |-> 0]
Panics  == [kind : {"None", "OutOfMemory", "PageIndex"}, value : Nat]

Listed == Range(FreeList)
Heads  == {p \in Pages : NumberOfPages[p] > 0}

(* The pages of the run that starts at page h, its header included.         *)
Run(h) == h .. h + NumberOfPages[h] - 1
FreePageSet == UNION {Run(h) : h \in Listed}
HeldPageSet == UNION {Run(h) : h \in live}

(* Mutant: the bound check refuses one page more.                           *)
HasPointerTooStrict(p) == p + 1 < TotalPages - 1

(* PageIndexToMemoryAddress refuses an index whose successor is not below   *)
(* TotalPages (lines 20-23): the last page has an address but no pointer.   *)
HasPointer(p) == p + 1 < TotalPages

(* The two walks down a list, each of which stops in front of entry p or,   *)
(* when p = Len(list) + 1, behind the last one: past the runs at a lower    *)
(* address than leftOver (AllocatePages), past the runs with a lower index  *)
(* than h (FreePages).                                                      *)
LinkPoint(list, leftOver, p) ==
    /\ \A i \in 1 .. p - 1 : Address[list[i]] < Address[leftOver]
    /\ p <= Len(list) => ~ (Address[list[p]] < Address[leftOver])
ReleasePoint(h, p) ==
    /\ \A i \in 1 .. p - 1 : FreeList[i] < h
    /\ p <= Len(FreeList) => ~ (FreeList[p] < h)

(* Mutant: the search takes a run only when it is longer than the request.  *)
FitsStrictly(need) ==
    {i \in 1 .. Len(FreeList) : NumberOfPages[FreeList[i]] > need}

(* The search of AllocatePages: the smallest run that is large enough, the  *)
(* first of those that tie.                                                 *)
Fits(need) == {i \in 1 .. Len(FreeList) : NumberOfPages[FreeList[i]] >= need}
IsBest(i, need) ==
    /\ i \in Fits(need)
    /\ \A j \in Fits(need) :
          \/ NumberOfPages[FreeList[i]] < NumberOfPages[FreeList[j]]
          \/ NumberOfPages[FreeList[i]] = NumberOfPages[FreeList[j]] /\ i <= j

-----------------------------------------------------------------------------
Init ==
    /\ FreeList = <<0>>
    /\ NumberOfPages = [p \in Pages |-> IF p = 0 THEN TotalPages ELSE 0]
    /\ live = {}
    /\ panic = NoPanic

OutOfMemory(need) ==
    /\ Fits(need) = {}
    /\ panic' = [kind |-> "OutOfMemory", value |-> need]
    /\ UNCHANGED <<FreeList, NumberOfPages, live>>

(* The best run is exactly as long as the request: hand it out whole.       *)
TakeWhole(i, need) ==
    /\ NumberOfPages[FreeList[i]] = need
    /\ FreeList' = RemoveAt(FreeList, i)
    /\ live' = live \cup {FreeList[i]}
    /\ UNCHANGED <<NumberOfPages, panic>>

(* The best run is longer: its tail becomes a free run of its own, put back *)
(* in the list in front of the first run at a higher address.               *)
Split(i, need) ==
    LET best     == FreeList[i]
        leftOver == best + need
        unlinked == RemoveAt(FreeList, i)
    IN  /\ NumberOfPages[best] > need
        /\ HasPointer(leftOver)
        /\ \E p \in 1 .. Len(unlinked) + 1 :
              /\ LinkPoint(unlinked, leftOver, p)
              /\ FreeList' = InsertAt(unlinked, p, leftOver)
        /\ NumberOfPages' = [NumberOfPages EXCEPT
                                ![best] = need,
                                ![leftOver] = NumberOfPages[best] - need]
        /\ live' = live \cup {best}
        /\ UNCHANGED panic

(* The tail would start at the last page, for which no pointer is given: a  *)
(* panic in the middle of the allocation, the best run already unlinked.    *)
SplitPanics(i, need) ==
    /\ NumberOfPages[FreeList[i]] > need
    /\ ~ HasPointer(FreeList[i] + need)
    /\ FreeList' = RemoveAt(FreeList, i)
    /\ panic' = [kind |-> "PageIndex", value |-> FreeList[i] + need + 1]
    /\ UNCHANGED <<NumberOfPages, live>>

(* Mutant: no page is added for the header.                                 *)
AllocateWithoutHeader(pages) ==
    /\ panic = NoPanic
    /\ \/ OutOfMemory(pages)
       \/ \E i \in Fits(pages) :
             /\ IsBest(i, pages)
             /\ TakeWhole(i, pages) \/ Split(i, pages) \/ SplitPanics(i, pages)

AllocatePages(pages) ==
    LET need == pages + 1   \* one more page for the header
    IN  /\ panic = NoPanic
        /\ \/ OutOfMemory(need)
           \/ \E i \in Fits(need) :
                 /\ IsBest(i, need)
                 /\ TakeWhole(i, need) \/ Split(i, need) \/ SplitPanics(i, need)

-----------------------------------------------------------------------------
(* FreePages in two steps of one action: the run that starts at h joins the *)
(* run before it or is linked into the list, then the joined run absorbs    *)
(* the run after it.                                                        *)
TouchesBefore(h, p) ==
    p > 1 /\ FreeList[p - 1] + NumberOfPages[FreeList[p - 1]] = h
JoinedHead(h, p) == IF TouchesBefore(h, p) THEN FreeList[p - 1] ELSE h
(* Mutants of the first merge: the released size is not added to the run in *)
(* front, or its header page is counted twice.                              *)
JoinedSizeNotAdded(h, p) ==
    IF TouchesBefore(h, p) THEN NumberOfPages[FreeList[p - 1]] ELSE NumberOfPages[h]
JoinedSizeOneMore(h, p) ==
    IF TouchesBefore(h, p)
    THEN NumberOfPages[FreeList[p - 1]] + NumberOfPages[h] + 1
    ELSE NumberOfPages[h]

JoinedSize(h, p) ==
    IF TouchesBefore(h, p)
    THEN NumberOfPages[FreeList[p - 1]] + NumberOfPages[h]
    ELSE NumberOfPages[h]
(* Mutant: a released run is put at the front of the list.                  *)
JoinedListAtFront(h, p) ==
    IF TouchesBefore(h, p) THEN FreeList ELSE InsertAt(FreeList, 1, h)

JoinedList(h, p) ==
    IF TouchesBefore(h, p) THEN FreeList ELSE InsertAt(FreeList, p, h)
JoinedWords(h, p) ==
    IF TouchesBefore(h, p)
    THEN [NumberOfPages EXCEPT ![FreeList[p - 1]] = JoinedSize(h, p), ![h] = 0]
    ELSE NumberOfPages
(* Mutant: the merge with the run after is forgotten.                       *)
TouchesAfterNever(h, p) == FALSE

TouchesAfter(h, p) ==
    p <= Len(FreeList) /\ JoinedHead(h, p) + JoinedSize(h, p) = FreeList[p]

FreePages(h) ==
    /\ panic = NoPanic
    /\ live' = live \ {h}
    /\ UNCHANGED panic
    /\ \E p \in 1 .. Len(FreeList) + 1 :
          /\ ReleasePoint(h, p)
          /\ \/ /\ ~ TouchesAfter(h, p)
                /\ FreeList' = JoinedList(h, p)
                /\ NumberOfPages' = JoinedWords(h, p)
             \/ /\ TouchesAfter(h, p)
                /\ FreeList' = RemoveAt(JoinedList(h, p),
                                        IF TouchesBefore(h, p) THEN p ELSE p + 1)
                /\ NumberOfPages' =
                      [JoinedWords(h, p) EXCEPT
                          ![JoinedHead(h, p)] =
                              JoinedSize(h, p) + NumberOfPages[FreeList[p]],
                          ![FreeList[p]] = 0]

(* A panic never returns.                                                   *)
Halted == panic # NoPanic /\ UNCHANGED vars

Next ==
    \/ \E pages \in Requests : AllocatePages(pages)
    \/ \E h \in live : FreePages(h)
    \/ Halted

Spec == Init /\ [][Next]_vars

-----------------------------------------------------------------------------
TypeOK ==
    /\ FreeList \in Seq(Pages)
    /\ NumberOfPages \in [Pages -> 0 .. TotalPages]
    /\ live \in SUBSET Pages
    /\ panic \in Panics

(* Runs tile the memory: they stay inside it, no two share a page (so no    *)
(* page has two owners) and every page is in one (so no page is lost).      *)
RunsInBounds == \A h \in Heads : h + NumberOfPages[h] <= TotalPages
RunsDisjoint == \A g, h \in Heads : g < h => g + NumberOfPages[g] <= h
RunsCover    == \A p \in Pages : \E h \in Heads : h <= p /\ p < h + NumberOfPages[h]
RunsTileMemory == RunsInBounds /\ RunsDisjoint /\ RunsCover

(* The list holds each free run once, and a run is free or held, not both.  *)
ListIsExact ==
    /\ \A i, j \in 1 .. Len(FreeList) : FreeList[i] = FreeList[j] => i = j
    /\ Listed \cap live = {}
    /\ Listed \cup live = Heads

(* While the kernel runs, no page of memory is lost or owned twice whatever *)
(* sequence of AllocatePages and FreePages brought it here: the splits of   *)
(* line 104 and the two merges of lines 139-161 account for every page.     *)
NoPageLostOrShared == panic = NoPanic => RunsTileMemory /\ ListIsExact

(* The order by address that line 110 builds and the order by index that    *)
(* line 133 walks agree: otherwise release links a run in the wrong place.  *)
FreeListSorted ==
    AddressesAscend =>
        \A i, j \in 1 .. Len(FreeList) : i < j => FreeList[i] < FreeList[j]

(* Release merges everything that can be merged: no free run ends where     *)
(* another begins, so the best fit sees the largest runs there are.         *)
FreeRunsCoalesced ==
    AddressesAscend /\ panic = NoPanic =>
        \A g, h \in Listed : g + NumberOfPages[g] # h

(* "Out of memory" (line 98) is raised only when the free pages hold no     *)
(* stretch of the length asked for: how the list cuts the free pages into   *)
(* runs is never the reason.                                                *)
OutOfMemoryMeansNoRoom ==
    panic.kind = "OutOfMemory" =>
        \A first \in 0 .. TotalPages - panic.value :
            ~ (first .. first + panic.value - 1 \subseteq FreePageSet)
OutOfMemoryIsReal == AddressesAscend => OutOfMemoryMeansNoRoom

(* The panic of line 22 strikes in one situation only: the run the search   *)
(* picked reaches the end of memory and is one page longer than the request,*)
(* and it has left the free list while nobody holds it.                     *)
PageIndexPanicIsTheLastPage ==
    panic.kind = "PageIndex" =>
        /\ panic.value = TotalPages
        /\ TotalPages - 1 \notin FreePageSet \cup HeldPageSet

(* The pool of pages that the allocator implements: what callers may rely   *)
(* on, in terms of module PagePool.                                         *)
Pool == INSTANCE PagePool WITH
    free    <- FreePageSet,
    held    <- {[first |-> h, pages |-> NumberOfPages[h]] : h \in live},
    stopped <- panic # NoPanic

(* Every call gets and returns exactly the pages of one stretch, and the    *)
(* kernel panics only where PagePool lets the pool give up.                 *)
ImplementsPool == Pool!Spec
=============================================================================

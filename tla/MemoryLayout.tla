---------------------------- MODULE MemoryLayout ----------------------------
(* The numbering of the pages of memory (src/system/kernel/Allocator.c,     *)
(* lines 19-79). The firmware's conventional regions are numbered end to    *)
(* end as if they were one: a page has an index in that numbering, less one *)
(* because the very first page is withheld.                                 *)
(*                                                                          *)
(* A layout is a sequence of regions [Start, NumPages]; Start is in pages.  *)
(* Both conversions walk the regions; a walk that leaves the table (the     *)
(* code's loops have no end of their own) yields NoRegion.                  *)
EXTENDS Integers, SequencesExt

NoRegion == -1

Region(start, pages) == [Start |-> start, NumPages |-> pages]
RegionPages(region) == region.Start .. region.Start + region.NumPages - 1

AllPages(layout) == FoldLeft(LAMBDA n, region : n + region.NumPages, 0, layout)

(* InitializeAllocator                                                      *)
TotalPagesOf(layout) == AllPages(layout) - 1

(* The loop of PageIndexToMemoryAddress, entered at the first region.       *)
AddressOfNumber(layout, number) ==
    LET walk[w \in (1 .. Len(layout) + 1) \X Nat] ==
            LET r == w[1]  left == w[2]
            IN  IF r > Len(layout) THEN NoRegion
                ELSE IF left < layout[r].NumPages THEN layout[r].Start + left
                ELSE walk[<<r + 1, left - layout[r].NumPages>>]
    IN  walk[<<1, number>>]

PageIndexToMemoryAddress(layout, index) == AddressOfNumber(layout, index + 1)

(* Mutant of MemoryAddressToPageIndex: the first page is not taken off.     *)
PageIndexWithFirstPage(layout, address) ==
    LET walk[w \in (1 .. Len(layout) + 1) \X Nat] ==
            LET r == w[1]  passed == w[2]
            IN  IF r > Len(layout) THEN NoRegion
                ELSE IF address \in RegionPages(layout[r])
                     THEN passed + (address - layout[r].Start)
                ELSE walk[<<r + 1, passed + layout[r].NumPages>>]
    IN  walk[<<1, 0>>]

(* The loop of MemoryAddressToPageIndex.                                    *)
MemoryAddressToPageIndex(layout, address) ==
    LET walk[w \in (1 .. Len(layout) + 1) \X Nat] ==
            LET r == w[1]  passed == w[2]
            IN  IF r > Len(layout) THEN NoRegion
                ELSE IF address \in RegionPages(layout[r])
                     THEN passed + (address - layout[r].Start) - 1
                ELSE walk[<<r + 1, passed + layout[r].NumPages>>]
    IN  walk[<<1, 0>>]
=============================================================================

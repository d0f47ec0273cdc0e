---------------------------- MODULE MCAllocator ----------------------------
(* An instance of Allocator whose addresses come from module MemoryLayout.  *)
EXTENDS Allocator, FiniteSets

Layout == INSTANCE MemoryLayout

(* Two regions with a hole between them. One page is withheld: the regions  *)
(* have MCTotalPages + 1 pages.                                             *)
MCRegions    == <<Layout!Region(1, 4), Layout!Region(7, 7)>>
MCTotalPages == Layout!TotalPagesOf(MCRegions)
MCAscending  == [p \in 0 .. MCTotalPages - 1 |-> Layout!PageIndexToMemoryAddress(MCRegions, p)]
=============================================================================

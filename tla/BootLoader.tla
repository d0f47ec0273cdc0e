----------------------------- MODULE BootLoader -----------------------------
(* The boot loader (src/bootloader/) up to the point where the kernel has   *)
(* left the firmware: the firmware's memory map sorted into the region      *)
(* tables that the kernel numbers its pages by, programs loaded from the    *)
(* disk, and the calls of the kernel back into the loader.                  *)
(*                                                                          *)
(* mem is the memory, page by page, as the firmware keeps it. The memory    *)
(* map it returns has one descriptor for every stretch of pages of one      *)
(* type, listed from the page `listing` on.                                 *)
EXTENDS ElfLoader, MemoryLayout

CONSTANTS
    NumPages,       \* pages of memory
    MaxRegions,     \* MAX_REGIONS: the room of each region table
    PageCells,      \* cells of a page
    InitialMemory,  \* what memory may look like when the loader is started
    Spares,         \* descriptors the firmware asks for beyond what it returns
    Files,          \* the files a user may name
    Kernel,         \* the one of them that is the kernel
    MaxEvents       \* bound on the changes of memory by the firmware itself

(* The types of memory that the loader uses or sorts, and all others.       *)
MemoryTypes ==
    {"Conventional", "LoaderCode", "LoaderData", "BootServices", "MemoryMappedIO",
     "PortMappedIO", "ACPI", "Other"}

MemPages == 0 .. NumPages - 1

ASSUME BootLoaderAssumption ==
    /\ {NumPages, MaxRegions, PageCells} \subseteq Nat \ {0}
    /\ InitialMemory \subseteq [MemPages -> MemoryTypes]
    /\ Files \subseteq FileRecords /\ Kernel \in Files
    /\ Spares \subseteq Nat /\ MaxEvents \in Nat

NULL == -1
NoFile == [size |-> NULL]

VARIABLES
    mem,        \* type of every page of memory
    listing,    \* the page the firmware's map begins with
    spare,      \* the descriptors it asks for beyond what it returns
    events,     \* changes of memory by the firmware so far
    Size,       \* static Size of UpdateMemoryMap, in descriptors
    keyCurrent, \* MapKey is the key of the map as it is
    Layout,     \* static MemoryLayout
    updating,   \* step of UpdateMemoryMap
    at,         \* step of the loader and the kernel
    program     \* the program LoadElf is working on

firmware == <<mem, listing, spare, events>>
vars == <<mem, listing, spare, events, Size, keyCurrent, Layout, updating, at, program>>

-----------------------------------------------------------------------------
(* The firmware *)

BeginsStretch(m, page) == page = 0 \/ m[page - 1] # m[page]

(* The stretch of pages of one type that begins at a page.                  *)
Stretch(m, first) ==
    LET last == CHOOSE p \in first .. NumPages - 1 :
                   /\ \A page \in first .. p : m[page] = m[first]
                   /\ p = NumPages - 1 \/ m[p + 1] # m[first]
    IN  [Type |-> m[first], Region |-> Region(first, last - first + 1)]

(* The entries of a sequence that are in a set, in their order.             *)
Those(s, S) ==
    FoldLeft(LAMBDA kept, x : IF x \in S THEN Append(kept, x) ELSE kept, <<>>, s)

Descriptors(m) ==
    LET pages == [i \in 1 .. NumPages |-> (listing + i - 1) % NumPages]
        firsts == Those(pages, {page \in MemPages : BeginsStretch(m, page)})
    IN  [i \in DOMAIN firsts |-> Stretch(m, firsts[i])]

(* What GetMemoryMap wants of its buffer.                                   *)
Wanted(m) == Len(Descriptors(m)) + spare

(* AllocatePool is served from the pages the firmware has for that, or      *)
(* takes one more.                                                          *)
PoolTakes(page) ==
    \/ page = NULL /\ UNCHANGED <<mem, keyCurrent>>
    \/ /\ page \in MemPages /\ mem[page] = "Conventional"
       /\ mem' = [mem EXCEPT ![page] = "LoaderData"]
       /\ keyCurrent' = FALSE

PoolFails ==
    /\ \A page \in MemPages : mem[page] # "Conventional"
    /\ UNCHANGED <<mem, keyCurrent>>

(* Drivers and timers of the firmware take memory and give it back.         *)
FirmwareEvent ==
    /\ events < MaxEvents
    /\ at \notin {"Ready", "Panic"}
    /\ \E page \in MemPages :
          /\ mem[page] \in {"Conventional", "BootServices"}
          /\ mem' = [mem EXCEPT ![page] =
                        IF @ = "Conventional" THEN "BootServices" ELSE "Conventional"]
    /\ events' = events + 1
    /\ keyCurrent' = FALSE
    /\ UNCHANGED <<listing, spare, Size, Layout, updating, at, program>>

-----------------------------------------------------------------------------
(* struct MemoryLayout: four counts, and four tables one behind the other   *)

Tables == <<"Conventional", "MemoryMappedIO", "PortMappedIO", "ACPI">>

NoRegionYet == Region(0, 0)

EmptyLayout ==
    [Num |-> [t \in 1 .. 4 |-> 0],
     Regions |-> [cell \in 1 .. 4 * MaxRegions |-> NoRegionYet]]

(* ...Regions[Num...Regions++] = Region. A table that is full runs over     *)
(* into the next, and the last into what is behind the structure.           *)
Stored(layout, t, region) ==
    LET cell == (t - 1) * MaxRegions + layout.Num[t] + 1
    IN  [Num |-> [layout.Num EXCEPT ![t] = @ + 1],
         Regions |-> [c \in DOMAIN layout.Regions |->
                         IF c = cell THEN region ELSE layout.Regions[c]]]

(* Mutant of TableOf: the pages of loaded programs are free as well.        *)
TableOfReclaimed(type) ==
    IF type = "LoaderCode" THEN {1} ELSE {t \in 1 .. 4 : Tables[t] = type}

(* The switch over the type of a descriptor.                                *)
TableOf(type) == {t \in 1 .. 4 : Tables[t] = type}

Filled(layout, descriptors) ==
    FoldLeft(LAMBDA l, d :
                IF TableOf(d.Type) = {} THEN l
                ELSE Stored(l, CHOOSE t \in TableOf(d.Type) : TRUE, d.Region),
             layout, descriptors)

TooManyRegions(layout) == \E t \in 1 .. 4 : layout.Num[t] > MaxRegions

(* What a reader of the structure sees in a table.                          *)
RegionsOf(layout, t) ==
    [i \in 1 .. layout.Num[t] |-> layout.Regions[(t - 1) * MaxRegions + i]]

-----------------------------------------------------------------------------
(* UpdateMemoryMap *)

Panic == at' = "Panic" /\ updating' = "No"

(* Mutant of ClearedLayout: the tables are not cleared.                     *)
LayoutNotCleared == Layout

ClearedLayout == EmptyLayout

(* memset and the first GetMemoryMap: with room in the buffer of the last   *)
(* call the tables stay empty.                                              *)
FirstGetMemoryMap ==
    /\ updating = "First"
    /\ Layout' = ClearedLayout
    /\ IF Size < Wanted(mem)
       THEN /\ Size' = Wanted(mem) + 2
            /\ updating' = "Pool"
            /\ UNCHANGED keyCurrent
       ELSE /\ Size' = Len(Descriptors(mem))
            /\ keyCurrent' = TRUE
            /\ updating' = "No"
    /\ UNCHANGED <<firmware, at, program>>

AllocateMapBuffer ==
    /\ updating = "Pool"
    /\ \/ /\ \E page \in MemPages \cup {NULL} : PoolTakes(page)
          /\ updating' = "Second"
          /\ UNCHANGED at
       \/ PoolFails /\ Panic
    /\ UNCHANGED <<listing, spare, events, Size, Layout, program>>

(* The second GetMemoryMap, the loop over its descriptors and the check of  *)
(* the counts behind it.                                                    *)
SecondGetMemoryMap ==
    /\ updating = "Second"
    /\ \/ /\ Size >= Wanted(mem)
          /\ Size' = Len(Descriptors(mem))
          /\ keyCurrent' = TRUE
          /\ Layout' = Filled(Layout, Descriptors(mem))
          /\ IF TooManyRegions(Layout') THEN Panic
             ELSE updating' = "No" /\ UNCHANGED at
       \/ /\ Size < Wanted(mem)
          /\ Size' = Wanted(mem)
          /\ Panic
          /\ UNCHANGED <<keyCurrent, Layout>>
    /\ UNCHANGED <<firmware, program>>

UpdateMemoryMap == FirstGetMemoryMap \/ AllocateMapBuffer \/ SecondGetMemoryMap

-----------------------------------------------------------------------------
(* The loader *)

NoProgram == [file |-> NoFile, data |-> NULL, size |-> 0, base |-> NULL, result |-> <<>>]

Init ==
    /\ mem \in InitialMemory
    /\ listing \in MemPages
    /\ spare \in Spares
    /\ events = 0
    /\ Size = 0 /\ keyCurrent = FALSE
    /\ Layout = EmptyLayout
    /\ updating = "No"
    /\ at = "InitProtocols"
    /\ program = NoProgram

(* The protocols it needs are there, or it panics; then the first update.   *)
InitProtocols ==
    /\ at = "InitProtocols" /\ updating = "No"
    /\ \/ at' = "Autorun" /\ updating' = "First"
       \/ Panic
    /\ UNCHANGED <<firmware, Size, keyCurrent, Layout, program>>

(* The file AUTORUN, if there is one, is read into buffers that are never   *)
(* given back; its line is entered like one that is typed.                  *)
Autorun ==
    /\ at = "Autorun" /\ updating = "No"
    /\ \/ /\ \E page \in MemPages \cup {NULL} : PoolTakes(page)
          /\ at' = "Prompt"
          /\ UNCHANGED updating
       \/ PoolFails /\ Panic
    /\ UNCHANGED <<listing, spare, events, Size, Layout, program>>

(* The entry of the root directory with that name, in a buffer of its own  *)
(* that is never given back.                                                *)
GetFile(file) ==
    \/ /\ \E page \in MemPages \cup {NULL} : PoolTakes(page)
       /\ program' = [NoProgram EXCEPT !.file = file]
       /\ at' = "ReadFile"
       /\ UNCHANGED updating
    \/ PoolFails /\ Panic /\ UNCHANGED program

(* A line that was typed, or the one in the file AUTORUN. "ls" and a name   *)
(* that is not there give their buffer back.                                *)
EnterLine ==
    /\ at = "Prompt" /\ updating = "No"
    /\ \E file \in Files : GetFile(file)
    /\ UNCHANGED <<listing, spare, events, Size, Layout>>

(* A buffer for the file, the file into it; a file that cannot be read      *)
(* gives the buffer back.                                                   *)
ReadFile ==
    /\ at = "ReadFile"
    /\ \/ \E page \in MemPages \cup {NULL} :
             /\ PoolTakes(page)
             /\ program' = [program EXCEPT !.data = page]
             /\ at' = "Measure"
             /\ UNCHANGED updating
       \/ /\ at' = "Prompt"
          /\ program' = NoProgram
          /\ UNCHANGED <<mem, keyCurrent, updating>>
       \/ PoolFails /\ Panic /\ UNCHANGED program
    /\ UNCHANGED <<listing, spare, events, Size, Layout>>

(* The first elfloader_read; the buffer of an invalid file is kept.         *)
Measure ==
    /\ at = "Measure"
    /\ LET result == elfloader_read(program.file, FALSE, 0)
       IN  IF result.error # "None"
           THEN at' = "Prompt" /\ program' = NoProgram
           ELSE /\ at' = "Allocate"
                /\ program' = [program EXCEPT !.size = result.memory_size]
    /\ UNCHANGED <<firmware, Size, keyCurrent, Layout, updating>>

(* EFI_SIZE_TO_PAGES                                                        *)
PagesOf(cells) == (cells + PageCells - 1) \div PageCells
ImagePages(base, cells) == base .. base + PagesOf(cells) - 1

(* AllocatePageBoundary: NULL if there is no such stretch.                  *)
AllocateImage ==
    /\ at = "Allocate"
    /\ LET bases == {b \in MemPages :
                        \A page \in ImagePages(b, program.size) :
                            page \in MemPages /\ mem[page] = "Conventional"}
       IN  \/ \E base \in bases :
                 /\ mem' = [page \in MemPages |->
                               IF page \in ImagePages(base, program.size)
                               THEN "LoaderCode" ELSE mem[page]]
                 /\ keyCurrent' = FALSE
                 /\ program' = [program EXCEPT !.base = base]
           \/ bases = {} /\ UNCHANGED <<mem, keyCurrent, program>>
    /\ at' = "Load"
    /\ UNCHANGED <<listing, spare, events, Size, Layout, updating>>

(* The second elfloader_read, and the call of the entry point. The kernel   *)
(* goes on with GetMemoryLayout.                                            *)
LoadElf ==
    /\ at = "Load"
    /\ LET result == elfloader_read(program.file, program.base # NULL, program.size)
       IN  IF result.error # "None"
           THEN Panic /\ UNCHANGED <<program>>
           ELSE /\ program' = [program EXCEPT !.result = result]
                /\ at' = IF program.file = Kernel /\ program.base # NULL
                         THEN "GetMemoryLayout" ELSE "Called"
                /\ updating' = IF at' = "Called" THEN "No" ELSE "First"
    /\ UNCHANGED <<firmware, Size, keyCurrent, Layout>>

(* A program that is not the kernel returns: its pages and its file go.     *)
(* Without memory for its image the call went to an address near zero and   *)
(* nothing is said of it.                                                   *)
Return ==
    /\ at = "Called" /\ program.base # NULL
    /\ mem' = [page \in MemPages |->
                  IF page \in ImagePages(program.base, program.size) \cup {program.data}
                  THEN "Conventional" ELSE mem[page]]
    /\ keyCurrent' = FALSE
    /\ at' = "Prompt"
    /\ program' = NoProgram
    /\ UNCHANGED <<listing, spare, events, Size, Layout, updating>>

-----------------------------------------------------------------------------
(* The kernel, through SystemDispatcher *)

(* GetMemoryLayout (call 4) has updated the tables and returned their       *)
(* address. GetFrameBufferInfo (call 6) wants 32-bit pixels without gaps.   *)
GetFramebufferInfo ==
    /\ at = "GetMemoryLayout" /\ updating = "No"
    /\ \/ at' = "GetFramebufferInfo" /\ UNCHANGED updating
       \/ Panic
    /\ UNCHANGED <<firmware, Size, keyCurrent, Layout, program>>

(* ExitUEFIMode (call 5) updates the tables once more.                      *)
ExitUEFIMode ==
    /\ at = "GetFramebufferInfo"
    /\ at' = "ExitBootServices"
    /\ updating' = "First"
    /\ UNCHANGED <<firmware, Size, keyCurrent, Layout, program>>

ExitBootServices ==
    /\ at = "ExitBootServices" /\ updating = "No"
    /\ \/ keyCurrent /\ at' = "Ready" /\ UNCHANGED updating
       \/ ~ keyCurrent /\ Panic
    /\ UNCHANGED <<firmware, Size, keyCurrent, Layout, program>>

-----------------------------------------------------------------------------

Next ==
    \/ FirmwareEvent
    \/ UpdateMemoryMap
    \/ InitProtocols
    \/ Autorun
    \/ EnterLine
    \/ ReadFile
    \/ Measure
    \/ AllocateImage
    \/ LoadElf
    \/ Return
    \/ GetFramebufferInfo
    \/ ExitUEFIMode
    \/ ExitBootServices

Spec == Init /\ [][Next]_vars

-----------------------------------------------------------------------------

KernelRuns ==
    at \in {"GetMemoryLayout", "GetFramebufferInfo", "ExitBootServices", "Ready"}
FreeRegions == RegionsOf(Layout, 1)

(* The tables behind the pointer that the kernel got from GetMemoryLayout   *)
(* (elf_libc.c, line 105) are, once ExitUEFIMode has rewritten them, the    *)
(* memory as it is when the firmware is gone: complete and in the order of  *)
(* the firmware, whatever happened to a table that ran over on the way      *)
(* (line 132) and to the tables of the calls before (line 115). The one     *)
(* exception is that all are empty, and that needs a firmware that asks for *)
(* no more than it returns, or memory that changed between the two calls    *)
(* (line 116).                                                              *)
KernelSeesTheFinalMap ==
    at = "Ready" =>
        \/ \A t \in 1 .. 4 :
              LET wanted == Those(Descriptors(mem),
                                  {d \in Range(Descriptors(mem)) : d.Type = Tables[t]})
              IN  RegionsOf(Layout, t) = [i \in DOMAIN wanted |-> wanted[i].Region]
        \/ Layout = EmptyLayout /\ (spare = 0 \/ events > 0)

(* No page that holds a part of the running kernel is in the table its      *)
(* allocator hands pages out of: the size that elfloader_read reported, the *)
(* pages that AllocatePageBoundary took for it and the types UpdateMemoryMap *)
(* counts as free agree.                                                    *)
KernelIsNotFreeMemory ==
    at = "Ready" =>
        \A cell \in DOMAIN program.result.image, r \in DOMAIN FreeRegions :
            program.base + cell \div PageCells \notin RegionPages(FreeRegions[r])

(* A program whose file is as a linker makes it runs from an image of it,   *)
(* and from an address inside of it, exactly if the headers to load are the *)
(* first of its table (the loops of elfloader_read count them, line 240,    *)
(* but store them at their place in the file, line 228) and no segment has  *)
(* one of the last two cells of the file that ReadFile takes for its line   *)
(* end (uefiboot_libc.c, line 504). Without memory for an image nothing is  *)
(* loaded and the call is made all the same (line 711).                     *)
ImageIsTheFile ==
    KernelRuns \/ at = "Called" =>
        \/ program.base = NULL \/ ~ IsTidy(program.file)
        \/ (/\ IsImageOf(program.result.image, program.file)
            /\ program.result.entrypoint \in DOMAIN program.result.image)
           <=> (LoadHeadersComeFirst(program.file) /\ ~ LineEndIsContent(program.file))

Indexes == 0 .. TotalPagesOf(FreeRegions) - 1
Address(index) == PageIndexToMemoryAddress(FreeRegions, index)

RegionsAscend ==
    \A i, j \in DOMAIN FreeRegions :
        i < j => FreeRegions[i].Start < FreeRegions[j].Start

(* What module Allocator assumes of its Address holds on the layouts the    *)
(* kernel is given, in whatever order the firmware lists its regions: the   *)
(* two walks of Allocator.c (lines 19-56), which have no bound of their     *)
(* own, end inside the table and are inverse across region boundaries and   *)
(* the holes between; no index reaches the first page ("Don't allow access  *)
(* to the first page", line 20); and addresses ascend if the regions do.    *)
AddressesAreAsAssumed ==
    at = "Ready" =>
        \A i \in Indexes :
            /\ Address(i) \notin {NoRegion, FreeRegions[1].Start}
            /\ MemoryAddressToPageIndex(FreeRegions, Address(i)) = i
            /\ \A j \in 0 .. i - 1 :
                  /\ Address(j) # Address(i)
                  /\ RegionsAscend => Address(j) < Address(i)
=============================================================================

----------------------------- MODULE ElfLoader -----------------------------
(* elfloader_read (src/elf_loader/elfloader.c) and the reading of a file    *)
(* into memory before it (src/bootloader/uefiboot_libc.c, ReadFile), as     *)
(* functions of the file.                                                   *)
(*                                                                          *)
(* A file is a record:                                                      *)
(*   bad       the fields of its header that do not have the value wanted   *)
(*   entry     the address of its first instruction                         *)
(*   headers   its program headers, [type, offset, v_address, file_size,    *)
(*             mem_size], where file_size <= mem_size; one behind the end   *)
(*             of the file has type 0                                       *)
(*   size      its length; the cell at offset i holds the value i           *)
(*   newlines  those of its last two cells that hold '\n' or '\r'           *)
EXTENDS Integers, SequencesExt, FiniteSetsExt

CONSTANTS
    MaxProgramHeaders,   \* MAX_PROGRAM_HEADERS
    TopAddress           \* 0xffffffffffffffff

ASSUME ElfLoaderAssumption == {MaxProgramHeaders, TopAddress} \subseteq Nat

FileRecords ==
    [bad : SUBSET STRING, entry : Nat, size : Nat, newlines : SUBSET Nat,
     headers : Seq([type : Nat, offset : Nat, v_address : Nat,
                    file_size : Nat, mem_size : Nat])]

PT_LOAD == 1

(* What a cell of memory holds besides the values of a file.                *)
Zero == -1
Unwritten == -2

EmptyHeader ==
    [type |-> 0, offset |-> 0, v_address |-> 0, file_size |-> 0, mem_size |-> 0]

-----------------------------------------------------------------------------
(* ReadFile *)

(* A text file loses its line end, and so does any other.                   *)
TrimmedCells(file) ==
    IF file.size > 2
    THEN file.newlines \cap (file.size - 2 .. file.size - 1)
    ELSE {}

FileData(file) ==
    [i \in 0 .. file.size - 1 |-> IF i \in TrimmedCells(file) THEN Zero ELSE i]

-----------------------------------------------------------------------------
(* elfloader_read *)

(* The fields of the header in the order in which they are looked at.       *)
HeaderFields ==
    <<"magic", "bitness", "endianness", "version", "abi", "type", "machine",
      "version_2">>

HeaderError(file) ==
    LET wrong == SelectSeq(HeaderFields, LAMBDA field : field \in file.bad)
    IN  IF wrong # <<>> THEN Head(wrong)
        ELSE IF Len(file.headers) > MaxProgramHeaders
             THEN "Too many program headers"
        ELSE "None"

(* program_headers[i] for every i: what is not loaded leaves a gap.         *)
program_headers(file) ==
    [i \in DOMAIN file.headers |->
        IF file.headers[i].type = PT_LOAD THEN file.headers[i] ELSE EmptyHeader]

(* Mutant of num_loader_headers: the last one is left out.                  *)
LoaderHeadersButOne(file) ==
    Max({Quantify(DOMAIN file.headers,
                  LAMBDA i : file.headers[i].type = PT_LOAD) - 1, 0})

num_loader_headers(file) ==
    Quantify(DOMAIN file.headers, LAMBDA i : file.headers[i].type = PT_LOAD)

(* All loops go over the first num_loader_headers entries of the table.     *)
LoopHeaders(file) == SubSeq(program_headers(file), 1, num_loader_headers(file))

min_vaddr(file) ==
    Min({TopAddress} \cup {h.v_address : h \in Range(LoopHeaders(file))})

RelativeAddress(file, address) == address - min_vaddr(file)

memory_size(file) ==
    Max({0} \cup {RelativeAddress(file, h.v_address) + h.mem_size :
                     h \in Range(LoopHeaders(file))})

Segment(file, h) ==
    LET first == RelativeAddress(file, h.v_address)
    IN  first .. first + h.mem_size - 1

(* What a segment puts at one place of the image.                           *)
CellOf(file, h, at) ==
    LET i == at - RelativeAddress(file, h.v_address)
    IN  IF i < h.file_size THEN FileData(file)[h.offset + i] ELSE Zero

(* The segments are copied in their order, each over the ones before it.    *)
CopiedImage(file) ==
    [at \in 0 .. memory_size(file) - 1 |->
        LET over == {i \in DOMAIN LoopHeaders(file) :
                        at \in Segment(file, LoopHeaders(file)[i])}
        IN  IF over = {} THEN Unwritten
            ELSE CellOf(file, LoopHeaders(file)[Max(over)], at)]

(* struct elfloader_Result, and the memory after the call. Without memory   *)
(* (memory_base NULL) nothing is copied and the entry stays relative.       *)
NoImage == <<>>
Result(error, size, entry, image) ==
    [error |-> error, memory_size |-> size, entrypoint |-> entry, image |-> image]

elfloader_read(file, hasBase, space) ==
    LET entry == RelativeAddress(file, file.entry)
    IN  IF HeaderError(file) # "None"
        THEN Result(HeaderError(file), 0, 0, NoImage)
        ELSE IF ~ hasBase
             THEN Result("None", memory_size(file), entry, NoImage)
        ELSE IF space < memory_size(file)
             THEN Result("memory size too small", memory_size(file), entry, NoImage)
        ELSE Result("None", memory_size(file), entry, CopiedImage(file))

-----------------------------------------------------------------------------
(* What a program's image should be *)

LoadHeaders(file) == {h \in Range(file.headers) : h.type = PT_LOAD}
LowestAddress(file) == Min({h.v_address : h \in LoadHeaders(file)})

(* What a linker sees to: segments that are not empty and apart from each   *)
(* other in memory, whose content is in the file, one with the entry.       *)
Addresses(h) == h.v_address .. h.v_address + h.mem_size - 1

IsTidy(file) ==
    /\ \A h \in LoadHeaders(file) :
          /\ h.mem_size >= 1 /\ h.file_size <= h.mem_size
          /\ h.offset + h.file_size <= file.size /\ h.v_address <= TopAddress
    /\ \A i, j \in {k \in DOMAIN file.headers : file.headers[k].type = PT_LOAD} :
          i # j => Addresses(file.headers[i]) \cap Addresses(file.headers[j]) = {}
    /\ \E h \in LoadHeaders(file) : file.entry \in Addresses(h)

(* Every loaded header is at the front of the table.                        *)
LoadHeadersComeFirst(file) ==
    \A i, j \in DOMAIN file.headers :
        i < j /\ file.headers[j].type = PT_LOAD => file.headers[i].type = PT_LOAD

(* A segment's content reaches into the line end of the file.               *)
LineEndIsContent(file) ==
    \E h \in LoadHeaders(file) :
        TrimmedCells(file) \cap (h.offset .. h.offset + h.file_size - 1) # {}

(* The image holds what every segment of the file says, at its address      *)
(* relative to the lowest, and zeros up to the segment's size.              *)
IsImageOf(image, file) ==
    \A h \in LoadHeaders(file) : \A i \in 0 .. h.mem_size - 1 :
        LET at == h.v_address - LowestAddress(file) + i
        IN  /\ at \in DOMAIN image
            /\ image[at] = IF i < h.file_size THEN h.offset + i ELSE Zero
=============================================================================

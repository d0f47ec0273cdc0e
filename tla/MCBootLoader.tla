---------------------------- MODULE MCBootLoader ----------------------------
(* A machine of seven pages whose firmware lists four to six stretches of   *)
(* memory, and six programs: a kernel with a text and a data segment, one   *)
(* whose table begins with a header that is not loaded, two whose file ends *)
(* with a line end (in a segment and outside of any), one that is not valid *)
(* and one with too many headers.                                           *)
EXTENDS BootLoader

MCInitialMemory ==
    {<<"Conventional", "Conventional", "Conventional", "BootServices",
       "Conventional", "ACPI", "Conventional">>,
     <<"MemoryMappedIO", "Conventional", "Conventional", "PortMappedIO",
       "Conventional", "Conventional", "Conventional">>}
MCMemory == {[page \in MemPages |-> m[page + 1]] : m \in MCInitialMemory}

Load(offset, address, fileSize, memSize) ==
    [type |-> PT_LOAD, offset |-> offset, v_address |-> address,
     file_size |-> fileSize, mem_size |-> memSize]
Note == [EmptyHeader EXCEPT !.type = 4]

File(bad, entry, headers, newlines) ==
    [bad |-> bad, entry |-> entry, headers |-> headers, size |-> 6, newlines |-> newlines]

KernelFile == File({}, 11, <<Load(1, 10, 2, 2), Load(3, 12, 1, 3), Note>>, {})
GapFile == File({}, 11, <<Note, Load(1, 10, 2, 2), Load(3, 12, 1, 3)>>, {})
LineEndFile == File({}, 10, <<Load(2, 10, 4, 4)>>, {5})
OtherFile == File({}, 10, <<Load(2, 10, 3, 4)>>, {5})
InvalidFile == File({"abi", "machine"}, 10, <<Load(1, 10, 2, 2)>>, {})
CrowdedFile == File({}, 10, <<Load(1, 10, 2, 2), Note, Note, Note>>, {})
MCFiles ==
    {KernelFile, GapFile, LineEndFile, OtherFile, InvalidFile, CrowdedFile}
=============================================================================

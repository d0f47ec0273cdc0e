SPECIFICATION Spec
CONSTANTS
    MaxProgramHeaders = 3
    TopAddress = 99
    NumPages = 7
    MaxRegions = 3
    PageCells = 3
    InitialMemory <- MCMemory
    Spares = {0, 1}
    Files <- MCFiles
    Kernel <- KernelFile
    MaxEvents = 1
INVARIANTS
    KernelSeesTheFinalMap
    KernelIsNotFreeMemory
    ImageIsTheFile
    AddressesAreAsAssumed
CHECK_DEADLOCK FALSE

SPECIFICATION Spec
CONSTANTS
    hub = hub
    keyboard = keyboard
    mouse = mouse
    disk = disk
    Gadgets <- MCGadgets
    Class <- MCClass
    Interval <- MCInterval
    Packet <- MCPacket
    Behind <- MCBehind
    RootPorts <- MCRootPorts
    MaxDevices = 5
    MaxTroubles = 1
    Patient = FALSE
    Layouts <- MCFlagged
    PCIDevices = 6
    Populated = {}
    FirmwareCS = 56
    Others <- MCOthers
INVARIANTS
    FlaggedFunctionsAreStarted
CHECK_DEADLOCK FALSE

SPECIFICATION Spec
CONSTANTS
    hub = hub
    keyboard = keyboard
    mouse = mouse
    disk = disk
    Gadgets <- MCGadgets
    Class <- MCClass
    Interval <- MCInterval
    Packet <- MCPacket
    Behind <- MCBehind
    RootPorts <- MCRootPorts
    MaxDevices = 5
    MaxTroubles = 1
    Patient = FALSE
    Layouts <- MCLayouts
    PCIDevices = 6
    Populated <- MCPopulated
    FirmwareCS = 56
    Others <- MCOthers
INVARIANTS
    AddressIsOwn
    ReportsFindTheirDevice
    PolledOnTime
    EveryDeviceIsFound
    StopsHaveACause
    HandlerFindsItsState
    ControllersAreStartedOnce
PROPERTIES
    KernelComesUp
CHECK_DEADLOCK FALSE

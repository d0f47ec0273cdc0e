SPECIFICATION Spec
CONSTANTS
    MaxDepth = 3
    MaxSleep = 3
    MaxFrames = 3
INVARIANTS
    NestingBalanced
    SectionsAreExclusive
    EOIEndsOwnInterrupt
    OnlyFinishedHandlersAreInterrupted
PROPERTIES
    SleepersWake
    USBIsServed

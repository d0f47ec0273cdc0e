SPECIFICATION Spec
CONSTANTS
    Columns = 4
    Rows = 3
    Printable <- MCPrintable
    Chars <- MCChars
    Size = 4
    PromptText <- MCPromptText
    EchoText <- MCEchoText
    ErrorText <- MCErrorText
    HelpLines <- MCHelpLines
    ClearCommand <- MCClearCommand
    HelpCommand <- MCHelpCommand
    StopCommand <- MCStopCommand
INVARIANTS
    LineIsWhatWasTyped
    ScreenShowsTheLine
    OffScreenOnlyAfterScrolling
PROPERTIES
    OverrunOnlyWhenFilled
    ControlCReturns
CHECK_DEADLOCK FALSE

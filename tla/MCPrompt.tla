----------------------------- MODULE MCPrompt -----------------------------
(* A prompt on a small screen.                                              *)
EXTENDS Prompt

MCPromptText   == <<"$">>
MCEchoText     == <<">">>
MCErrorText    == <<Tab, "!">>
MCHelpLines    == <<"h", Newline, "h", Newline>>
MCPrintable    == {"a", "h", "$", ">", "!", Tab, Newline, Space, Cursor, Foreign}
MCChars        == {"a", Tab}
MCClearCommand == <<"a", "a">>
MCHelpCommand  == <<Tab>>
MCStopCommand  == <<Tab, Tab>>

(* "...   : echoes prompt" (StartKernel.c:51): a line that is no command is *)
(* echoed as it was typed, and no other line is a command.                  *)
EchoIsWhatWasTyped == at = "Run" /\ Index # 0 /\ Index < Size => Line = typed
=============================================================================

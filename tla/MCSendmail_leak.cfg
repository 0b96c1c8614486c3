\* Async path where the shell may fail to start.
CONSTANTS
  Modes = {TRUE}
  ExecOutcomes <- MCExecOutcomes
  ShellOutcomes <- MCShellOutcomes
  Errnos <- MCErrnos
  Reaped = {FALSE}
SPECIFICATION Spec
PROPERTY TempFileRemoved
CHECK_DEADLOCK FALSE

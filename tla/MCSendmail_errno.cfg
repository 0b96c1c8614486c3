\* Sync path with a /tmp cleaner: remove() fails after an ECHILD return.
CONSTANTS
  Modes = {FALSE}
  ExecOutcomes <- MCExecOutcomes
  ShellOutcomes <- MCShellRuns
  Errnos <- MCErrnos
  Reaped = {FALSE, TRUE}
SPECIFICATION Spec
INVARIANT ResultReportsDelivery
CHECK_DEADLOCK FALSE

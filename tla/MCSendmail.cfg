\* Both paths, every exec outcome, shells that start, nothing else
\* touching /tmp: the result and the cleanup.
CONSTANTS
  Modes = {TRUE, FALSE}
  ExecOutcomes <- MCExecOutcomes
  ShellOutcomes <- MCShellRuns
  Errnos <- MCErrnos
  Reaped = {FALSE}
SPECIFICATION Spec
INVARIANT TypeOK
INVARIANT ResultReportsDelivery
PROPERTY TempFileRemoved
\* One call of sendmail(): it returns, and the subshell ends.
CHECK_DEADLOCK FALSE

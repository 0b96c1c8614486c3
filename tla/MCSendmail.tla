------------------------------ MODULE MCSendmail ------------------------------
(* Outcomes of the exec helpers for Sendmail: an exit status of sendmail   *)
(* (0, a failure, 127 when the command could not be run), and -1 with      *)
(* ECHILD (the child was reaped elsewhere), EAGAIN (fork failed) or EINTR  *)
(* (waitpid interrupted after the fork).                                   *)
EXTENDS Sendmail

Exit(s)  == [res |-> s,  err |-> "none"]
Fail(e)  == [res |-> -1, err |-> e]

MCExecOutcomes == {Exit(0), Exit(1), Exit(127), Fail("ECHILD"), Fail("EAGAIN"),
                   Fail("EINTR")}

\* The shell itself exits 0 once it has put the subshell in the background.
MCShellRuns    == {Exit(0), Fail("ECHILD"), Fail("EINTR")}
MCShellOutcomes == MCShellRuns \cup {Exit(127), Fail("EAGAIN")}

MCErrnos == {"none", "ECHILD", "EAGAIN", "EINTR", "ENOENT"}

=============================================================================

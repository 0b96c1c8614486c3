------------------------------- MODULE Sendmail -------------------------------
(***************************************************************************)
(* One call of sendmail() in src/modules/mod_sendmail.c, the mailer that    *)
(* hands a message to /usr/sbin/sendmail through a temporary file, and the  *)
(* background shell of the asynchronous path, which deletes the file when  *)
(* sendmail is done.                                                        *)
(*                                                                          *)
(* The calling thread's errno is state: bbs_execvp and bbs_execvp_fd set it *)
(* when they return -1, and a failing remove() sets it again before the     *)
(* result translation reads it.  What the external calls return (eaccess,  *)
(* bbs_mkftemp, the exec helpers) is a nondeterministic choice over the     *)
(* outcomes they can produce.                                               *)
(***************************************************************************)
EXTENDS Integers

CONSTANTS
  Modes,          \* values of the async argument the callers pass
  ExecOutcomes,   \* [res, err] bbs_execvp_fd can return for sendmail -t
  ShellOutcomes,  \* [res, err] bbs_execvp can return for /bin/sh -c "( .. ) &"
  Errnos,         \* errno values, "ECHILD" and "ENOENT" among them
  Reaped          \* whether another process (a /tmp cleaner) may have deleted
                  \* the file while sendmail ran

\* No exec helper has run yet.
None == [res |-> 0, err |-> "unset"]

VARIABLES
  pc,         \* where the call is
  async,      \* the async argument
  tmp,        \* the temporary file: "none", "exists", "gone"
  outcome,    \* what the exec helper returned, or None
  errno,      \* the calling thread's errno
  bg,         \* the background subshell: "none", "running", "done"
  result      \* sendmail()'s return value, once it has returned

vars == <<pc, async, tmp, outcome, errno, bg, result>>

\* The shell of the async path was forked and backgrounded
\* "sendmail < tmp ; rm -f tmp": it exited 0, or the wait for it failed
\* after the fork (ECHILD, EINTR).
ShellRan(o) == o.res = 0 \/ (o.res < 0 /\ o.err \in {"ECHILD", "EINTR"})

\* Mutant: the return value is passed on without being normalised to -1.
TranslateRaw(res, err) ==
  CASE res < 0 /\ err # "ECHILD" -> res
    [] res = 127                 -> 127
    [] res < 0                   -> 0
    [] OTHER                     -> res

\* Mutant: a -1 return is an error whatever errno says.
TranslateNoEchild(res, err) ==
  CASE res < 0   -> res
    [] res = 127 -> 127
    [] res # 0   -> -1
    [] OTHER     -> 0

\* The translation at the end of sendmail(): an exec failure other than
\* ECHILD and exit status 127 are returned as they are; ECHILD counts as
\* success, any other nonzero status becomes -1.
Translate(res, err) ==
  CASE res < 0 /\ err # "ECHILD" -> res
    [] res = 127                 -> 127
    [] res < 0                   -> 0
    [] res # 0                   -> -1
    [] OTHER                     -> 0

\* Entry: the caller chooses sync or async; eaccess(SENDMAIL, R_OK) fails
\* when sendmail is not installed, and the call returns -1.
Start ==
  /\ pc = "idle"
  /\ \E a \in Modes, present \in BOOLEAN :
       /\ async' = a
       /\ IF present THEN pc' = "mktemp"
                     ELSE pc' = "done" /\ result' = -1
       /\ present => UNCHANGED result
  /\ UNCHANGED <<tmp, outcome, errno, bg>>

\* bbs_mkftemp creates /tmp/bbsmail-XXXXXX, or fails and the call returns
\* -1; bbs_make_email_file writes the message into it.
MakeTemp ==
  /\ pc = "mktemp"
  /\ \E ok \in BOOLEAN :
       IF ok THEN pc' = "exec" /\ tmp' = "exists" /\ UNCHANGED result
             ELSE pc' = "done" /\ result' = -1 /\ UNCHANGED tmp
  /\ UNCHANGED <<async, outcome, errno, bg>>

\* Async path: fclose, then /bin/sh -c "( sendmail -t < tmp ; rm -f tmp ) &".
\* When the shell ran, the subshell deleting the file is left running.
AsyncExec ==
  /\ pc = "exec" /\ async
  /\ \E o \in ShellOutcomes :
       /\ outcome' = o
       /\ errno' = IF o.res < 0 THEN o.err ELSE errno
       /\ bg' = IF ShellRan(o) THEN "running" ELSE "none"
  /\ pc' = "translate"
  /\ UNCHANGED <<async, tmp, result>>

\* Mutant: the sync path leaves the temporary file behind.
SyncExecNoRemove ==
  /\ pc = "exec" /\ ~async
  /\ \E o \in ExecOutcomes :
       /\ outcome' = o
       /\ errno' = IF o.res < 0 THEN o.err ELSE errno
  /\ pc' = "translate"
  /\ UNCHANGED <<async, tmp, bg, result>>

\* Sync path: rewind, sendmail -t reading the file as stdin, fclose, then
\* remove(tmp); remove fails with ENOENT when another process deleted the
\* file meanwhile, and that errno replaces the one the exec helper left.
SyncExec ==
  /\ pc = "exec" /\ ~async
  /\ \E o \in ExecOutcomes, reaped \in Reaped :
       /\ outcome' = o
       /\ errno' = CASE reaped    -> "ENOENT"
                      [] o.res < 0 -> o.err
                      [] OTHER     -> errno
  /\ tmp' = "gone"
  /\ pc' = "translate"
  /\ UNCHANGED <<async, bg, result>>

\* The result translation reads errno and returns.
Finish ==
  /\ pc = "translate"
  /\ result' = Translate(outcome.res, errno)
  /\ pc' = "done"
  /\ UNCHANGED <<async, tmp, outcome, errno, bg>>

\* The background subshell: sendmail reads the file, then rm -f deletes it.
Background ==
  /\ bg = "running"
  /\ bg' = "done"
  /\ tmp' = "gone"
  /\ UNCHANGED <<pc, async, outcome, errno, result>>

Init ==
  /\ pc = "idle"
  /\ async \in Modes
  /\ tmp = "none"
  /\ outcome = None
  /\ errno \in Errnos
  /\ bg = "none"
  /\ result = 0

Next ==
  \/ Start \/ MakeTemp \/ AsyncExec \/ SyncExec \/ Finish
  \/ Background

\* The call runs to its return and the subshell the OS started runs to its
\* end.
Fairness ==
  /\ WF_vars(Start \/ MakeTemp \/ AsyncExec \/ SyncExec \/ Finish)
  /\ WF_vars(Background)

Spec == Init /\ [][Next]_vars /\ Fairness

(***************************************************************************)
(* Properties.                                                             *)
(***************************************************************************)

TypeOK ==
  /\ pc \in {"idle", "mktemp", "exec", "translate", "done"}
  /\ tmp \in {"none", "exists", "gone"}
  /\ bg \in {"none", "running", "done"}
  /\ errno \in Errnos
  /\ pc = "done" => result \in {-1, 0, 127}

\* The comment "Translate exec return value to a normal C-style res": the
\* mailer returns 0 exactly when sendmail was handed the message (it exited
\* 0, or the child was reaped elsewhere: ECHILD), whatever the calls
\* between the exec and the translation did to errno.
Delivered(o) == o.err # "unset" /\ (o.res = 0 \/ (o.res < 0 /\ o.err = "ECHILD"))
ResultReportsDelivery ==
  pc = "done" => ((result = 0) <=> Delivered(outcome))

\* The comment on the async path: the shell cleans up afterwards.  Every
\* temporary file the mailer creates is eventually deleted, on both paths.
TempFileRemoved == <>[](tmp # "exists")

=============================================================================

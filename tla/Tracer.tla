-------------------------------- MODULE Tracer --------------------------------
(***************************************************************************)
(* The system-call tracer of src/sem1/lab2/task2_3 (third.c): a parent     *)
(* that resumes its child with PTRACE_SYSCALL and prints the stops in      *)
(* turn as ENTER and EXIT.  The child is any program: it may call, exit,   *)
(* be sent a signal, or be killed.  A signal stops it as well, and         *)
(* PTRACE_SYSCALL with data NULL then discards the signal.                 *)
(***************************************************************************)
EXTENDS Naturals

CONSTANTS
  MaxCalls,     \* bound: system calls the child makes
  MaxSignals    \* bound: signals that stop it (the SIGTRAP of an execve is one)

VARIABLES
  child,     \* "starting", "running", "stopped", "exited", "killed", "reaped"
  stop,      \* what the last stop was: "exec", "entry", "exit" or "signal"
  inCall,    \* the child is between the entry and the exit of a call
  status,    \* the parent's status: "none", "stopped", "exited" or "killed"
  pc,        \* the parent's next statement
  label,     \* history: its last line, the stop that line was printed for,
             \* and how many signal stops there had been
  calls, signals

vars == <<child, stop, inCall, status, pc, label, calls, signals>>
budget == <<calls, signals>>

Init ==
  /\ child = "starting"
  /\ stop = "none"
  /\ inCall = FALSE
  /\ status = "none"
  /\ pc = "waitFirst"
  /\ label = <<"none", "none", 0>>
  /\ calls = 0
  /\ signals = 0

-----------------------------------------------------------------------------
(* The child; the kernel stops it at both ends of a call and for signals. *)
StopFor(reason) == child' = "stopped" /\ stop' = reason

(* execl stops with SIGTRAP; if it or PTRACE_TRACEME fails, exit(1) *)
Exec ==
  /\ child = "starting"
  /\ \/ StopFor("exec")
     \/ child' = "exited" /\ UNCHANGED stop
  /\ UNCHANGED <<inCall, status, pc, label, budget>>

EnterCall ==
  /\ child = "running" /\ ~inCall
  /\ calls < MaxCalls
  /\ StopFor("entry")
  /\ inCall' = TRUE
  /\ calls' = calls + 1
  /\ UNCHANGED <<status, pc, label, signals>>

(* the call returns, or it was exit_group and does not *)
LeaveCall ==
  /\ child = "running" /\ inCall
  /\ \/ StopFor("exit") /\ inCall' = FALSE
     \/ child' = "exited" /\ UNCHANGED <<stop, inCall>>
  /\ UNCHANGED <<status, pc, label, budget>>

Signal ==
  /\ child = "running" /\ ~inCall
  /\ signals < MaxSignals
  /\ StopFor("signal")
  /\ signals' = signals + 1
  /\ UNCHANGED <<inCall, status, pc, label, calls>>

(* SIGKILL is not reported as a stop *)
Kill ==
  /\ child \in {"running", "stopped"}
  /\ child' = "killed"
  /\ UNCHANGED <<stop, inCall, status, pc, label, calls, signals>>

-----------------------------------------------------------------------------
(* waitpid: the next report of the child; once that was its end there is   *)
(* no child left, the call fails and status keeps its value                *)
Wait(at, to) ==
  /\ pc = at
  /\ \/ /\ child = "stopped"
        /\ status' = "stopped"
        /\ UNCHANGED child
     \/ /\ child \in {"exited", "killed"}
        /\ status' = child
        /\ child' = "reaped"
     \/ /\ child = "reaped"
        /\ UNCHANGED <<status, child>>
  /\ pc' = to
  /\ UNCHANGED <<stop, inCall, label, budget>>

(* ptrace(PTRACE_SYSCALL); fails without effect unless the child is stopped *)
Resume(at, to) ==
  /\ pc = at
  /\ child' = IF child = "stopped" THEN "running" ELSE child
  /\ pc' = to
  /\ UNCHANGED <<stop, inCall, status, label, budget>>

(* Mutant: the status of the wait is not looked at. *)
ReportBlind(at, line, to) ==
  /\ pc = at
  /\ label' = <<line, stop, signals>>
  /\ pc' = to
  /\ UNCHANGED <<child, stop, inCall, status, budget>>

(* WIFEXITED ends the loop, and so does PTRACE_GETREGSET, which fails      *)
(* unless the child is stopped                                             *)
Report(at, line, to) ==
  /\ pc = at
  /\ IF status = "exited" \/ child # "stopped"
     THEN pc' = "done" /\ UNCHANGED label
     ELSE pc' = to /\ label' = <<line, stop, signals>>
  /\ UNCHANGED <<child, stop, inCall, status, budget>>

Child == Exec \/ EnterCall \/ LeaveCall \/ Signal \/ Kill

Parent ==
  \/ Wait("waitFirst", "resumeFirst")
  \/ Resume("resumeFirst", "waitEnter")
  \/ Wait("waitEnter", "enter")
  \/ Report("enter", "ENTER", "resumeEnter")
  \/ Resume("resumeEnter", "waitExit")
  \/ Wait("waitExit", "exit")
  \/ Report("exit", "EXIT", "resumeExit")
  \/ Resume("resumeExit", "waitEnter")

Next == Child \/ Parent

Spec == Init /\ [][Next]_vars

-----------------------------------------------------------------------------
(* The parity of the loop: an ENTER line belongs to the entry of a call    *)
(* and an EXIT line to its return exactly if an even number of signals has *)
(* stopped the child before.  Each signal takes a line of its own, and     *)
(* from the first to the second, entries are printed as EXIT.              *)
LinesMatch ==
  label[2] \in {"entry", "exit"} =>
    (label[3] % 2 = 0 <=>
       label[1] = IF label[2] = "entry" THEN "ENTER" ELSE "EXIT")
=============================================================================

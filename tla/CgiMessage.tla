----------------------------- MODULE CgiMessage -----------------------------
(***************************************************************************)
(* class cgiMessage (src/httpMessage/cgi_message.cpp) over AsyncProgram    *)
(* (src/async/program.cpp): the output of a script, collected from a pipe  *)
(* by the poll loop, and the state of the process that writes it.  A       *)
(* message is a record:                                                    *)
(*   alive, status  the process runs; the code it exits with               *)
(*   made           units it has written so far                            *)
(*   open, pipe     the write end is open; units waiting in the pipe       *)
(*   doomed         it was sent SIGKILL                                    *)
(*   reaped         ~_running: waitpid has returned its status             *)
(*   eof            _eof of the read end                                   *)
(*   complete, got  _bodyComplete; size of _readBuffer and _httpBody       *)
(*   tooLarge       _tooLarge                                              *)
(*   late           CGI_TIMEOUT has passed since _startTime                *)
(*   polled         its descriptors were in the list at the last ::poll    *)
(* alive, made, open, pipe and doomed are the kernel's; the others are     *)
(* fields of the code.  The split of the output into headers and body and  *)
(* the script's standard input are abstracted.                             *)
(***************************************************************************)
EXTENDS FileHandler

CONSTANT MaxScriptBody                   \* CGI_MAX_BODY_SIZE

ASSUME MaxScriptBodyAssumption == MaxScriptBody \in Nat

\* What the script does: writes out units, then exits with status or hangs.
\* exec is FALSE when the executor does not exist or cannot be executed.
Scripts == [exec : BOOLEAN, out : Nat, status : Nat, hangs : BOOLEAN]

CgiMessages ==
  [alive : BOOLEAN, status : Nat, made : Nat, open : BOOLEAN, pipe : Nat,
   doomed : BOOLEAN, reaped : BOOLEAN, eof : BOOLEAN, complete : BOOLEAN,
   got : Nat, tooLarge : BOOLEAN, late : BOOLEAN, polled : BOOLEAN]

\* Mutant: a signal is reported as a negative status.
KilledNegative == -9

KilledStatus == 137                      \* WTERMSIG(SIGKILL) + 128

\* The constructor: two pipes, fork and execve.
Start ==
  [alive |-> TRUE, status |-> 0, made |-> 0, open |-> TRUE, pipe |-> 0,
   doomed |-> FALSE, reaped |-> FALSE, eof |-> FALSE, complete |-> FALSE,
   got |-> 0, tooLarge |-> FALSE, late |-> FALSE, polled |-> FALSE]

\* checkProgramStatus: 0 while the process runs; otherwise it is reaped.
ExitCode(g)    == IF g.alive THEN 0 ELSE g.status
AfterStatus(g) == [g EXCEPT !.reaped = ~g.alive]

\* The read end is ready: POLLIN for data, POLLHUP when the writer is gone.
Readable(g) == g.pipe > 0
HungUp(g)   == ~g.open

\* _cgiReadCb.
AtEnd(g)    == ~g.eof /\ g.pipe = 0
Overflow(g) == ~g.eof /\ g.got + g.pipe > MaxScriptBody

\* The SIGKILL sent on overflow fails with ESRCH, and throws, when the process
\* has been reaped already.
KillThrows(g) == Overflow(g) /\ g.reaped

CgiRead(g) ==
  CASE g.eof -> [g EXCEPT !.complete = TRUE]
    [] AtEnd(g) -> [g EXCEPT !.eof = TRUE]
    [] Overflow(g) -> [g EXCEPT !.pipe = 0, !.got = 0, !.tooLarge = @ \/ ~g.reaped, !.doomed = @ \/ g.alive]
    [] OTHER -> [g EXCEPT !.pipe = 0, !.got = @ + g.pipe]

(***************************************************************************)
(* The process itself: one unit at a time, then exit (which closes its     *)
(* end of the pipe); a process sent SIGKILL may die at any point.          *)
(***************************************************************************)
CanWrite(g, script) == g.alive /\ ~g.doomed /\ g.made < script.out
Written(g)          == [g EXCEPT !.made = @ + 1, !.pipe = @ + 1]
CanExit(g, script)  == g.alive /\ ~g.doomed /\ g.made = script.out /\ ~script.hangs
Stuck(g, script)    == g.alive /\ ~g.doomed /\ g.made = script.out /\ g.pipe = 0 /\ script.hangs
Exited(g, status)   == [g EXCEPT !.alive = FALSE, !.open = FALSE, !.status = status]
=============================================================================

-------------------------------- MODULE Shell --------------------------------
(***************************************************************************)
(* The main loops of the shells of src/lecture/test: test.c and test2.c,   *)
(* with a history, and sigtest.c, without.  Their children run beside      *)
(* them, and Ctrl-C reaches the shell and all of its children, which stay  *)
(* in its process group.                                                   *)
(*                                                                         *)
(* Kind says what a stored line is: "foreground" (a program, fewer than    *)
(* seven words), "long" (seven or more), "background" (a program and &),   *)
(* "lone" (only &), "builtin" (history, pwd, help, cd, with or without an  *)
(* error message), "exit", "spaces".  Messages are left out.               *)
(***************************************************************************)
EXTENDS History, FiniteSets

CONSTANTS Kind,         \* [Command -> kinds above]
          Child,        \* bound: the processes that can be forked
          MaxCount,     \* bound: the commands stored
          MaxInts       \* bound: how often Ctrl-C is pressed

ASSUME ShellAssumption ==
  /\ Kind \in [Command -> {"foreground", "long", "background", "lone", "builtin", "exit",
                           "spaces"}]
  /\ IsFiniteSet(Child) /\ MaxCount \in Nat /\ MaxInts \in Nat

VARIABLES
  pc,           \* "prompt", "read", "fork", "wait", "done", "crashed"
  line,         \* the command being run
  child,        \* [Child -> {"none", "born", "run", "zombie", "reaped"}]
  fg,           \* the children started in the foreground; the last is waited for
  ints,         \* Ctrl-C so far
  eof           \* standard input has ended

vars == <<program, history, pc, line, child, fg, ints, eof>>
children == <<child, fg>>

Crash == pc' = "crashed" /\ UNCHANGED <<line, children>>
Again == pc' = "prompt" /\ UNCHANGED <<line, children>>

-----------------------------------------------------------------------------
(* The shell.                                                              *)

(* Top of the loop.  test.c defines reap_background() but never calls it.  *)
reap_background_Forgotten == UNCHANGED child
reap_background == child' = [c \in Child |-> IF child[c] = "zombie" THEN "reaped" ELSE child[c]]

Prompt ==
  /\ pc = "prompt" /\ pc' = "read"
  /\ IF program = "test.c" THEN UNCHANGED child ELSE reap_background
  /\ UNCHANGED <<program, history, line, fg, ints, eof>>

(* A command that is to be run as a program.                               *)
Launch(c) == pc' = "fork" /\ line' = c /\ UNCHANGED children

(* What the shell does with a line, once any ! has been replaced.          *)
TestLine(c) ==
  /\ program = "test.c"
  /\ IF Kind[c] = "spaces" THEN StoreBlank(c) ELSE Store(c)
  /\ CASE Kind[c] \in {"spaces", "builtin"} -> Again
       [] Kind[c] = "exit" -> pc' = "done" /\ UNCHANGED <<line, children>>
       [] OTHER -> Launch(c)

Test2Line(c) ==
  /\ program = "test2.c" /\ Store(c)
  /\ CASE Kind[c] \in {"spaces", "builtin"} -> Again
       [] Kind[c] = "exit" -> pc' = "done" /\ UNCHANGED <<line, children>>
       [] Kind[c] = "lone" -> Crash
       [] OTHER -> Launch(c)

SigtestLine(c) == program = "sigtest.c" /\ UNCHANGED history /\ Launch(c)

Line(c) == TestLine(c) \/ Test2Line(c) \/ SigtestLine(c)

(* A line of the user: a command, an empty line, !! or !n.                 *)
CanRead == pc = "read" /\ ~eof /\ history.count < MaxCount

Typed(c) == CanRead /\ Line(c) /\ UNCHANGED <<program, ints, eof>>

TypedEmpty(c) ==
  /\ CanRead /\ IF program = "test.c" THEN StoreBlank(c) ELSE UNCHANGED history
  /\ Again /\ UNCHANGED <<program, ints, eof>>

(* test.c copies what it recalled unless the history is empty, and also    *)
(* when it is NULL; what a freed slot or a place outside the array holds   *)
(* can be anything.  test2.c asks again.                                   *)
RecallTest(x, refused) ==
  /\ program = "test.c" /\ CanRead
  /\ \/ x \in Command /\ Line(x)
     \/ x \in {Freed, Outside} /\ \E c \in Command : Line(c)
     \/ x # Freed /\ x \notin Command /\ refused /\ Again /\ UNCHANGED history
     \/ x \notin Command /\ ~(x = NULL /\ refused) /\ Crash /\ UNCHANGED history
  /\ UNCHANGED <<program, ints, eof>>

RecallTest2(x) ==
  /\ program = "test2.c" /\ CanRead
  /\ IF x = NULL THEN Again /\ UNCHANGED history ELSE Line(x)
  /\ UNCHANGED <<program, ints, eof>>

RecallLast ==
  RecallTest(get_Last(history), TRUE) \/ RecallTest2(get_last_history(history))

RecallNumber(n) ==
  RecallTest(get_hist(history, n), history.size = 0) \/ RecallTest2(get_history(history, n))

(* ! followed by something that is not a number.                           *)
RecallRefused ==
  /\ CanRead /\ program # "sigtest.c" /\ Again /\ UNCHANGED <<program, history, ints, eof>>

(* read() returns 0: test.c takes it for a blank line, test2.c asks again, *)
(* sigtest.c leaves the loop.                                              *)
ReadEnd(c) ==
  /\ pc = "read" /\ eof
  /\ IF program = "test.c" THEN StoreBlank(c) ELSE UNCHANGED history
  /\ IF program = "sigtest.c" THEN pc' = "done" /\ UNCHANGED <<line, children>> ELSE Again
  /\ UNCHANGED <<program, ints, eof>>

(* background() of test.c compares every argument up to the seventh with   *)
(* &, the NULL behind the last one as well.                                *)
InBackground(c) ==
  Kind[c] = "background" \/ (Kind[c] = "lone" /\ program # "test2.c")

Fork(c) ==
  /\ pc = "fork" /\ child[c] = "none" /\ child' = [child EXCEPT ![c] = "born"]
  /\ IF InBackground(line)
       THEN pc' = "prompt" /\ UNCHANGED fg
       ELSE /\ fg' = Append(fg, c)
            /\ pc' = IF program = "test.c" /\ Kind[line] # "long" THEN "crashed" ELSE "wait"
  /\ UNCHANGED <<program, history, line, ints, eof>>

ForkFails == pc = "fork" /\ Again /\ UNCHANGED <<program, history, ints, eof>>

Waited == fg[Len(fg)]

(* As if waitpid() were called with WNOHANG.                               *)
Wait_NoHang ==
  /\ pc = "wait" /\ pc' = "prompt"
  /\ child' = [child EXCEPT ![Waited] = IF @ = "zombie" THEN "reaped" ELSE @]
  /\ UNCHANGED <<program, history, line, fg, ints, eof>>

Wait ==
  /\ pc = "wait" /\ child[Waited] = "zombie"
  /\ child' = [child EXCEPT ![Waited] = "reaped"] /\ pc' = "prompt"
  /\ UNCHANGED <<program, history, line, fg, ints, eof>>

-----------------------------------------------------------------------------
(* Its children and its user.                                              *)

(* A child keeps the shell's handler until signal(SIGINT, SIG_DFL); exec   *)
(* may fail.                                                               *)
Exec(c) ==
  /\ child[c] = "born" /\ \E s \in {"run", "zombie"} : child' = [child EXCEPT ![c] = s]
  /\ UNCHANGED <<program, history, pc, line, fg, ints, eof>>

Exit(c) ==
  /\ child[c] = "run" /\ child' = [child EXCEPT ![c] = "zombie"]
  /\ UNCHANGED <<program, history, pc, line, fg, ints, eof>>

(* Ctrl-C: a child dies unless its program catches the signal.  It cuts    *)
(* off read() and waitpid() of test.c and test2.c (sa_flags is 0); the     *)
(* signal() of sigtest.c restarts them.  A call not yet entered goes on.   *)
handle_sigint ==
  /\ ints < MaxInts /\ ints' = ints + 1 /\ pc \notin {"done", "crashed"}
  /\ \E dead \in SUBSET {c \in Child : child[c] = "run"} :
       child' = [c \in Child |-> IF c \in dead THEN "zombie" ELSE child[c]]
  /\ \/ UNCHANGED pc
     \/ program # "sigtest.c" /\ pc \in {"read", "wait"} /\ pc' = "prompt"
  /\ UNCHANGED <<program, history, line, fg, eof>>

EndOfInput ==
  /\ ~eof /\ eof' = TRUE
  /\ UNCHANGED <<program, history, pc, line, children, ints>>

-----------------------------------------------------------------------------
Init ==
  /\ HistoryInit /\ pc = "prompt" /\ line = NULL
  /\ child = [c \in Child |-> "none"] /\ fg = <<>> /\ ints = 0 /\ eof = FALSE

ShellStep ==
  \/ Prompt \/ ForkFails \/ Wait
  \/ \E c \in Command : ReadEnd(c)
  \/ \E c \in Child : Fork(c)

User ==
  \/ EndOfInput \/ handle_sigint \/ RecallLast \/ RecallRefused
  \/ \E c \in Command : Typed(c) \/ TypedEmpty(c)
  \/ \E n \in 0..(MaxCount + 1) : RecallNumber(n)

Next == ShellStep \/ User \/ \E c \in Child : Exec(c) \/ Exit(c)

(* The shell gets the processor; nobody has to type and no child to end.   *)
Spec == Init /\ [][Next]_vars /\ WF_vars(ShellStep)

-----------------------------------------------------------------------------
TypeOK ==
  /\ program \in Program /\ pc \in {"prompt", "read", "fork", "wait", "done", "crashed"}
  /\ history \in [slot : [Slot -> Command \cup {NULL, Freed}], size : 0..HIST_SIZE,
                  count : Nat, log : Seq(Command)]
  /\ line \in Command \cup {NULL}
  /\ child \in [Child -> {"none", "born", "run", "zombie", "reaped"}]
  /\ fg \in Seq(Child) /\ ints \in 0..MaxInts /\ eof \in BOOLEAN

(* Foreground commands run one at a time: a shell that is not waiting has  *)
(* left behind at most as many of them as Ctrl-C cut off its waits, and    *)
(* sigtest.c none at all.                                                  *)
LeftBehind ==
  pc # "crashed" =>
    Cardinality({k \in DOMAIN fg : child[fg[k]] # "reaped"}) <=
      (IF program = "sigtest.c" THEN 0 ELSE ints) + (IF pc = "wait" THEN 1 ELSE 0)

(* A child that has ended is collected as long as the shell comes back to  *)
(* its prompt.  (Not by test.c, which only collects what it waits for.)    *)
ZombiesReaped ==
  program # "test.c" /\ []<>(pc = "prompt") =>
    \A c \in Child : child[c] = "zombie" ~> child[c] = "reaped"
=============================================================================

------------------------------- MODULE Pctest -------------------------------
(***************************************************************************)
(* pctest (OS/HW1/pctest.c) compiles two programs, runs both on every      *)
(* test, collects their answers in two files and compares the files line   *)
(* by line.  Children are waited for twice: by main, and by the handler of *)
(* SIGCHLD, which calls wait, too.  A timer is to end what takes too long. *)
(*                                                                         *)
(* A signal handler runs when main returns to its own code: a signal that  *)
(* arrives while main runs may find it in one more system call, and is due *)
(* after it.  SIGCHLD is not counted, is held back while its handler runs, *)
(* and restarts the wait it interrupts.                                    *)
(***************************************************************************)
EXTENDS Integers, Sequences, FiniteSets, SequencesExt

CONSTANTS
  Test,     (* the files in the test directory                             *)
  Answer,   (* the line each program prints for each test                  *)
  Slots,    (* the length of tester_tar and tester_sol: 10                 *)
  Lines,    (* the number of lines of each test                            *)
  NoOpen,   (* the tests that fopen may refuse: the path is "./tests/" and *)
            (* the name, whatever directory -i gave                        *)
  Capacity  (* the lines a pipe holds, eight bytes of each: 8192 of them   *)
            (* in a pipe of 64 kB                                          *)

Prog == {"target", "solution"}
Compile == "compile"
Child == Prog \X (Test \cup {Compile})
Dots == {".", ".."}

ASSUME PctestAssumption ==
  /\ Test \cap (Dots \cup {Compile}) = {}
  /\ DOMAIN Answer = Prog
  /\ \A p \in Prog : DOMAIN Answer[p] = Test
  /\ Slots \in Nat
  /\ Lines \in [Test -> Nat]
  /\ NoOpen \subseteq Test
  /\ Capacity \in Nat \ {0}

VARIABLES
  does,       (* what each child will do                                   *)
  armed,      (* setitimer succeeded                                       *)
  mpc, test,  (* where main is, and the test it runs                       *)
  todo, i,    (* the entries readdir has yet to return; the loop counter   *)
  left,       (* the lines of the test main has yet to write               *)
  unread,     (* the lines in the pipe to each program                     *)
  child,      (* the state of each child                                   *)
  pending,    (* a SIGCHLD for main: "no", "new" or "due"                  *)
  handling,   (* main is in the handler of SIGCHLD                         *)
  result,     (* target_result.txt and solution_result.txt                 *)
  verdict,    (* what the detector prints, line by line                    *)
  reaper      (* history: who waited for each child                        *)

signals == <<pending, handling>>
pipes == <<left, unread>>
files == <<result, verdict>>
vars == <<does, armed, mpc, test, todo, i, pipes, child, signals, files, reaper>>

Ended == mpc \in {"done", "error", "abnormal", "timeout", "overrun"}

(* t is a local variable, and the microseconds of it_value are never set:  *)
(* setitimer refuses what does not happen to be in 0 .. 999999.            *)
Init ==
  /\ does \in [Child -> {"answers", "silent", "crashes", "hangs"}]
  /\ \A p \in Prog : does[p, Compile] = "silent"
  /\ armed \in BOOLEAN
  /\ mpc = "gcc_target"
  /\ test = Compile
  /\ todo = Test \cup Dots
  /\ i = 0
  /\ left = 0
  /\ unread = [p \in Prog |-> 0]
  /\ child = [c \in Child |-> "none"]
  /\ pending = "no"
  /\ handling = FALSE
  /\ result = [p \in Prog |-> <<>>]
  /\ verdict = <<>>
  /\ reaper = [c \in Child |-> "nobody"]

(* One system call of main.                                                *)
MainGoto(from, to) ==
  /\ mpc = from
  /\ mpc' = to
  /\ ~handling
  /\ pending # "due"
  /\ pending' = IF pending = "new" THEN "due" ELSE pending
  /\ UNCHANGED <<does, armed, handling>>

Fork(c) ==
  /\ child' = [child EXCEPT ![c] = "running"]
  /\ UNCHANGED <<test, todo, i, files, reaper>>

Reap(c, who) ==
  /\ child[c] = "zombie"
  /\ child' = [child EXCEPT ![c] = "reaped"]
  /\ reaper' = [reaper EXCEPT ![c] = who]

-----------------------------------------------------------------------------
(* What plausible mistakes would do: the variants of the actions below on  *)
(* which the properties must fail.                                         *)
NoHangMainWaitFor(p, from, to) ==        \* waitpid with WNOHANG
  /\ MainGoto(from, to)
  /\ \/ Reap(<<p, test>>, "main")
     \/ child[p, test] # "zombie" /\ UNCHANGED <<child, reaper>>
  /\ UNCHANGED <<test, todo, i, pipes, files>>

TruncateChildEnds(c) ==                  \* O_TRUNC for O_APPEND
  /\ child[c] = "running" /\ ~Ended
  /\ does[c] # "hangs"
  /\ child' = [child EXCEPT ![c] = "zombie"]
  /\ pending' = IF pending = "no" THEN "new" ELSE pending
  /\ result' = IF does[c] = "answers"
                 THEN [result EXCEPT ![c[1]] = <<Answer[c[1]][c[2]]>>]
                 ELSE result
  /\ UNCHANGED <<does, armed, mpc, test, todo, i, pipes, handling,
                 verdict, reaper>>

DeafHandlerReap(c) ==                    \* WIFEXITED is not looked at
  /\ handling /\ ~Ended
  /\ Reap(c, "handler")
  /\ handling' = FALSE
  /\ pending' = IF pending = "no" THEN "no" ELSE "due"
  /\ UNCHANGED <<does, armed, mpc, test, todo, i, pipes, files>>

IgnoreAlarm ==                           \* signal(SIGALRM, SIG_IGN)
  /\ armed /\ ~Ended
  /\ UNCHANGED vars

-----------------------------------------------------------------------------
(* Both compilers run at the same time, and two waits are for any child.   *)
MainCompileTarget ==
  /\ MainGoto("gcc_target", "gcc_solution")
  /\ Fork(<<"target", Compile>>)
  /\ UNCHANGED pipes

MainCompileSolution ==
  /\ MainGoto("gcc_solution", "wait1")
  /\ Fork(<<"solution", Compile>>)
  /\ UNCHANGED pipes

Alive == {c \in Child : child[c] \in {"running", "zombie"}}

(* wait returns at once when there is no child left.                       *)
MainWaitAny(from, to) ==
  /\ MainGoto(from, to)
  /\ \/ \E c \in Child : Reap(c, "main")
     \/ Alive = {} /\ UNCHANGED <<child, reaper>>
  /\ UNCHANGED <<test, todo, i, pipes, files>>

-----------------------------------------------------------------------------
(* The tests.  The loop counter, which is the index into tester_tar and    *)
(* tester_sol, counts "." and "..", too; nothing checks it.                *)
MainReadDots(e) ==
  /\ MainGoto("readdir", "readdir")
  /\ e \in todo \cap Dots
  /\ todo' = todo \ {e}
  /\ i' = i + 1
  /\ UNCHANGED <<test, pipes, child, files, reaper>>

MainReadTest(e) ==
  /\ MainGoto("readdir", IF i < Slots THEN "fork_target" ELSE "overrun")
  /\ e \in todo \ Dots
  /\ todo' = todo \ {e}
  /\ test' = e
  /\ UNCHANGED <<i, pipes, child, files, reaper>>

NewPipe(p) ==
  /\ unread' = [unread EXCEPT ![p] = 0]
  /\ UNCHANGED left

MainForkTarget ==
  /\ MainGoto("fork_target", "fork_solution")
  /\ Fork(<<"target", test>>)
  /\ NewPipe("target")

MainForkSolution ==
  /\ MainGoto("fork_solution", "open")
  /\ Fork(<<"solution", test>>)
  /\ NewPipe("solution")

MainOpen ==
  /\ MainGoto("open", "write_target")
  /\ left' = Lines[test]
  /\ UNCHANGED <<test, todo, i, unread, child, files, reaper>>

MainOpenFails ==
  /\ MainGoto("open", "error")
  /\ test \in NoOpen
  /\ UNCHANGED <<test, todo, i, pipes, child, files, reaper>>

(* Every line goes to the target, then to the solution.  A write waits for *)
(* room in the pipe.  main keeps the read ends open, so it never fails,    *)
(* and waits for ever when the program that should read is gone.           *)
MainWrite(p, from, to, n) ==
  /\ MainGoto(from, to)
  /\ left > 0
  /\ unread[p] < Capacity
  /\ unread' = [unread EXCEPT ![p] = @ + 1]
  /\ left' = left - n
  /\ UNCHANGED <<test, todo, i, child, files, reaper>>

MainFed ==
  /\ MainGoto("write_target", "wait_solution")
  /\ left = 0
  /\ UNCHANGED <<test, todo, i, pipes, child, files, reaper>>

(* waitpid returns at once when the handler has waited for the child.      *)
MainWaitFor(p, from, to) ==
  /\ MainGoto(from, to)
  /\ \/ Reap(<<p, test>>, "main")
     \/ child[p, test] = "reaped" /\ UNCHANGED <<child, reaper>>
  /\ UNCHANGED <<test, todo, i, pipes, files>>

MainNextTest ==
  /\ MainGoto("next", "readdir")
  /\ i' = i + 1
  /\ UNCHANGED <<test, todo, pipes, child, files, reaper>>

-----------------------------------------------------------------------------
(* The detector reads a line of each file for every line of the solution.  *)
(* At the end of the target's file the buffer keeps the line before, and   *)
(* of an empty file it holds nothing an answer could be equal to.          *)
TargetLine(k) ==
  LET lines == result["target"]
  IN IF lines = <<>> THEN <<>> ELSE <<lines[IF k <= Len(lines) THEN k ELSE Len(lines)]>>

(* Without a test neither file exists: exit(1).                            *)
MainDetect ==
  /\ todo = {}
  /\ MainGoto("readdir", IF Test = {} THEN "error" ELSE "done")
  /\ verdict' = [k \in DOMAIN result["solution"] |->
                   IF TargetLine(k) = <<result["solution"][k]>> THEN "same" ELSE "different"]
  /\ UNCHANGED <<test, todo, i, pipes, child, result, reaper>>

-----------------------------------------------------------------------------
(* A program reads what it likes of its input.                             *)
ChildReads(c) ==
  /\ child[c] = "running" /\ ~Ended
  /\ c[2] # Compile /\ unread[c[1]] > 0
  /\ unread' = [unread EXCEPT ![c[1]] = @ - 1]
  /\ UNCHANGED <<does, armed, mpc, test, todo, i, left, child, signals, files,
                 reaper>>

(* It answers and exits, or ends in another way.                           *)
ChildEnds(c) ==
  /\ child[c] = "running" /\ ~Ended
  /\ does[c] # "hangs"
  /\ child' = [child EXCEPT ![c] = "zombie"]
  /\ pending' = IF pending = "no" THEN "new" ELSE pending
  /\ result' = IF does[c] = "answers"
                 THEN [result EXCEPT ![c[1]] = Append(@, Answer[c[1]][c[2]])]
                 ELSE result
  /\ UNCHANGED <<does, armed, mpc, test, todo, i, pipes, handling,
                 verdict, reaper>>

(* The handler of SIGCHLD.  It waits for any child, until one has ended.   *)
HandlerStart ==
  /\ pending # "no" /\ ~handling /\ ~Ended
  /\ handling' = TRUE
  /\ pending' = "no"
  /\ UNCHANGED <<does, armed, mpc, test, todo, i, pipes, child, files, reaper>>

HandlerReturn ==
  /\ handling' = FALSE
  /\ pending' = IF pending = "no" THEN "no" ELSE "due"

HandlerReap(c) ==
  /\ handling /\ ~Ended
  /\ Reap(c, "handler")
  /\ IF does[c] = "crashes"
       THEN mpc' = "abnormal" /\ UNCHANGED signals
       ELSE HandlerReturn /\ UNCHANGED mpc
  /\ UNCHANGED <<does, armed, test, todo, i, pipes, files>>

(* Without a child exit_code keeps what was on the stack.                  *)
HandlerFindsNobody ==
  /\ handling /\ ~Ended
  /\ Alive = {}
  /\ \/ HandlerReturn /\ UNCHANGED mpc
     \/ mpc' = "abnormal" /\ UNCHANGED signals
  /\ UNCHANGED <<does, armed, test, todo, i, pipes, child, files, reaper>>

(* The handler of SIGALRM, which may interrupt the other one.              *)
Alarm ==
  /\ armed /\ ~Ended
  /\ mpc' = "timeout"
  /\ UNCHANGED <<does, armed, test, todo, i, pipes, child, signals, files, reaper>>

-----------------------------------------------------------------------------
MainStep ==
  \/ MainCompileTarget \/ MainCompileSolution
  \/ MainWaitAny("wait1", "wait2") \/ MainWaitAny("wait2", "readdir")
  \/ \E e \in todo : MainReadDots(e) \/ MainReadTest(e)
  \/ MainForkTarget \/ MainForkSolution \/ MainOpen \/ MainOpenFails
  \/ MainWrite("target", "write_target", "write_solution", 0)
  \/ MainWrite("solution", "write_solution", "write_target", 1)
  \/ MainFed
  \/ MainWaitFor("solution", "wait_solution", "wait_target")
  \/ MainWaitFor("target", "wait_target", "next")
  \/ MainNextTest \/ MainDetect

HandlerStep ==
  HandlerStart \/ (\E c \in Child : HandlerReap(c)) \/ HandlerFindsNobody

Terminated == Ended /\ UNCHANGED vars

Next ==
  \/ MainStep \/ HandlerStep \/ Alarm \/ Terminated
  \/ \E c \in Child : ChildReads(c) \/ ChildEnds(c)

Spec == Init /\ [][Next]_vars

(* The kernel runs main and the children and delivers signals; the timer   *)
(* runs out.  That a program reads its input is not assumed.               *)
Fairness ==
  /\ WF_vars(MainStep \/ HandlerStep)
  /\ WF_vars(Alarm)
  /\ \A c \in Child : WF_vars(ChildEnds(c))

FairSpec == Spec /\ Fairness
-----------------------------------------------------------------------------
(* Whoever waits for the children, main goes on only when they are gone:   *)
(* the tests run compiled programs, one test at a time, and no zombie is   *)
(* left.                                                                   *)
NoChildLeft == mpc \in {"readdir", "fork_target", "next", "done"} => Alive = {}

(* When both programs answer every test with a line, the detector prints   *)
(* one verdict for each test, and for each value of the two answers as     *)
(* often as there are tests with these answers.                            *)
Verdicts(v) == Cardinality({k \in DOMAIN verdict : verdict[k] = v})

VerdictsExact ==
  (mpc = "done" /\ \A p \in Prog, t \in Test : does[p, t] = "answers") =>
    /\ Verdicts("same") =
         Cardinality({t \in Test : Answer["target"][t] = Answer["solution"][t]})
    /\ Verdicts("different") =
         Cardinality({t \in Test : Answer["target"][t] # Answer["solution"][t]})

(* A crash goes unreported only when main's own wait was faster than the   *)
(* handler's: main does not look at the status.                            *)
CrashSeen ==
  mpc = "done" =>
    \A c \in Child : does[c] = "crashes" => reaper[c] = "main"

(* A test has more lines than a pipe holds, and the program that should    *)
(* read them is gone: main's write waits for ever.                         *)
Writes == [target |-> "write_target", solution |-> "write_solution"]

WriteBlocked ==
  \E p \in Prog :
    /\ mpc = Writes[p] /\ Lines[test] > Capacity
    /\ unread[p] = Capacity
    /\ child[p, test] \in {"zombie", "reaped"}

(* pctest ends, unless the timer was not started and a program hangs or    *)
(* leaves more of its input unread than a pipe holds: the handler that     *)
(* waits for a child in the midst of main, and the children it takes from  *)
(* main, never make main wait for ever.                                    *)
Stuck ==
  \/ \E c \in Child : child[c] = "running" /\ does[c] = "hangs"
  \/ WriteBlocked

Ends == <>(Ended \/ (~armed /\ Stuck))
=============================================================================

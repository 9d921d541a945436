---------------------------- MODULE Pctest_proofs ---------------------------
(***************************************************************************)
(* What pctest does with its children and with their answers, for any      *)
(* tests, any behaviour of the programs and any order in which main and    *)
(* the handlers run.                                                       *)
(***************************************************************************)
EXTENDS Pctest, SequenceTheorems, FiniteSetTheorems, TLAPS

Feeding == {"open", "write_target", "write_solution"}
Running == {"fork_target", "fork_solution", "wait_solution", "wait_target",
            "next"} \cup Feeding
Compiling == {"gcc_target", "gcc_solution", "wait1", "wait2"}
EndedPC == {"done", "error", "abnormal", "timeout", "overrun"}

TypeOK ==
  /\ does \in [Child -> {"answers", "silent", "crashes", "hangs"}]
  /\ \A p \in Prog : does[p, Compile] = "silent"
  /\ mpc \in Compiling \cup {"readdir"} \cup Running \cup EndedPC
  /\ test \in Test \cup {Compile}
  /\ mpc \in Running => test \in Test
  /\ todo \in SUBSET (Test \cup Dots)
  /\ child \in [Child -> {"none", "running", "zombie", "reaped"}]
  /\ reaper \in [Child -> {"nobody", "main", "handler"}]

(* The children main has not yet made sure of.                             *)
LivesAre(S) == Alive \subseteq S

AliveInv ==
  /\ mpc \in {"gcc_target", "readdir", "fork_target", "next", "done"} =>
       LivesAre({})
  /\ mpc = "gcc_solution" => LivesAre({<<"target", Compile>>})
  /\ mpc = "wait1" => LivesAre(Prog \X {Compile})
  /\ mpc = "wait2" => \E p \in Prog : LivesAre({<<p, Compile>>})
  /\ mpc \in {"fork_solution", "wait_target"} => LivesAre({<<"target", test>>})
  /\ mpc \in Feeding \cup {"wait_solution"} => LivesAre(Prog \X {test})

(* A test that is no longer to do was run, and both its children have been *)
(* waited for, unless it is the one that runs.                             *)
TestedInv ==
  /\ mpc \in Compiling => Test \subseteq todo
  /\ mpc \in Running => test \notin todo
  /\ mpc \in {"readdir", "done"} \cup Running =>
       \A t \in Test \ todo, p \in Prog :
         (mpc \in Running \ {"next"} => t # test) => child[p, t] = "reaped"
  /\ mpc \in Feeding \cup {"fork_solution", "wait_solution", "wait_target"} =>
       child["target", test] # "none"
  /\ mpc \in Feeding \cup {"wait_solution"} => child["solution", test] # "none"
  /\ mpc = "wait_target" => child["solution", test] = "reaped"
  /\ mpc = "done" => todo = {}

(* Only a child that has ended was waited for, and a crash the handler has *)
(* seen is the end.                                                        *)
ReaperInv ==
  \A c \in Child :
    /\ child[c] = "reaped" => reaper[c] # "nobody"
    /\ does[c] = "crashes" /\ reaper[c] = "handler" => mpc = "abnormal"

IInv == TypeOK /\ AliveInv /\ TestedInv /\ ReaperInv

(* The answers.  When all children answer, the two files hold the answers  *)
(* to the same tests in the same order, the tests run to their end, and    *)
(* that of a child that has ended on the test which runs.                  *)
AllAnswer == \A p \in Prog, t \in Test : does[<<p, t>>] = "answers"
Current == IF mpc \in Running THEN {test} ELSE {}
Past == Test \ (todo \cup Current)
HasAnswered(p) == mpc \in Running /\ child[<<p, test>>] \in {"zombie", "reaped"}

Enumerates(n, s, S) ==
  /\ s \in [1 .. n -> S]
  /\ \A t \in S : \E k \in 1 .. n : s[k] = t
  /\ \A j, k \in 1 .. n : s[j] = s[k] => j = k

AnswersTo(n, s, p) == [k \in 1 .. n |-> Answer[p][s[k]]]

FilesInv ==
  AllAnswer /\ mpc \in Compiling \cup {"readdir", "done"} \cup Running =>
    \E n \in Nat : \E s \in [1 .. n -> Past] :
      /\ Enumerates(n, s, Past)
      /\ \A p \in Prog :
           result[p] = IF HasAnswered(p) THEN Append(AnswersTo(n, s, p), Answer[p][test])
                       ELSE AnswersTo(n, s, p)

FreshInv ==
  /\ \A t \in Test \cap todo, p \in Prog : child[<<p, t>>] = "none"
  /\ mpc = "fork_target" => \A p \in Prog : child[<<p, test>>] = "none"
  /\ mpc = "fork_solution" => child[<<"solution", test>>] = "none"

DetectInv ==
  mpc = "done" =>
    verdict = [k \in DOMAIN result["solution"] |->
                 IF TargetLine(k) = <<result["solution"][k]>> THEN "same" ELSE "different"]

AnswersInv == DOMAIN result = Prog /\ FilesInv /\ FreshInv /\ DetectInv
-----------------------------------------------------------------------------
LEMMA ChildIs ==
  /\ \A p \in Prog, t \in Test : <<p, t>> \in Child
  /\ \A p \in Prog : <<p, Compile>> \in Child
  /\ \A c \in Child : c[1] \in Prog /\ c[2] \in Test \cup {Compile}
                    /\ c = <<c[1], c[2]>>
BY DEF Child

LEMMA InitInv == Init => IInv
<1> SUFFICES ASSUME Init
             PROVE  IInv
  OBVIOUS
<1>1. TypeOK
  BY DEF Init, TypeOK, Compiling, Running, Feeding
<1>2. Alive = {}
  BY DEF Init, Alive
<1>3. AliveInv
  BY <1>2 DEF Init, AliveInv, LivesAre, Feeding
<1>4. TestedInv
  BY DEF Init, TestedInv, Running, Compiling, Feeding
<1>5. ReaperInv
  BY DEF Init, ReaperInv
<1> QED
  BY <1>1, <1>3, <1>4, <1>5 DEF IInv

(* What waiting for a child, and starting one, change.                     *)
LEMMA ReapIs ==
  ASSUME TypeOK, NEW c \in Child, NEW who \in {"main", "handler"}, Reap(c, who)
  PROVE  /\ child' \in [Child -> {"none", "running", "zombie", "reaped"}]
         /\ reaper' \in [Child -> {"nobody", "main", "handler"}]
         /\ child[c] = "zombie" /\ child'[c] = "reaped" /\ reaper'[c] = who
         /\ \A d \in Child : d # c => child'[d] = child[d] /\ reaper'[d] = reaper[d]
         /\ Alive' = Alive \ {c}
BY DEF TypeOK, Reap, Alive

LEMMA ForkIs ==
  ASSUME TypeOK, NEW c \in Child, Fork(c)
  PROVE  /\ child' \in [Child -> {"none", "running", "zombie", "reaped"}]
         /\ child'[c] = "running"
         /\ \A d \in Child : d # c => child'[d] = child[d]
         /\ Alive' = Alive \cup {c}
         /\ UNCHANGED <<test, todo, reaper>>
BY DEF TypeOK, Fork, Alive

LEMMA ChildEndsIs ==
  ASSUME TypeOK, NEW c \in Child, ChildEnds(c)
  PROVE  /\ child' \in [Child -> {"none", "running", "zombie", "reaped"}]
         /\ child[c] = "running" /\ child'[c] = "zombie"
         /\ \A d \in Child : d # c => child'[d] = child[d]
         /\ Alive' = Alive
         /\ UNCHANGED <<does, mpc, test, todo, reaper>>
BY DEF TypeOK, ChildEnds, Alive

LEMMA CompileStep ==
  ASSUME IInv, MainCompileTarget \/ MainCompileSolution
  PROVE  IInv'
<1>0. TypeOK /\ AliveInv /\ TestedInv /\ ReaperInv
  BY DEF IInv
<1>1. PICK p \in Prog : /\ Fork(<<p, Compile>>)
                       /\ \/ mpc = "gcc_target" /\ mpc' = "gcc_solution" /\ p = "target"
                          \/ mpc = "gcc_solution" /\ mpc' = "wait1" /\ p = "solution"
                       /\ does' = does
  BY DEF MainCompileTarget, MainCompileSolution, MainGoto, Prog
<1>2. <<p, Compile>> \in Child
  BY ChildIs
<1>3. /\ child' \in [Child -> {"none", "running", "zombie", "reaped"}]
      /\ child'[<<p, Compile>>] = "running"
      /\ \A d \in Child : d # <<p, Compile>> => child'[d] = child[d]
      /\ Alive' = Alive \cup {<<p, Compile>>}
      /\ UNCHANGED <<test, todo, reaper>>
  BY <1>0, <1>1, <1>2, ForkIs
<1>4. TypeOK'
  BY <1>0, <1>1, <1>3 DEF TypeOK, Compiling, Running, Feeding
<1>5. AliveInv'
  BY <1>0, <1>1, <1>3 DEF AliveInv, LivesAre, Prog, Feeding
<1>6. TestedInv'
  BY <1>0, <1>1, <1>3 DEF TestedInv, Running, Compiling, Feeding
<1>7. ReaperInv'
  BY <1>0, <1>1, <1>3 DEF ReaperInv
<1> QED
  BY <1>4, <1>5, <1>6, <1>7 DEF IInv

LEMMA WaitAnyStep ==
  ASSUME IInv,
         MainWaitAny("wait1", "wait2") \/ MainWaitAny("wait2", "readdir")
  PROVE  IInv'
<1>0. TypeOK /\ AliveInv /\ TestedInv /\ ReaperInv
  BY DEF IInv
<1>1. /\ \/ mpc = "wait1" /\ mpc' = "wait2"
         \/ mpc = "wait2" /\ mpc' = "readdir"
      /\ UNCHANGED <<does, test, todo>>
  BY DEF MainWaitAny, MainGoto
<1>a. TestedInv'
  BY <1>0, <1>1 DEF TestedInv, Running, Compiling, Feeding
<1>2. CASE \E c \in Child : Reap(c, "main")
  <2>1. PICK c \in Child : Reap(c, "main")
    BY <1>2
  <2>2. /\ child' \in [Child -> {"none", "running", "zombie", "reaped"}]
        /\ reaper' \in [Child -> {"nobody", "main", "handler"}]
        /\ child[c] = "zombie" /\ child'[c] = "reaped" /\ reaper'[c] = "main"
        /\ \A d \in Child : d # c => child'[d] = child[d] /\ reaper'[d] = reaper[d]
        /\ Alive' = Alive \ {c} /\ c \in Alive
    BY <1>0, <2>1, ReapIs DEF Alive
  <2>3. TypeOK'
    BY <1>0, <1>1, <2>2 DEF TypeOK, Compiling, Running, Feeding
  <2>4. AliveInv'
    <3>1. CASE mpc = "wait1"
      <4>1. Alive \subseteq Prog \X {Compile}
        BY <1>0, <3>1 DEF AliveInv, LivesAre, Feeding
      <4>2. \E p \in Prog : Alive' \subseteq {<<p, Compile>>}
        BY <2>2, <4>1 DEF Prog
      <4> QED
        BY <1>1, <3>1, <4>2 DEF AliveInv, LivesAre, Feeding
    <3>2. CASE mpc = "wait2"
      <4>1. Alive' = {}
        BY <1>0, <2>2, <3>2 DEF AliveInv, LivesAre, Feeding
      <4> QED
        BY <1>1, <3>2, <4>1 DEF AliveInv, LivesAre, Feeding
    <3> QED
      BY <1>1, <3>1, <3>2
  <2>6. ReaperInv'
    BY <1>0, <1>1, <2>2 DEF ReaperInv
  <2> QED
    BY <1>a, <2>3, <2>4, <2>6 DEF IInv
<1>3. CASE Alive = {} /\ UNCHANGED <<child, reaper>>
  <2>1. Alive' = {}
    BY <1>3 DEF Alive
  <2> QED
    BY <1>0, <1>1, <1>3, <1>a, <2>1
       DEF IInv, TypeOK, AliveInv, ReaperInv, LivesAre, Compiling, Running, Prog, Feeding
<1> QED
  BY <1>2, <1>3 DEF MainWaitAny

(* main reads the test and writes its lines to the programs.               *)
MainFeeds ==
  \/ MainOpen \/ MainOpenFails
  \/ MainWrite("target", "write_target", "write_solution", 0)
  \/ MainWrite("solution", "write_solution", "write_target", 1)
  \/ MainFed

LEMMA MainFeedsIs ==
  ASSUME MainFeeds
  PROVE  /\ mpc \in Feeding
         /\ mpc' \in Feeding \cup {"wait_solution", "error"}
         /\ UNCHANGED <<does, test, todo, child, files, reaper>>
BY DEF MainFeeds, MainOpen, MainOpenFails, MainWrite, MainFed, MainGoto, Feeding

(* The steps of main that no child takes part in.                          *)
LEMMA QuietStep ==
  ASSUME IInv, NEW e,
         \/ MainReadDots(e) \/ MainReadTest(e) \/ MainFeeds \/ MainNextTest
         \/ MainDetect
  PROVE  IInv'
<1>0. TypeOK /\ AliveInv /\ TestedInv /\ ReaperInv /\ PctestAssumption
  BY PctestAssumption DEF IInv
<1>1. /\ UNCHANGED <<does, child, reaper>>
      /\ Alive' = Alive
  BY MainFeedsIs DEF MainReadDots, MainReadTest, MainNextTest, MainDetect,
         MainGoto, Alive
<1>2. /\ mpc # "abnormal" /\ ReaperInv'
  BY <1>0, <1>1, MainFeedsIs DEF MainReadDots, MainReadTest, MainNextTest,
         MainDetect, MainGoto, ReaperInv, Feeding
<1>3. CASE MainReadDots(e)
  <2>1. /\ mpc = "readdir" /\ mpc' = "readdir" /\ test' = test
        /\ todo' \subseteq todo /\ Test \ todo' = Test \ todo
    BY <1>0, <1>3 DEF MainReadDots, MainGoto, PctestAssumption
  <2>2. TypeOK' /\ AliveInv'
    BY <1>0, <1>1, <2>1 DEF TypeOK, AliveInv, LivesAre, Running, Feeding
  <2>3. TestedInv'
    BY <1>0, <1>1, <2>1 DEF TestedInv, Running, Compiling, Feeding
  <2> QED
    BY <1>2, <2>2, <2>3 DEF IInv
<1>4. CASE MainReadTest(e)
  <2>1. /\ mpc = "readdir" /\ mpc' \in {"fork_target", "overrun"} /\ test' = e
        /\ e \in Test /\ todo' = todo \ {e}
    BY <1>0, <1>4 DEF MainReadTest, MainGoto, TypeOK
  <2>2. TypeOK' /\ AliveInv'
    BY <1>0, <1>1, <2>1 DEF TypeOK, AliveInv, LivesAre, Running, EndedPC, Feeding
  <2>3. TestedInv'
    BY <1>0, <1>1, <2>1 DEF TestedInv, Running, Compiling, Feeding
  <2> QED
    BY <1>2, <2>2, <2>3 DEF IInv
<1>5. CASE MainFeeds
  <2>1. /\ mpc \in Feeding /\ mpc' \in Feeding \cup {"wait_solution", "error"}
        /\ UNCHANGED <<test, todo>>
    BY <1>5, MainFeedsIs
  <2>2. TypeOK' /\ AliveInv'
    BY <1>0, <1>1, <2>1 DEF TypeOK, AliveInv, LivesAre, Running, Feeding, EndedPC
  <2>3. TestedInv'
    BY <1>0, <1>1, <2>1 DEF TestedInv, Running, Compiling, Feeding
  <2> QED
    BY <1>2, <2>2, <2>3 DEF IInv
<1>6. CASE MainNextTest
  <2>1. mpc = "next" /\ mpc' = "readdir" /\ UNCHANGED <<test, todo>>
    BY <1>6 DEF MainNextTest, MainGoto
  <2>2. TypeOK' /\ AliveInv'
    BY <1>0, <1>1, <2>1 DEF TypeOK, AliveInv, LivesAre, Running, Feeding
  <2>3. TestedInv'
    BY <1>0, <1>1, <2>1 DEF TestedInv, Running, Compiling, Feeding
  <2> QED
    BY <1>2, <2>2, <2>3 DEF IInv
<1>7. CASE MainDetect
  <2>1. /\ mpc = "readdir" /\ mpc' \in {"error", "done"} /\ todo = {}
        /\ UNCHANGED <<test, todo>>
    BY <1>7 DEF MainDetect, MainGoto
  <2>2. TypeOK' /\ AliveInv'
    BY <1>0, <1>1, <2>1 DEF TypeOK, AliveInv, LivesAre, Running, EndedPC, Feeding
  <2>3. TestedInv'
    BY <1>0, <1>1, <2>1 DEF TestedInv, Running, Compiling, Feeding
  <2> QED
    BY <1>2, <2>2, <2>3 DEF IInv
<1> QED
  BY <1>3, <1>4, <1>5, <1>6, <1>7

(* The two programs are started on a test ...                              *)
LEMMA StartStep ==
  ASSUME IInv, MainForkTarget \/ MainForkSolution
  PROVE  IInv'
<1>0. TypeOK /\ AliveInv /\ TestedInv /\ ReaperInv
  BY DEF IInv
<1>1. PICK p \in Prog :
        /\ Fork(<<p, test>>)
        /\ \/ mpc = "fork_target" /\ mpc' = "fork_solution" /\ p = "target"
           \/ mpc = "fork_solution" /\ mpc' = "open" /\ p = "solution"
        /\ does' = does
  BY DEF MainForkTarget, MainForkSolution, MainGoto, Prog
<1>2. test \in Test /\ <<p, test>> \in Child
  BY <1>0, <1>1, ChildIs DEF TypeOK, Running, Feeding
<1>3. /\ child' \in [Child -> {"none", "running", "zombie", "reaped"}]
      /\ child'[<<p, test>>] = "running"
      /\ \A d \in Child : d # <<p, test>> => child'[d] = child[d]
      /\ Alive' = Alive \cup {<<p, test>>}
      /\ UNCHANGED <<test, todo, reaper>>
  BY <1>0, <1>1, <1>2, ForkIs
<1>4. TypeOK'
  BY <1>0, <1>1, <1>3 DEF TypeOK, Running, Feeding
<1>5. AliveInv'
  BY <1>0, <1>1, <1>3 DEF AliveInv, LivesAre, Prog, Feeding
<1>6. TestedInv'
  <2>1. \A t \in Test, q \in Prog :
          <<q, t>> \in Child /\ (<<q, t>> # <<p, test>> => child'[q, t] = child[q, t])
    BY <1>3, ChildIs
  <2>2. test' \notin todo'
    BY <1>0, <1>1, <1>3 DEF TestedInv, Running, Feeding
  <2>3. \A t \in Test \ todo', q \in Prog : t # test' => child'[q, t] = "reaped"
    BY <1>0, <1>1, <1>3, <2>1 DEF TestedInv, Running, Feeding
  <2>4. child'[p, test'] # "none"
    BY <1>3
  <2>5. p = "solution" => child'["target", test'] # "none"
    <3> SUFFICES ASSUME p = "solution"
                 PROVE  child'["target", test'] # "none"
      OBVIOUS
    <3>1. child["target", test] # "none"
      BY <1>0, <1>1 DEF TestedInv, Feeding
    <3>2. "target" \in Prog /\ <<"target", test>> # <<p, test>>
      BY DEF Prog
    <3> QED
      BY <1>2, <1>3, <2>1, <3>1, <3>2
  <2> QED
    BY <1>1, <1>3, <2>2, <2>3, <2>4, <2>5 DEF TestedInv, Running, Compiling, Feeding
<1>7. ReaperInv'
  BY <1>0, <1>1, <1>3 DEF ReaperInv
<1> QED
  BY <1>4, <1>5, <1>6, <1>7 DEF IInv

(* ... and waited for.                                                     *)
LEMMA WaitForStep ==
  ASSUME IInv,
         NEW p \in Prog, NEW from, NEW to, MainWaitFor(p, from, to),
         \/ p = "solution" /\ from = "wait_solution" /\ to = "wait_target"
         \/ p = "target" /\ from = "wait_target" /\ to = "next"
  PROVE  IInv'
<1>0. TypeOK /\ AliveInv /\ TestedInv /\ ReaperInv
  BY DEF IInv
<1>1. mpc = from /\ mpc' = to /\ UNCHANGED <<does, test, todo>>
  BY DEF MainWaitFor, MainGoto
<1>2. test \in Test /\ <<p, test>> \in Child
  BY <1>0, <1>1, ChildIs DEF TypeOK, Running, Feeding
<1>3. /\ child' \in [Child -> {"none", "running", "zombie", "reaped"}]
      /\ reaper' \in [Child -> {"nobody", "main", "handler"}]
      /\ child'[<<p, test>>] = "reaped" /\ reaper'[<<p, test>>] # "nobody"
      /\ reaper'[<<p, test>>] = "main" \/ reaper'[<<p, test>>] = reaper[<<p, test>>]
      /\ \A d \in Child : d # <<p, test>> =>
           child'[d] = child[d] /\ reaper'[d] = reaper[d]
      /\ Alive' = Alive \ {<<p, test>>}
  <2>1. CASE Reap(<<p, test>>, "main")
    BY <1>0, <1>2, <2>1, ReapIs
  <2>2. CASE child[p, test] = "reaped" /\ UNCHANGED <<child, reaper>>
    BY <1>0, <1>2, <2>2 DEF TypeOK, ReaperInv, Alive
  <2> QED
    BY <2>1, <2>2 DEF MainWaitFor
<1>4. TypeOK'
  BY <1>0, <1>1, <1>3 DEF TypeOK, Running, Feeding
<1>5. AliveInv'
  BY <1>0, <1>1, <1>3 DEF AliveInv, LivesAre, Prog, Feeding
<1>6. TestedInv'
  <2>1. \A t \in Test, q \in Prog :
          <<q, t>> \in Child /\ (<<q, t>> # <<p, test>> => child'[q, t] = child[q, t])
    BY <1>3, ChildIs
  <2>2. test' \notin todo' /\ child'[p, test'] = "reaped"
    BY <1>0, <1>1, <1>3 DEF TestedInv, Running, Feeding
  <2>3. \A t \in Test \ todo', q \in Prog : t # test' => child'[q, t] = "reaped"
    BY <1>0, <1>1, <1>3, <2>1 DEF TestedInv, Running, Feeding
  <2>4. CASE p = "solution"
    <3>1. child'["target", test'] # "none"
      <4>1. child["target", test] # "none"
        BY <1>0, <1>1, <2>4 DEF TestedInv, Feeding
      <4>2. "target" \in Prog /\ <<"target", test>> # <<p, test>>
        BY <2>4 DEF Prog
      <4> QED
        BY <1>1, <1>2, <1>3, <2>1, <4>1, <4>2
    <3> QED
      BY <1>1, <2>2, <2>3, <2>4, <3>1 DEF TestedInv, Running, Compiling, Feeding
  <2>5. CASE p = "target"
    <3>1. child'["solution", test'] = "reaped"
      <4>1. child["solution", test] = "reaped"
        BY <1>0, <1>1, <2>5 DEF TestedInv, Feeding
      <4>2. "solution" \in Prog /\ <<"solution", test>> # <<p, test>>
        BY <2>5 DEF Prog
      <4> QED
        BY <1>1, <1>2, <1>3, <2>1, <4>1, <4>2
    <3>2. \A t \in Test \ todo', q \in Prog : child'[q, t] = "reaped"
      BY <2>2, <2>3, <2>5, <3>1 DEF Prog
    <3> QED
      BY <1>1, <2>2, <2>5, <3>2 DEF TestedInv, Running, Compiling, Feeding
  <2> QED
    BY <2>4, <2>5
<1>7. ReaperInv'
  BY <1>0, <1>1, <1>2, <1>3 DEF ReaperInv
<1> QED
  BY <1>4, <1>5, <1>6, <1>7 DEF IInv

LEMMA ChildStep ==
  ASSUME IInv, NEW c \in Child, ChildEnds(c)
  PROVE  IInv'
<1>0. TypeOK /\ AliveInv /\ TestedInv /\ ReaperInv
  BY DEF IInv
<1>1. /\ child' \in [Child -> {"none", "running", "zombie", "reaped"}]
      /\ child[c] = "running" /\ child'[c] = "zombie"
      /\ \A d \in Child : d # c => child'[d] = child[d]
      /\ Alive' = Alive
      /\ UNCHANGED <<does, mpc, test, todo, reaper>>
  BY <1>0, ChildEndsIs
<1>2. TypeOK' /\ AliveInv' /\ ReaperInv'
  BY <1>0, <1>1 DEF TypeOK, AliveInv, LivesAre, ReaperInv, Feeding
<1>3. \A d \in Child : (child'[d] = "reaped" <=> child[d] = "reaped")
                      /\ (child'[d] = "none" <=> child[d] = "none")
  BY <1>1
<1>4. TestedInv'
  <2>1. \A t \in Test, q \in Prog :
          /\ child'[q, t] = "reaped" <=> child[q, t] = "reaped"
          /\ child'[q, t] = "none" <=> child[q, t] = "none"
    BY <1>3, ChildIs
  <2>2. mpc \in Feeding \cup {"fork_solution", "wait_solution", "wait_target"} =>
          test \in Test
    BY <1>0 DEF TypeOK, Running
  <2>3. TestedInv
    BY <1>0
  <2>4. ASSUME mpc' \in {"readdir", "done"} \cup Running,
               NEW t \in Test \ todo', NEW q \in Prog,
               mpc' \in Running \ {"next"} => t # test'
        PROVE  child'[q, t] = "reaped"
    <3>1. child[q, t] = "reaped"
      BY <1>1, <2>3, <2>4 DEF TestedInv
    <3> QED
      BY <2>1, <3>1
  <2> QED
    BY <1>1, <2>1, <2>2, <2>3, <2>4 DEF TestedInv, Prog
<1> QED
  BY <1>2, <1>4 DEF IInv

(* The handlers: the one of SIGCHLD may take any child from main.          *)
LEMMA HandlerReapStep ==
  ASSUME IInv, NEW c \in Child, HandlerReap(c)
  PROVE  IInv'
<1>0. TypeOK /\ AliveInv /\ TestedInv /\ ReaperInv
  BY DEF IInv
<1>1. /\ Reap(c, "handler") /\ ~Ended /\ UNCHANGED <<does, test, todo>>
      /\ IF does[c] = "crashes" THEN mpc' = "abnormal" ELSE mpc' = mpc
  BY DEF HandlerReap
<1>2. /\ child' \in [Child -> {"none", "running", "zombie", "reaped"}]
      /\ reaper' \in [Child -> {"nobody", "main", "handler"}]
      /\ child[c] = "zombie" /\ child'[c] = "reaped" /\ reaper'[c] = "handler"
      /\ \A d \in Child : d # c => child'[d] = child[d] /\ reaper'[d] = reaper[d]
      /\ Alive' = Alive \ {c}
  BY <1>0, <1>1, ReapIs
<1>3. TypeOK'
  BY <1>0, <1>1, <1>2 DEF TypeOK, Compiling, Running, EndedPC, Feeding
<1>4. AliveInv'
  BY <1>0, <1>1, <1>2 DEF AliveInv, LivesAre, Prog, Feeding
<1>5. TestedInv'
  <2>1. \A t \in Test, q \in Prog :
          /\ child[q, t] = "reaped" => child'[q, t] = "reaped"
          /\ child[q, t] # "none" => child'[q, t] # "none"
    BY <1>2, ChildIs
  <2>2. mpc \in Running => test \in Test
    BY <1>0 DEF TypeOK
  <2>3. CASE mpc' = "abnormal"
    BY <2>3 DEF TestedInv, Running, Compiling, Feeding
  <2>4. CASE mpc' = mpc
    BY <1>0, <1>1, <2>1, <2>2, <2>4 DEF TestedInv, Running, Prog, Feeding
  <2> QED
    BY <1>1, <2>3, <2>4
<1>6. ReaperInv'
  BY <1>0, <1>1, <1>2 DEF ReaperInv, Ended
<1> QED
  BY <1>3, <1>4, <1>5, <1>6 DEF IInv

LEMMA InterruptStep ==
  ASSUME IInv,
         \/ HandlerStart \/ HandlerFindsNobody \/ Alarm \/ UNCHANGED vars
         \/ \E c \in Child : ChildReads(c)
  PROVE  IInv'
<1>0. TypeOK /\ AliveInv /\ TestedInv /\ ReaperInv
  BY DEF IInv
<1>1. /\ UNCHANGED <<does, test, todo, child, reaper>> /\ Alive' = Alive
      /\ mpc' = mpc \/ (~Ended /\ mpc' \in {"abnormal", "timeout"})
  BY DEF HandlerStart, HandlerFindsNobody, Alarm, ChildReads, vars, files, Alive
<1>2. CASE mpc' = mpc
  <2>1. TypeOK'
    BY <1>0, <1>1, <1>2 DEF TypeOK
  <2>2. AliveInv'
    BY <1>0, <1>1, <1>2 DEF AliveInv, LivesAre, Feeding
  <2>3. TestedInv'
    BY <1>0, <1>1, <1>2 DEF TestedInv, Feeding
  <2>4. ReaperInv'
    BY <1>0, <1>1, <1>2 DEF ReaperInv
  <2> QED
    BY <2>1, <2>2, <2>3, <2>4 DEF IInv
<1>3. CASE ~Ended /\ mpc' \in {"abnormal", "timeout"}
  <2>1. TypeOK' /\ AliveInv'
    BY <1>0, <1>1, <1>3 DEF TypeOK, AliveInv, LivesAre, Running, EndedPC, Feeding
  <2>2. TestedInv'
    BY <1>3 DEF TestedInv, Running, Compiling, Feeding
  <2>3. ReaperInv'
    BY <1>0, <1>1, <1>3 DEF ReaperInv, Ended
  <2> QED
    BY <2>1, <2>2, <2>3 DEF IInv
<1> QED
  BY <1>1, <1>2, <1>3

-----------------------------------------------------------------------------
(* The inductive invariant holds, whatever main, the children and the      *)
(* handlers do.                                                            *)
THEOREM Invariance == Spec => []IInv
<1>1. IInv /\ [Next]_vars => IInv'
  <2> SUFFICES ASSUME IInv, [Next]_vars
               PROVE  IInv'
    OBVIOUS
  <2>1. CASE MainStep
    <3>1. CASE MainCompileTarget \/ MainCompileSolution
      BY <3>1, CompileStep
    <3>2. CASE MainWaitAny("wait1", "wait2") \/ MainWaitAny("wait2", "readdir")
      BY <3>2, WaitAnyStep
    <3>3. CASE \E e \in todo : MainReadDots(e) \/ MainReadTest(e)
      BY <3>3, QuietStep
    <3>4. CASE MainFeeds \/ MainNextTest \/ MainDetect
      BY <3>4, QuietStep
    <3>5. CASE MainForkTarget \/ MainForkSolution
      BY <3>5, StartStep
    <3>6. CASE MainWaitFor("solution", "wait_solution", "wait_target")
      BY <3>6, WaitForStep DEF Prog
    <3>7. CASE MainWaitFor("target", "wait_target", "next")
      BY <3>7, WaitForStep DEF Prog
    <3> QED
      BY <2>1, <3>1, <3>2, <3>3, <3>4, <3>5, <3>6, <3>7 DEF MainStep, MainFeeds
  <2>2. CASE HandlerStep
    BY <2>2, InterruptStep, HandlerReapStep DEF HandlerStep
  <2>3. CASE Alarm \/ Terminated \/ UNCHANGED vars
    BY <2>3, InterruptStep DEF Terminated
  <2>4. CASE \E c \in Child : ChildEnds(c)
    BY <2>4, ChildStep
  <2>5. CASE \E c \in Child : ChildReads(c)
    BY <2>5, InterruptStep
  <2> QED
    BY <2>1, <2>2, <2>3, <2>4, <2>5 DEF Next
<1> QED
  BY <1>1, InitInv, PTL DEF Spec

(* main goes on to the next test, and ends, only when no child is left,    *)
(* though the handler waits for the same children.                         *)
THEOREM NobodyLeft == Spec => []NoChildLeft
<1>1. IInv => NoChildLeft
  BY DEF IInv, AliveInv, LivesAre, NoChildLeft, Feeding
<1> QED
  BY <1>1, Invariance, PTL

(* A crash the handler waits for is never missed: when pctest ends in the  *)
(* ordinary way, main itself has waited for every child that crashed.      *)
THEOREM Crashes == Spec => []CrashSeen
<1>1. IInv => CrashSeen
  <2> SUFFICES ASSUME IInv, mpc = "done", NEW c \in Child, does[c] = "crashes"
               PROVE  reaper[c] = "main"
    BY DEF CrashSeen
  <2>1. c[1] \in Prog /\ c[2] \in Test \cup {Compile} /\ c = <<c[1], c[2]>>
    BY ChildIs
  <2>2. c[2] \in Test
    BY <2>1 DEF IInv, TypeOK
  <2>3. child[c] = "reaped"
    <3>1. c[2] \in Test \ todo
      BY <2>2 DEF IInv, TestedInv, Feeding
    <3>2. child[c[1], c[2]] = "reaped"
      BY <2>1, <3>1 DEF IInv, TestedInv, Running, Feeding
    <3> QED
      BY <2>1, <3>2
  <2> QED
    BY <2>3 DEF IInv, TypeOK, ReaperInv
<1> QED
  BY <1>1, Invariance, PTL
-----------------------------------------------------------------------------
(***************************************************************************)
(* The answers and the verdicts.                                           *)
(***************************************************************************)
(* A test that is appended to an enumeration.                              *)
LEMMA EnumerateOneMore ==
  ASSUME NEW n \in Nat, NEW S, NEW s, Enumerates(n, s, S), NEW t, t \notin S
  PROVE  \E u :
           /\ Enumerates(n + 1, u, S \cup {t})
           /\ \A p \in Prog :
                AnswersTo(n + 1, u, p) = Append(AnswersTo(n, s, p), Answer[p][t])
<1> DEFINE u == [k \in 1 .. n + 1 |-> IF k = n + 1 THEN t ELSE s[k]]
<1>0. u = [k \in 1 .. n + 1 |-> u[k]]
  OBVIOUS
<1>1. /\ \A k \in 1 .. n : k \in 1 .. n + 1 /\ k # n + 1 /\ u[k] = s[k] /\ s[k] \in S
      /\ n + 1 \in 1 .. n + 1 /\ u[n + 1] = t
      /\ \A k \in 1 .. n + 1 : k = n + 1 \/ k \in 1 .. n
  BY DEF Enumerates
<1> HIDE DEF u
<1>2. u \in [1 .. n + 1 -> S \cup {t}]
  BY <1>0, <1>1
<1>3. \A x \in S \cup {t} : \E k \in 1 .. n + 1 : u[k] = x
  BY <1>1 DEF Enumerates
<1>4. \A j, k \in 1 .. n + 1 : u[j] = u[k] => j = k
  BY <1>1 DEF Enumerates
<1>5. ASSUME NEW p \in Prog
      PROVE  AnswersTo(n + 1, u, p) = Append(AnswersTo(n, s, p), Answer[p][t])
  <2> DEFINE A == AnswersTo(n, s, p)
             x == Answer[p][t]
             V == {A[k] : k \in 1 .. n} \cup {x}
  <2>1. A \in Seq(V) /\ Len(A) = n
    BY IsASeq, LenProperties DEF AnswersTo
  <2>2. /\ Append(A, x) \in Seq(V) /\ Len(Append(A, x)) = n + 1
        /\ \A k \in 1 .. n : Append(A, x)[k] = A[k]
        /\ Append(A, x)[n + 1] = x
    BY <2>1, AppendProperties
  <2>3. /\ DOMAIN AnswersTo(n + 1, u, p) = 1 .. n + 1
        /\ \A k \in 1 .. n : AnswersTo(n + 1, u, p)[k] = A[k]
        /\ AnswersTo(n + 1, u, p)[n + 1] = x
    BY <1>1 DEF AnswersTo
  <2> HIDE DEF A, x
  <2>4. AnswersTo(n + 1, u, p) = [k \in 1 .. n + 1 |-> AnswersTo(n + 1, u, p)[k]]
    BY DEF AnswersTo
  <2>5. Append(A, x) = [k \in 1 .. n + 1 |-> Append(A, x)[k]]
    BY <2>2, LenProperties
  <2>6. \A k \in 1 .. n + 1 : AnswersTo(n + 1, u, p)[k] = Append(A, x)[k]
    BY <1>1, <2>2, <2>3
  <2>7. AnswersTo(n + 1, u, p) = Append(A, x)
    BY <2>4, <2>5, <2>6
  <2> QED
    BY <2>7 DEF A, x
<1>6. Enumerates(n + 1, u, S \cup {t})
  BY <1>2, <1>3, <1>4 DEF Enumerates
<1> QED
  BY <1>5, <1>6

(* What leaves the answers as they are.                                    *)
LEMMA FilesKept ==
  ASSUME FilesInv, does' = does, result' = result,
         mpc' \in Compiling \cup {"readdir", "done"} \cup Running =>
           /\ mpc \in Compiling \cup {"readdir", "done"} \cup Running
           /\ Past' = Past
           /\ \A p \in Prog : (HasAnswered(p)' <=> HasAnswered(p))
           /\ \A p \in Prog : HasAnswered(p) => test' = test
  PROVE  FilesInv'
<1> SUFFICES ASSUME AllAnswer', mpc' \in Compiling \cup {"readdir", "done"} \cup Running
             PROVE  \E n \in Nat : \E s \in [1 .. n -> Past'] :
                      /\ Enumerates(n, s, Past')
                      /\ \A p \in Prog :
                           result'[p] = IF HasAnswered(p)'
                                          THEN Append(AnswersTo(n, s, p), Answer[p][test'])
                                          ELSE AnswersTo(n, s, p)
  BY DEF FilesInv, AnswersTo, Enumerates
<1>1. AllAnswer
  BY DEF AllAnswer
<1>9. PICK n \in Nat : \E s \in [1 .. n -> Past] :
        /\ Enumerates(n, s, Past)
        /\ \A p \in Prog :
             result[p] = IF HasAnswered(p) THEN Append(AnswersTo(n, s, p), Answer[p][test])
                         ELSE AnswersTo(n, s, p)
  BY <1>1 DEF FilesInv
<1>2. PICK s \in [1 .. n -> Past] :
        /\ Enumerates(n, s, Past)
        /\ \A p \in Prog :
             result[p] = IF HasAnswered(p) THEN Append(AnswersTo(n, s, p), Answer[p][test])
                         ELSE AnswersTo(n, s, p)
  BY <1>9
<1> QED
  BY <1>2

LEMMA AnswersInit == Init => AnswersInv
<1> SUFFICES ASSUME Init
             PROVE  AnswersInv
  OBVIOUS
<1>1. FreshInv /\ DetectInv /\ DOMAIN result = Prog
  BY ChildIs DEF Init, FreshInv, DetectInv
<1>2. Past = {} /\ \A p \in Prog : ~HasAnswered(p) /\ result[p] = <<>>
  BY DEF Init, Past, HasAnswered, Running, Feeding
<1>3. /\ 0 \in Nat /\ <<>> \in [1 .. 0 -> {}] /\ Enumerates(0, <<>>, {})
      /\ \A p \in Prog : AnswersTo(0, <<>>, p) = <<>>
  BY DEF Enumerates, AnswersTo
<1>4. FilesInv
  <2>1. \A p \in Prog :
          result[p] = IF HasAnswered(p) THEN Append(AnswersTo(0, <<>>, p), Answer[p][test])
                      ELSE AnswersTo(0, <<>>, p)
    BY <1>2, <1>3
  <2> QED
    BY <1>2, <1>3, <2>1 DEF FilesInv
<1> QED
  BY <1>1, <1>4 DEF AnswersInv

(* Only a child of the test that runs answers, and it answers once.        *)
LEMMA AnswerStep ==
  ASSUME IInv, AnswersInv, NEW c \in Child, ChildEnds(c)
  PROVE  AnswersInv'
<1>0. TypeOK /\ AliveInv /\ TestedInv
  BY DEF IInv
<1>1. /\ child' \in [Child -> {"none", "running", "zombie", "reaped"}]
      /\ child[c] = "running" /\ child'[c] = "zombie"
      /\ \A d \in Child : d # c => child'[d] = child[d]
      /\ UNCHANGED <<does, mpc, test, todo>>
  BY <1>0, ChildEndsIs
<1>2. /\ ~Ended /\ verdict' = verdict
      /\ result' = IF does[c] = "answers"
                     THEN [result EXCEPT ![c[1]] = Append(@, Answer[c[1]][c[2]])]
                     ELSE result
  BY DEF ChildEnds
<1>3. c[1] \in Prog /\ c[2] \in Test \cup {Compile} /\ c = <<c[1], c[2]>>
  BY ChildIs
<1>4. DetectInv' /\ DOMAIN result' = Prog /\ DOMAIN result = Prog
  BY <1>1, <1>2 DEF Ended, DetectInv, AnswersInv
<1>5. FreshInv'
  <2>1. \A p \in Prog, t \in Test : <<p, t>> \in Child
    BY ChildIs
  <2>2. \A p \in Prog, t \in Test : child[<<p, t>>] = "none" => child'[p, t] = "none"
    BY <1>1, <2>1
  <2>3. mpc \in {"fork_target", "fork_solution"} => test \in Test
    BY <1>0 DEF TypeOK, Running, Feeding
  <2> QED
    BY <1>1, <2>2, <2>3 DEF AnswersInv, FreshInv, Prog
<1>6. FilesInv'
  <2> SUFFICES ASSUME AllAnswer', mpc' \in Compiling \cup {"readdir", "done"} \cup Running
               PROVE  \E n \in Nat : \E s \in [1 .. n -> Past'] :
                        /\ Enumerates(n, s, Past')
                        /\ \A p \in Prog :
                             result'[p] = IF HasAnswered(p)'
                                            THEN Append(AnswersTo(n, s, p), Answer[p][test'])
                                            ELSE AnswersTo(n, s, p)
    BY DEF FilesInv, AnswersTo, Enumerates
  <2>1. AllAnswer /\ Past' = Past
    BY <1>1 DEF AllAnswer, Past, Current
  <2>9. PICK n \in Nat : \E s \in [1 .. n -> Past] :
          /\ Enumerates(n, s, Past)
          /\ \A p \in Prog :
               result[p] = IF HasAnswered(p) THEN Append(AnswersTo(n, s, p), Answer[p][test])
                           ELSE AnswersTo(n, s, p)
    BY <1>1, <2>1 DEF AnswersInv, FilesInv
  <2>2. PICK s \in [1 .. n -> Past] :
          /\ Enumerates(n, s, Past)
          /\ \A p \in Prog :
               result[p] = IF HasAnswered(p) THEN Append(AnswersTo(n, s, p), Answer[p][test])
                           ELSE AnswersTo(n, s, p)
      BY <2>9
  <2>3. CASE c[2] = Compile
    <3>1. result' = result
      BY <1>0, <1>2, <1>3, <2>3 DEF TypeOK
    <3>2. ASSUME NEW p \in Prog, mpc \in Running
          PROVE  <<p, test>> # c /\ <<p, test>> \in Child
      <4>1. test \in Test /\ test # Compile
        BY <1>0, <3>2, PctestAssumption DEF TypeOK
      <4> QED
        BY <2>3, <4>1, ChildIs
    <3>3. \A p \in Prog : HasAnswered(p)' <=> HasAnswered(p)
      BY <1>1, <3>2 DEF HasAnswered
    <3> QED
      BY <1>1, <2>1, <2>2, <3>1, <3>3
  <2>4. CASE c[2] # Compile
    <3>1. c[2] \in Test /\ does[c] = "answers"
      BY <1>3, <2>1, <2>4 DEF AllAnswer
    <3>2. c \in Alive
      BY <1>1 DEF Alive
    <3>3. mpc \in Running /\ c = <<c[1], test>>
      <4>1. \A S : LivesAre(S) => c \in S
        BY <3>2 DEF LivesAre
      <4>2. \A p, q, t : c \in {<<p, t>>} \/ c \in Prog \X {t} => c[2] = t
        BY <1>3
      <4>3. /\ mpc \in {"gcc_target", "readdir", "fork_target", "next", "done"} => FALSE
            /\ mpc \in {"gcc_solution", "wait1", "wait2"} => c[2] = Compile
            /\ mpc \in Feeding \cup {"fork_solution", "wait_target", "wait_solution"} =>
                 c[2] = test
        BY <1>0, <4>1, <4>2 DEF AliveInv, Feeding
      <4>4. mpc \in Feeding \cup {"fork_solution", "wait_target", "wait_solution"}
        BY <1>0, <1>2, <2>4, <4>3 DEF TypeOK, Running, Compiling, Ended, EndedPC, Feeding
      <4> QED
        BY <1>3, <4>3, <4>4 DEF Running, Feeding
    <3>4. ~HasAnswered(c[1]) /\ HasAnswered(c[1])'
      BY <1>1, <3>3 DEF HasAnswered
    <3>5. \A p \in Prog : p # c[1] => (HasAnswered(p)' <=> HasAnswered(p))
      <4>1. \A p \in Prog : <<p, test>> \in Child /\ (p # c[1] => <<p, test>> # c)
        <5>1. test \in Test
          BY <1>0, <3>3 DEF TypeOK
        <5>2. \A p \in Prog : p # c[1] => <<p, test>> # <<c[1], test>>
          OBVIOUS
        <5> QED
          BY <3>3, <5>1, <5>2, ChildIs
      <4> QED
        BY <1>1, <4>1 DEF HasAnswered
    <3>6. \A p \in Prog : p # c[1] => result'[p] = result[p]
      BY <1>2, <1>4, <3>1
    <3>7. result'[c[1]] = Append(result[c[1]], Answer[c[1]][test])
      BY <1>2, <1>3, <1>4, <3>1, <3>3
    <3>8. \A p \in Prog :
            result'[p] = IF HasAnswered(p)'
                           THEN Append(AnswersTo(n, s, p), Answer[p][test'])
                           ELSE AnswersTo(n, s, p)
      BY <1>1, <1>3, <2>2, <3>4, <3>5, <3>6, <3>7
    <3> QED
      BY <2>1, <2>2, <3>8
  <2> QED
    BY <2>3, <2>4
<1> QED
  BY <1>4, <1>5, <1>6 DEF AnswersInv

(* Waiting for a child leaves what it has answered.                        *)
LEMMA ReapKeeps ==
  ASSUME IInv, NEW c \in Child, NEW who \in {"main", "handler"}, Reap(c, who)
  PROVE  \A d \in Child :
           /\ child'[d] \in {"zombie", "reaped"} <=> child[d] \in {"zombie", "reaped"}
           /\ child'[d] = "none" <=> child[d] = "none"
BY ReapIs DEF IInv

(* A step that starts no child and ends none, and not main's turn to the   *)
(* next test.                                                              *)
LEMMA SameAnswers ==
  ASSUME IInv, AnswersInv,
         UNCHANGED <<does, todo, result>>,
         mpc = "done" => mpc' # "done",
         mpc' = "done" => DetectInv',
         \A d \in Child :
           /\ child'[d] \in {"zombie", "reaped"} <=> child[d] \in {"zombie", "reaped"}
           /\ child'[d] = "none" <=> child[d] = "none",
         \/ mpc' \in Compiling \cup {"readdir", "done"} /\ mpc \in Compiling \cup {"readdir"}
         \/ mpc' \in Running \ {"fork_target", "fork_solution"} /\ mpc \in Running /\ test' = test
         \/ mpc' = mpc /\ test' = test
         \/ mpc' \in EndedPC \ {"done"}
  PROVE  AnswersInv'
<1>0. TypeOK /\ TestedInv
  BY DEF IInv
<1>1. FreshInv'
  <2>1. \A p \in Prog, t \in Test : child[<<p, t>>] = "none" => child'[<<p, t>>] = "none"
    BY ChildIs
  <2>2. mpc \in {"fork_target", "fork_solution"} => test \in Test
    BY <1>0 DEF TypeOK, Running, Feeding
  <2> QED
    BY <2>1, <2>2 DEF AnswersInv, FreshInv, Prog, Compiling, EndedPC, Running, Feeding
<1>2. DetectInv'
  BY DEF DetectInv
<1>3. ASSUME mpc' \in Compiling \cup {"readdir", "done"} \cup Running
      PROVE  /\ mpc \in Compiling \cup {"readdir", "done"} \cup Running
             /\ mpc' \in Running <=> mpc \in Running
             /\ mpc \in Running => test' = test /\ test \in Test
  BY <1>0, <1>3 DEF TypeOK, Compiling, Running, EndedPC, Feeding
<1>4. FilesInv'
  <2>1. ASSUME mpc' \in Compiling \cup {"readdir", "done"} \cup Running
        PROVE  /\ Past' = Past
               /\ \A p \in Prog : (HasAnswered(p)' <=> HasAnswered(p))
               /\ \A p \in Prog : HasAnswered(p) => test' = test
    <3>1. Past' = Past
      BY <1>3, <2>1 DEF Past, Current
    <3>2. ASSUME NEW p \in Prog
          PROVE  (HasAnswered(p)' <=> HasAnswered(p)) /\ (HasAnswered(p) => test' = test)
      <4>1. CASE mpc \in Running
        <5>1. mpc' \in Running /\ test' = test /\ <<p, test>> \in Child
          BY <1>3, <2>1, <4>1, ChildIs
        <5>2. child'[<<p, test>>] \in {"zombie", "reaped"} <=>
                child[<<p, test>>] \in {"zombie", "reaped"}
          BY <5>1
        <5> QED
          BY <4>1, <5>1, <5>2 DEF HasAnswered
      <4>2. CASE mpc \notin Running
        BY <1>3, <2>1, <4>2 DEF HasAnswered
      <4> QED
        BY <4>1, <4>2
    <3> QED
      BY <3>1, <3>2
  <2> QED
    BY <1>3, <2>1, FilesKept DEF AnswersInv
<1> QED
  BY <1>1, <1>2, <1>4 DEF AnswersInv

(* Steps before and between the tests.                                     *)
LEMMA CompileAnswers ==
  ASSUME IInv, AnswersInv, MainCompileTarget \/ MainCompileSolution
  PROVE  AnswersInv'
<1>1. PICK p \in Prog :
        /\ Fork(<<p, Compile>>)
        /\ mpc \in Compiling /\ mpc' \in Compiling /\ does' = does
  BY DEF MainCompileTarget, MainCompileSolution, MainGoto, Prog, Compiling
<1>2. /\ \A d \in Child : d # <<p, Compile>> => child'[d] = child[d]
      /\ UNCHANGED <<test, todo, result, verdict>>
  BY <1>1, ForkIs, ChildIs DEF IInv, Fork, files
<1>3. \A q \in Prog, t \in Test : child'[<<q, t>>] = child[<<q, t>>]
  <2> SUFFICES ASSUME NEW q \in Prog, NEW t \in Test
               PROVE  child'[<<q, t>>] = child[<<q, t>>]
    OBVIOUS
  <2>1. <<q, t>> # <<p, Compile>>
    BY PctestAssumption
  <2> QED
    BY <1>2, <2>1, ChildIs
<1>4. FreshInv' /\ DetectInv'
  BY <1>1, <1>2, <1>3 DEF AnswersInv, FreshInv, DetectInv, Compiling
<1>5. /\ Past' = Past
      /\ \A q \in Prog : ~HasAnswered(q) /\ ~HasAnswered(q)'
  BY <1>1, <1>2 DEF Past, Current, HasAnswered, Running, Compiling, Feeding
<1>6. FilesInv'
  BY <1>1, <1>2, <1>5, FilesKept DEF AnswersInv
<1> QED
  BY <1>2, <1>4, <1>6 DEF AnswersInv

LEMMA ReadDotsAnswers ==
  ASSUME IInv, AnswersInv, NEW e, MainReadDots(e)
  PROVE  AnswersInv'
<1>1. /\ mpc = "readdir" /\ mpc' = "readdir" /\ e \in Dots /\ todo' = todo \ {e}
      /\ UNCHANGED <<does, test, child, result>>
  BY DEF MainReadDots, MainGoto, files
<1>2. Test \cap todo' = Test \cap todo /\ Test \ todo' = Test \ todo
  BY <1>1, PctestAssumption
<1>3. FreshInv' /\ DetectInv'
  BY <1>1, <1>2 DEF AnswersInv, FreshInv, DetectInv
<1>4. /\ Past' = Past
      /\ \A q \in Prog : ~HasAnswered(q) /\ ~HasAnswered(q)'
  BY <1>1, <1>2 DEF Past, Current, HasAnswered, Running, Feeding
<1>5. FilesInv'
  BY <1>1, <1>4, FilesKept DEF AnswersInv
<1> QED
  BY <1>1, <1>3, <1>5 DEF AnswersInv

(* A program is started on a test it has not seen.                         *)
LEMMA StartAnswers ==
  ASSUME IInv, AnswersInv, MainForkTarget \/ MainForkSolution
  PROVE  AnswersInv'
<1>0. TypeOK /\ TestedInv
  BY DEF IInv
<1>1. PICK p \in Prog :
        /\ Fork(<<p, test>>)
        /\ \/ mpc = "fork_target" /\ mpc' = "fork_solution" /\ p = "target"
           \/ mpc = "fork_solution" /\ mpc' = "open" /\ p = "solution"
        /\ does' = does
  BY DEF MainForkTarget, MainForkSolution, MainGoto, Prog
<1>2. test \in Test /\ test \notin todo
  BY <1>0, <1>1 DEF TypeOK, TestedInv, Running, Feeding
<1>3. /\ <<p, test>> \in Child /\ child'[<<p, test>>] = "running"
      /\ \A d \in Child : d # <<p, test>> => child'[d] = child[d]
      /\ UNCHANGED <<test, todo, result, verdict>>
  BY <1>0, <1>1, <1>2, ForkIs, ChildIs DEF Fork, files
<1>4. \A q \in Prog, t \in Test :
        /\ <<q, t>> \in Child
        /\ q # p \/ t # test => child'[<<q, t>>] = child[<<q, t>>]
  <2> SUFFICES ASSUME NEW q \in Prog, NEW t \in Test
               PROVE  /\ <<q, t>> \in Child
                      /\ q # p \/ t # test => child'[<<q, t>>] = child[<<q, t>>]
    OBVIOUS
  <2>1. q # p \/ t # test => <<q, t>> # <<p, test>>
    OBVIOUS
  <2> QED
    BY <1>3, <2>1, ChildIs
<1>5. child[<<p, test>>] = "none"
  BY <1>1 DEF AnswersInv, FreshInv
<1>6. FreshInv'
  <2>1. ASSUME NEW t \in Test \cap todo', NEW q \in Prog
        PROVE  child'[<<q, t>>] = "none"
    <3>1. t \in todo /\ t # test /\ t \in Test
      BY <1>2, <1>3
    <3>2. child'[<<q, t>>] = child[<<q, t>>]
      BY <1>4, <3>1
    <3> QED
      BY <3>1, <3>2 DEF AnswersInv, FreshInv
  <2>2. mpc' = "fork_solution" => child'[<<"solution", test'>>] = "none"
    BY <1>1, <1>2, <1>3, <1>4 DEF AnswersInv, FreshInv, Prog
  <2>3. mpc' # "fork_target"
    BY <1>1
  <2> QED
    BY <2>1, <2>2, <2>3 DEF FreshInv
<1>7. DetectInv'
  BY <1>1 DEF DetectInv
<1>8. Past' = Past
  BY <1>1, <1>3 DEF Past, Current, Running, Feeding
<1>9. \A q \in Prog : HasAnswered(q)' <=> HasAnswered(q)
  BY <1>1, <1>2, <1>3, <1>4, <1>5 DEF HasAnswered, Running, Feeding
<1>10. FilesInv'
  BY <1>1, <1>3, <1>8, <1>9, FilesKept DEF AnswersInv, Running, Feeding
<1> QED
  BY <1>3, <1>6, <1>7, <1>10 DEF AnswersInv

(* The next test is new, and the one before is done with.                  *)
LEMMA ReadTestAnswers ==
  ASSUME IInv, AnswersInv, NEW e, MainReadTest(e)
  PROVE  AnswersInv'
<1>1. /\ mpc = "readdir" /\ mpc' \in {"fork_target", "overrun"}
      /\ e \in todo \ Dots /\ todo' = todo \ {e} /\ test' = e
      /\ UNCHANGED <<does, child, result>> /\ e \in Test
  BY DEF MainReadTest, MainGoto, files, IInv, TypeOK
<1>2. FreshInv' /\ DetectInv'
  BY <1>1 DEF AnswersInv, FreshInv, DetectInv
<1>3. Past' = Past \/ mpc' = "overrun"
  BY <1>1 DEF Past, Current, Running, Feeding
<1>4. \A p \in Prog : ~HasAnswered(p) /\ ~HasAnswered(p)'
  BY <1>1 DEF HasAnswered, Running, AnswersInv, FreshInv, Feeding
<1>5. FilesInv'
  BY <1>1, <1>3, <1>4, FilesKept DEF AnswersInv, Running, Compiling, Feeding
<1> QED
  BY <1>1, <1>2, <1>5 DEF AnswersInv

LEMMA NextTestAnswers ==
  ASSUME IInv, AnswersInv, MainNextTest
  PROVE  AnswersInv'
<1>0. TypeOK /\ TestedInv
  BY DEF IInv
<1>1. /\ mpc = "next" /\ mpc' = "readdir"
      /\ UNCHANGED <<does, test, todo, child, result>>
  BY DEF MainNextTest, MainGoto, files
<1>2. FreshInv' /\ DetectInv'
  BY <1>1 DEF AnswersInv, FreshInv, DetectInv
<1>3. test \in Test /\ test \notin todo
  BY <1>0, <1>1 DEF TypeOK, TestedInv, Running, Feeding
<1>4. \A p \in Prog : HasAnswered(p) /\ ~HasAnswered(p)'
  BY <1>0, <1>1, <1>3 DEF HasAnswered, TestedInv, Running, Feeding
<1>5. FilesInv'
  <2> SUFFICES ASSUME AllAnswer'
               PROVE  \E n \in Nat : \E s \in [1 .. n -> Past'] :
                        /\ Enumerates(n, s, Past')
                        /\ \A p \in Prog :
                             result'[p] = IF HasAnswered(p)'
                                            THEN Append(AnswersTo(n, s, p), Answer[p][test'])
                                            ELSE AnswersTo(n, s, p)
    BY DEF FilesInv, AnswersTo, Enumerates
  <2>1. AllAnswer
    BY <1>1 DEF AllAnswer
  <2>2. PICK n \in Nat : \E s \in [1 .. n -> Past] :
          /\ Enumerates(n, s, Past)
          /\ \A p \in Prog : result[p] = Append(AnswersTo(n, s, p), Answer[p][test])
    BY <1>1, <1>4, <2>1 DEF AnswersInv, FilesInv, Running, Feeding
  <2>3. PICK s \in [1 .. n -> Past] :
          /\ Enumerates(n, s, Past)
          /\ \A p \in Prog : result[p] = Append(AnswersTo(n, s, p), Answer[p][test])
    BY <2>2
  <2>4. Past' = Past \cup {test} /\ test \notin Past
    BY <1>1, <1>3 DEF Past, Current, Running, Feeding
  <2>5. \E u :
          /\ Enumerates(n + 1, u, Past \cup {test})
          /\ \A p \in Prog :
               AnswersTo(n + 1, u, p) = Append(AnswersTo(n, s, p), Answer[p][test])
    BY <2>3, <2>4, EnumerateOneMore
  <2>6. PICK u :
          /\ Enumerates(n + 1, u, Past \cup {test})
          /\ \A p \in Prog :
               AnswersTo(n + 1, u, p) = Append(AnswersTo(n, s, p), Answer[p][test])
    BY <2>5
  <2>7. u \in [1 .. n + 1 -> Past'] /\ Enumerates(n + 1, u, Past') /\ n + 1 \in Nat
    BY <2>4, <2>6 DEF Enumerates
  <2>8. \A p \in Prog :
          result'[p] = IF HasAnswered(p)' THEN Append(AnswersTo(n + 1, u, p), Answer[p][test'])
                       ELSE AnswersTo(n + 1, u, p)
    BY <1>1, <1>4, <2>3, <2>6
  <2> QED
    BY <2>7, <2>8
<1> QED
  BY <1>1, <1>2, <1>5 DEF AnswersInv

LEMMA AnswersStep ==
  ASSUME IInv, AnswersInv, [Next]_vars
  PROVE  AnswersInv'
<1>0. TypeOK
  BY DEF IInv
<1> DEFINE Keeps == \A d \in Child :
             /\ child'[d] \in {"zombie", "reaped"} <=> child[d] \in {"zombie", "reaped"}
             /\ child'[d] = "none" <=> child[d] = "none"
<1>1. ASSUME NEW c \in Child, NEW who \in {"main", "handler"}, Reap(c, who)
      PROVE  Keeps
  BY <1>1, ReapKeeps
<1>2. child' = child => Keeps
  OBVIOUS
<1>3. CASE MainCompileTarget \/ MainCompileSolution
  BY <1>3, CompileAnswers
<1>4. CASE MainWaitAny("wait1", "wait2") \/ MainWaitAny("wait2", "readdir")
  <2>1. /\ mpc \in Compiling /\ mpc' \in Compiling \cup {"readdir"}
        /\ mpc' # "done" /\ mpc # "done"
        /\ UNCHANGED <<does, todo, result>>
    BY <1>4 DEF MainWaitAny, MainGoto, files, Compiling
  <2>2. Keeps
    BY <1>1, <1>2, <1>4 DEF MainWaitAny
  <2> QED
    BY <2>1, <2>2, SameAnswers
<1>5. CASE \E e \in todo : MainReadDots(e)
  BY <1>5, ReadDotsAnswers
<1>6. CASE \E e \in todo : MainReadTest(e)
  BY <1>6, ReadTestAnswers
<1>7. CASE MainForkTarget \/ MainForkSolution
  BY <1>7, StartAnswers
<1>8. CASE MainWaitFor("solution", "wait_solution", "wait_target")
           \/ MainWaitFor("target", "wait_target", "next")
  <2>1. /\ mpc \in Running /\ mpc' \in Running \ {"fork_target", "fork_solution"}
        /\ mpc' # "done" /\ mpc # "done"
        /\ UNCHANGED <<does, todo, result, test>>
    BY <1>8 DEF MainWaitFor, MainGoto, files, Running, Feeding
  <2>2. Keeps
    <3>1. ASSUME NEW p \in Prog, NEW from, NEW to, MainWaitFor(p, from, to), mpc \in Running
          PROVE  Keeps
      <4>1. <<p, test>> \in Child
        BY <1>0, <3>1, ChildIs DEF TypeOK
      <4> QED
        BY <1>1, <1>2, <3>1, <4>1 DEF MainWaitFor
    <3> QED
      BY <1>8, <2>1, <3>1 DEF Prog
  <2> QED
    BY <2>1, <2>2, SameAnswers
<1>9. CASE MainNextTest
  BY <1>9, NextTestAnswers
<1>10. CASE MainDetect
  <2>1. /\ mpc = "readdir" /\ mpc' \in {"error", "done"}
        /\ UNCHANGED <<does, todo, result, child>>
        /\ verdict' = [k \in DOMAIN result["solution"] |->
             IF TargetLine(k) = <<result["solution"][k]>> THEN "same" ELSE "different"]
    BY <1>10 DEF MainDetect, MainGoto
  <2>2. DetectInv'
    BY <2>1 DEF DetectInv, TargetLine
  <2> QED
    BY <1>2, <2>1, <2>2, SameAnswers DEF EndedPC, Compiling
<1>11. CASE \E c \in Child : HandlerReap(c)
  <2>1. PICK c \in Child : HandlerReap(c)
    BY <1>11
  <2>2. /\ mpc # "done"
        /\ mpc' = mpc \/ mpc' = "abnormal"
        /\ UNCHANGED <<does, todo, result, test>>
        /\ Reap(c, "handler")
    BY <2>1 DEF HandlerReap, Ended, files
  <2> QED
    BY <1>1, <2>2, SameAnswers DEF EndedPC
<1>12. CASE \/ HandlerStart \/ HandlerFindsNobody \/ Alarm
            \/ \E c \in Child : ChildReads(c)
  <2>1. /\ mpc # "done"
        /\ mpc' = mpc \/ mpc' \in {"abnormal", "timeout"}
        /\ UNCHANGED <<does, todo, result, test, child>>
    BY <1>12 DEF HandlerStart, HandlerFindsNobody, Alarm, ChildReads, Ended, files
  <2> QED
    BY <1>2, <2>1, SameAnswers DEF EndedPC
<1>13. CASE \E c \in Child : ChildEnds(c)
  BY <1>13, AnswerStep
<1>14. CASE MainFeeds
  <2>1. /\ mpc \in Feeding /\ mpc' \in Feeding \cup {"wait_solution", "error"}
        /\ UNCHANGED <<does, todo, result, test, child>>
    BY <1>14, MainFeedsIs DEF files
  <2>2. /\ mpc # "done" /\ mpc' # "done"
        /\ \/ /\ mpc' \in Running \ {"fork_target", "fork_solution"}
              /\ mpc \in Running /\ test' = test
           \/ mpc' \in EndedPC \ {"done"}
    BY <2>1 DEF Feeding, Running, EndedPC
  <2> QED
    BY <1>2, <2>1, <2>2, SameAnswers
<1>15. CASE UNCHANGED vars
  <2>1. UNCHANGED <<does, mpc, test, todo, child, result, verdict>>
    BY <1>15 DEF vars, files
  <2>2. FreshInv' /\ DetectInv'
    BY <2>1 DEF AnswersInv, FreshInv, DetectInv, TargetLine
  <2>3. /\ Past' = Past
        /\ \A p \in Prog : HasAnswered(p)' <=> HasAnswered(p)
    BY <2>1 DEF Past, Current, HasAnswered
  <2>4. FilesInv'
    BY <2>1, <2>3, FilesKept DEF AnswersInv
  <2> QED
    BY <2>1, <2>2, <2>4 DEF AnswersInv
<1> QED
  BY <1>3, <1>4, <1>5, <1>6, <1>7, <1>8, <1>9, <1>10, <1>11, <1>12, <1>13, <1>14,
     <1>15 DEF Next, MainStep, MainFeeds, HandlerStep, Terminated

-----------------------------------------------------------------------------
THEOREM AnswersInvariance == Spec => []AnswersInv
BY Invariance, AnswersInit, AnswersStep, PTL DEF Spec

(* The verdicts with value v are as many as the tests that get it.         *)
LEMMA CountVerdicts ==
  ASSUME NEW n \in Nat, NEW s, Enumerates(n, s, Test), NEW T \in SUBSET Test, NEW v,
         DOMAIN verdict = 1 .. n,
         \A k \in 1 .. n : verdict[k] = v <=> s[k] \in T
  PROVE  Verdicts(v) = Cardinality(T)
<1> DEFINE K == {k \in 1 .. n : s[k] \in T}
           g == [k \in K |-> s[k]]
<1>1. {k \in DOMAIN verdict : verdict[k] = v} = K
  OBVIOUS
<1>2. IsFiniteSet(K)
  BY FS_Interval, FS_Subset
<1>3. g \in Bijection(K, T)
  <2>1. g \in [K -> T]
    OBVIOUS
  <2>2. \A j, k \in K : g[j] = g[k] => j = k
    BY DEF Enumerates
  <2>3. \A t \in T : \E k \in K : g[k] = t
    BY DEF Enumerates
  <2> QED
    BY <2>1, <2>2, <2>3 DEF Bijection, Injection, Surjection, IsInjective
<1>4. Cardinality(T) = Cardinality(K)
  BY <1>2, <1>3, FS_Bijection DEF ExistsBijection
<1> QED
  BY <1>1, <1>4 DEF Verdicts

(* When both programs answer every test, the detector compares the answers *)
(* to the same test: it prints a verdict for each test and the right one,  *)
(* in whatever order readdir returns the tests and the children end        *)
(* (pctest.c:324-337).                                                     *)
THEOREM VerdictsRight == Spec => []VerdictsExact
<1>1. IInv /\ AnswersInv => VerdictsExact
  <2> SUFFICES ASSUME IInv, AnswersInv, mpc = "done", AllAnswer
               PROVE  /\ Verdicts("same") =
                           Cardinality({t \in Test : Answer["target"][t] = Answer["solution"][t]})
                      /\ Verdicts("different") =
                           Cardinality({t \in Test : Answer["target"][t] # Answer["solution"][t]})
    BY DEF VerdictsExact, AllAnswer
  <2>1. Past = Test /\ \A p \in Prog : ~HasAnswered(p)
    BY DEF IInv, TestedInv, Past, Current, HasAnswered, Running, Feeding
  <2>2. PICK n \in Nat : \E s \in [1 .. n -> Test] :
          Enumerates(n, s, Test) /\ \A p \in Prog : result[p] = AnswersTo(n, s, p)
    BY <2>1 DEF AnswersInv, FilesInv
  <2>3. PICK s \in [1 .. n -> Test] :
          Enumerates(n, s, Test) /\ \A p \in Prog : result[p] = AnswersTo(n, s, p)
    BY <2>2
  <2>4. /\ \A p \in Prog : DOMAIN result[p] = 1 .. n
        /\ \A p \in Prog : \A k \in 1 .. n : result[p][k] = Answer[p][s[k]]
    <3> SUFFICES ASSUME NEW p \in Prog
                 PROVE  DOMAIN result[p] = 1 .. n /\ \A k \in 1 .. n : result[p][k] = Answer[p][s[k]]
      OBVIOUS
    <3>1. result[p] = AnswersTo(n, s, p)
      BY <2>3
    <3> QED
      BY <3>1 DEF AnswersTo
  <2>5. "target" \in Prog /\ "solution" \in Prog
    BY DEF Prog
  <2>6. Len(result["target"]) = n
    <3>1. result["target"] = [k \in 1 .. n |-> Answer["target"][s[k]]]
      BY <2>3, <2>5 DEF AnswersTo
    <3>2. result["target"] \in Seq({Answer["target"][s[k]] : k \in 1 .. n})
      BY <3>1
    <3> QED
      BY <2>4, <2>5, <3>2, LenProperties
  <2>7. \A k \in 1 .. n : TargetLine(k) = <<Answer["target"][s[k]]>>
    BY <2>4, <2>5, <2>6 DEF TargetLine
  <2>8. /\ DOMAIN verdict = 1 .. n
        /\ \A k \in 1 .. n :
             verdict[k] = IF Answer["target"][s[k]] = Answer["solution"][s[k]]
                            THEN "same" ELSE "different"
    BY <2>4, <2>5, <2>7 DEF AnswersInv, DetectInv
  <2>9. \A k \in 1 .. n : s[k] \in Test
    OBVIOUS
  <2> DEFINE Same == {t \in Test : Answer["target"][t] = Answer["solution"][t]}
             Other == {t \in Test : Answer["target"][t] # Answer["solution"][t]}
  <2>10. \A k \in 1 .. n : verdict[k] = "same" <=> s[k] \in Same
    BY <2>8, <2>9
  <2>11. \A k \in 1 .. n : verdict[k] = "different" <=> s[k] \in Other
    BY <2>8, <2>9
  <2> HIDE DEF Same, Other
  <2>12. Verdicts("same") = Cardinality(Same)
    <3>1. Same \in SUBSET Test /\ Enumerates(n, s, Test) /\ DOMAIN verdict = 1 .. n
      BY <2>3, <2>8 DEF Same
    <3> QED
      BY <2>10, <3>1, CountVerdicts
  <2>13. Verdicts("different") = Cardinality(Other)
    <3>1. Other \in SUBSET Test /\ Enumerates(n, s, Test) /\ DOMAIN verdict = 1 .. n
      BY <2>3, <2>8 DEF Other
    <3> QED
      BY <2>11, <3>1, CountVerdicts
  <2> QED
    BY <2>12, <2>13 DEF Same, Other
<1> QED
  BY <1>1, Invariance, AnswersInvariance, PTL
=============================================================================

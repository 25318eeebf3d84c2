---------------------------- MODULE ShellControl ----------------------------
(***************************************************************************)
(* How the interpreter walks a script: statement lists, and/or lists, if   *)
(* chains, for, while and until loops, subshells, command substitutions    *)
(* and pipelines, and how exit, break, continue, resource limits, fatal    *)
(* errors and cancellation unwind them (interp/runner_exec.go,             *)
(* runner_expand.go, api.go and the exit, break and continue builtins).    *)
(*                                                                         *)
(* The script is chosen while it runs: whenever the code looks at the next *)
(* syntax node, every node is possible.  The Go call stack is "stack", one *)
(* frame per compound command being executed; the runner whose method is   *)
(* executing is "r", and the frame that created it keeps the runner it     *)
(* returns to.  A frame counts twice in "alive": once for the command and  *)
(* once for the list of statements it is executing, so that continue can   *)
(* end a list and not its loop.                                            *)
(***************************************************************************)
EXTENDS Integers, Sequences, FiniteSets, FiniteSetsExt

CONSTANTS
  MaxDepth,  \* bound: frames
  MaxLevels, \* bound: largest operand of break and continue
  Codes,     \* exit codes of commands
  FatalDepth \* bound: depth at which fatal errors other than cancellation happen

ASSUME ControlAssumption ==
  /\ MaxDepth \in Nat \ {0} /\ MaxLevels \in Nat \ {0}
  /\ {0, 1} \subseteq Codes /\ Codes \subseteq 0..255
  /\ FatalDepth \in Nat

VARIABLES
  stack,     \* the compound commands being executed
  r,         \* the runner executing the innermost one
  at,        \* before a statement, at its command, after it; before a loop's next pass
  neg,       \* the statement at "cmd" is negated
  cancelled, \* the context of the run is done
  alive      \* history: layers of the stack nothing has asked to leave, or Failed

vars == <<stack, r, at, neg, cancelled, alive>>

-----------------------------------------------------------------------------
\* exitStatus
Zero == [code |-> 0, exiting |-> FALSE, fatal |-> FALSE, limit |-> FALSE]
Code(c) == [Zero EXCEPT !.code = c]
Exiting(c) == [Code(c) EXCEPT !.exiting = TRUE]
LimitHit == [Exiting(1) EXCEPT !.limit = TRUE]

\* exitStatus.fatal keeps the first error.
Fatal(e) ==
  IF e.fatal THEN e
  ELSE [e EXCEPT !.exiting = TRUE, !.fatal = TRUE, !.code = IF @ = 0 THEN 1 ELSE @]

ExitStatus == [code : Codes, exiting : BOOLEAN, fatal : BOOLEAN, limit : BOOLEAN]

\* A runner: its exit status, breakEnclosing, contnEnclosing and inLoop, and
\* the code of the exit command it executed, if any.
NoExit == -1
Runner == [e : ExitStatus, brk : 0..MaxLevels + 1, cont : 0..MaxLevels, inLoop : BOOLEAN,
           want : Codes \cup {NoExit}]

Nobody == [e |-> Zero, brk |-> 0, cont |-> 0, inLoop |-> FALSE, want |-> NoExit]

\* Runner.subshell: the loop state is not inherited, the caller may set inLoop.
NewRunner(p, inLoop) ==
  [e |-> p.e, brk |-> 0, cont |-> 0, inLoop |-> inLoop, want |-> NoExit]

Lists == {"main", "block", "then", "sub", "subst"}      \* run by stmts
Bodies == {"for", "whileBody", "untilBody"}             \* run by loopStmtsBroken
Conds == {"whileCond", "untilCond"}
Loops == Bodies \cup Conds
Singles == {"tail", "left", "right"}                    \* one statement
Bases == {"main", "sub", "subst", "left", "right"}      \* run by a new runner
Kinds == Lists \cup Loops \cup Singles \cup {"if", "and", "or"}

\* last: lastBody, or for a pipeline the status of its left stage; ran: the
\* body ran (iterationCount > 0), or (history) the pipeline was alive at its
\* start; old: oldInLoop.
Frame == [k : Kinds, neg : BOOLEAN, old : BOOLEAN, ran : BOOLEAN, last : ExitStatus,
          saved : Runner]

Depth == Len(stack)
Top == stack[Depth]
Retop(f) == stack' = [stack EXCEPT ![Depth] = f]

\* A frame of runner r, and one that starts the runner "child" for it.
NewFrame(k) ==
  [k |-> k, neg |-> neg, old |-> r.inLoop, ran |-> FALSE, last |-> Zero, saved |-> Nobody]
BaseFrame(k, inLoop) == [NewFrame(k) EXCEPT !.old = inLoop, !.saved = r]

-----------------------------------------------------------------------------
\* The reference: the layers of the stack that a command asks to leave.

\* The frame that started the current runner, and the loops of that runner.
Base == Max({i \in 1..Depth : stack[i].k \in Bases})
OwnLoops == {i \in Base..Depth : stack[i].k \in Loops}
LoopAt(n) == CHOOSE i \in OwnLoops : Cardinality({j \in OwnLoops : j > i}) = n - 1
TooMany(n) == n > Cardinality(OwnLoops)

LeaveRunner == 2 * (Base - 1)

\* break leaves the n innermost loops, or all there are.  What exceeds the
\* loops of a command substitution that is inside a loop ends the substitution.
BreakTo(n) ==
  IF TooMany(n) /\ stack[Base].old THEN LeaveRunner
  ELSE IF TooMany(n) THEN 2 * (Min(OwnLoops) - 1)
  ELSE 2 * (LoopAt(n) - 1)

\* continue leaves the loops inside the n-th, or inside the outermost, and the
\* list that one is executing.
ContinueTo(n) ==
  IF TooMany(n) /\ stack[Base].old THEN LeaveRunner
  ELSE IF TooMany(n) THEN 2 * Min(OwnLoops) - 1
  ELSE 2 * LoopAt(n) - 1

Failed == -1

Leave(to) == alive' = Min({alive, to})

\* A new list is executed, if its frame is not being left.
Entering == alive' = IF alive >= 2 * Depth - 1 THEN 2 * Depth ELSE alive

-----------------------------------------------------------------------------
Init ==
  /\ stack = <<[k |-> "main", neg |-> FALSE, old |-> FALSE, ran |-> FALSE, last |-> Zero,
                saved |-> Nobody]>>
  /\ r = Nobody
  /\ at = "stmt"
  /\ neg = FALSE
  /\ cancelled = FALSE
  /\ alive = 2

\* Stmt: stop() skips it, or its status is reset and it is executed.
Stop ==
  /\ at = "stmt"
  /\ r.e.exiting \/ cancelled
  /\ r' = [r EXCEPT !.e = IF @.exiting THEN @ ELSE Fatal(@)]
  /\ at' = "done"
  /\ UNCHANGED <<stack, neg, cancelled, alive>>

Stmt ==
  /\ at = "stmt"
  /\ ~r.e.exiting /\ ~cancelled
  /\ r' = [r EXCEPT !.e = Zero]
  /\ at' = "cmd"
  /\ neg' \in BOOLEAN
  /\ UNCHANGED <<stack, cancelled, alive>>

\* The end of stmtSync: negation, unless the shell is exiting.
Negated(e, n) == IF n /\ ~e.exiting THEN Code(IF e.code = 0 THEN 1 ELSE 0) ELSE e
EndStmt(runner, n) ==
  /\ r' = [runner EXCEPT !.e = Negated(@, n)]
  /\ at' = "done"
  /\ neg' = FALSE

\* pipelineStageInheritsInLoop: a stage inside a loop inherits inLoop exactly
\* if it is a simple command or a pipeline.
StageIs(simple) ==
  Top.k \in {"left", "right"} /\ Top.saved.inLoop => (Top.old <=> simple)

\* A builtin returns.  Its result sets the status and both loop counters.
Result(e, brk, cont, want) ==
  /\ at = "cmd" /\ ~cancelled
  /\ StageIs(TRUE)
  /\ EndStmt([r EXCEPT !.e = e, !.brk = brk, !.cont = cont, !.want = want], neg)
  /\ UNCHANGED <<stack, cancelled>>

Run(c) == Result(Code(c), 0, 0, NoExit) /\ UNCHANGED alive

\* exit n; also break and continue with a bad operand.
Exit(c) == Result(Exiting(c), 0, 0, c) /\ Leave(LeaveRunner)

\* LoopControl: outside a loop it only complains.
LoopOutside == ~r.inLoop /\ Result(Zero, 0, 0, NoExit) /\ UNCHANGED alive
Break(n) == r.inLoop /\ Result(Zero, n, 0, NoExit) /\ Leave(BreakTo(n))
Continue(n) == r.inLoop /\ Result(Zero, 0, n, NoExit) /\ Leave(ContinueTo(n))

\* A count below one unwinds every loop, with status 1.
BreakAll == r.inLoop /\ Result(Code(1), MaxLevels + 1, 0, NoExit) /\ Leave(BreakTo(MaxLevels + 1))

\* expandErr of an expansionLimitError: the whole script is to end.
Limit == Result(LimitHit, 0, 0, r.want) /\ Leave(0)

\* A fatal error that is not a cancellation: elevation or a pipe failed.
HardFatal == Depth <= FatalDepth /\ Result(Fatal(r.e), 0, 0, r.want) /\ Leave(Failed)

\* The context ends.  A builtin that runs then is fatal when it returns, and
\* so is the stop() before a compound command.
Cancel ==
  /\ at # "over" /\ ~cancelled
  /\ cancelled' = TRUE
  /\ Leave(0)
  /\ UNCHANGED <<stack, r, at, neg>>

CmdCancelled ==
  /\ at = "cmd" /\ cancelled
  /\ EndStmt([r EXCEPT !.e = Fatal(@)], neg)
  /\ UNCHANGED <<stack, cancelled, alive>>

-----------------------------------------------------------------------------
Push(f, simple, runner, label) ==
  /\ at = "cmd" /\ ~cancelled
  /\ StageIs(simple)
  /\ Depth < MaxDepth
  /\ stack' = Append(stack, f)
  /\ r' = runner
  /\ at' = label
  /\ neg' = FALSE
  /\ alive' = IF alive = 2 * Depth THEN alive + 2 ELSE alive
  /\ UNCHANGED cancelled

Block == Push(NewFrame("block"), FALSE, r, "stmt")
If == Push(NewFrame("if"), FALSE, r, "stmt")
AndOr == \E k \in {"and", "or"} : Push(NewFrame(k), FALSE, r, "stmt")
Subshell == Push(BaseFrame("sub", FALSE), FALSE, NewRunner(r, FALSE), "stmt")
While == \E k \in Conds : Push(NewFrame(k), FALSE, [r EXCEPT !.inLoop = TRUE], "next")
For == Push(NewFrame("for"), FALSE, r, "next")

\* A word of a simple command or of a for loop has $(...), which inherits inLoop.
CmdSubst == \E simple \in BOOLEAN :
  Push(BaseFrame("subst", r.inLoop), simple, NewRunner(r, r.inLoop), "stmt")

\* The left stage; the right one runs when it is done, or at the same time:
\* neither sees the control state of the other.
Pipe == \E inherits \in BOOLEAN :
  LET inLoop == inherits /\ r.inLoop IN
  Push([BaseFrame("left", inLoop) EXCEPT !.ran = alive = 2 * Depth], TRUE, NewRunner(r, inLoop), "stmt")

-----------------------------------------------------------------------------
\* What the enclosing command does when a statement is done.

Abandon == r.e.exiting \/ r.brk > 0 \/ r.cont > 0

\* Pop the frame: the statement it executed ends with this runner.
Return(runner) ==
  /\ stack' = SubSeq(stack, 1, Depth - 1)
  /\ EndStmt(runner, Top.neg)
  /\ Leave(2 * (Depth - 1))
  /\ UNCHANGED cancelled

Again(f) ==
  /\ Retop(f)
  /\ at' = "stmt"
  /\ UNCHANGED <<neg, cancelled>>

\* stmts: the next statement of a list.
NextStmt ==
  /\ at = "done"
  /\ \/ Top.k \in Lists \cup Conds \cup {"if"} /\ ~Abandon
     \/ Top.k \in Bodies /\ r.brk = 0 /\ r.cont = 0
  /\ Again(Top) /\ UNCHANGED <<r, alive>>

\* stmts returns, or the single statement is done.
EndBlock == at = "done" /\ Top.k \in {"block", "then", "tail"} /\ Return(r)

EndMain ==
  /\ at = "done" /\ Top.k = "main"
  /\ at' = "over"
  /\ UNCHANGED <<stack, r, neg, cancelled, alive>>

\* execIfChain, after a condition: the branch, elif, else, or no branch.
EndCond ==
  /\ at = "done" /\ Top.k = "if"
  /\ \/ Abandon /\ Return(r)
     \/ /\ ~Abandon /\ r.e.code = 0
        /\ Again([Top EXCEPT !.k = "then"]) /\ UNCHANGED <<r, alive>>
     \/ /\ ~Abandon /\ r.e.code # 0
        /\ \/ \E k \in {"if", "then"} :
                Again([Top EXCEPT !.k = k]) /\ r' = [r EXCEPT !.e = Zero] /\ UNCHANGED alive
           \/ Return([r EXCEPT !.e = Zero])

\* After the left side of && or ||.
EndLeftOperand ==
  /\ at = "done" /\ Top.k \in {"and", "or"}
  /\ IF ~Abandon /\ (r.e.code = 0 <=> Top.k = "and")
     THEN Again([Top EXCEPT !.k = "tail"]) /\ UNCHANGED <<r, alive>>
     ELSE Return(r)

\* The exit of a subshell or a stage ends it only; a limit ends the script.
Contained(e) == [e EXCEPT !.exiting = @ /\ e.limit]

\* The status a subshell, and the right stage of a pipeline, hands over.
HandOver(e) == Contained(e)

EndSubshell == at = "done" /\ Top.k = "sub" /\ Return([Top.saved EXCEPT !.e = HandOver(r.e)])

EndSubst ==
  /\ at = "done" /\ Top.k = "subst"
  /\ \/ r.e.fatal /\ Return([Top.saved EXCEPT !.e = Fatal(@)])
     \/ ~r.e.fatal /\ r.e.limit /\ Return([Top.saved EXCEPT !.e = LimitHit])
     \/ /\ ~r.e.fatal /\ ~r.e.limit
        /\ stack' = SubSeq(stack, 1, Depth - 1)
        /\ r' = Top.saved
        /\ at' = "cmd"
        /\ neg' = Top.neg
        /\ Leave(2 * (Depth - 1))
        /\ UNCHANGED cancelled

EndLeft ==
  /\ at = "done" /\ Top.k = "left"
  /\ \E inherits \in BOOLEAN :
       LET inLoop == inherits /\ Top.saved.inLoop IN
       /\ Again([Top EXCEPT !.k = "right", !.old = inLoop, !.last = [r.e EXCEPT !.exiting = FALSE]])
       /\ r' = NewRunner(Top.saved, inLoop)
  /\ alive' = IF Top.ran /\ ~cancelled THEN 2 * Depth ELSE alive

EndRight ==
  /\ at = "done" /\ Top.k = "right"
  /\ LET e == IF Top.last.fatal THEN Fatal(HandOver(r.e)) ELSE HandOver(r.e)
         p == [Top.saved EXCEPT !.e = IF Top.last.limit
                                      THEN [e EXCEPT !.code = 1, !.exiting = TRUE, !.limit = TRUE]
                                      ELSE e]
     IN /\ stack' = SubSeq(stack, 1, Depth - 1)
        /\ EndStmt(p, Top.neg)
        /\ Leave(IF Top.last.fatal THEN Failed ELSE IF Top.last.limit THEN 0 ELSE 2 * (Depth - 1))
        /\ UNCHANGED cancelled

-----------------------------------------------------------------------------
\* Loops.
Until == Top.k \in {"untilCond", "untilBody"}

\* The loop ends: excess levels are dropped at the outermost one.  A while
\* loop has the status of its last body, or 0, unless "keep" says otherwise.
LeaveLoop(runner, keep, nested) ==
  Return([runner EXCEPT
            !.brk = IF nested THEN @ ELSE 0,
            !.cont = IF nested THEN @ ELSE 0,
            !.inLoop = Top.old,
            !.e = IF keep \/ @.exiting \/ @.fatal THEN @
                  ELSE IF Top.ran THEN Top.last ELSE Zero])

\* Mutant: excess levels are never dropped.
LoopExitUnclamped(runner, keep) == LeaveLoop(runner, keep, TRUE)

LoopExit(runner, keep) == LeaveLoop(runner, keep, Top.old)

\* The next item of a for loop is assigned, or there is none.
NextItem ==
  /\ at = "next" /\ Top.k = "for"
  /\ \/ LoopExit(r, TRUE)
     \/ cancelled /\ LoopExit([r EXCEPT !.e = Fatal(@)], TRUE)
     \/ /\ ~cancelled
        /\ \E e \in {r.e, [r.e EXCEPT !.code = 1], [r.e EXCEPT !.code = 1, !.exiting = TRUE]} :
             /\ r' = [r EXCEPT !.e = e, !.inLoop = TRUE]
             /\ IF e.exiting /\ ~r.e.exiting THEN Leave(LeaveRunner) ELSE Entering
        /\ Again(Top)

\* The top of a while or until loop.
NextCond ==
  /\ at = "next" /\ Top.k \in Conds
  /\ \/ cancelled /\ LoopExit([r EXCEPT !.e = Fatal(@)], FALSE)
     \/ ~cancelled /\ Again(Top) /\ Entering /\ UNCHANGED r

BodyOf(k) == IF k = "whileCond" THEN "whileBody" ELSE "untilBody"
CondOf(k) == IF k = "whileBody" THEN "whileCond" ELSE "untilCond"

Iterate(runner, f) ==
  /\ r' = runner
  /\ Retop(f)
  /\ at' = "next"
  /\ UNCHANGED <<neg, cancelled, alive>>

\* execWhileClause, after the condition list.
EndLoopCond ==
  /\ at = "done" /\ Top.k \in Conds
  /\ \/ (r.e.exiting \/ r.e.fatal) /\ LoopExit(r, TRUE)
     \/ /\ ~r.e.exiting /\ ~r.e.fatal
        /\ \/ r.brk > 0 /\ LoopExit([r EXCEPT !.brk = @ - 1], TRUE)
           \/ r.brk = 0 /\ r.cont > 1 /\ Top.old /\ LoopExit([r EXCEPT !.cont = @ - 1], FALSE)
           \/ /\ r.brk = 0 /\ r.cont > 0 /\ (r.cont = 1 \/ ~Top.old)
              /\ IF r.e.code = 0 <=> Until THEN LoopExit([r EXCEPT !.cont = 0], TRUE)
                 ELSE Iterate([r EXCEPT !.cont = 0], Top)
           \/ /\ r.brk = 0 /\ r.cont = 0
              /\ IF r.e.code = 0 <=> Until THEN LoopExit(r, FALSE)
                 ELSE /\ Again([Top EXCEPT !.k = BodyOf(@)])
                      /\ r' = [r EXCEPT !.e = Zero]
                      /\ UNCHANGED alive

\* loopStmtsBroken consumes one level; what is left ends the loop as well,
\* but an excess continue is dropped at the outermost one.
Consumed(runner) ==
  IF runner.cont > 0 THEN [runner EXCEPT !.cont = @ - 1]
  ELSE IF runner.brk > 0 THEN [runner EXCEPT !.brk = @ - 1]
  ELSE runner

IsBroken(runner) == IF runner.cont > 0 THEN runner.cont > 1 ELSE runner.brk > 0

EndBody ==
  /\ at = "done" /\ Top.k \in Bodies
  /\ LET c == [Consumed(r) EXCEPT !.inLoop = IF Top.k = "for" THEN Top.old ELSE TRUE]
         f == IF Top.k = "for" THEN Top
              ELSE [Top EXCEPT !.k = CondOf(@), !.ran = TRUE, !.last = r.e]
     IN \/ ~IsBroken(r) /\ Iterate(c, f)
        \/ IsBroken(r) /\ c.cont > 0 /\ ~Top.old /\ Iterate([c EXCEPT !.cont = 0], f)
        \/ IsBroken(r) /\ (c.cont = 0 \/ Top.old) /\ LoopExit(c, TRUE)

-----------------------------------------------------------------------------
Next ==
  \/ Stop \/ Stmt \/ Cancel \/ CmdCancelled
  \/ \E c \in Codes : Run(c) \/ Exit(c)
  \/ \E n \in 1..MaxLevels : Break(n) \/ Continue(n)
  \/ BreakAll \/ LoopOutside \/ Limit \/ HardFatal
  \/ Block \/ If \/ AndOr \/ Subshell \/ While \/ For \/ CmdSubst \/ Pipe
  \/ NextStmt \/ EndBlock \/ EndMain \/ EndCond \/ EndLeftOperand
  \/ EndSubshell \/ EndSubst \/ EndLeft \/ EndRight
  \/ NextItem \/ NextCond \/ EndLoopCond \/ EndBody

Spec == Init /\ [][Next]_vars

-----------------------------------------------------------------------------
\* The stack of frames and the control state of the runner have their types.
TypeOK ==
  /\ stack \in Seq(Frame) /\ Depth \in 1..MaxDepth
  /\ r \in Runner
  /\ at \in {"stmt", "cmd", "done", "next", "over"}
  /\ neg \in BOOLEAN /\ cancelled \in BOOLEAN
  /\ alive \in Failed..2 * Depth

\* No command is dispatched inside a loop, a list or a shell that an earlier
\* exit, break, continue, limit or cancellation asked to leave.
LeftBehindNeverRuns == at = "cmd" /\ ~cancelled /\ alive # Failed => alive = 2 * Depth

\* Statements are skipped, and loops are left, only where that was asked for: no
\* exit flag and no break or continue count outlives what it was meant for.
NothingElseSkipped ==
  /\ at = "stmt" /\ r.e.exiting => alive < 2 * Depth
  /\ at = "done" /\ Abandon => alive < 2 * Depth

\* A loop is left after a statement of its body only if that statement asked to
\* leave the loop: a continue, however large its count, never ends the
\* outermost loop, and never its own.
LoopsGoOn ==
  [][at = "done" /\ Top.k \in Bodies /\ Depth' < Depth => alive < 2 * Depth - 1]_vars

\* "whether the current shell is exiting due to a fatal error": no command is
\* dispatched after one.
FatalAborts == at = "cmd" /\ ~cancelled => alive # Failed

\* "Exits the shell with a status of N": the shell that executed exit keeps
\* that status until it has ended.
ExitStatusKept == r.want # NoExit => r.e.exiting /\ (r.e.fatal \/ r.e.code = r.want)

\* exit, break and continue leave exactly what they ask to leave: nothing runs
\* in what was left, nothing else is skipped, and no other loop ends.
ControlExact ==
  [](TypeOK /\ LeftBehindNeverRuns /\ NothingElseSkipped) /\ LoopsGoOn

=============================================================================

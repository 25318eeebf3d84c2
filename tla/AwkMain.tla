------------------------------ MODULE AwkMain -------------------------------
(***************************************************************************)
(* The awk command around the program: its options, how the program is     *)
(* read from files or standard input, and how a blocked read, of the       *)
(* program or of a record, is given up when the command is cancelled.      *)
(***************************************************************************)
EXTENDS Call, SequencesExt

CONSTANTS MaxProgramFiles, MaxProgramBytes, MaxProgramRead

\* call = [tool |-> "awkmain", options, files, arg, parses, silent]: the options in order, the program files as [reader, text], the program
\* given as an argument otherwise, whether it parses, and whether the readers never answer.
\* A reader is polled, can be given a deadline, can be closed, or can do neither ("generic"); or there is none ("nil", "missing").
AwkMainInit == run = [pc |-> "options", err |-> "", i |-> 1, at |-> 0, total |-> 0, part |-> <<>>, parts |-> <<>>, cancelled |-> FALSE, reader |-> "idle",
                      deadline |-> FALSE, closed |-> FALSE, watcher |-> "none", next |-> 1, ran |-> FALSE, code |-> 0]
MainEnds(st, err, code) == [st EXCEPT !.pc = "done", !.err = err, !.code = code]
ProgramFile(st) == call.files[st.i]
Watched(st) == ProgramFile(st).reader \in {"deadline", "close"}
(***************************************************************************)
(* The handler.                                                            *)
(***************************************************************************)
BadSyntax == "v"          \* -v name, without a value
BadName == "v1x="         \* -v with a name that is none
FunctionName == "vf="     \* -v with the name of a function of the program
ArrayName == "vENVIRON="  \* -v with the name of the built-in array
BadSeparator == "vRS=ab"  \* -v with a value the variable refuses
CheckOptions(st) ==
  LET bad == SelectInSeq(call.options, LAMBDA o : o \in {BadSyntax, BadName}) IN
  IF bad # 0 THEN MainEnds(st, "option", IF call.options[bad] = BadSyntax THEN 1 ELSE 2) ELSE [st EXCEPT !.pc = "load"]
LoadProgram(st) ==
  IF call.files # <<>> THEN IF Len(call.files) > MaxProgramFiles THEN MainEnds(st, "too many files", 1) ELSE [st EXCEPT !.total = Len(call.files) - 1, !.pc = "file"]
  ELSE IF call.arg = <<>> THEN MainEnds(st, "missing program", 1)
  ELSE IF Len(call.arg[1]) > MaxProgramBytes THEN MainEnds(st, "too long", 1) ELSE [st EXCEPT !.parts = call.arg, !.pc = "parse"]
ReadProgramFile(st) ==
  IF st.i > Len(call.files) THEN [st EXCEPT !.pc = "parse"]
  ELSE IF ProgramFile(st).reader = "nil" THEN [st EXCEPT !.parts = Append(@, <<>>), !.i = @ + 1]
  ELSE IF ProgramFile(st).reader = "missing" THEN MainEnds(st, "cannot open", 2)
  ELSE [st EXCEPT !.pc = "wait", !.reader = "check", !.at = 0, !.part = <<>>, !.err = "", !.watcher = IF Watched(st) THEN "waiting" ELSE "none"]
ParseText(st) == IF st.cancelled \/ ~call.parses THEN MainEnds(st, "syntax", 1) ELSE [st EXCEPT !.pc = "assign"]
AssignOption(st) ==
  IF st.next > Len(call.options) THEN [MainEnds(st, "", 0) EXCEPT !.ran = TRUE]
  ELSE IF call.options[st.next] = FunctionName THEN MainEnds(st, "assignment", 1)
  ELSE IF call.options[st.next] \in {ArrayName, BadSeparator} THEN MainEnds(st, "value", IF call.options[st.next] = ArrayName THEN 2 ELSE 1)
  ELSE [st EXCEPT !.next = @ + 1]
(***************************************************************************)
(* Reading one file of the program: the loop that reads, the goroutine     *)
(* that watches for cancellation, and the handler that waits.              *)
(***************************************************************************)
ReadOver(st, err) == [st EXCEPT !.reader = "over", !.err = err]
CheckReader(st) == IF st.cancelled THEN ReadOver(st, "cancelled") ELSE [st EXCEPT !.reader = "inflight"]
ReadBytes(st, n) ==
  LET got == [st EXCEPT !.part = @ \o SubSeq(ProgramFile(st).text, st.at + 1, st.at + n), !.at = @ + n, !.total = @ + n] IN
  IF n = 0 THEN ReadOver(st, "") ELSE IF got.total > MaxProgramBytes THEN ReadOver(got, "too long") ELSE [got EXCEPT !.reader = "check"]
Interrupted(st) == st.deadline \/ st.closed \/ (ProgramFile(st).reader = "poll" /\ st.cancelled)
Readable(st) == LET left == Len(ProgramFile(st).text) - st.at IN IF left = 0 THEN {0} ELSE 1..(IF left < MaxProgramRead THEN left ELSE MaxProgramRead)
WatcherFires(st, works) == IF ProgramFile(st).reader = "deadline" /\ works THEN [st EXCEPT !.deadline = TRUE, !.watcher = "fired"] ELSE [st EXCEPT !.closed = TRUE, !.watcher = "over"]
\* Mutant: the deadline is taken back only when the read was not cancelled.
RestoreDeadlineUnlessCancelled(st) == [st EXCEPT !.deadline = IF st.watcher = "fired" /\ ~st.cancelled THEN FALSE ELSE @, !.watcher = "none"]
RestoreDeadline(st) == [st EXCEPT !.deadline = IF st.watcher = "fired" THEN FALSE ELSE @, !.watcher = "none"]
CommitProgram(st) ==
  IF st.cancelled /\ ProgramFile(st).reader # "poll" THEN MainEnds(st, "cancelled", 1)
  ELSE IF st.err # "" THEN MainEnds(st, st.err, 1)
  ELSE [st EXCEPT !.parts = Append(@, st.part), !.i = @ + 1, !.pc = "file"]

Handler(st) ==
  CASE st.pc = "options" -> CheckOptions(st)
    [] st.pc = "load" -> LoadProgram(st)
    [] st.pc = "file" -> ReadProgramFile(st)
    [] st.pc = "wait" -> [st EXCEPT !.pc = "stopping"]
    [] st.pc = "stopping" -> CommitProgram(RestoreDeadline(st))
    [] st.pc = "parse" -> ParseText(st)
    [] OTHER -> AssignOption(st)
HandlerReady(st) ==
  /\ st.pc # "done"
  /\ st.pc = "wait" => st.reader = "over" \/ (st.cancelled /\ ProgramFile(st).reader = "generic")
  /\ st.pc = "stopping" => st.watcher # "waiting"
AwkMainStep ==
  /\ call.tool = "awkmain"
  /\ \/ HandlerReady(run) /\ run' = Handler(run)
     \/ run.reader = "check" /\ run' = CheckReader(run)
     \/ run.reader = "inflight" /\ ~call.silent /\ \E n \in Readable(run) : run' = ReadBytes(run, n)
     \/ run.reader = "inflight" /\ Interrupted(run) /\ run' = ReadOver(run, "interrupted")
     \/ run.watcher = "waiting" /\ run.cancelled /\ \E works \in BOOLEAN : run' = WatcherFires(run, works)
     \/ run.watcher = "waiting" /\ run.pc = "stopping" /\ run' = [run EXCEPT !.watcher = "over"]
     \/ ~run.cancelled /\ run.pc # "done" /\ run' = [run EXCEPT !.cancelled = TRUE]

ProgramLines(parts) == FoldLeft(LAMBDA s, i : s \o (IF i > 1 THEN <<"\n">> ELSE <<>>) \o parts[i], <<>>, [i \in DOMAIN parts |-> i])
WholeProgram == ProgramLines(IF call.files = <<>> THEN call.arg ELSE [i \in DOMAIN call.files |-> call.files[i].text])
\* A program that runs is the whole of its files, joined by newlines, however the reads cut them, and fits the limit; it is refused as
\* too long only if it is.
ProgramIsWhole == call.tool = "awkmain" =>
  /\ run.ran => ProgramLines(run.parts) = WholeProgram /\ Len(WholeProgram) <= MaxProgramBytes
  /\ run.pc = "done" /\ run.err = "too long" => Len(WholeProgram) > MaxProgramBytes
\* When the command has returned, no deadline is left on the reader and nobody watches it, it was closed only to interrupt it, and only
\* a reader that cannot be interrupted may still have a read in flight.
ReaderLeftAsFound == call.tool = "awkmain" /\ run.pc = "done" =>
  /\ ~run.deadline /\ run.watcher # "waiting"
  /\ run.closed => run.cancelled
  /\ run.reader = "inflight" => ProgramFile(run).reader = "generic"
(***************************************************************************)
(* Reading the records of one source: call = [tool |-> "awkrec", source,   *)
(* records, silent].  A source is standard input that can be given a       *)
(* deadline, closed or neither, or a file.                                 *)
(***************************************************************************)
AwkRecordInit == run = [pc |-> "ask", scan |-> "idle", seen |-> 0, got |-> 0, cancelled |-> FALSE, deadline |-> FALSE, closed |-> FALSE, closing |-> FALSE, restorer |-> FALSE]
AskRecord(st) == IF st.cancelled THEN [st EXCEPT !.pc = "close"] ELSE [st EXCEPT !.pc = "select", !.scan = "inflight"]
ScanEnds(st) == [st EXCEPT !.scan = "ready", !.seen = IF st.deadline \/ st.closed THEN @ ELSE @ + 1]
TakeResult(st) ==
  IF st.cancelled THEN [st EXCEPT !.pc = "close", !.scan = "idle"]
  ELSE IF st.seen > call.records THEN [st EXCEPT !.pc = "close", !.scan = "idle"]
  ELSE [st EXCEPT !.pc = "ask", !.scan = "idle", !.got = @ + 1]
\* Cancelled: the read is interrupted by a deadline, if that works, or by closing standard input; a file is closed in the background.
GiveUp(st, works) ==
  LET set == call.source = "deadline" /\ works IN
  [st EXCEPT !.pc = "close", !.deadline = set, !.restorer = set,
             !.closed = @ \/ (~set /\ call.source \in {"deadline", "close"}), !.closing = call.source = "file"]
CloseSource(st) == [st EXCEPT !.pc = "done", !.closed = @ \/ (call.source = "file" /\ ~st.closing)]
CloseAsync(st) == [st EXCEPT !.closed = TRUE]
AwkRecordStep ==
  /\ call.tool = "awkrec"
  /\ \/ run.pc = "ask" /\ run' = AskRecord(run)
     \/ run.scan = "inflight" /\ (~call.silent \/ run.deadline \/ run.closed) /\ run' = ScanEnds(run)
     \/ run.pc = "select" /\ run.scan = "ready" /\ run' = TakeResult(run)
     \/ run.pc = "select" /\ run.cancelled /\ \E works \in BOOLEAN : run' = GiveUp(run, works)
     \/ run.pc = "close" /\ run' = CloseSource(run)
     \/ run.closing /\ ~run.closed /\ run' = CloseAsync(run)
     \/ run.restorer /\ run.scan = "ready" /\ run' = [run EXCEPT !.restorer = FALSE, !.deadline = FALSE]
     \/ ~run.cancelled /\ run.pc # "done" /\ run' = [run EXCEPT !.cancelled = TRUE]

\* Standard input belongs to the caller: only cancellation closes it, a deadline on it is on its way back as soon as the read has
\* returned, and every record scanned without cancellation was handed on.  A file is closed when the command ends.
StdinKept == call.tool = "awkrec" =>
  /\ run.closed /\ call.source # "file" => run.cancelled
  /\ run.deadline => run.restorer
  /\ ~run.cancelled => run.got = run.seen - (IF run.scan = "ready" \/ run.seen > call.records THEN 1 ELSE 0)
  /\ run.pc = "done" /\ call.source = "file" => run.closed \/ run.closing

\* awk loads the whole of its program, and leaves the readers it was given as
\* it found them, whenever it is cancelled.
AwkStdinTrue ==
  /\ ProgramIsWhole
  /\ ReaderLeftAsFound
  /\ StdinKept

=============================================================================

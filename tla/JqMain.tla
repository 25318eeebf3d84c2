------------------------------- MODULE JqMain -------------------------------
(***************************************************************************)
(* The jq command: its input, then its main loop.                          *)
(***************************************************************************)
(***************************************************************************)
(* How jq reads its input (sequentialInput, budgetReader,                  *)
(* surrogateValidator, appendRawInput and processRawLines).  Files are     *)
(* read one after another in chunks of any size; bytes are counted against *)
(* the budget, then the escapes of JSON strings are looked at, then the    *)
(* consumer takes them.  A \u escape has EscapeDigits digits, the first of *)
(* which tells a high surrogate ("8"), a low one ("C") or neither ("0").   *)
(***************************************************************************)
EXTENDS JqFilter

CONSTANTS MaxTotalInputBytes, MaxRawLineBytes, MaxEmptyReads, MaxReadChunk, EscapeDigits, MaxRawBytes
HexSymbols == {"8", "C", "0"}
-----------------------------------------------------------------------------
(***************************************************************************)
(* The validator's state, one byte at a time.                              *)
(***************************************************************************)
FreshString == [in |-> FALSE, escaped |-> FALSE, left |-> 0, unit |-> "", low |-> FALSE, high |-> FALSE, needU |-> FALSE, bad |-> FALSE]
\* The state after c, and whether c shows a high surrogate that no low one follows.
SurrogateByte(v, c) ==
  LET none(w) == [v |-> w, bad |-> FALSE]
      wrong == [v |-> v, bad |-> TRUE]
      unit == IF v.left = EscapeDigits THEN c ELSE v.unit
      read == [v EXCEPT !.left = @ - 1, !.unit = unit]
  IN CASE v.left > 0 /\ c \notin HexSymbols -> none([v EXCEPT !.left = 0, !.low = FALSE])
       [] v.left > 1 -> none(read)
       [] v.left = 1 /\ v.low -> IF unit # "C" THEN [v |-> read, bad |-> TRUE] ELSE none([read EXCEPT !.low = FALSE])
       [] v.left = 1 -> none([read EXCEPT !.high = unit = "8"])
       [] v.left = 0 /\ v.needU -> IF c # "u" THEN wrong ELSE none([v EXCEPT !.needU = FALSE, !.low = TRUE, !.left = EscapeDigits])
       [] v.left = 0 /\ ~v.needU /\ v.high -> IF c # "\\" THEN wrong ELSE none([v EXCEPT !.high = FALSE, !.needU = TRUE])
       [] OTHER -> none(IF v.escaped /\ c = "u" THEN [v EXCEPT !.left = EscapeDigits] ELSE v)
\* Whether the byte after c is escaped.
EscapesNext(v, c) == ~v.escaped /\ c = "\\"
\* The state after c; err when c closes a string with such a surrogate.
ScanByte(v, c) ==
  Once(SurrogateByte(v, c), LAMBDA s :
  LET w == IF v.bad THEN v ELSE [s.v EXCEPT !.bad = s.bad]
      closes == c = "q" /\ ~v.escaped
      next == [w EXCEPT !.escaped = EscapesNext(v, c)]
  IN
     IF ~v.in THEN [v |-> IF c = "q" THEN [FreshString EXCEPT !.in = TRUE] ELSE v, err |-> FALSE]
     ELSE IF closes THEN [v |-> FreshString, err |-> w.bad]
     ELSE [v |-> next, err |-> FALSE])
\* The bytes of a chunk up to the one with an error, with the state after them.
RECURSIVE Scan(_, _, _)
Scan(v, data, n) ==
  IF n = Len(data) THEN [v |-> v, n |-> n, err |-> FALSE]
  ELSE LET s == ScanByte(v, data[n + 1]) IN IF s.err THEN [v |-> s.v, n |-> n + 1, err |-> TRUE] ELSE Scan(s.v, data, n + 1)
-----------------------------------------------------------------------------
(***************************************************************************)
(* call.files: [open, data, fails], the last saying that reading ends in   *)
(* an error.  run: at is the next file, pos the place in the current one,  *)
(* got what the consumer was given, buf and lines what it makes of lines.  *)
(***************************************************************************)
JqInputInit == run = [pc |-> "read", at |-> 1, open |-> FALSE, pos |-> 0, used |-> 0, empty |-> 0, v |-> FreshString, term |-> FALSE,
                      got |-> <<>>, buf |-> <<>>, lines |-> <<>>, err |-> "", missed |-> FALSE, opened |-> 0, closed |-> 0]
JqFile == call.files[run.at - 1]
Closed(r) == IF r.open THEN [r EXCEPT !.open = FALSE, !.closed = @ + 1] ELSE r
\* The consumer stops; processInputs closes what is open.
EndJq(r, err) == [Closed(r) EXCEPT !.pc = "done", !.err = err]
LineDue(nl, buf, atEnd) == nl # 0 \/ (atEnd /\ buf # <<>>)
\* Complete lines go to the filter, and at the end or at an error what is left goes too.
RECURSIVE SplitLines(_, _)
SplitLines(r, atEnd) ==
  Once(SelectInSeq(r.buf, LAMBDA c : c = "n"), LAMBDA nl :
  LET line == IF nl = 0 THEN r.buf ELSE SubSeq(r.buf, 1, nl - 1)
      rest == IF nl = 0 THEN <<>> ELSE SubSeq(r.buf, nl + 1, Len(r.buf))
  IN
     IF ~LineDue(nl, r.buf, atEnd) THEN (IF Len(r.buf) >= MaxRawLineBytes + 2 THEN EndJq(r, "toolong") ELSE r)
     ELSE IF Len(line) > MaxRawLineBytes THEN EndJq(r, "toolong")
     ELSE SplitLines([r EXCEPT !.lines = Append(@, line), !.buf = rest], atEnd))
\* The consumer is given data and then err ("" for none, "eof" at the end).
ConsumeJq(r, data, err) ==
  LET taken == [r EXCEPT !.got = @ \o data]
      split == SplitLines([taken EXCEPT !.buf = @ \o data], err # "")
      ends(s) == IF s.pc = "done" \/ err = "" THEN s ELSE EndJq(s, IF err = "eof" THEN "" ELSE err)
  IN CASE call.mode = "rawslurp" /\ data # <<>> /\ Len(data) > MaxRawBytes - Len(r.got) - 2 -> EndJq(r, "bytes")
       [] call.mode = "raw" -> ends(split)
       [] OTHER -> ends(taken)
ValidateRead(r, data, err) ==
  Once(Scan(r.v, data, 0), LAMBDA s :
  IF call.mode # "json" THEN ConsumeJq(r, data, err)
  ELSE IF s.err THEN ConsumeJq([r EXCEPT !.v = s.v, !.term = TRUE], SubSeq(data, 1, s.n), "")
  ELSE ConsumeJq([r EXCEPT !.v = s.v], data, err))
OverBudget(n, remaining) == n > remaining
Budgeted(r, data, err) ==
  LET remaining == MaxTotalInputBytes - r.used
      n == Len(data)
      idle == n = 0 /\ err = ""
      counted == [r EXCEPT !.used = @ + n, !.empty = IF idle THEN @ + 1 ELSE 0]
  IN IF OverBudget(n, remaining) THEN ConsumeJq(counted, <<>>, "limit")
     ELSE IF idle /\ counted.empty >= MaxEmptyReads THEN ConsumeJq(counted, <<>>, "stalled")
     ELSE ValidateRead(counted, data, err)
JqReading == call.tool = "jqin" /\ run.pc = "read"
\* A read after a bad surrogate.
JqTerminal == JqReading /\ run.term /\ run' = ConsumeJq(run, <<>>, "surrogate")
\* openNext, or the end of the last file.
JqOpenNext ==
  /\ JqReading /\ ~run.term /\ ~run.open
  /\ run' = IF run.at > Len(call.files) THEN Budgeted(run, <<>>, "eof")
            ELSE IF call.files[run.at].open THEN [run EXCEPT !.at = @ + 1, !.open = TRUE, !.pos = 0, !.opened = @ + 1]
            ELSE [run EXCEPT !.at = @ + 1, !.missed = TRUE]
\* One read of the current file: some bytes, none, or its end, which closes it; closing may fail.
JqReadChunk ==
  /\ JqReading /\ ~run.term /\ run.open
  /\ \E n \in 0..MaxReadChunk :
       LET left == Len(JqFile.data) - run.pos
           data == SubSeq(JqFile.data, run.pos + 1, run.pos + n)
           moved == [run EXCEPT !.pos = @ + n]
       IN /\ n <= left /\ n <= MaxTotalInputBytes - run.used + 1
          /\ call.mode = "raw" => n <= MaxRawLineBytes + 2 - Len(run.buf)
          /\ \/ run' = Budgeted(moved, data, "")
             \/ n = left /\ JqFile.fails /\ run' = Budgeted(moved, data, "read")
             \/ n = left /\ ~JqFile.fails /\ n > 0 /\ run' = Budgeted(Closed(moved), data, "")
             \/ n = left /\ ~JqFile.fails /\ n = 0 /\ run' = Closed(moved)
             \/ n = left /\ ~JqFile.fails /\ run' = Budgeted(Closed(moved), data, "close")
JqInputStep == JqTerminal \/ JqOpenNext \/ JqReadChunk
-----------------------------------------------------------------------------
\* The bytes there are to read: the files that open, one after another, up to one that fails.
RECURSIVE WholeInput(_)
WholeInput(files) ==
  IF files = <<>> THEN <<>> ELSE LET f == Head(files) IN IF ~f.open THEN WholeInput(Tail(files)) ELSE IF f.fails THEN f.data ELSE f.data \o WholeInput(Tail(files))
\* Where the first string closes that holds a high surrogate without a low one after it; 0 when there is none.  Strings are taken apart escape by escape.
HexAt(s, i) == CHOOSE k \in 0..EscapeDigits : (\A j \in 0..(k - 1) : i + j <= Len(s) /\ s[i + j] \in HexSymbols) /\ (k = EscapeDigits \/ i + k > Len(s) \/ s[i + k] \notin HexSymbols)
IsEscapeU(s, i) == i + 1 <= Len(s) /\ s[i] = "\\" /\ s[i + 1] = "u"
RECURSIVE BadClose(_, _, _, _)
BadClose(s, i, inside, bad) ==
  LET hex == HexAt(s, i + 2)
      after == i + 2 + hex
      hex2 == HexAt(s, after + 2)
      high == IsEscapeU(s, i) /\ hex = EscapeDigits /\ s[i + 2] = "8"
      pair == IsEscapeU(s, after) /\ hex2 = EscapeDigits /\ s[after + 2] = "C"
      torn == IsEscapeU(s, after) /\ hex2 < EscapeDigits
  IN CASE i > Len(s) -> 0
       [] ~inside -> BadClose(s, i + 1, s[i] = "q", FALSE)
       [] s[i] = "q" -> IF bad THEN i ELSE BadClose(s, i + 1, FALSE, FALSE)
       [] high /\ (pair \/ torn) -> BadClose(s, after + 2 + hex2, TRUE, bad)
       [] high -> BadClose(s, after, TRUE, TRUE)
       [] IsEscapeU(s, i) -> BadClose(s, after, TRUE, bad)
       [] OTHER -> BadClose(s, IF s[i] = "\\" THEN i + 2 ELSE i + 1, TRUE, bad)
JqInputEnded == call.tool = "jqin" /\ run.pc = "done"
\* Whatever the sizes of reads, the consumer is given the files' bytes in order, all of them when the input ends well and when a file fails, and the budget refuses only an input that is longer than it.
JqInputTrue ==
  JqInputEnded =>
    LET all == WholeInput(call.files) IN
    /\ IsPrefix(run.got, all) /\ Len(run.got) <= MaxTotalInputBytes
    /\ run.err \in {"", "read"} => run.got = all
    /\ run.err = "" => \A i \in DOMAIN call.files : ~(call.files[i].open /\ call.files[i].fails)
    /\ run.err = "limit" => Len(all) > MaxTotalInputBytes
\* A JSON string with an unpaired high surrogate stops the input right at its closing quote, however the reads cut the string, and nothing else does.
SurrogatesCaught ==
  JqInputEnded /\ call.mode = "json" =>
    LET at == BadClose(run.got, 1, FALSE, FALSE) IN IF run.err = "surrogate" THEN at # 0 /\ at = Len(run.got) ELSE at = 0
\* Every file that was opened is closed once, on every way out.
JqFilesClosed == JqInputEnded => run.opened = run.closed
RECURSIVE RawLinesOf(_)
RawLinesOf(s) ==
  LET nl == SelectInSeq(s, LAMBDA c : c = "n") IN
  IF s = <<>> THEN <<>> ELSE IF nl = 0 THEN <<s>> ELSE <<SubSeq(s, 1, nl - 1)>> \o RawLinesOf(SubSeq(s, nl + 1, Len(s)))
\* Raw lines are the lines of what was read, in order and none too long; an unfinished one is passed on only as the last, and only a line that is too long is refused.
RawLinesTrue ==
  JqInputEnded /\ call.mode = "raw" =>
    LET all == RawLinesOf(run.got)
        long(lines) == \E i \in DOMAIN lines : Len(lines[i]) > MaxRawLineBytes
    IN IF run.err = "toolong" THEN IsPrefix(run.lines, all) /\ long(all) /\ ~long(run.lines) ELSE run.lines = all /\ ~long(all)

-----------------------------------------------------------------------------
(***************************************************************************)
(* The jq command (jq.go): it binds its variables, runs the filter on one  *)
(* input after another and emits the results.  What is read is a sequence  *)
(* of items: a value, a value over a limit, an error that ends the input,  *)
(* or a file that did not open.  Output is compact; a write may fail.      *)
(***************************************************************************)
CONSTANTS MaxOutputBytes, MaxVariableNodes, MaxVariableValueBytes
-----------------------------------------------------------------------------
(***************************************************************************)
(* Variables: a binding is [name, json, v].  The first of a name counts.   *)
(***************************************************************************)
FirstBindings(bs) == SelectSeq([i \in DOMAIN bs |-> [b |-> bs[i], first |-> \A j \in 1..(i - 1) : bs[j].name # bs[i].name]], LAMBDA x : x.first)
RECURSIVE FilterVariables(_)
FilterVariables(n) == (IF n.k = "variable" THEN {n.name} ELSE {}) \cup UNION {FilterVariables(n.xs[i]) : i \in DOMAIN n.xs}
\* The bindings that the filter refers to, in order; err is the exit code of a failure, 0 when there is none.
MakeVariables(bs, referenced) ==
  LET first == FirstBindings(bs)
      used == SelectSeq(first, LAMBDA x : x.b.name \in referenced)
      values == [i \in DOMAIN used |-> used[i].b.v]
      bad(json) == \E i \in DOMAIN first : first[i].b.json = json /\ IsError(first[i].b.v)
      err == IF bad(TRUE) THEN 2 ELSE IF bad(FALSE) \/ JqNodesOf(values) > MaxVariableNodes \/ JqBytesOf(values) > MaxVariableValueBytes THEN 1 ELSE 0
  IN [vars |-> used, err |-> err]
\* The filter with its variables' values in their places.
RECURSIVE BoundFilter(_, _)
BoundFilter(n, vars) ==
  LET at == SelectInSeq(vars, LAMBDA x : x.b.name = n.name) IN
  IF n.k = "variable" THEN JqNode("literal", "", <<>>, vars[at].b.v, <<>>) ELSE [n EXCEPT !.xs = [i \in DOMAIN n.xs |-> BoundFilter(n.xs[i], vars)]]
-----------------------------------------------------------------------------
(***************************************************************************)
(* run: the item that is next, the evaluator's steps and results so far,   *)
(* what was emitted, and the flags that the exit code is made of.          *)
(***************************************************************************)
PerValueLimits == {"nodes", "bytes", "depth", "range"}
JqMainBlank == [pc |-> "start", i |-> 1, steps |-> 0, top |-> 0, out |-> <<>>, bytes |-> 0, runtime |-> FALSE, limit |-> FALSE, missed |-> FALSE, filter |-> JqOf("identity", <<>>),
                seen |-> <<>>, fatal |-> "", code |-> 0]
JqMainInit == run = JqMainBlank
\* Before any input is read.
JqMainStart ==
  LET made == MakeVariables(call.bindings, FilterVariables(call.filter))
      names == {made.vars[i].b.name : i \in DOMAIN made.vars}
      code == IF made.err # 0 THEN made.err ELSE IF FilterVariables(call.filter) \subseteq names THEN 0 ELSE 3
  IN /\ call.tool = "jqmain" /\ run.pc = "start"
     /\ run' = IF code # 0 THEN [run EXCEPT !.pc = "done", !.code = code, !.fatal = "start"] ELSE [run EXCEPT !.pc = "run", !.filter = BoundFilter(call.filter, made.vars)]
\* The bytes of a line: the value, or with -r the characters of a string, and a newline.
JqLineBytes(v) == IF call.raw /\ v.kind = "string" THEN Len(v.s) + 1 ELSE v.bytes + 1
RoomFor(bytes, v) == JqLineBytes(v) <= MaxOutputBytes - bytes
\* emit for each result; the write of the one at place broken fails.
Emitted(r, results, broken, how) ==
  LET step(a, v) == CASE a.fatal # "" -> a
                      [] ~RoomFor(a.bytes, v) -> [a EXCEPT !.fatal = "output"]
                      [] Len(a.out) + 1 = Len(r.out) + broken -> [a EXCEPT !.fatal = how]
                      [] OTHER -> [a EXCEPT !.out = Append(@, v), !.bytes = @ + JqLineBytes(v)]
  IN FoldLeft(step, r, results)
RuntimeAfter(r, err) == err # ""
\* A limit sticks, as the output lacks something.
LimitAfter(r, err) == r.limit \/ err \in PerValueLimits
AfterInput(r, err) ==
  IF r.fatal # "" THEN r
  ELSE IF err \in PerValueLimits \cup {"", "runtime"} THEN [r EXCEPT !.runtime = RuntimeAfter(r, err), !.limit = LimitAfter(r, err)]
  ELSE [r EXCEPT !.fatal = err]
\* The filter on one input.
RunInput(r, v, broken, how) ==
  Once(EvaluateJq(r.filter, v, r.steps, r.top), LAMBDA e : AfterInput(Emitted([r EXCEPT !.steps = e.steps, !.top = e.top, !.seen = Append(@, v)], e.out, broken, how), e.err))
ExitCode(r) ==
  LET last == Last(r.out) IN
  CASE r.fatal = "pipe" -> 0
    [] r.missed -> 2
    [] r.fatal = "parse" -> 5
    [] r.fatal # "" -> 1
    [] r.runtime \/ r.limit -> 5
    [] call.status /\ r.out = <<>> -> 4
    [] call.status /\ ~Truthy(last) -> 1
    [] OTHER -> 0
JqFinished(r) == [r EXCEPT !.pc = "done", !.code = ExitCode(r)]
\* An item of the input.  A slurped input keeps its values for the end, and any limit ends it.
TakeItem(r, item, broken, how) ==
  LET next == [r EXCEPT !.i = @ + 1] IN
  CASE item.what = "missing" -> [next EXCEPT !.missed = TRUE]
    [] item.what = "value" -> IF call.slurp THEN [next EXCEPT !.seen = Append(@, item.v)] ELSE RunInput(next, item.v, broken, how)
    [] item.what \in PerValueLimits -> IF call.slurp THEN [next EXCEPT !.fatal = IF item.what = "range" THEN "parse" ELSE item.what] ELSE [next EXCEPT !.limit = TRUE]
    [] OTHER -> [next EXCEPT !.fatal = item.what]
\* At the end of the input a slurped one is run, as an array.
JqAtEnd(r, broken, how) ==
  LET all == JqArray(r.seen) IN IF ~call.slurp THEN r ELSE IF IsError(all) THEN [r EXCEPT !.fatal = all.s[1]] ELSE RunInput([r EXCEPT !.seen = <<>>], all, broken, how)
JqMainRuns == call.tool = "jqmain" /\ run.pc = "run"
JqMainNull ==
  /\ JqMainRuns /\ call.null
  /\ \E broken \in 0..call.breaks, how \in {"pipe", "io"} : run' = JqFinished(RunInput(run, JqNull, broken, how))
JqMainItem ==
  /\ JqMainRuns /\ ~call.null /\ run.i <= Len(call.items)
  /\ \E broken \in 0..call.breaks, how \in {"pipe", "io"} :
       \E r \in {TakeItem(run, call.items[run.i], broken, how)} : run' = IF r.fatal # "" THEN JqFinished(r) ELSE r
JqMainEnd ==
  /\ JqMainRuns /\ ~call.null /\ run.i > Len(call.items)
  /\ \E broken \in 0..call.breaks, how \in {"pipe", "io"} : run' = JqFinished(JqAtEnd(run, broken, how))
-----------------------------------------------------------------------------
JqMainEnded == call.tool = "jqmain" /\ run.pc = "done"
JqItemValues == LET vs == SelectSeq(call.items, LAMBDA x : x.what = "value") IN [i \in DOMAIN vs |-> vs[i].v]
JqInputsMeant == IF call.null THEN <<JqNull>> ELSE IF call.slurp THEN <<JqArray(JqItemValues)>> ELSE JqItemValues
\* An exit code of 0 without a closed pipe tells that nothing was left out: every file opened, every value was read within its limits, and the output is what the filter means on each input in turn, a runtime error cutting only its own.
JqZeroIsWhole ==
  JqMainEnded /\ run.code = 0 /\ run.fatal = "" =>
    /\ call.null \/ \A i \in DOMAIN call.items : call.items[i].what = "value"
    /\ run.out = FlattenSeq([i \in DOMAIN JqInputsMeant |-> Results(JqMeaning(run.filter, JqInputsMeant[i]))])
\* The output keeps within its limit and ends only at a result that does not fit: unless a value's limit cut an input short, what was emitted is a prefix of what the filter means on the inputs it was run on.
JqOutputBounded ==
  JqMainEnded =>
    Once(FlattenSeq([i \in DOMAIN run.seen |-> Results(JqMeaning(run.filter, run.seen[i]))]), LAMBDA meant :
    /\ Sum(JqLineBytes, run.out) <= MaxOutputBytes
    /\ run.limit \/ IsPrefix(run.out, meant)
    /\ run.fatal = "output" /\ ~run.limit => Sum(JqLineBytes, run.out) + JqLineBytes(meant[Len(run.out) + 1]) > MaxOutputBytes)
\* With -e the exit code tells of the last value that was written: 0 for a true one, 4 for none, and of an input whose only trouble was a runtime error the last run decides.
JqStatusTells ==
  JqMainEnded /\ call.status /\ run.fatal = "" /\ ~run.missed /\ ~run.limit =>
    Once(JqMeaning(run.filter, Last(run.seen)), LAMBDA last :
    LET failed == run.seen # <<>> /\ EndOf(last) # ""
    IN  run.code = IF failed THEN 5 ELSE IF run.out = <<>> THEN 4 ELSE IF Truthy(Last(run.out)) THEN 0 ELSE 1)

\* jq gives the results its filter means, read as it was written, on the values
\* its input holds, however that arrives; sizes and retained values are
\* accounted for exactly, and status 0 tells that nothing was left out.
JqTrue ==
  /\ RetentionBalanced
  /\ JqMeansIt
  /\ JqSizesTrue
  /\ JqOrder
  /\ JqReadsBack
  /\ JqTokensKept
  /\ JqInputTrue
  /\ SurrogatesCaught
  /\ JqFilesClosed
  /\ RawLinesTrue
  /\ JqZeroIsWhole
  /\ JqOutputBounded
  /\ JqStatusTells

=============================================================================

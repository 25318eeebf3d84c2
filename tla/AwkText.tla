------------------------------ MODULE AwkText -------------------------------
(***************************************************************************)
(* What awk does with texts: the record and its fields, then the main      *)
(* input, then numbers, substitution, formats and the cache of             *)
(* expressions.                                                            *)
(***************************************************************************)
(***************************************************************************)
(* The record, its fields and NF in awk, which an assignment to any of     *)
(* them changes together; how a text is split into fields; and where a     *)
(* regular expression matches a text.  A text is a sequence of characters. *)
(* A regular expression stands for itself as [cs, least, most, bol]: so    *)
(* many of the characters cs, at the start of the text only if bol.        *)
(***************************************************************************)
EXTENDS Call, SequencesExt

CONSTANTS MaxFields, MaxFieldRecordBytes

MinOf(a, b) == IF a <= b THEN a ELSE b
MaxOf(a, b) == IF a >= b THEN a ELSE b
SplitDone(fields) == [err |-> "", fields |-> fields]
TooManyFields == [err |-> "too many fields", fields |-> <<>>]
(***************************************************************************)
(* Regular expressions: the library finds the first and longest match of   *)
(* a text; the others are found from there.                                *)
(***************************************************************************)
\* External (regexp, leftmost-longest): the match that starts behind i characters of s, as the number of characters it ends behind; -1 if none.
MatchEnd(re, s, i) ==
  Once(CHOOSE n \in 0..(Len(s) - i) : (\A k \in 1..n : s[i + k] \in re.cs) /\ (i + n = Len(s) \/ s[i + n + 1] \notin re.cs), LAMBDA run0 :
  LET n == IF run0 < re.most THEN run0 ELSE re.most
  IN  IF n < re.least \/ (re.bol /\ i > 0) THEN -1 ELSE i + n)
NoMatch == [from |-> -1, to |-> -1]
FindIn(s, i, End(_)) ==
  LET starts == {k \in i..Len(s) : End(k) >= 0} IN IF starts = {} THEN NoMatch ELSE [from |-> Min(starts), to |-> End(Min(starts))]
FindRegex(re, s) == FindIn(s, 0, LAMBDA k : MatchEnd(re, s, k))
\* The continuation expression is any character and then the expression, so that the text before the start is still seen.
Continuation(re, s, k) == IF k = Len(s) \/ re.bol THEN -1 ELSE MatchEnd(re, s, k + 1)
FindStringIndexFrom(re, s, start) ==
  LET m == FindIn(s, start - 1, LAMBDA k : Continuation(re, s, k)) IN
  IF start = 0 THEN FindRegex(re, s) ELSE IF m = NoMatch THEN m ELSE [m EXCEPT !.from = @ + 1]
RECURSIVE FindAllFrom(_, _, _, _, _)
FindAllFrom(re, s, pos, previousEnd, n) ==
  Once(FindStringIndexFrom(re, s, pos), LAMBDA m :
  IF pos > Len(s) \/ n = 0 \/ m = NoMatch THEN <<>>
  ELSE IF m.to # pos THEN <<m>> \o FindAllFrom(re, s, m.to, m.to, n - 1)
  ELSE IF m.from = previousEnd THEN FindAllFrom(re, s, pos + 1, m.to, n)
  ELSE <<m>> \o FindAllFrom(re, s, pos + 1, m.to, n - 1))
FindAllStringIndex(re, s, n) == FindAllFrom(re, s, 0, -1, n)
(***************************************************************************)
(* Fields.                                                                 *)
(***************************************************************************)
FieldBlank(b) == b \in {" ", "\t", "\n"}
RECURSIVE WhitespaceFrom(_, _, _)
WhitespaceFrom(rec, i, fields) ==
  LET start == CHOOSE k \in i..(Len(rec) + 1) : (k = Len(rec) + 1 \/ ~FieldBlank(rec[k])) /\ \A j \in i..(k - 1) : FieldBlank(rec[j])
      end == CHOOSE k \in start..(Len(rec) + 1) : (k = Len(rec) + 1 \/ FieldBlank(rec[k])) /\ \A j \in start..(k - 1) : ~FieldBlank(rec[j])
  IN IF start > Len(rec) THEN SplitDone(fields)
     ELSE IF Len(fields) >= MaxFields THEN TooManyFields
     ELSE WhitespaceFrom(rec, end, Append(fields, SubSeq(rec, start, end - 1)))
\* The parts between separators of one character; with newlines, a newline separates as well.
RECURSIVE SeparatedFrom(_, _, _, _)
SeparatedFrom(s, seps, i, fields) ==
  LET end == SelectInSubSeq(s, i, Len(s), LAMBDA b : b \in seps) IN
  IF Len(fields) >= MaxFields THEN TooManyFields
  ELSE IF end = 0 THEN SplitDone(Append(fields, SubSeq(s, i, Len(s))))
  ELSE SeparatedFrom(s, seps, end + 1, Append(fields, SubSeq(s, i, end - 1)))
RECURSIVE BetweenMatches(_, _, _, _)
BetweenMatches(s, matches, last, fields) ==
  LET m == Head(matches) IN
  IF matches = <<>> THEN SplitDone(Append(fields, SubSeq(s, last + 1, Len(s))))
  ELSE IF m.from = m.to THEN BetweenMatches(s, Tail(matches), last, fields)
  ELSE IF Len(fields) >= MaxFields - 1 THEN TooManyFields
  ELSE BetweenMatches(s, Tail(matches), m.to, Append(fields, SubSeq(s, last + 1, m.from)))
SplitAwkRegex(s, re) == BetweenMatches(s, FindAllStringIndex(re, s, MaxFields), 0, <<>>)
\* A separator is [k, re]: blanks, one character (re.cs) or a regular expression; paragraph says that RS is empty.
SplitAwkRecordFields(s, fs, paragraph) ==
  IF fs.k = "blank" THEN WhitespaceFrom(s, 1, <<>>)
  ELSE IF s = <<>> THEN SplitDone(<<>>)
  ELSE IF fs.k = "regex" THEN SplitAwkRegex(s, fs.re)
  ELSE SeparatedFrom(s, fs.re.cs \cup (IF paragraph THEN {"\n"} ELSE {}), 1, <<>>)
(***************************************************************************)
(* The record as the program changes it: run = [pc, err, record, fields,   *)
(* nf, fs, ofs, last] where last says what gave the record its fields.     *)
(***************************************************************************)
RecordFailed(st, e) == [st EXCEPT !.err = e, !.pc = "done"]
JoinedBy(fields, ofs) == FoldLeft(LAMBDA s, i : s \o (IF i > 1 THEN ofs ELSE <<>>) \o fields[i], <<>>, [i \in DOMAIN fields |-> i])
RebuiltBytes(fields, ofs) == FoldLeft(LAMBDA n, f : n + Len(f), 0, fields) + (IF fields = <<>> THEN 0 ELSE (Len(fields) - 1) * Len(ofs))
SetRecord(st, rec) ==
  Once(SplitAwkRecordFields(rec, st.fs, FALSE), LAMBDA split :
  IF Len(rec) > MaxFieldRecordBytes THEN RecordFailed(st, "record too long")
  ELSE IF split.err # "" THEN RecordFailed(st, split.err)
  ELSE [st EXCEPT !.record = rec, !.fields = split.fields, !.nf = Len(split.fields), !.last = [by |-> "split", fs |-> st.fs, ofs |-> st.ofs]])
RebuildRecord(st, fields) == [st EXCEPT !.fields = fields, !.record = JoinedBy(fields, st.ofs), !.last = [by |-> "join", fs |-> st.fs, ofs |-> st.ofs]]
Padded(fields, n) == [i \in 1..(IF n > Len(fields) THEN n ELSE Len(fields)) |-> IF i <= Len(fields) THEN fields[i] ELSE <<>>]
SetField(st, n, v) ==
  LET fields == [Padded(st.fields, n) EXCEPT ![n] = v] IN
  IF n = 0 THEN SetRecord(st, v)
  ELSE IF n > MaxFields THEN RecordFailed(st, "too many fields")
  ELSE IF RebuiltBytes(fields, st.ofs) > MaxFieldRecordBytes THEN RecordFailed(st, "record too long")
  ELSE [RebuildRecord(st, fields) EXCEPT !.nf = IF n > Len(st.fields) THEN Len(fields) ELSE @]
SetNF(st, n) ==
  LET fields == SubSeq(Padded(st.fields, n), 1, n) IN
  IF n > MaxFields THEN RecordFailed(st, "too many fields")
  ELSE IF RebuiltBytes(fields, st.ofs) > MaxFieldRecordBytes THEN RecordFailed(st, "record too long")
  ELSE [RebuildRecord(st, fields) EXCEPT !.nf = n]
FieldAt(st, n) == IF n = 0 THEN st.record ELSE IF n > Len(st.fields) THEN <<>> ELSE st.fields[n]
AwkFieldsInit == run = [pc |-> "fields", err |-> "", record |-> <<>>, fields |-> <<>>, nf |-> 0, fs |-> call.fs, ofs |-> <<" ">>, last |-> [by |-> "split", fs |-> call.fs, ofs |-> <<>>]]
AwkFieldsStep ==
  /\ call.tool = "awkfields" /\ run.pc = "fields"
  /\ \/ \E n \in 0..(MaxFields + 1), v \in call.texts : run' = SetField(run, n, v)
     \/ \E n \in 0..(MaxFields + 1) : run' = SetNF(run, n)
     \/ \E fs \in call.seps : run' = [run EXCEPT !.fs = fs]
     \/ \E ofs \in {<<",">>, <<" ">>, <<>>} : run' = [run EXCEPT !.ofs = ofs]
(***************************************************************************)
(* What the matches and the fields of a text are.                          *)
(***************************************************************************)
RECURSIVE MatchesFrom(_, _, _, _)
MatchesFrom(re, s, from, previous) ==
  LET starts == {k \in from..Len(s) : MatchEnd(re, s, k) > k \/ (MatchEnd(re, s, k) = k /\ k # previous)}
      k == Min(starts)
      e == MatchEnd(re, s, k)
  IN IF starts = {} THEN <<>> ELSE <<[from |-> k, to |-> e]>> \o MatchesFrom(re, s, e, e)
\* The separators of s, as pairs of the characters before and up to the end of each.
FieldSeparators(s, fs, paragraph) ==
  IF fs.k = "regex" THEN {m \in ToSet(MatchesFrom(fs.re, s, 0, -1)) : m.to > m.from}
  ELSE {[from |-> i - 1, to |-> i] : i \in {j \in DOMAIN s : s[j] \in fs.re.cs \/ (paragraph /\ s[j] = "\n")}}
FieldsOf(s, fs, paragraph) ==
  LET words == {i \in DOMAIN s : ~FieldBlank(s[i]) /\ (i = 1 \/ FieldBlank(s[i - 1]))}
      EndOf(i) == CHOOSE e \in i..Len(s) : (\A k \in i..e : ~FieldBlank(s[k])) /\ (e = Len(s) \/ FieldBlank(s[e + 1]))
  IN  Once(SetToSortSeq(FieldSeparators(s, fs, paragraph), LAMBDA a, b : a.from < b.from), LAMBDA cuts :
  LET From(k) == IF k = 0 THEN 0 ELSE cuts[k].to
      To(k) == IF k = Len(cuts) THEN Len(s) ELSE cuts[k + 1].from
  IN
     IF fs.k = "blank" THEN LET starts == SetToSortSeq(words, <) IN [i \in DOMAIN starts |-> SubSeq(s, starts[i], EndOf(starts[i]))]
     ELSE IF s = <<>> THEN <<>> ELSE [k \in 1..(Len(cuts) + 1) |-> SubSeq(s, From(k - 1) + 1, To(k - 1))])

\* Every match is found, from left to right, none twice and no empty one behind another, also when the search is resumed inside the text.
RegexAllAgree == call.tool = "awksplit" /\ call.fs.k = "regex" =>
  FindAllStringIndex(call.fs.re, call.text, Len(call.text) + 2) = MatchesFrom(call.fs.re, call.text, 0, -1)
\* The fields of a record are the parts between its separators, up to the limit and never silently fewer, as long as the expression has no
\* more matches than that, the empty ones included.
SplitExact == call.tool = "awksplit" =>
  LET r == SplitAwkRecordFields(call.text, call.fs, call.paragraph)
      fields == FieldsOf(call.text, call.fs, call.paragraph)
  IN (call.fs.k = "regex" => Len(MatchesFrom(call.fs.re, call.text, 0, -1)) <= MaxFields) =>
       (IF Len(fields) > MaxFields THEN r.err # "" ELSE r = SplitDone(fields))
\* NF counts the fields, and the record and the fields say the same: either the record was split, or it was put together, with the
\* separator then in force.
RecordAgrees == call.tool = "awkfields" /\ run.pc = "fields" =>
  /\ run.nf = Len(run.fields) /\ run.nf <= MaxFields /\ Len(run.record) <= MaxFieldRecordBytes
  /\ IF run.last.by = "split" THEN run.fields = FieldsOf(run.record, run.last.fs, FALSE) ELSE run.record = JoinedBy(run.fields, run.last.ofs)
\* Assigning a field to itself keeps a record whose fields are separated by the output separator.
ReassignKeeps == call.tool = "awkfields" /\ run.pc = "fields" =>
  (run.last.by = "split" /\ run.last.fs.k = "char" /\ run.record # <<>> /\ {run.ofs} = {<<c>> : c \in run.last.fs.re.cs} =>
     SetField(run, 1, FieldAt(run, 1)).record = run.record)

-----------------------------------------------------------------------------
(***************************************************************************)
(* How awk reads its main input: the operands, which are files and         *)
(* assignments, the scanner that cuts the bytes into records as they       *)
(* arrive, and the counters.  The separator is read again for every        *)
(* record, for the program may change it between two of them.              *)
(***************************************************************************)
CONSTANTS MaxRecordBytes,       \* longest record
          ScannerSlack,         \* what the scanner's buffer holds beyond a record
          MaxInputBytes, MaxInputRecords, MaxFileOpenAttempts,
          RecordCounterLimit,   \* 2^63: NR and FNR wrap round beyond it
          MaxScanRead           \* bytes one read delivers at most

\* call = [tool |-> "awkin", operands, files, seps]: an operand is [k, v], a file name, an assignment of the number v to NR or one
\* that is refused; files gives the texts, seps the separator in force for the first, the second, ... and every later record.
RS(n) == call.seps[IF n < Len(call.seps) THEN n + 1 ELSE Len(call.seps)]
InputTextOf(name) == call.files[name]
NoSource == [name |-> "", rest |-> <<>>, buf |-> <<>>, eof |-> FALSE]
AwkInputInit == run = [pc |-> "open", err |-> "", index |-> 1, had |-> FALSE, defaulted |-> FALSE, src |-> NoSource, advance |-> 0,
                       inputBytes |-> 0, opens |-> 0, records |-> 0, nr |-> 0, fnr |-> 0, out |-> <<>>]
InputFailed(st, e) == [st EXCEPT !.err = e, !.pc = "done", !.src = NoSource]
(***************************************************************************)
(* One record out of the bytes that have arrived: how far to advance, and  *)
(* the record, if there is one.                                            *)
(***************************************************************************)
FirstOf(s, P(_)) == SelectInSeq([i \in DOMAIN s |-> P(i)], LAMBDA b : b)
MoreInput(n) == [advance |-> n, found |-> FALSE, rec |-> <<>>]
RecordToken(n, rec) == [advance |-> n, found |-> TRUE, rec |-> rec]
ScanAwkRecord(data, atEOF, rs) ==
  LET i == FirstOf(data, LAMBDA k : data[k] = rs) IN
  IF i > 0 THEN RecordToken(i, SubSeq(data, 1, i - 1))
  ELSE IF atEOF /\ data # <<>> THEN RecordToken(Len(data), data) ELSE MoreInput(0)
\* Mutant: a single newline at the end of what has arrived ends the paragraph.
SplitAwkParagraphRecordEarly(data, atEOF) ==
  LET leading == FirstOf(Append(data, ""), LAMBDA k : k > Len(data) \/ data[k] # "\n") - 1
      body == SubSeq(data, leading + 1, Len(data))
      i == FirstOf(body, LAMBDA k : body[k] = "\n" /\ (k = Len(body) \/ body[k + 1] = "\n"))
  IN IF leading > 0 /\ (~atEOF \/ leading = Len(data)) THEN MoreInput(leading)
     ELSE IF i > 0 THEN RecordToken(leading + (IF i = Len(body) THEN i ELSE i + 1), SubSeq(body, 1, i - 1))
     ELSE IF atEOF /\ body # <<>> THEN RecordToken(Len(data), IF Last(body) = "\n" THEN Front(body) ELSE body) ELSE MoreInput(0)
SplitAwkParagraphRecord(data, atEOF) ==
  LET leading == FirstOf(Append(data, ""), LAMBDA k : k > Len(data) \/ data[k] # "\n") - 1
      body == SubSeq(data, leading + 1, Len(data))
      i == FirstOf(body, LAMBDA k : k < Len(body) /\ body[k] = "\n" /\ body[k + 1] = "\n")
  IN IF leading > 0 /\ (~atEOF \/ leading = Len(data)) THEN MoreInput(leading)
     ELSE IF i > 0 THEN RecordToken(leading + i + 1, SubSeq(body, 1, i - 1))
     ELSE IF atEOF /\ body # <<>> THEN RecordToken(Len(data), IF Last(body) = "\n" THEN Front(body) ELSE body) ELSE MoreInput(0)
SplitRecord(data, atEOF, rs) == IF rs = "" THEN SplitAwkParagraphRecord(data, atEOF) ELSE ScanAwkRecord(data, atEOF, rs)
(***************************************************************************)
(* The scanner: it splits what it has, and reads more when that is too     *)
(* little.                                                                 *)
(***************************************************************************)
IncrementRecordCounter(n) == IF n >= RecordCounterLimit THEN -RecordCounterLimit ELSE n + 1
ChargeInputBytes(st, n) == [st EXCEPT !.inputBytes = @ + n]
\* The end of the scan for one record: what it went over is charged, a record is counted and handed to the rules.
FinishRecordRead(st, token) ==
  LET charged == [ChargeInputBytes(st, st.advance + token.advance) EXCEPT !.advance = 0, !.src.buf = SubSeq(@, token.advance + 1, Len(@))] IN
  IF Len(token.rec) > MaxRecordBytes THEN InputFailed(charged, "record too long")
  ELSE IF st.records >= MaxInputRecords THEN InputFailed(charged, "too many records")
  ELSE [charged EXCEPT !.records = @ + 1, !.nr = IncrementRecordCounter(@), !.fnr = IncrementRecordCounter(@), !.pc = "scan",
                       !.out = Append(@, [rec |-> token.rec, nr |-> IncrementRecordCounter(st.nr), fnr |-> IncrementRecordCounter(st.fnr), file |-> st.src.name])]
CloseInput(st) == [st EXCEPT !.src = NoSource, !.pc = "open", !.advance = 0]

InputLeft(st, token, pending) == st.advance <= MaxInputBytes - st.inputBytes /\ pending <= MaxInputBytes - st.inputBytes - st.advance
ScanRecord(st) ==
  Once(SplitRecord(st.src.buf, st.src.eof, RS(st.records)), LAMBDA token :
  LET pending == IF token.advance = 0 /\ ~token.found THEN Len(st.src.buf) ELSE token.advance
      skipped == [st EXCEPT !.advance = @ + token.advance, !.src.buf = SubSeq(@, token.advance + 1, Len(@)), !.pc = "read"]
  IN
     IF st.src.buf = <<>> /\ ~st.src.eof THEN [st EXCEPT !.pc = "read"]
     ELSE IF ~InputLeft(st, token, pending) THEN InputFailed(st, "input limit")
     ELSE IF token.found THEN FinishRecordRead(st, token)
     ELSE IF st.src.eof THEN CloseInput(ChargeInputBytes(skipped, skipped.advance))
     ELSE skipped)
BufferFull(st) == Len(st.src.buf) >= MaxRecordBytes + ScannerSlack
FillBuffer(st, n) ==
  IF BufferFull(st) THEN InputFailed(st, "record too long")
  ELSE IF st.src.rest = <<>> THEN [st EXCEPT !.src.eof = TRUE, !.pc = "scan"]
  ELSE [st EXCEPT !.src.buf = @ \o SubSeq(st.src.rest, 1, n), !.src.rest = SubSeq(@, n + 1, Len(@)), !.pc = "scan"]
(***************************************************************************)
(* The operands.                                                           *)
(***************************************************************************)
OpenMainInput(st, name) ==
  IF name # "-" /\ st.opens >= MaxFileOpenAttempts THEN InputFailed(st, "too many files")
  ELSE IF name \notin DOMAIN call.files THEN InputFailed(st, "cannot open")
  ELSE [st EXCEPT !.had = TRUE, !.opens = IF name = "-" THEN @ ELSE @ + 1, !.fnr = IF st.defaulted THEN @ ELSE 0,
                  !.src = [NoSource EXCEPT !.name = name, !.rest = InputTextOf(name)], !.pc = "scan"]
Defaults(st) == ~st.had /\ ~st.defaulted
RECURSIVE OpenNextMainInput(_)
OpenNextMainInput(st) ==
  LET op == call.operands[st.index]
      next == [st EXCEPT !.index = @ + 1]
  IN IF st.index > Len(call.operands) THEN IF Defaults(st) THEN OpenMainInput([st EXCEPT !.defaulted = TRUE], "-") ELSE [st EXCEPT !.pc = "done"]
     ELSE IF op.k = "file" THEN OpenMainInput(next, op.v)
     ELSE IF op.k = "NR" THEN OpenNextMainInput([next EXCEPT !.nr = RecordCounterLimit])
     ELSE IF op.k = "FNR" THEN OpenNextMainInput([next EXCEPT !.fnr = 1])
     ELSE InputFailed(next, "invalid assignment")

AwkInputStep ==
  /\ call.tool = "awkin"
  /\ \/ run.pc = "open" /\ run' = OpenNextMainInput(run)
     \/ run.pc = "scan" /\ run' = ScanRecord(run)
     \/ run.pc = "read" /\ \E n \in 1..MaxOf(1, MinOf(MaxScanRead, MinOf(Len(run.src.rest), MaxRecordBytes + ScannerSlack - Len(run.src.buf)))) :
                            run' = FillBuffer(run, n)
(***************************************************************************)
(* What the records of a text are, and what the whole input is.            *)
(***************************************************************************)
\* The least length of a prefix of s with property P; the length of s if there is none.
LeastPrefix(s, P(_)) == IF \E k \in 0..Len(s) : P(k) THEN CHOOSE k \in 0..Len(s) : P(k) /\ \A j \in 0..(k - 1) : ~P(j) ELSE Len(s)
RECURSIVE RecordsOf(_, _)
RecordsOf(text, n) ==
  LET rs == RS(n)
      from == IF rs = "" THEN LeastPrefix(text, LAMBDA k : k < Len(text) /\ text[k + 1] # "\n") ELSE 0
  IN  Once(SubSeq(text, from + 1, Len(text)), LAMBDA body :
  Once(LeastPrefix(body, LAMBDA k : IF rs = "" THEN k + 1 < Len(body) /\ body[k + 1] = "\n" /\ body[k + 2] = "\n" ELSE k < Len(body) /\ body[k + 1] = rs), LAMBDA end :
  LET rec == SubSeq(body, 1, IF rs = "" /\ end = Len(body) /\ Last(body) = "\n" THEN end - 1 ELSE end)
  IN  IF body = <<>> THEN <<>> ELSE <<rec>> \o RecordsOf(SubSeq(body, end + (IF rs = "" THEN 3 ELSE 2), Len(body)), n + 1)))
\* The records behind operand i, with the counters they are read with, when nothing is refused.
RECURSIVE ExpectedFrom(_, _, _, _, _)
ExpectedFrom(i, had, nr, fnr, n) ==
  LET op == call.operands[i]
      Numbered(name, f) == LET r == RecordsOf(InputTextOf(name), n) IN
        [k \in DOMAIN r |-> [rec |-> r[k], nr |-> IF nr = RecordCounterLimit THEN k - 1 - RecordCounterLimit ELSE nr + k, fnr |-> f + k, file |-> name]]
  IN IF i > Len(call.operands) THEN IF had THEN <<>> ELSE Numbered("-", fnr)
     ELSE CASE op.k = "NR" -> ExpectedFrom(i + 1, had, RecordCounterLimit, fnr, n)
            [] op.k = "FNR" -> ExpectedFrom(i + 1, had, nr, 1, n)
            [] op.k = "file" /\ op.v \in DOMAIN call.files ->
                 LET out == Numbered(op.v, 0) IN
                 out \o (IF out = <<>> THEN ExpectedFrom(i + 1, TRUE, nr, 0, n) ELSE ExpectedFrom(i + 1, TRUE, Last(out).nr, Last(out).fnr, n + Len(out)))
            [] OTHER -> <<>>
ExpectedRecords == ExpectedFrom(1, FALSE, 0, 0, 0)
InputSize == FoldLeft(LAMBDA m, i : m + (IF call.operands[i].k = "file" /\ call.operands[i].v \in DOMAIN call.files THEN Len(InputTextOf(call.operands[i].v)) ELSE 0),
                      IF \E i \in DOMAIN call.operands : call.operands[i].k = "file" THEN 0 ELSE Len(InputTextOf("-")), [i \in DOMAIN call.operands |-> i])

\* The records, and the NR, FNR and FILENAME each is seen with, do not depend on how the bytes arrive: they are those of the text, cut by
\* the separator in force when each is read; standard input is the input when no operand is a file.
RecordsExact == call.tool = "awkin" => IsPrefix(run.out, ExpectedRecords) /\ (run.pc = "done" /\ run.err = "" => run.out = ExpectedRecords)
\* Input is refused only for what is really there: more bytes than the limit, a longer record, more records or more files.
InputRefusalNeeded == call.tool = "awkin" =>
  /\ run.err = "input limit" => InputSize > MaxInputBytes
  /\ run.err = "record too long" => \E i \in DOMAIN ExpectedRecords : Len(ExpectedRecords[i].rec) > MaxRecordBytes
  /\ run.err = "too many records" => Len(ExpectedRecords) > MaxInputRecords
  /\ run.err = "too many files" => Cardinality({i \in DOMAIN call.operands : call.operands[i].k = "file" /\ call.operands[i].v # "-"}) > MaxFileOpenAttempts
\* What awk has taken from its inputs is charged, to the byte, and stays within the limit.
InputCharged == call.tool = "awkin" =>
  /\ run.inputBytes <= MaxInputBytes
  /\ run.pc = "done" /\ run.err = "" => run.inputBytes = InputSize

-----------------------------------------------------------------------------
(***************************************************************************)
(* What awk does with texts: which prefix of a text is its number, substr, *)
(* sub and gsub, printf, and the cache of compiled regular expressions.    *)
(***************************************************************************)
CONSTANTS MaxSubstitutions, MaxReplacedBytes, MaxPrintfBound, MaxPrintfOutput, MaxCacheEntries, MaxCacheBytes
(***************************************************************************)
(* Numbers at the start of a text.                                         *)
(***************************************************************************)
DigitTexts == <<"0", "1", "2", "3", "4", "5", "6", "7", "8", "9">>
DecimalDigits == ToSet(DigitTexts)
\* Where the digits that start at i end.
RECURSIVE PastDigits(_, _)
PastDigits(s, i) == IF i <= Len(s) /\ s[i] \in DecimalDigits THEN PastDigits(s, i + 1) ELSE i
TextHas(s, i, cs) == i <= Len(s) /\ s[i] \in cs
NumericPrefix(s) ==
  LET sign == IF TextHas(s, 1, {"+", "-"}) THEN 2 ELSE 1
  IN  Once(PastDigits(s, sign), LAMBDA whole :
      Once(IF TextHas(s, whole, {"."}) THEN PastDigits(s, whole + 1) ELSE whole, LAMBDA end :
  LET digits == (whole - sign) + (IF end > whole THEN end - whole - 1 ELSE 0)
      mark == IF TextHas(s, end + 1, {"+", "-"}) THEN end + 2 ELSE end + 1
  IN  Once(PastDigits(s, mark), LAMBDA expEnd : IF digits = 0 THEN <<>> ELSE SubSeq(s, 1, (IF TextHas(s, end, {"e"}) /\ expEnd > mark THEN expEnd ELSE end) - 1))))

DigitsOnly(s) == \A i \in DOMAIN s : s[i] \in DecimalDigits
Signed(s) == s # <<>> /\ DigitsOnly(IF s[1] \in {"+", "-"} THEN Tail(s) ELSE s)
Mantissa(s) ==
  \E i \in 0..Len(s) : LET a == SubSeq(s, 1, i) b == SubSeq(s, i + 1, Len(s)) IN
    /\ a = <<>> \/ Signed(a)
    /\ b = <<>> \/ (b[1] = "." /\ DigitsOnly(Tail(b)))
    /\ \E k \in DOMAIN s : s[k] \in DecimalDigits
IsDecimal(s) ==
  \/ Mantissa(s)
  \/ \E i \in 1..(Len(s) - 2) : Mantissa(SubSeq(s, 1, i)) /\ s[i + 1] = "e" /\ Signed(SubSeq(s, i + 2, Len(s))) /\ Last(s) \in DecimalDigits
\* The number of a text is its longest prefix that is a decimal number.
NumberIsLongest == call.tool = "awknumber" =>
  LET ks == {k \in 1..Len(call.text) : IsDecimal(SubSeq(call.text, 1, k))} IN
  NumericPrefix(call.text) = (IF ks = {} THEN <<>> ELSE SubSeq(call.text, 1, Max(ks)))
(***************************************************************************)
(* substr.                                                                 *)
(***************************************************************************)
SubstrStart(n, length) == IF n <= 1 THEN 0 ELSE IF n > length THEN length ELSE n - 1
SubstrEnd(start, length, count) == IF count <= 0 THEN start ELSE IF count >= length - start THEN length ELSE start + count
SubstrFrom(s, n) == SubSeq(s, SubstrStart(n, Len(s)) + 1, Len(s))
SubstrOf(s, n, count) == LET start == SubstrStart(n, Len(s)) IN IF start >= Len(s) THEN <<>> ELSE SubSeq(s, start + 1, SubstrEnd(start, Len(s), count))
\* A text is its first k characters and those from k + 1 on, whatever k is; and a part is cut out of the text, never longer than asked for.
SubstrParts == call.tool = "awksubstr" =>
  /\ SubstrOf(call.text, 1, call.k) \o SubstrFrom(call.text, call.k + 1) = call.text
  /\ \A n \in 1..(Len(call.text) + 1) : SubstrOf(call.text, n, call.k) = SubSeq(call.text, n, MinOf(n + MaxOf(call.k, 0) - 1, Len(call.text)))
(***************************************************************************)
(* sub and gsub.                                                           *)
(***************************************************************************)
Escapes(backslashes) == backslashes % 2 = 1
\* The replacement for one match: & stands for it, backslashes escape an & behind them and nothing else.
RECURSIVE AwkReplacement(_, _)
AwkReplacement(text, matched) ==
  LET run0 == SelectInSeq(Append(text, ""), LAMBDA b : b # "\\") - 1
      after == run0 + 1
      kept == SubSeq(text, 1, run0)
  IN IF text = <<>> THEN <<>>
     ELSE IF run0 = 0 THEN (IF text[1] = "&" THEN matched ELSE <<text[1]>>) \o AwkReplacement(Tail(text), matched)
     ELSE IF ~TextHas(text, after, {"&"}) THEN kept \o AwkReplacement(SubSeq(text, after, Len(text)), matched)
     ELSE SubSeq(text, 1, run0 \div 2) \o (IF Escapes(run0) THEN <<"&">> ELSE matched) \o AwkReplacement(SubSeq(text, after + 1, Len(text)), matched)
RECURSIVE ReplacedFrom(_, _, _, _)
ReplacedFrom(s, matches, text, last) ==
  IF matches = <<>> THEN SubSeq(s, last + 1, Len(s))
  ELSE LET m == Head(matches) IN
       SubSeq(s, last + 1, m.from) \o AwkReplacement(text, SubSeq(s, m.from + 1, m.to)) \o ReplacedFrom(s, Tail(matches), text, m.to)
SubstituteAwk(re, s, text, all) ==
  LET found == FindAllStringIndex(re, s, MaxSubstitutions + 1)
      first == FindRegex(re, s)
  IN  Once(IF all THEN found ELSE IF first = NoMatch THEN <<>> ELSE <<first>>, LAMBDA matches :
  LET out == ReplacedFrom(s, matches, text, 0)
  IN
     IF Len(matches) > MaxSubstitutions THEN [err |-> "too many matches", s |-> <<>>, n |-> 0]
     ELSE IF matches = <<>> THEN [err |-> "", s |-> s, n |-> 0]
     ELSE IF Len(out) > MaxReplacedBytes THEN [err |-> "too long", s |-> <<>>, n |-> 0] ELSE [err |-> "", s |-> out, n |-> Len(matches)])

\* A text quoted for the replacement: an & and the backslashes before it are escaped.
RECURSIVE Quoted(_)
Quoted(t) ==
  LET run0 == SelectInSeq(Append(t, ""), LAMBDA b : b # "\\") - 1
      end == IF TextHas(t, run0 + 1, {"&"}) THEN run0 + 1 ELSE MaxOf(run0, 1)
  IN IF t = <<>> THEN <<>>
     ELSE (IF TextHas(t, run0 + 1, {"&"}) THEN SubSeq(t, 1, run0) \o SubSeq(t, 1, run0) \o <<"\\", "&">> ELSE SubSeq(t, 1, end)) \o Quoted(SubSeq(t, end + 1, Len(t)))
\* Any text can be written as a replacement, and & alone stands for what matched: the first match for sub, each one for gsub, and a
\* replacement of every match by itself keeps the text.
ReplacementQuotes == call.tool = "awkgsub" =>
  /\ AwkReplacement(Quoted(call.repl), call.text) = call.repl
  /\ Once(SubstituteAwk(call.re, call.text, <<"&">>, TRUE), LAMBDA r : r.err = "" => r.s = call.text /\ r.n = Len(MatchesFrom(call.re, call.text, 0, -1)))
  /\ LET r == SubstituteAwk(call.re, call.text, Quoted(call.repl), FALSE)
         ms == MatchesFrom(call.re, call.text, 0, -1)
     IN r.err = "" /\ ms # <<>> => r.s = SubSeq(call.text, 1, ms[1].from) \o call.repl \o SubSeq(call.text, ms[1].to + 1, Len(call.text))
(***************************************************************************)
(* printf: the output is a sequence of characters and of formatted values, *)
(* [verb, flags, width, prec, v], which the library pads to their width.   *)
(* An argument is a number.                                                *)
(***************************************************************************)
Omitted == -1
PrintfError(e) == [err |-> e, out |-> <<>>, used |-> 0]
FormatItem(verb, flags, width, prec, v) == [verb |-> verb, flags |-> flags, width |-> width, prec |-> prec, v |-> v]
LiteralItem(ch) == FormatItem(ch, {}, Omitted, Omitted, 0)
FormatItemBytes(item) == MaxOf(item.width, 1)
DigitOf(ch) == SelectInSeq(DigitTexts, LAMBDA d : d = ch) - 1
Exceeds(n, digit) == n > (MaxPrintfBound - digit) \div 10
\* The digits at i as a bound; Omitted when it exceeds the limit.
RECURSIVE ConsumePrintfBound(_, _, _)
ConsumePrintfBound(format, i, n) ==
  IF ~TextHas(format, i, DecimalDigits) THEN [at |-> i, n |-> n]
  ELSE IF Exceeds(n, DigitOf(format[i])) THEN [at |-> i, n |-> Omitted]
  ELSE ConsumePrintfBound(format, i + 1, n * 10 + DigitOf(format[i]))
\* A width or precision at i: digits, or the next argument.
PrintfBound(format, i, args, arg, negativeOmitted) ==
  LET b == ConsumePrintfBound(format, i, 0)
      v == args[arg + 1]
      bound(at, used, n, given, err) == [at |-> at, arg |-> used, n |-> n, given |-> given, err |-> err]
  IN IF ~TextHas(format, i, {"*"}) THEN bound(b.at, arg, b.n, b.at > i, IF b.n = Omitted THEN "bound" ELSE "")
     ELSE IF arg >= Len(args) THEN bound(i, arg, 0, FALSE, "not enough arguments")
     ELSE IF negativeOmitted /\ v < 0 THEN bound(i + 1, arg + 1, 0, FALSE, "")
     ELSE IF v > MaxPrintfBound \/ v < -MaxPrintfBound THEN bound(i, arg, 0, FALSE, "bound")
     ELSE bound(i + 1, arg + 1, v, TRUE, "")
\* The flags a verb is formatted with.
VerbFlags(verb, flags, v) ==
  CASE verb \in {"s", "c"} -> flags \ {"0"}
    [] verb = "u" -> flags \ {"+", "#"}
    [] verb = "x" /\ v = 0 -> flags \ {"#"}
    [] OTHER -> flags
RECURSIVE PrintfFrom(_, _, _, _, _)
PrintfFrom(format, i, args, arg, out) ==
  LET flagsEnd == CHOOSE k \in (i + 1)..(Len(format) + 1) : ~TextHas(format, k, {"-", "+", "#", "0"}) /\ \A j \in (i + 1)..(k - 1) : TextHas(format, j, {"-", "+", "#", "0"})
      flags == {format[j] : j \in (i + 1)..(flagsEnd - 1)}
  IN  Once(PrintfBound(format, flagsEnd, args, arg, FALSE), LAMBDA width :
  LET left == IF width.n < 0 THEN (flags \ {"0"}) \cup {"-"} ELSE flags
      dot == TextHas(format, width.at, {"."})
  IN  Once(IF dot THEN PrintfBound(format, width.at + 1, args, width.arg, TRUE) ELSE width, LAMBDA prec :
  LET verbAt == prec.at
      verb == format[verbAt]
      v == args[prec.arg + 1]
      shown == IF dot /\ (prec.given \/ ~TextHas(format, width.at + 1, {"*"})) THEN prec.n ELSE IF verb = "g" THEN 6 ELSE Omitted
      item == FormatItem(verb, VerbFlags(verb, left, v), IF width.given THEN (IF width.n < 0 THEN -width.n ELSE width.n) ELSE Omitted, shown, v)
      size(o) == FoldLeft(LAMBDA n, x : n + FormatItemBytes(x), 0, o)
      Emit(x, at, used) == IF size(out) + FormatItemBytes(x) > MaxPrintfOutput THEN PrintfError("output") ELSE PrintfFrom(format, at, args, used, Append(out, x))
  IN
     IF i > Len(format) THEN [err |-> "", out |-> out, used |-> arg]
     ELSE IF format[i] # "%" THEN Emit(LiteralItem(format[i]), i + 1, arg)
     ELSE IF i = Len(format) \/ format[i + 1] = "%" THEN Emit(LiteralItem("%"), i + 2, arg)
     ELSE IF width.err # "" THEN PrintfError(width.err)
     ELSE IF prec.err # "" THEN PrintfError(prec.err)
     ELSE IF verbAt > Len(format) THEN PrintfError("unterminated")
     ELSE IF prec.arg >= Len(args) THEN PrintfError("not enough arguments")
     ELSE IF verb \notin {"s", "d", "u", "x", "g", "c"} THEN PrintfError("unsupported")
     ELSE Emit(item, verbAt + 1, prec.arg + 1)))
FormatPrintf(format, args) == PrintfFrom(format, 1, args, 0, <<>>)

\* A directive is [flags, width, prec, verb], or a character to write; a bound is [k, n]: none, a number, a star or a lone dot.
DigitText(n) == IF n < 10 THEN <<DigitTexts[n + 1]>> ELSE <<DigitTexts[(n \div 10) + 1], DigitTexts[(n % 10) + 1]>>
SpelledBound(b) == CASE b.k = "num" -> DigitText(b.n) [] b.k = "star" -> <<"*">> [] OTHER -> <<>>
SpelledDirective(d) == IF d.verb = "%" THEN <<"%", "%">>
                       ELSE IF d.verb = "a" THEN <<"a">>
                       ELSE <<"%">> \o d.flags \o SpelledBound(d.width) \o (IF d.prec.k = "none" THEN <<>> ELSE <<".">> \o SpelledBound(d.prec)) \o <<d.verb>>
FormatOf(ds) == FlattenSeq([i \in DOMAIN ds |-> SpelledDirective(ds[i])])
\* What the directives ask for, each with the arguments that are its own.
Stars(d) == Cardinality({x \in {"width", "prec"} : d[x].k = "star"})
Arguments(d) == IF d.verb \in {"%", "a"} THEN 0 ELSE Stars(d) + 1
WantedItem(d, args) ==
  LET w == IF d.width.k = "star" THEN args[1] ELSE d.width.n
      p == IF d.prec.k = "star" THEN args[Stars(d)] ELSE d.prec.n
      v == Last(args)
      left == IF d.width.k = "star" /\ w < 0 THEN (ToSet(d.flags) \ {"0"}) \cup {"-"} ELSE ToSet(d.flags)
  IN FormatItem(d.verb, VerbFlags(d.verb, left, v), IF d.width.k = "none" THEN Omitted ELSE IF w < 0 THEN -w ELSE w,
          IF d.prec.k = "none" \/ (d.prec.k = "star" /\ p < 0) THEN (IF d.verb = "g" THEN 6 ELSE Omitted) ELSE p, v)
RECURSIVE WantedOutput(_, _)
WantedOutput(ds, args) ==
  LET d == Head(ds)
      n == Arguments(d)
      own == SubSeq(args, 1, n)
      over(b, v) == IF b.k = "num" THEN b.n > MaxPrintfBound ELSE b.k = "star" /\ v > MaxPrintfBound
      low == n > 0 /\ d.width.k = "star" /\ own[1] < -MaxPrintfBound
      item == IF n = 0 THEN LiteralItem(d.verb) ELSE WantedItem(d, own)
      rest == WantedOutput(Tail(ds), SubSeq(args, n + 1, Len(args)))
  IN IF ds = <<>> THEN [ok |-> TRUE, out |-> <<>>]
     ELSE IF n > Len(args) \/ (n > 0 /\ (low \/ over(d.width, own[1]) \/ over(d.prec, own[Stars(d)]))) THEN [ok |-> FALSE, out |-> <<>>]
     ELSE [ok |-> rest.ok, out |-> <<item>> \o rest.out]
\* A format does what its directives ask for, each star and each verb taking the next argument, and it is refused exactly when an argument
\* is missing, a bound is too large or the output too long.
PrintfReadsBack == call.tool = "awkprintf" =>
  LET r == FormatPrintf(FormatOf(call.ds), call.args)
      want == WantedOutput(call.ds, call.args)
      fits == FoldLeft(LAMBDA n, x : n + FormatItemBytes(x), 0, want.out) <= MaxPrintfOutput
  IN IF want.ok /\ fits THEN r.err = "" /\ r.out = want.out ELSE r.err # ""
(***************************************************************************)
(* The cache of compiled expressions: run = [pc, order, bytes], the        *)
(* patterns from the oldest to the newest and their size.                  *)
(***************************************************************************)
CacheInit == run = [pc |-> "cache", order |-> <<>>, bytes |-> 0]
NoRoom(c, pattern) == Len(c.order) >= MaxCacheEntries \/ c.bytes + Len(pattern) > MaxCacheBytes
Evicted(c) == [c EXCEPT !.order = Tail(@), !.bytes = @ - Len(Head(c.order))]
\* Evicting from an empty cache would be an index out of range.
RECURSIVE EvictFor(_, _)
EvictFor(c, pattern) == IF ~NoRoom(c, pattern) THEN c ELSE IF c.order = <<>> THEN [c EXCEPT !.pc = "panic"] ELSE EvictFor(Evicted(c), pattern)
RememberRegex(c, pattern) ==
  LET room == EvictFor(c, pattern) IN
  IF Len(pattern) > MaxCacheBytes THEN c ELSE [room EXCEPT !.order = Append(@, pattern), !.bytes = @ + Len(pattern)]
AwkCacheStep ==
  /\ call.tool = "awkcache" /\ run.pc = "cache"
  /\ \E pattern \in call.patterns : run' = IF pattern \in ToSet(run.order) THEN run ELSE RememberRegex(run, pattern)

\* However long the program runs, the cache holds each pattern once, knows its own size, stays within its limits, and making room never
\* runs out of patterns to evict.
CacheExact == call.tool = "awkcache" =>
  /\ run.pc = "cache"
  /\ IsInjective(run.order) /\ Len(run.order) <= MaxCacheEntries
  /\ run.bytes = FoldLeft(LAMBDA n, p : n + Len(p), 0, run.order) /\ run.bytes <= MaxCacheBytes

\* The records of awk do not depend on how the input arrives, the record, its
\* fields and NF say the same through every assignment, and matches, numbers,
\* parts, substitutions and formats are those of the text, charged and refused
\* exactly at their limits.
AwkTextTrue ==
  /\ RegexAllAgree
  /\ SplitExact
  /\ RecordAgrees
  /\ ReassignKeeps
  /\ RecordsExact
  /\ InputRefusalNeeded
  /\ InputCharged
  /\ NumberIsLongest
  /\ SubstrParts
  /\ ReplacementQuotes
  /\ PrintfReadsBack
  /\ CacheExact

=============================================================================

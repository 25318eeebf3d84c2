-------------------------------- MODULE Xargs --------------------------------
(***************************************************************************)
(* xargs (builtins/xargs): the options, the tokenizers of the four input   *)
(* modes, the batches against -n, -L and -s, and the commands that are run *)
(* for them.  A byte is "n" (newline), " ", "'", "d" (double quote), "b"   *)
(* (backslash), "0" (NUL) or an ordinary one.                              *)
(*                                                                         *)
(* call: flags in the order they are given, argv, file ("ok", "absent",    *)
(* "refused"), in (the bytes), broken (reading ends with an error), want   *)
(* and last (the items the writer of the input meant, and for each whether *)
(* it is the last of its line), allowed (the commands that may run), fates *)
(* (how a command may end) and cancels.                                    *)
(***************************************************************************)
EXTENDS Call

CONSTANTS MaxTokenBytes, DefaultMaxChars, HardMaxChars, HardMaxArgs

-----------------------------------------------------------------------------
(* The options.                                                              *)

\* Where the flag named f was given last, 0 if it was not.
LastFlag(flags, f) == CHOOSE i \in 0..Len(flags) : (i = 0 \/ flags[i].f = f) /\ \A k \in (i + 1)..Len(flags) : flags[k].f # f

\* Of the options that exclude each other the last one given counts.
Winner(flags, group, f) ==
  LastFlag(flags, f) > 0 /\ \A g \in group : LastFlag(flags, g) <= LastFlag(flags, f)

InvalidCount(n) == n <= 0 \/ n > HardMaxArgs

\* decodeDelim: a byte, an escape, or the number of a byte in octal or hexadecimal.
DecodeDelim(d) ==
  CASE d.k = "char" -> d.c
    [] d.k = "escape" -> d.c
    [] d.k = "number" /\ d.value <= 255 -> d.c
    [] OTHER -> "bad"

BuildOptions(flags, argv) ==
  LET Number(f, default) == IF LastFlag(flags, f) > 0 THEN flags[LastFlag(flags, f)].n ELSE default
      Text(f) == IF LastFlag(flags, f) > 0 THEN flags[LastFlag(flags, f)].s ELSE <<>>
      batching == {"n", "L", "I"}
      Count(f) == IF Winner(flags, batching, f) THEN Number(f, 0) ELSE 0
      null == Winner(flags, {"0", "d"}, "0")
      given == Winner(flags, {"0", "d"}, "d")
      delim == IF null THEN "0" ELSE IF given THEN DecodeDelim(flags[LastFlag(flags, "d")].d) ELSE "n"
      repl == IF Winner(flags, batching, "I") THEN Text("I") ELSE <<>>
      s == Number("s", DefaultMaxChars)
      invalid == \/ delim = "bad" \/ s <= 0
                 \/ Winner(flags, batching, "I") /\ repl = <<>>
                 \/ \E f \in {"L", "n"} : Winner(flags, batching, f) /\ InvalidCount(Count(f))
  IN  [ok |-> ~invalid,
       mode |-> IF null THEN "null" ELSE IF given THEN "delim" ELSE IF repl # <<>> THEN "line" ELSE "white",
       delim |-> delim, eofStr |-> IF null \/ given THEN <<>> ELSE Text("E"), replStr |-> repl,
       maxLines |-> IF repl # <<>> THEN 1 ELSE Count("L"), maxArgs |-> IF repl # <<>> THEN 1 ELSE Count("n"),
       maxChars |-> IF s > HardMaxChars THEN HardMaxChars ELSE s,
       noRunEmpty |-> LastFlag(flags, "r") > 0, exitOnSize |-> LastFlag(flags, "x") > 0,
       line |-> IF argv = <<>> THEN << <<"e">> >> ELSE argv]

UseReplace(o) == o.replStr # <<>>

-----------------------------------------------------------------------------
(* The tokenizers.  t: pos, eof, atLineStart, nulSeen.                        *)

Whitespace == {" ", "n"}
IsEofMarker(o, buf) == o.eofStr # <<>> /\ buf = o.eofStr

Token(buf, ends, t) == [k |-> "item", item |-> buf, ends |-> ends, t |-> t]
NoToken(t) == [k |-> "none", t |-> [t EXCEPT !.eof = TRUE]]
TokenError(t) == [k |-> "error", t |-> t]
Marked(o, buf, ends, t) == IF IsEofMarker(o, buf) THEN NoToken(t) ELSE Token(buf, ends, t)

\* Where the bytes of set begin at or after p.
NextOf(in, p, set) ==
  LET at == {i \in p..Len(in) : in[i] \in set} IN IF at = {} THEN Len(in) + 1 ELSE CHOOSE i \in at : \A k \in at : i <= k

NextDelimited(in, broken, sep, t) ==
  LET end == NextOf(in, t.pos, {sep})
      record == SubSeq(in, t.pos, end - 1)
      kept == SubSeq(record, 1, NextOf(record, 1, {"0"}) - 1)
  IN  CASE Len(kept) > MaxTokenBytes -> TokenError(t)
        [] end > Len(in) /\ broken -> TokenError(t)
        [] end > Len(in) /\ record = <<>> -> NoToken(t)
        [] OTHER -> Token(kept, TRUE, [t EXCEPT !.pos = end + 1, !.eof = end > Len(in)])

\* The NUL in a word: the rest of the word, or with -I of the line, is dropped.
SkipNul(o, in, t) ==
  LET end == NextOf(in, t.pos, IF o.mode = "line" THEN {"n"} ELSE Whitespace)
      newline == end <= Len(in) /\ in[end] = "n"
  IN  [newline |-> newline,
       t |-> [t EXCEPT !.pos = IF o.mode = "line" THEN end + 1 ELSE end, !.nulSeen = TRUE,
                       !.atLineStart = newline \/ @, !.eof = end > Len(in)]]

\* The end of the input inside an item.
AtEnd(o, broken, buf, quote, starts, t) ==
  CASE broken \/ quote # "" -> TokenError(t)
    [] buf = <<>> -> NoToken(t)
    [] IsEofMarker(o, buf) /\ (o.mode = "line" \/ starts) -> NoToken(t)
    [] OTHER -> Token(buf, TRUE, [t EXCEPT !.eof = TRUE])

Escaped(in, t) == <<in[t.pos]>>

RECURSIVE NextWord(_, _, _, _, _, _, _)
NextWord(o, in, broken, buf, quote, starts, t) ==
  IF t.pos > Len(in) THEN AtEnd(o, broken, buf, quote, starts, t)
  ELSE LET b == in[t.pos]
           past == [t EXCEPT !.pos = @ + 1]
           Go(more, q, u) == IF Len(buf) + Len(more) > MaxTokenBytes THEN TokenError(u)
                             ELSE NextWord(o, in, broken, buf \o more, q, starts, u)
       IN  CASE quote # "" /\ b = quote -> Go(<<>>, "", past)
             [] quote # "" /\ b = "n" -> TokenError(past)
             [] quote # "" -> Go(<<b>>, quote, past)
             [] b \in {"'", "d"} -> Go(<<>>, b, past)
             [] b = "b" /\ past.pos > Len(in) -> Go(<<>>, "", past)
             [] b = "b" -> Go(Escaped(in, past), "", [past EXCEPT !.pos = @ + 1])
             [] b = "0" -> LET r == SkipNul(o, in, past)
                           IN  IF broken /\ r.t.eof THEN TokenError(past) ELSE Marked(o, buf, o.mode = "line" \/ r.newline, r.t)
             [] b = "n" \/ (b = " " /\ o.mode = "white") ->
                  Marked(o, buf, b = "n", IF o.mode = "white" THEN [past EXCEPT !.atLineStart = (b = "n")] ELSE past)
             [] OTHER -> Go(<<b>>, "", [past EXCEPT !.atLineStart = FALSE])

\* The blanks before an item, blank lines too.
SkipLeading(in, t) ==
  LET at == {i \in t.pos..Len(in) : in[i] \notin Whitespace}
      first == IF at = {} THEN Len(in) + 1 ELSE CHOOSE i \in at : \A k \in at : i <= k
  IN  [t EXCEPT !.pos = first, !.atLineStart = @ \/ \E i \in t.pos..(first - 1) : in[i] = "n"]

NextWhitespace(o, in, broken, t) == LET u == SkipLeading(in, t) IN NextWord(o, in, broken, <<>>, "", u.atLineStart, u)

\* With -I a line is an item.
NextLine(o, in, broken, t) == NextWord(o, in, broken, <<>>, "", TRUE, SkipLeading(in, t))

NextItem(o, in, broken, t) ==
  CASE t.eof -> NoToken(t)
    [] o.mode \in {"null", "delim"} -> NextDelimited(in, broken, o.delim, t)
    [] o.mode = "line" -> NextLine(o, in, broken, t)
    [] OTHER -> NextWhitespace(o, in, broken, t)

-----------------------------------------------------------------------------
(* The commands.                                                             *)

CommandLineLen(words) == FoldFunction(LAMBDA w, n : Len(w) + 1 + n, 0, words)

ReplaceFits(o, item) == ~AddLine(NewBudget(o.maxChars), o.line, o.replStr, item).exceeded

\* The words of the command for a batch.
ResolveCmd(o, batch) ==
  IF UseReplace(o) THEN [i \in DOMAIN o.line |-> Substitute(o.line[i], o.replStr, batch[1])] ELSE o.line \o batch

Meta == {" ", "n", "'", "d", "b", "*"}

ShellQuote(w) == IF w = <<>> THEN <<"'", "'">> ELSE IF \E i \in DOMAIN w : w[i] \in Meta
                 THEN <<"'">> \o Substitute(w, <<"'">>, <<"'", "b", "'", "'">>) \o <<"'">> ELSE w

PrintVerbose(words) == FoldLeft(LAMBDA text, w : (IF text = <<>> THEN <<>> ELSE text \o <<" ">>) \o ShellQuote(w), <<>>, words)

ReadsStdin == LastFlag(call.flags, "a") = 0

\* Mutant: the command reads from where xargs reads.
ChildStdinShared == "parent"

ChildStdin == IF ReadsStdin THEN "empty" ELSE "parent"

\* How a command can end: its status, or no start at all.
Fates == {"0", "1", "255", "unknown", "broken"}

ExitOf(fate) == CASE fate = "0" -> 0 [] fate = "255" -> 124 [] fate = "unknown" -> 127 [] fate = "broken" -> 125 [] OTHER -> 123

Stops(fate) == fate \in {"255", "unknown", "broken"}

Higher(m, n) == IF m > n THEN m ELSE n
ExitXargs(code) == run' = [run EXCEPT !.pc = "done", !.code = code]

\* invokeCommand and flush; next is where the loop goes on.
InvokeCommand(batch, next) ==
  LET o == run.o
      words == ResolveCmd(o, batch)
      Ended(code) == run' = [run EXCEPT !.pc = "done", !.code = Higher(@, code), !.stopped = TRUE]
  IN  \/ run.cancelled /\ Ended(1)
      \/ ~run.cancelled /\ UseReplace(o) /\ ~ReplaceFits(o, batch[1]) /\ Ended(1)
      \/ /\ ~run.cancelled /\ ~(UseReplace(o) /\ ~ReplaceFits(o, batch[1]))
         /\ Head(words) \notin call.allowed
         /\ Ended(125)
      \/ /\ ~run.cancelled /\ ~(UseReplace(o) /\ ~ReplaceFits(o, batch[1]))
         /\ Head(words) \in call.allowed
         /\ \E fate \in call.fates, takes \in IF ChildStdin = "parent" /\ ReadsStdin THEN BOOLEAN ELSE {FALSE} :
              run' = [run EXCEPT !.pc = IF Stops(fate) THEN "done" ELSE next, !.code = Higher(@, ExitOf(fate)),
                                 !.stopped = Stops(fate), !.batch = <<>>, !.lines = 0, !.used = CommandLineLen(o.line),
                                 !.ran = Append(@, [items |-> batch, words |-> words, fate |-> fate, shown |-> PrintVerbose(words)]),
                                 !.in = IF takes THEN SubSeq(@, 1, run.t.pos - 1) ELSE @]

-----------------------------------------------------------------------------
(* The loop.                                                                  *)

XargsInit ==
  run = [pc |-> "open", o |-> BuildOptions(call.flags, call.argv), t |-> [pos |-> 1, eof |-> FALSE, atLineStart |-> TRUE, nulSeen |-> FALSE],
         in |-> call.in, batch |-> <<>>, lines |-> 0, used |-> CommandLineLen(BuildOptions(call.flags, call.argv).line),
         code |-> 0, total |-> 0, tokErr |-> FALSE, item |-> <<>>, ends |-> FALSE, cancelled |-> FALSE, stopped |-> FALSE,
         ran |-> <<>>]

OpenInput ==
  /\ run.pc = "open"
  /\ CASE ~run.o.ok -> ExitXargs(1)
       [] ~ReadsStdin /\ call.file = "refused" -> ExitXargs(1)
       [] ReadsStdin /\ call.file = "absent" -> run' = [run EXCEPT !.pc = "empty"]
       [] OTHER -> run' = [run EXCEPT !.pc = "read"]

ReadItem ==
  /\ run.pc = "read"
  /\ IF run.cancelled THEN ExitXargs(1)
     ELSE (\E r \in {NextItem(run.o, run.in, call.broken, run.t)} :
              CASE r.k = "error" -> run' = [run EXCEPT !.pc = "last", !.code = Higher(@, 1), !.tokErr = TRUE]
                [] r.k = "none" -> run' = [run EXCEPT !.pc = "last", !.t = r.t]
                [] OTHER -> run' = [run EXCEPT !.pc = "fit", !.t = r.t, !.item = r.item, !.ends = r.ends])

ItemTooLong == ~UseReplace(run.o) /\ run.used + Len(run.item) + 1 > run.o.maxChars

\* A batch that must not be split: with -L a line, with -n -x a full batch.
Indivisible(o) == o.maxLines > 0 \/ (o.exitOnSize /\ o.maxArgs > 0)

Full(o, n, lines) == (o.maxArgs > 0 /\ n >= o.maxArgs) \/ (o.maxLines > 0 /\ lines >= o.maxLines)

FitItem ==
  /\ run.pc = "fit"
  /\ \/ ItemTooLong /\ (run.batch = <<>> \/ Indivisible(run.o)) /\ ExitXargs(1)
     \/ ItemTooLong /\ run.batch # <<>> /\ ~Indivisible(run.o) /\ InvokeCommand(run.batch, "fit")
     \/ /\ ~ItemTooLong
        /\ LET lines == IF run.ends THEN run.lines + 1 ELSE run.lines
           IN  run' = [run EXCEPT !.batch = Append(@, run.item), !.used = @ + Len(run.item) + 1, !.lines = lines, !.total = @ + 1,
                                  !.pc = IF Full(run.o, Len(run.batch) + 1, lines) THEN "flush" ELSE "read"]

FlushBatch == run.pc = "flush" /\ InvokeCommand(run.batch, "read")

\* The end of the input: the rest of the items, or the command once without any.
LastBatch ==
  /\ run.pc = "last"
  /\ \/ run.batch # <<>> /\ InvokeCommand(run.batch, "last")
     \/ run.batch = <<>> /\ run.total = 0 /\ ~run.tokErr /\ run' = [run EXCEPT !.pc = "empty"]
     \/ run.batch = <<>> /\ (run.total > 0 \/ run.tokErr) /\ ExitXargs(run.code)

FinishEmpty ==
  /\ run.pc = "empty"
  /\ \/ (run.o.noRunEmpty \/ UseReplace(run.o)) /\ ExitXargs(run.code)
     \/ ~(run.o.noRunEmpty \/ UseReplace(run.o)) /\ CommandLineLen(run.o.line) > run.o.maxChars /\ ExitXargs(Higher(run.code, 1))
     \/ ~(run.o.noRunEmpty \/ UseReplace(run.o)) /\ CommandLineLen(run.o.line) <= run.o.maxChars /\ InvokeCommand(<<>>, "end")

AfterEmpty == run.pc = "end" /\ ExitXargs(run.code)

CancelXargs == run.pc \notin {"done", "open"} /\ ~run.cancelled /\ call.cancels /\ run' = [run EXCEPT !.cancelled = TRUE]

XargsStep == call.tool = "xargs" /\ (OpenInput \/ ReadItem \/ FitItem \/ FlushBatch \/ LastBatch \/ FinishEmpty \/ AfterEmpty \/ CancelXargs)

-----------------------------------------------------------------------------
(* Properties.                                                               *)

Xargs == call.tool = "xargs"
Passed == FlattenSeq([i \in DOMAIN run.ran |-> run.ran[i].items])
ItemLast(i) == call.last[i]

\* The commands get the items of the input in their order, none twice and none made up, however
\* they were quoted and wherever xargs was stopped.
XargsOrder == Xargs => IsPrefix(Passed, call.want)

\* Status 0 tells that every item was passed and every command succeeded, and 123, when the
\* input had no error and nothing stopped the commands, that every item was passed although
\* a command failed.
XargsComplete ==
  Xargs /\ run.pc = "done" =>
    /\ run.code = 0 => Passed = call.want /\ \A i \in DOMAIN run.ran : run.ran[i].fate = "0"
    /\ run.code = 123 /\ ~run.tokErr /\ ~run.stopped => Passed = call.want /\ \E i \in DOMAIN run.ran : run.ran[i].fate = "1"

\* No command line is longer than -s, has more items than -n or more lines than -L, although the
\* size is counted while the batch grows and for -I before the replacement is made.
XargsFits ==
  Xargs => \A i \in DOMAIN run.ran :
    LET before == Len(FlattenSeq([k \in 1..(i - 1) |-> run.ran[k].items]))
        n == Len(run.ran[i].items)
    IN  /\ CommandLineLen(run.ran[i].words) <= run.o.maxChars
        /\ run.o.maxArgs > 0 => n <= run.o.maxArgs
        /\ run.o.maxLines > 0 /\ IsPrefix(Passed, call.want) =>
             Cardinality({k \in (before + 1)..(before + n) : ItemLast(k)}) <= run.o.maxLines

\* An item is refused for its length only when the command line with it would really be too long.
RefusalIsNeeded ==
  Xargs /\ run.pc = "done" /\ run.code = 1 /\ run.o.ok /\ ~run.cancelled /\ ~run.tokErr /\ call.file = "ok" =>
    CommandLineLen(IF run.total = 0 /\ run.item = <<>> /\ call.want = <<>> THEN run.o.line
                   ELSE IF UseReplace(run.o) THEN ResolveCmd(run.o, <<run.item>>)
                   ELSE run.o.line \o run.batch \o <<run.item>>) > run.o.maxChars

\* With -L a line of the input is never divided between two commands.
WholeLines ==
  Xargs /\ run.o.maxLines > 0 /\ ~run.tokErr =>
    \A i \in DOMAIN run.ran : run.ran[i].items # <<>> =>
      ItemLast(Len(FlattenSeq([k \in 1..i |-> run.ran[k].items])))

\* After a command that exits with 255 or cannot be started, none is run.
NothingAfterStop ==
  Xargs => \A i \in 1..(Len(run.ran) - 1) : run.ran[i].fate \notin {"255", "unknown", "broken"}

\* The words a shell reads from a line of text with single quotes and backslashes.
RECURSIVE ShellWords(_, _, _, _)
ShellWords(text, word, open, quoted) ==
  LET rest == Tail(text)
      done == IF open THEN <<word>> ELSE <<>>
  IN  IF text = <<>> THEN done
      ELSE CASE Head(text) = "'" -> ShellWords(rest, word, TRUE, ~quoted)
             [] quoted -> ShellWords(rest, Append(word, Head(text)), TRUE, TRUE)
             [] Head(text) = "b" -> ShellWords(Tail(rest), Append(word, Head(rest)), TRUE, FALSE)
             [] Head(text) = " " -> done \o ShellWords(rest, <<>>, FALSE, FALSE)
             [] OTHER -> ShellWords(rest, Append(word, Head(text)), TRUE, FALSE)

\* The line -t shows for a command, read by a shell, is the command that is run.
TraceIsTheCommand ==
  Xargs => \A i \in DOMAIN run.ran : ShellWords(run.ran[i].shown, <<>>, FALSE, FALSE) = run.ran[i].words

\* xargs passes the items of its input on in order, each once and all of them
\* when it reports so, in command lines that fit their limits and are refused
\* only when they do not; nothing runs after a command that stops it, and -t
\* shows what is run.
XargsTrue ==
  /\ XargsOrder
  /\ XargsComplete
  /\ XargsFits
  /\ RefusalIsNeeded
  /\ WholeLines
  /\ NothingAfterStop
  /\ TraceIsTheCommand

=============================================================================

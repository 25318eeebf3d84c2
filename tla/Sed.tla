-------------------------------- MODULE Sed ---------------------------------
(***************************************************************************)
(* sed: the parser of its programs, then the engine that runs them.        *)
(***************************************************************************)
(***************************************************************************)
(* The parser of sed programs (builtins/sed/parser.go) and the readings of *)
(* a replacement (engine.go).  A text is a sequence of characters; src is  *)
(* [text, ere].  A parse gives [at, err, v]: where it stopped, what is     *)
(* wrong, what was read.  A regular expression is its text.                *)
(***************************************************************************)
EXTENDS Call, SequencesExt

CONSTANTS MaxGroupDepth, MaxCodeDigits, SedIntMax

Got(at, v) == [at |-> at, err |-> "", v |-> v]
Wrong(why) == [at |-> 0, err |-> why, v |-> <<>>]

DigitChars == {"0", "1", "2", "3", "4", "5", "6", "7", "8", "9"}
DigitValue(c) == CHOOSE d \in 0..9 : ToString(d) = c
Spaces == {" ", "\t"}
SedSeparators == {";", "\n", "\r", "}", "#"}
CharAt(text, at) == IF at <= Len(text) THEN text[at] ELSE "end"

\* The first place from at on whose character is not in, or is in, chars.
PastChars(text, at, chars) == CHOOSE i \in at..Len(text) + 1 : CharAt(text, i) \notin chars /\ \A j \in at..i - 1 : text[j] \in chars
UpToChar(text, at, chars) == CHOOSE i \in at..Len(text) + 1 : CharAt(text, i) \in chars \cup {"end"} /\ \A j \in at..i - 1 : text[j] \notin chars
NumberIn(text, from, to) == FoldLeft(LAMBDA n, c : 10 * n + DigitValue(c), 0, SubSeq(text, from, to - 1))

-----------------------------------------------------------------------------
(* Regular expressions and replacements.                                      *)

BreSpecial == {"(", ")", "{", "}", "+", "?", "|"}

RECURSIVE BreToERE(_)
BreToERE(p) ==
  IF p = <<>> THEN <<>>
  ELSE IF p[1] = "\\" /\ Len(p) > 1 THEN (IF p[2] \in BreSpecial THEN <<p[2]>> ELSE <<"\\", p[2]>>) \o BreToERE(SubSeq(p, 3, Len(p)))
  ELSE (IF p[1] \in BreSpecial THEN <<"\\", p[1]>> ELSE <<p[1]>>) \o BreToERE(Tail(p))

\* regexp.Compile: the expression has as many ( as ), and counts its groups.
RECURSIVE CountGroups(_, _)
CountGroups(p, c) ==
  IF p = <<>> THEN 0
  ELSE IF p[1] = "\\" /\ Len(p) > 1 THEN CountGroups(SubSeq(p, 3, Len(p)), c)
  ELSE (IF p[1] = c THEN 1 ELSE 0) + CountGroups(Tail(p), c)
CompileRegex(src, p) == LET re == IF src.ere THEN p ELSE BreToERE(p)
                        IN  IF CountGroups(re, "(") # CountGroups(re, ")") THEN Wrong("invalid regex") ELSE Got(0, re)

RECURSIVE ValidateBackrefs(_, _)
ValidateBackrefs(repl, groups) ==
  IF Len(repl) < 2 THEN TRUE
  ELSE IF repl[1] = "\\" THEN (repl[2] \in DigitChars \ {"0"} => DigitValue(repl[2]) <= groups) /\ ValidateBackrefs(SubSeq(repl, 3, Len(repl)), groups)
  ELSE ValidateBackrefs(Tail(repl), groups)

\* What an escaped character of a replacement becomes in the template of the regexp package.
ExpandEscaped(next) ==
  CASE next \in DigitChars -> <<"$", "{", next, "}">> [] next = "$" -> <<"$", "$">> [] OTHER -> <<next>>

RECURSIVE ExpandReplacement(_)
ExpandReplacement(r) ==
  IF r = <<>> THEN <<>>
  ELSE IF r[1] = "&" THEN <<"$", "{", "0", "}">> \o ExpandReplacement(Tail(r))
  ELSE IF r[1] = "$" THEN <<"$", "$">> \o ExpandReplacement(Tail(r))
  ELSE IF r[1] = "\\" /\ Len(r) > 1 THEN ExpandEscaped(r[2]) \o ExpandReplacement(SubSeq(r, 3, Len(r)))
  ELSE <<r[1]>> \o ExpandReplacement(Tail(r))

\* What a replacement writes, in order: "lit" or the digit of a group.
RECURSIVE ReplacementShape(_)
ReplacementShape(r) ==
  IF r = <<>> THEN <<>>
  ELSE IF r[1] = "&" THEN <<"0">> \o ReplacementShape(Tail(r))
  ELSE IF r[1] = "\\" /\ Len(r) > 1 THEN <<IF r[2] \in DigitChars THEN r[2] ELSE "lit">> \o ReplacementShape(SubSeq(r, 3, Len(r)))
  ELSE <<"lit">> \o ReplacementShape(Tail(r))

-----------------------------------------------------------------------------
(* Delimited parts.                                                           *)

Control == [n |-> "\n", t |-> "\t", a |-> "BEL", f |-> "\f", r |-> "\r", b |-> "BS"]
KeptEscapes == (DigitChars \ {"0"}) \cup BreSpecial
                 \cup {"\\", ".", "^", "$", "*", "[", "]", "<", ">", "B", "A", "Z", "z", "w", "W", "s", "S", "d", "D"}

RECURSIVE ReadUntilDelimiter(_, _, _, _), ReadSubstPart(_, _, _, _, _)
ReadUntilDelimiter(text, at, delim, sofar) ==
  LET next == CharAt(text, at + 1)
  IN  IF at > Len(text) THEN Wrong("unterminated address")
      ELSE IF text[at] = "\\" /\ at < Len(text)
      THEN ReadUntilDelimiter(text, at + 2, delim, sofar \o (IF next = delim THEN <<delim>> ELSE <<"\\", next>>))
      ELSE IF text[at] = delim THEN Got(at + 1, sofar)
      ELSE ReadUntilDelimiter(text, at + 1, delim, Append(sofar, text[at]))

Unescaped(next, isPattern) ==
  CASE next = "b" /\ isPattern -> <<"\\", "b">>
    [] next \in DOMAIN Control -> <<Control[next]>>
    [] isPattern /\ next \notin KeptEscapes -> <<next>>
    [] OTHER -> <<"\\", next>>

ReadSubstPart(text, at, delim, isPattern, sofar) ==
  LET next == CharAt(text, at + 1)
  IN  IF at > Len(text) THEN Wrong("unterminated part")
      ELSE IF text[at] = "\\" /\ at < Len(text)
      THEN ReadSubstPart(text, at + 2, delim, isPattern, sofar \o (IF next = delim THEN <<delim>> ELSE Unescaped(next, isPattern)))
      ELSE IF text[at] = delim THEN Got(at + 1, sofar)
      ELSE ReadSubstPart(text, at + 1, delim, isPattern, Append(sofar, text[at]))

-----------------------------------------------------------------------------
(* Addresses and the arguments of commands.                                   *)

NoAddress == [k |-> "none", n |-> 0, step |-> 0, re |-> <<>>]
ParseAddress(src, at) ==
  LET t == src.text
      c == CharAt(t, at)
      to == PastChars(t, at, DigitChars)
      n == NumberIn(t, at, to)
      to2 == PastChars(t, to + 1, DigitChars)
      step == NumberIn(t, to + 1, to2)
      open == IF c = "\\" THEN at + 1 ELSE at
      pattern == ReadUntilDelimiter(t, open + 1, CharAt(t, open), <<>>)
      re == CompileRegex(src, pattern.v)
  IN  CASE c \in DigitChars /\ n > SedIntMax -> Wrong("number")
        [] c \in DigitChars /\ CharAt(t, to) = "~" -> IF to2 = to + 1 \/ step = 0 \/ step > SedIntMax THEN Wrong("step")
                                                      ELSE Got(to2, [NoAddress EXCEPT !.k = "step", !.n = n, !.step = step])
        [] c \in DigitChars -> Got(to, [NoAddress EXCEPT !.k = "line", !.n = n])
        [] c = "$" -> Got(at + 1, [NoAddress EXCEPT !.k = "last"])
        [] c = "\\" /\ at = Len(t) -> Wrong("expected delimiter")
        [] c \in {"/", "\\"} -> IF pattern.err # "" THEN pattern
                                ELSE IF re.err # "" THEN re
                                ELSE Got(pattern.at, [NoAddress EXCEPT !.k = "re", !.re = re.v])
        [] OTHER -> Got(at, NoAddress)

\* The checks behind a command without and with a number.
RequireSeparator(text, at) == LET to == PastChars(text, at, Spaces)
                              IN  IF CharAt(text, to) \in SedSeparators \cup {"end"} THEN Got(to, <<>>) ELSE Wrong("extra characters")
ParseOptionalExitCode(text, at0) ==
  LET at == PastChars(text, at0, Spaces)
      to == PastChars(text, at, DigitChars)
  IN  IF to - at > MaxCodeDigits THEN Wrong("exit code")
      ELSE IF CharAt(text, to) \notin SedSeparators \cup Spaces \cup {"end"} THEN Wrong("extra characters")
      ELSE Got(to, NumberIn(text, at, to) % 256)

RECURSIVE TextLines(_, _)
TextLines(text, at) ==
  LET to == UpToChar(text, at, {"\n"})
      line == SubSeq(text, at, to - 1)
      more == TextLines(text, to + 1)
  IN  IF line # <<>> /\ Last(line) = "\\" /\ to <= Len(text) THEN Got(more.at, Front(line) \o <<"\n">> \o more.v) ELSE Got(to, line)
ParseTextArg(text, at) ==
  TextLines(text, IF CharAt(text, at) # "\\" THEN PastChars(text, at, Spaces) ELSE IF CharAt(text, at + 1) = "\n" THEN at + 2 ELSE at + 1)

ParseLabelArg(text, at0) ==
  LET at == PastChars(text, at0, Spaces)
      to == UpToChar(text, at, Spaces \cup {"\n", ";", "}"})
  IN  Got(to, SubSeq(text, at, to - 1))

\* The flags of s: v is [g, p, i, nth].
RECURSIVE ParseFlags(_, _, _)
ParseFlags(text, at, f) ==
  LET c == CharAt(text, at)
      to == PastChars(text, at, DigitChars)
  IN  CASE c = "g" -> ParseFlags(text, at + 1, [f EXCEPT !.g = TRUE])
        [] c = "p" -> ParseFlags(text, at + 1, [f EXCEPT !.p = TRUE])
        [] c \in {"i", "I"} -> ParseFlags(text, at + 1, [f EXCEPT !.i = TRUE])
        [] c \in {"w", "e"} -> Wrong("blocked")
        [] c = "0" -> Wrong("number is zero")
        [] c \in DigitChars -> IF f.nth > 0 \/ NumberIn(text, at, to) > SedIntMax THEN Wrong("number") ELSE ParseFlags(text, to, [f EXCEPT !.nth = NumberIn(text, at, to)])
        [] c = "#" -> Got(UpToChar(text, at, {"\n"}), f)
        [] c \in SedSeparators \cup Spaces \cup {"end"} -> Got(at, f)
        [] OTHER -> Wrong("unknown option")

ParseSubstitute(src, at, cmd) ==
  LET t == src.text
      delim == CharAt(t, at)
      pattern == ReadSubstPart(t, at + 1, delim, TRUE, <<>>)
      repl == ReadSubstPart(t, pattern.at, delim, FALSE, <<>>)
      flags == ParseFlags(t, repl.at, [g |-> FALSE, p |-> FALSE, i |-> FALSE, nth |-> 0])
      re == CompileRegex(src, pattern.v)
  IN  CASE delim \in {"end", "\\", "\n"} -> Wrong("delimiter")
        [] pattern.err # "" -> pattern
        [] repl.err # "" -> repl
        [] flags.err # "" -> flags
        [] pattern.v = <<>> /\ flags.v.i -> Wrong("modifiers on empty regexp")
        [] re.err # "" -> re
        [] pattern.v # <<>> /\ ~ValidateBackrefs(repl.v, CountGroups(re.v, "(")) -> Wrong("invalid reference")
        [] OTHER -> Got(flags.at, [cmd EXCEPT !.k = "s", !.re = re.v, !.repl = repl.v, !.flags = flags.v])

ParseTransliterate(src, at, cmd) ==
  LET delim == CharAt(src.text, at)
      from == ReadSubstPart(src.text, at + 1, delim, FALSE, <<>>)
      to == ReadSubstPart(src.text, from.at, delim, FALSE, <<>>)
      First(c) == CHOOSE i \in DOMAIN from.v : from.v[i] = c /\ \A j \in 1..i - 1 : from.v[j] # c
  IN  CASE delim = "end" -> Wrong("delimiter")
        [] from.err # "" -> from
        [] to.err # "" -> to
        [] Len(from.v) # Len(to.v) -> Wrong("lengths")
        [] OTHER -> Got(to.at, [cmd EXCEPT !.k = "y", !.trans = [c \in {from.v[i] : i \in DOMAIN from.v} |-> to.v[First(c)]]])

-----------------------------------------------------------------------------
(* Commands.                                                                  *)

NewCmd == [k |-> "", a1 |-> NoAddress, a2 |-> NoAddress, neg |-> FALSE, arg |-> <<>>, code |-> 0, children |-> <<>>,
           re |-> <<>>, repl |-> <<>>, flags |-> [g |-> FALSE, p |-> FALSE, i |-> FALSE, nth |-> 0], trans |-> <<>>]
PlainKinds == {"p", "P", "d", "D", "=", "l", "n", "N", "h", "H", "g", "G", "x"}
Blocked == {"e", "w", "W", "r", "R"}
WithCmd(r, cmd) == IF r.err # "" THEN r ELSE Got(r.at, cmd)

\* Groups hold commands, and commands groups.
RECURSIVE SedParsing(_, _, _, _, _)
ParseCommands(src, at0, depth, cmds) == SedParsing("commands", src, at0, depth, cmds)
ParseOneCommand(src, at, depth) == SedParsing("command", src, at, depth, <<>>)
ParseScript(src) == SedParsing("script", src, <<>>, <<>>, <<>>)

RECURSIVE ParseKind(_, _, _, _)
ParseKind(src, at, depth, cmd) ==
  LET t == src.text
      c == CharAt(t, at)
      kind == [cmd EXCEPT !.k = c]
      code == ParseOptionalExitCode(t, at + 1)
      text == ParseTextArg(t, at + 1)
      label == ParseLabelArg(t, at + 1)
      group == ParseCommands(src, at + 1, depth + 1, <<>>)
  IN  CASE c = "end" -> Wrong("missing command")
        [] c = "s" -> ParseSubstitute(src, at + 1, cmd)
        [] c = "y" -> ParseTransliterate(src, at + 1, cmd)
        [] c \in PlainKinds -> WithCmd(RequireSeparator(t, at + 1), kind)
        [] c \in {"q", "Q"} -> WithCmd(code, [kind EXCEPT !.code = code.v])
        [] c \in {"a", "i", "c"} -> Got(text.at, [kind EXCEPT !.arg = text.v])
        [] c = ":" /\ label.v = <<>> -> Wrong("missing label")
        [] c \in {"b", "t", "T", ":"} -> Got(label.at, [kind EXCEPT !.arg = label.v])
        [] c = "{" /\ depth >= MaxGroupDepth -> Wrong("group nesting")
        [] c = "{" -> WithCmd(group, [kind EXCEPT !.children = group.v])
        [] c \in Blocked -> Wrong("blocked")
        [] OTHER -> Wrong("unknown command")

ParseAddressedCommand(src, at, depth) ==
  LET t == src.text
  IN  Once(ParseAddress(src, at), LAMBDA a1 :
  LET range == a1.v.k # "none" /\ CharAt(t, a1.at) = ","
  IN  Once(IF range THEN ParseAddress(src, PastChars(t, a1.at + 1, Spaces)) ELSE Got(a1.at, NoAddress), LAMBDA a2 :
  LET bang == PastChars(t, a2.at, Spaces)
      neg == CharAt(t, bang) = "!"
      from == IF neg THEN PastChars(t, bang + 1, Spaces) ELSE bang
  IN  IF a1.err # "" THEN a1
      ELSE IF a2.err # "" THEN a2
      ELSE IF range /\ a2.v.k = "none" THEN Wrong("expected address")
      ELSE IF a1.v.k = "line" /\ a1.v.n = 0 /\ ~range THEN Wrong("line address 0")
      ELSE ParseKind(src, from, depth, [NewCmd EXCEPT !.a1 = a1.v, !.a2 = a2.v, !.neg = neg])))

ParseCommandsFrom(src, at0, depth, cmds) ==
  LET at == PastChars(src.text, at0, Spaces \cup {"\n", "\r", ";"})
      c == CharAt(src.text, at)
      one == ParseOneCommand(src, at, depth)
  IN  CASE c = "end" -> IF depth > 0 THEN Wrong("unterminated group") ELSE Got(at, cmds)
        [] c = "}" -> IF depth > 0 THEN Got(at + 1, cmds) ELSE Wrong("unexpected brace")
        [] c = "#" -> ParseCommands(src, UpToChar(src.text, at, {"\n"}), depth, cmds)
        [] OTHER -> IF one.err # "" THEN one ELSE ParseCommands(src, one.at, depth, Append(cmds, one.v))

RECURSIVE CollectLabels(_), CheckBranches(_, _)
CollectLabels(cmds) == UNION {IF cmds[i].k = ":" THEN {cmds[i].arg} ELSE CollectLabels(cmds[i].children) : i \in DOMAIN cmds}

CheckBranches(cmds, labels) ==
  \A i \in DOMAIN cmds : /\ cmds[i].k \in {"b", "t", "T"} /\ cmds[i].arg # <<>> => cmds[i].arg \in labels
                         /\ CheckBranches(cmds[i].children, labels)

\* The parts of the program, from -e or the first operand, are joined by newlines.
ParseScriptText(src) ==
  LET r == ParseCommands(src, 1, 0, <<>>)
  IN  IF r.err = "" /\ ~CheckBranches(r.v, CollectLabels(r.v)) THEN Wrong("undefined label") ELSE r
SedParsing(k, x, y, z, u) ==
  CASE k = "commands" -> ParseCommandsFrom(x, y, z, u)
    [] k = "command" -> ParseAddressedCommand(x, y, z)
    [] k = "script" -> ParseScriptText(x)

-----------------------------------------------------------------------------
(* Properties.                                                                *)

\* The commands of a program with the commands of their groups.
RECURSIVE AllCmds(_), GroupDepthOf(_)
AllCmds(cmds) == {cmds[i] : i \in DOMAIN cmds} \cup UNION {AllCmds(cmds[i].children) : i \in DOMAIN cmds}
GroupDepthOf(cmds) == IF \E i \in DOMAIN cmds : cmds[i].k = "{"
                 THEN 1 + CHOOSE d \in 0..MaxGroupDepth + 1 : /\ \E i \in DOMAIN cmds : cmds[i].k = "{" /\ GroupDepthOf(cmds[i].children) = d
                                                              /\ \A i \in DOMAIN cmds : GroupDepthOf(cmds[i].children) <= d
                 ELSE 0

\* A program put together from commands, separators and groups is parsed into these commands,
\* whatever stands between them and whichever characters their arguments hold.
ScriptReadsBack == call.tool = "sed script" => Once(ParseScript([text |-> call.text, ere |-> call.ere]), LAMBDA r : r.err = "" /\ r.v = call.cmds)

\* A program that is accepted can be run: every branch has a label somewhere in the program,
\* address 0 opens a range, groups are not nested too deeply, nothing runs, writes or reads.
ParsedIsRunnable ==
  call.tool = "sed text" =>
    Once(ParseScript([text |-> call.text, ere |-> FALSE]), LAMBDA r :
    LET all == AllCmds(r.v)
    IN  r.err = "" =>
          /\ GroupDepthOf(r.v) <= MaxGroupDepth
          /\ \A c \in all : /\ c.k \in {"b", "t", "T"} => c.arg = <<>> \/ \E l \in all : l.k = ":" /\ l.arg = c.arg
                            /\ c.a1.k = "line" /\ c.a1.n = 0 => c.a2.k # "none"
                            /\ c.k \notin Blocked)

\* The characters of an expression, each with whether it is an operator.
RECURSIVE Readings(_, _)
Readings(p, bre) ==
  IF p = <<>> THEN <<>>
  ELSE IF p[1] = "\\" /\ Len(p) > 1 THEN <<<<p[2], IF p[2] \in BreSpecial THEN bre ELSE TRUE>>>> \o Readings(SubSeq(p, 3, Len(p)), bre)
  ELSE <<<<p[1], p[1] \in BreSpecial /\ ~bre>>>> \o Readings(Tail(p), bre)
\* A basic expression reads the same after its conversion: what was an operator is one, what
\* stood for itself does so.
BreReadsAsEre == call.tool = "sed bre" => Readings(BreToERE(call.p), FALSE) = Readings(call.p, TRUE)

RECURSIVE TemplateWrites(_)
TemplateWrites(t) ==
  IF t = <<>> THEN <<>>
  ELSE IF t[1] # "$" THEN <<"lit">> \o TemplateWrites(Tail(t))
  ELSE IF CharAt(t, 2) = "$" THEN <<"lit">> \o TemplateWrites(SubSeq(t, 3, Len(t)))
  ELSE IF CharAt(t, 2) = "{" THEN <<t[3]>> \o TemplateWrites(SubSeq(t, 5, Len(t)))
  ELSE <<"named">> \o TemplateWrites(Tail(t))
\* The template a replacement is turned into writes what its size was computed from, and refers
\* only to groups that the check of its references allows.
ShapeMirrors ==
  call.tool = "sed replacement" =>
    LET writes == TemplateWrites(ExpandReplacement(call.p))
    IN  /\ writes = ReplacementShape(call.p)
        /\ \A g \in 0..2 : ValidateBackrefs(call.p, g) <=> \A i \in DOMAIN writes : writes[i] = "lit" \/ DigitValue(writes[i]) <= g

-----------------------------------------------------------------------------
(***************************************************************************)
(* The sed engine (builtins/sed/engine.go, sed.go) as a function of a      *)
(* program and its files.                                                  *)
(*                                                                         *)
(* A text is a sequence of characters; "\n" joins the lines of a space.  A *)
(* regular expression is the character it matches.  A command: k, a1, a2,  *)
(* neg, id and what its kind needs (text, label, code, children, re,       *)
(* repl, g, nth, p).  A file: lines, ends (its last line has a newline),   *)
(* bad (reading fails behind the lines), regular.                          *)
(***************************************************************************)
CONSTANTS MaxSpaceBytes, MaxAppendQueueBytes, MaxBranchIterations,
          MaxSedRead,          \* MaxTotalReadBytes
          MaxExactSpans,       \* the matches maxExactIndexBytes has room for
          MaxRestarts          \* restarts by D until the call is cancelled

Newline == "\n"
Occurs(re, text) == re \in Range(text)

-----------------------------------------------------------------------------
(* The size of a substitution, before it is built.                            *)

\* m: len, g (the length of group 1, -1 when it took no part), pieces (what the expression
\* matches when the match is looked at alone).  s: lit, refs0, refs1, global, nth.
Selected(s, k) == CASE s.global /\ s.nth > 0 -> k >= s.nth [] s.global -> TRUE [] s.nth > 0 -> k = s.nth [] OTHER -> k = 1
GroupLen(g) == IF g < 0 THEN 0 ELSE g
ChargeOne(b, s, len, g) == AddMul(AddMul(Add(b, s.lit), s.refs0, len), s.refs1, g)

RECURSIVE ChargePieces(_, _, _, _), ChargeMatches(_, _, _, _, _, _), SumLens(_)
SumLens(ms) == IF ms = <<>> THEN 0 ELSE Head(ms).len + SumLens(Tail(ms))
ChargePieces(b, s, pieces, exact) ==
  IF pieces = <<>> THEN b
  ELSE ChargePieces(ChargeOne(b, s, Head(pieces).len, IF exact THEN GroupLen(Head(pieces).g) ELSE Head(pieces).len), s, Tail(pieces), exact)

\* How a match is charged: by its own groups, by its length, or piece by piece.
ChargeMatches(b, s, ms, k, how, exact) ==
  IF k > Len(ms) THEN b
  ELSE LET m == ms[k]
           one == CASE how = "whole" -> ChargeOne(b, s, m.len, IF exact THEN GroupLen(m.g) ELSE m.len)
                    [] OTHER -> Add(ChargePieces(b, s, m.pieces, exact), m.len - SumLens(m.pieces))
       IN  ChargeMatches(IF Selected(s, k) THEN one ELSE b, s, ms, k + 1, how, exact)

ReplacedBytes(s, ms) == SumLens([k \in DOMAIN ms |-> IF Selected(s, k) THEN ms[k] ELSE [len |-> 0]])
SpanCounts(s, ms, inContext) == IF inContext THEN {Len(ms)} ELSE {Len(ms[k].pieces) : k \in {k \in DOMAIN ms : Selected(s, k)}}

StaticBound(s, n) ==
  AddMul(AddMul(Add(NewBudget(MaxSpaceBytes), n), IF s.global THEN n + 1 ELSE 1, s.lit), s.refs0 + s.refs1, n)

SubstituteFits(s, n, ms, assertions) ==
  LET inContext == s.global /\ s.nth = 0
      how == IF assertions /\ ~inContext THEN "pieces" ELSE "whole"
      rest == n - ReplacedBytes(s, ms)
      walked == Add(ChargeMatches(NewBudget(MaxSpaceBytes), s, ms, 1, how, ~assertions), rest)
      exact == Add(ChargeMatches(NewBudget(MaxSpaceBytes), s, ms, 1, how, TRUE), rest)
  IN  \/ how = "whole" /\ ~StaticBound(s, n).exceeded
      \/ ~walked.exceeded
      \/ assertions /\ s.refs1 > 0 /\ (\A c \in SpanCounts(s, ms, inContext) : c <= MaxExactSpans) /\ ~exact.exceeded

\* The size of the result: what is kept, and each replacement with the groups it has.
RECURSIVE ResultSize(_, _, _)
ResultSize(s, ms, k) ==
  IF k > Len(ms) THEN 0
  ELSE LET One(m) == s.lit + s.refs0 * m.len + s.refs1 * GroupLen(m.g)
           RECURSIVE All(_)
           All(ps) == IF ps = <<>> THEN 0 ELSE One(Head(ps)) + All(Tail(ps))
           m == ms[k]
       IN  ResultSize(s, ms, k + 1)
             + IF ~Selected(s, k) THEN m.len
               ELSE IF s.global /\ s.nth = 0 THEN One(m) ELSE All(m.pieces) + m.len - SumLens(m.pieces)

\* A substitution is let through only when its result fits the pattern space, and refused only
\* when it does not, but for an expression with an assertion and too many matches to size.
SubstituteExact ==
  call.tool = "sed fits" =>
    LET size == ResultSize(call.s, call.ms, 1) + call.n - SumLens(call.ms)
        fits == SubstituteFits(call.s, call.n, call.ms, call.assertions)
    IN  /\ fits => size <= MaxSpaceBytes
        /\ size <= MaxSpaceBytes /\ ~fits => call.assertions /\ \E c \in SpanCounts(call.s, call.ms, call.s.global /\ call.s.nth = 0) : c > MaxExactSpans

-----------------------------------------------------------------------------
(* The state of the engine.  ps, hold and whether their last line had a       *)
(* newline; queue; sub; lastRe; line; last; in, bad, unread (the reader);     *)
(* out, pending; ranges (ids of the commands inside their range); err.        *)

FlushPending(st) == IF st.pending THEN [st EXCEPT !.out = Append(@, Newline), !.pending = FALSE] ELSE st

WriteLine(st, text, chomped) ==
  LET done == [FlushPending(st) EXCEPT !.out = @ \o text]
  IN  IF ~st.track \/ chomped THEN [done EXCEPT !.out = Append(@, Newline)] ELSE [done EXCEPT !.pending = TRUE]

PrintSpace(st) == WriteLine(st, st.ps, st.psChomp)

RECURSIVE WriteAll(_, _)
WriteAll(st, texts) == IF texts = <<>> THEN st ELSE WriteAll(WriteLine(st, Head(texts), TRUE), Tail(texts))
Flushed(st) == [WriteAll(st, st.queue) EXCEPT !.queue = <<>>]

IsLast(st) == st.in = <<>>
ComputeChomped(st) == ~st.track \/ ~(IsLast(st) /\ st.lastFile /\ st.unterminated)

\* readLine and checkLimit: the line after the one delivered has been read as well.
Deliver(st) ==
  LET rest == Tail(st.in)
      total == st.total + (IF rest = <<>> THEN 0 ELSE Len(Head(rest)) + 1)
      read == [st EXCEPT !.in = rest, !.total = total, !.line = @ + 1, !.last = rest = <<>> /\ st.lastFile]
  IN  IF ~st.regular /\ total > MaxSedRead THEN [st EXCEPT !.in = rest, !.total = total, !.err = "read limit"]
      ELSE [read EXCEPT !.psChomp = ComputeChomped(read)]

-----------------------------------------------------------------------------
(* Addresses.                                                                 *)

MatchAddr(a, st) ==
  LET re == IF a.re = "" THEN st.lastRe ELSE a.re
      Is(m) == [m |-> m, st |-> st]
  IN  CASE a.k = "line" -> Is(st.line = IF a.n = 0 THEN 1 ELSE a.n)
        [] a.k = "last" -> Is(st.last)
        [] a.k = "step" -> Is(IF a.n = 0 THEN st.line % a.step = 0 ELSE st.line >= a.n /\ (st.line - a.n) % a.step = 0)
        [] re = "" -> [m |-> FALSE, st |-> [st EXCEPT !.err = "no previous regular expression"]]
        [] OTHER -> [m |-> Occurs(re, st.ps), st |-> [st EXCEPT !.lastRe = re]]

\* Whether the line that opens a range may close it as well.
ChecksAtOnce(a1, a2) == a2.k # "re" \/ (a1.k = "line" /\ a1.n = 0)

MatchRange(c, st) ==
  LET close == MatchAddr(c.a2, st)
      open == MatchAddr(c.a1, st)
      atOnce == MatchAddr(c.a2, open.st)
      Opened(s) == [m |-> TRUE, st |-> [s EXCEPT !.ranges = @ \cup {c.id}]]
  IN  CASE c.id \in st.ranges -> [m |-> TRUE, st |-> IF close.m THEN [close.st EXCEPT !.ranges = @ \ {c.id}] ELSE close.st]
        [] ~open.m -> open
        [] ~ChecksAtOnce(c.a1, c.a2) -> Opened(open.st)
        [] c.a2.k = "line" /\ c.a2.n < st.line -> [m |-> TRUE, st |-> open.st]
        [] OTHER -> IF atOnce.m THEN [m |-> TRUE, st |-> atOnce.st] ELSE Opened(atOnce.st)

AddressMatch(c, st) ==
  LET raw == CASE c.a1.k = "none" -> [m |-> TRUE, st |-> st] [] c.a2.k = "none" -> MatchAddr(c.a1, st) [] OTHER -> MatchRange(c, st)
  IN  [raw EXCEPT !.m = (@ # c.neg)]

-----------------------------------------------------------------------------
(* Commands.  A result is [act, st]; st.err stops the file.                    *)

Result(act, st) == [act |-> act, st |-> [st EXCEPT !.peak = IF Len(st.ps) > @ THEN Len(st.ps) ELSE @]]
Failing(st, why) == Result("continue", [st EXCEPT !.err = why])

Places(re, ps) == SetToSortSeq({i \in DOMAIN ps : ps[i] = re}, <)
Expand(repl, m) == FlattenSeq([i \in DOMAIN repl |-> IF repl[i] = "&" THEN m ELSE <<repl[i]>>])
Shape(c) == LET refs == Cardinality({i \in DOMAIN c.repl : c.repl[i] = "&"})
            IN  [lit |-> Len(c.repl) - refs, refs0 |-> refs, refs1 |-> 0, global |-> c.g, nth |-> c.nth]

ExecSubstitute(c, st0) ==
  LET re == IF c.re = "" THEN st0.lastRe ELSE c.re
      st == [st0 EXCEPT !.lastRe = re]
      at == Places(re, st.ps)
      chosen == {at[k] : k \in {k \in DOMAIN at : Selected(Shape(c), k)}}
      result == FlattenSeq([i \in DOMAIN st.ps |-> IF i \in chosen THEN Expand(c.repl, <<re>>) ELSE <<st.ps[i]>>])
      made == [st EXCEPT !.sub = TRUE, !.ps = result]
  IN  IF re = "" THEN Failing(st, "no previous regular expression")
      ELSE IF ~SubstituteFits(Shape(c), Len(st.ps), [k \in DOMAIN at |-> [len |-> 1, g |-> -1, pieces |-> <<[len |-> 1, g |-> -1]>>]], FALSE)
      THEN Failing(st, "pattern space")
      ELSE Result("continue", IF chosen = {} THEN st ELSE IF c.p THEN PrintSpace(made) ELSE made)

FirstLine(ps) == LET ends == {i \in DOMAIN ps : ps[i] = Newline} IN IF ends = {} THEN Len(ps) + 1 ELSE CHOOSE i \in ends : \A k \in ends : i <= k

ExecNext(st0) ==
  LET st == Flushed(IF st0.quiet THEN st0 ELSE PrintSpace(st0))
      next == Deliver(st)
  IN  IF st.in = <<>> THEN Result("delete", [st EXCEPT !.last = st.lastFile])
      ELSE IF next.err # "" THEN Result("continue", next)
      ELSE Result("continue", [next EXCEPT !.ps = Head(st.in), !.sub = FALSE])

ExecNextAppend(st0) ==
  LET st == Flushed(st0)
      next == Deliver(st)
      joined == st.ps \o <<Newline>> \o Head(st.in)
  IN  IF st.in = <<>> THEN Result("delete", IF st.quiet THEN st ELSE PrintSpace(st))
      ELSE IF next.err # "" THEN Result("continue", next)
      ELSE IF Len(joined) > MaxSpaceBytes THEN Failing([next EXCEPT !.last = st.last, !.psChomp = st.psChomp], "pattern space")
      ELSE Result("continue", [next EXCEPT !.ps = joined])

Exchange(st) == [st EXCEPT !.ps = st.hold, !.hold = st.ps, !.psChomp = st.holdChomp, !.holdChomp = st.psChomp]

HoldCopy(st) == [st EXCEPT !.hold = st.ps, !.holdChomp = st.psChomp]

\* The commands that move text between the spaces.
ExecHold(c, st) ==
  LET Go(s) == Result("continue", s)
  IN  CASE c.k = "h" -> Go(HoldCopy(st))
        [] c.k = "H" -> IF Len(st.hold) + 1 + Len(st.ps) > MaxSpaceBytes THEN Failing(st, "hold space")
                        ELSE Go([st EXCEPT !.hold = @ \o <<Newline>> \o st.ps, !.holdChomp = st.psChomp])
        [] c.k = "g" -> Go([st EXCEPT !.ps = st.hold, !.psChomp = st.holdChomp])
        [] c.k = "G" -> IF Len(st.hold) + 1 + Len(st.ps) > MaxSpaceBytes THEN Failing(st, "pattern space")
                        ELSE Go([st EXCEPT !.ps = @ \o <<Newline>> \o st.hold, !.psChomp = st.holdChomp])
        [] OTHER -> Go(Exchange(st))

\* A command that neither branches nor groups.
ExecPlain(c, st) ==
  LET Go(s) == Result("continue", s)
      cut == FirstLine(st.ps)
      first == SubSeq(st.ps, 1, cut - 1)
      queued == FoldLeft(LAMBDA n, t : n + Len(t), 0, st.queue)
  IN  CASE c.k = "s" -> ExecSubstitute(c, st)
        [] c.k = "p" -> Go(PrintSpace(st))
        [] c.k = "P" -> Go(IF cut <= Len(st.ps) THEN WriteLine(st, first, TRUE) ELSE PrintSpace(st))
        [] c.k = "d" -> Result("delete", st)
        [] c.k = "D" -> IF cut <= Len(st.ps) THEN Result("restart", [st EXCEPT !.ps = SubSeq(@, cut + 1, Len(@)), !.queue = <<>>])
                        ELSE Result("delete", st)
        [] c.k = "q" -> Failing([WriteAll(IF st.quiet THEN FlushPending(st) ELSE WriteLine(st, st.ps, TRUE), st.queue) EXCEPT !.code = c.code], "quit")
        [] c.k = "Q" -> Failing([st EXCEPT !.code = c.code], "quit")
        [] c.k = "y" -> Go([st EXCEPT !.ps = [i \in DOMAIN @ |-> IF @[i] \in DOMAIN c.trans THEN c.trans[@[i]] ELSE @[i]]])
        [] c.k = "a" -> IF queued + Len(c.text) > MaxAppendQueueBytes THEN Failing(st, "append queue") ELSE Go([st EXCEPT !.queue = Append(@, c.text)])
        [] c.k = "i" -> Go(WriteLine(st, c.text, TRUE))
        [] c.k = "c" -> Result("delete", IF c.a2.k # "none" /\ c.id \in st.ranges THEN st ELSE WriteLine(st, c.text, TRUE))
        [] c.k = "=" -> Go(WriteLine(st, <<ToString(st.line)>>, TRUE))
        [] c.k = "l" -> Go(WriteLine(st, Append([i \in DOMAIN st.ps |-> IF st.ps[i] = Newline THEN "\\n" ELSE st.ps[i]], "$"), TRUE))
        [] c.k = "n" -> ExecNext(st)
        [] c.k = "N" -> ExecNextAppend(st)
        [] c.k \in {"h", "H", "g", "G", "x"} -> ExecHold(c, st)
        [] OTHER -> Go(st)

\* Whether b, t or T branches, and what is left of the mark of a substitution.
Branches(c, st) == CASE c.k = "b" -> TRUE [] c.k = "t" -> st.sub [] OTHER -> ~st.sub
Unmarked(c, st) == IF c.k = "b" THEN st ELSE [st EXCEPT !.sub = FALSE]

\* Where a label stands: the indices at each level.  The last definition wins.
RECURSIVE LabelPaths(_, _, _)
LabelPaths(cmds, prefix, label) ==
  FlattenSeq([i \in DOMAIN cmds |-> CASE cmds[i].k = ":" /\ cmds[i].label = label -> <<Append(prefix, i)>>
                                      [] cmds[i].k = "{" -> LabelPaths(cmds[i].children, Append(prefix, i), label)
                                      [] OTHER -> <<>>])

\* The files, the cycles of a file and the commands of a cycle.
RECURSIVE SedRunning(_, _, _, _, _, _)
ExecCmds(prog, cmds, i, st, depth) == SedRunning("cmds", prog, cmds, i, st, depth)
CycleFrom(prog, how, st, restarts) == SedRunning("cycle", prog, how, st, restarts, <<>>)
ProcessReader(prog, how, st) == SedRunning("reader", prog, how, st, <<>>, <<>>)
StreamFiles(prog, how, st, files, failed) == SedRunning("stream", prog, how, st, files, failed)
InPlaceFiles(prog, st, files, failed, outs) == SedRunning("inplace", prog, st, files, failed, outs)

RECURSIVE BranchTo(_, _, _, _), BranchToPath(_, _, _, _, _), BranchToPathOnly(_, _, _, _, _)
ExecCmdsFrom(prog, cmds, i, st, depth) ==
  IF depth > MaxBranchIterations THEN Failing(st, "branch loop")
  ELSE IF i > Len(cmds) THEN Result("continue", st)
  ELSE LET c == cmds[i]
       IN  Once(AddressMatch(c, st), LAMBDA match :
       LET s == match.st
           group == ExecCmds(prog, c.children, 1, s, depth)
       IN  Once(ExecPlain(c, s), LAMBDA plain :
           Once(CASE c.k = "{" -> group [] c.k \in {"b", "t", "T"} -> Result("continue", Unmarked(c, s)) [] OTHER -> plain, LAMBDA r :
           IF c.k = ":" THEN ExecCmds(prog, cmds, i + 1, st, depth)
           ELSE IF s.err # "" THEN Result("continue", s)
           ELSE IF ~match.m THEN ExecCmds(prog, cmds, i + 1, s, depth)
           ELSE IF c.k \in {"b", "t", "T"} /\ Branches(c, s) THEN BranchTo(prog, c.label, IF c.k = "t" THEN Unmarked(c, s) ELSE s, depth)
           ELSE IF r.st.err # "" \/ r.act # "continue" THEN r
           ELSE ExecCmds(prog, cmds, i + 1, r.st, depth))))

BranchTo(prog, label, st, depth) ==
  LET paths == LabelPaths(prog, <<>>, label)
      r == BranchToPath(prog, prog, paths[Len(paths)], st, depth)
  IN  IF label = "" THEN Result("branch", st)
      ELSE IF r.st.err = "" /\ r.act = "continue" THEN [r EXCEPT !.act = "branch"] ELSE r

\* Mutant: after a branch into a group, what follows the group is left out.
BranchToPathOnly(prog, cmds, path, st, depth) ==
  IF Len(path) = 1 THEN ExecCmds(prog, cmds, path[1] + 1, st, depth + 1)
  ELSE BranchToPathOnly(prog, cmds[path[1]].children, Tail(path), st, depth)

BranchToPath(prog, cmds, path, st, depth) ==
  LET r == BranchToPath(prog, cmds[path[1]].children, Tail(path), st, depth)
  IN  IF Len(path) = 1 THEN ExecCmds(prog, cmds, path[1] + 1, st, depth + 1)
      ELSE IF r.st.err # "" \/ r.act # "continue" THEN r
      ELSE ExecCmds(prog, cmds, path[1] + 1, r.st, depth + 1)

-----------------------------------------------------------------------------
(* The reference: the program as one list of commands, a group as a jump      *)
(* over its commands, a branch as a jump to its label.                        *)

RECURSIVE Listing(_)
Listing(cmds) ==
  FlattenSeq([i \in DOMAIN cmds |->
                LET inner == Listing(cmds[i].children)
                IN  <<[c |-> cmds[i], skip |-> Len(inner) + 1]>> \o inner])
LabelAt(code, label) == CHOOSE i \in DOMAIN code : /\ code[i].c.k = ":" /\ code[i].c.label = label
                                                   /\ \A j \in i + 1..Len(code) : ~(code[j].c.k = ":" /\ code[j].c.label = label)

\* since: the branches since a line was last read.
RECURSIVE FlatRun(_, _, _, _)
FlatRun(code, pc, st, jumps) ==
  IF pc > Len(code) THEN Result("continue", st)
  ELSE LET c == code[pc].c
       IN  Once(AddressMatch(c, st), LAMBDA match :
       LET s == match.st
       IN  Once(IF c.k \in {"b", "t", "T", "{"} THEN Result("continue", IF c.k \in {"t", "T"} THEN [s EXCEPT !.sub = FALSE] ELSE s) ELSE ExecPlain(c, s), LAMBDA r :
           IF c.k = ":" THEN FlatRun(code, pc + 1, st, jumps)
           ELSE IF s.err # "" THEN Result("continue", s)
           ELSE IF ~match.m THEN FlatRun(code, pc + code[pc].skip, s, jumps)
           ELSE IF c.k \in {"b", "t", "T"} /\ (c.k = "t" => s.sub) /\ (c.k = "T" => ~s.sub)
           THEN IF c.label = "" THEN Result("branch", r.st)
                ELSE IF jumps = MaxBranchIterations THEN Failing(r.st, "branch loop")
                ELSE FlatRun(code, LabelAt(code, c.label) + 1, [r.st EXCEPT !.since = <<r.st.line, IF @[1] = r.st.line THEN @[2] + 1 ELSE 1>>], jumps + 1)
           ELSE IF r.st.err # "" \/ r.act # "continue" THEN r
           ELSE FlatRun(code, pc + 1, r.st, jumps)))

-----------------------------------------------------------------------------
(* Cycles, files, the call.  how: "tree" runs the engine, "flat" the          *)
(* reference.                                                                 *)

CycleOnce(prog, how, st, restarts) ==
  Once(IF how = "tree" THEN ExecCmds(prog, prog, 1, st, 0) ELSE FlatRun(Listing(prog), 1, st, 0), LAMBDA r :
  LET printed == IF r.act # "delete" /\ ~st.quiet THEN PrintSpace(r.st) ELSE r.st
  IN  IF r.st.err # "" THEN r.st
      ELSE IF r.act = "restart" THEN IF restarts = MaxRestarts THEN [r.st EXCEPT !.err = "cancelled"]
                                     ELSE CycleFrom(prog, how, [r.st EXCEPT !.queue = <<>>], restarts + 1)
      ELSE Flushed(printed))
RunCycle(prog, how, st) == CycleFrom(prog, how, [st EXCEPT !.sub = FALSE, !.queue = <<>>], 0)

ProcessLines(prog, how, st) ==
  LET read == Deliver(st)
      ran == RunCycle(prog, how, [read EXCEPT !.ps = Head(st.in)])
  IN  IF st.in = <<>> THEN IF st.bad THEN [st EXCEPT !.err = "read"] ELSE st
      ELSE IF read.err # "" THEN read
      ELSE IF ran.err # "" THEN ran
      ELSE ProcessReader(prog, how, ran)

NewEngine(quiet) ==
  [ps |-> <<>>, hold |-> <<>>, psChomp |-> FALSE, holdChomp |-> FALSE, queue |-> <<>>, sub |-> FALSE, lastRe |-> "", line |-> 0,
   last |-> FALSE, in |-> <<>>, bad |-> FALSE, total |-> 0, regular |-> TRUE, unterminated |-> FALSE, lastFile |-> FALSE,
   track |-> FALSE, out |-> <<>>, pending |-> FALSE, ranges |-> {}, quiet |-> quiet, err |-> "", code |-> 0, peak |-> 0, since |-> <<0, 0>>]

Opened(st, f, isLast) ==
  [st EXCEPT !.in = f.lines, !.bad = f.bad, !.total = IF f.lines = <<>> THEN 0 ELSE Len(f.lines[1]) + 1,
             !.regular = f.regular, !.lastFile = isLast, !.err = ""]

ResetForNewFile(st) ==
  [st EXCEPT !.line = 0, !.last = FALSE, !.ps = <<>>, !.hold = <<>>, !.holdChomp = TRUE, !.sub = FALSE,
             !.queue = <<>>, !.psChomp = TRUE, !.pending = FALSE, !.ranges = {}]

\* One file for -i: what is written back, when the program does not fail.
InPlaceFile(prog, how, st, f) ==
  ProcessReader(prog, how, [Opened(ResetForNewFile(st), f, TRUE) EXCEPT !.out = <<>>, !.track = TRUE, !.regular = TRUE,
                                                                        !.unterminated = f.lines # <<>> /\ ~f.ends])

\* The files of a call: a program that quits ends it, a failure is remembered.
StreamFilesFrom(prog, how, st, files, failed) ==
  LET r == ProcessReader(prog, how, Opened(st, Head(files), Len(files) = 1))
  IN  IF files = <<>> THEN [st |-> st, code |-> IF failed THEN 1 ELSE 0]
      ELSE IF r.err = "quit" THEN [st |-> r, code |-> r.code]
      ELSE StreamFiles(prog, how, r, Tail(files), failed \/ r.err # "")

InPlaceFilesFrom(prog, st, files, failed, outs) ==
  LET f == Head(files)
      r == InPlaceFile(prog, "tree", st, f)
      new == IF r.err \in {"", "quit"} THEN r.out ELSE f.lines
  IN  IF files = <<>> THEN [outs |-> outs, code |-> IF failed THEN 1 ELSE 0]
      ELSE IF r.err = "quit" THEN [outs |-> Append(outs, new), code |-> IF failed THEN 1 ELSE r.code]
      ELSE InPlaceFiles(prog, r, Tail(files), failed \/ r.err # "", Append(outs, new))
SedRunning(k, x, y, z, u, v) ==
  CASE k = "cmds" -> ExecCmdsFrom(x, y, z, u, v)
    [] k = "cycle" -> CycleOnce(x, y, z, u)
    [] k = "reader" -> ProcessLines(x, y, z)
    [] k = "stream" -> StreamFilesFrom(x, y, z, u, v)
    [] k = "inplace" -> InPlaceFilesFrom(x, y, z, u, v)

-----------------------------------------------------------------------------
(* Properties.                                                                *)

Streamed(prog, how, files, quiet) == StreamFiles(prog, how, NewEngine(quiet), files, FALSE)

\* The handler, for a call that streams.
SedInit == run = [pc |-> "sed"]
SedStep == call.tool = "sed" /\ run.pc = "sed" /\ run' = [pc |-> "done", ran |-> Streamed(call.prog, "tree", call.files, call.quiet)]
SedRan == call.tool = "sed" /\ run.pc = "done"

FileText(f) == FlattenSeq([i \in DOMAIN f.lines |-> IF i < Len(f.lines) \/ f.ends THEN Append(f.lines[i], Newline) ELSE f.lines[i]])

\* Branches into and out of nested groups, executed by recursion over the command tree, do what
\* jumps in a flat list of the commands do, and hit the limit on branches at the same branch.
BranchesAgree ==
  SedRan =>
    LET flat == Streamed(call.prog, "flat", call.files, call.quiet)
    IN  [run.ran EXCEPT !.st.since = <<>>] = [flat EXCEPT !.st.since = <<>>]

\* Editing in place writes what streaming prints, but for the newline that ends the last line:
\* a held back newline is neither lost before later output nor added at the end.
InPlaceAsStreamed ==
  SedRan /\ Len(call.files) = 1 /\ call.files[1].regular =>
    LET streamed == run.ran.st
    IN  Once(InPlaceFile(call.prog, "tree", NewEngine(call.quiet), call.files[1]), LAMBDA edited :
        /\ streamed.err = edited.err
        /\ streamed.out \in {edited.out, Append(edited.out, Newline)}
        /\ call.files[1].ends => streamed.out = edited.out)

\* A program that prints each line once leaves a file as it was, byte for byte, whatever spaces
\* the line went through, whether or not its last line has a newline.
IdentityKeepsFile ==
  SedRan /\ call.identity =>
    \A i \in DOMAIN call.files : call.files[i].bad \/
       InPlaceFile(call.prog, "tree", NewEngine(FALSE), call.files[i]).out = FileText(call.files[i])

\* With -i every file is edited as if it were the only one, up to a file at which the program
\* quits (an empty expression, which reuses the last one of the file before, left aside).
FilesSeparate ==
  SedRan /\ Len(call.files) > 1 /\ ~call.reuses =>
    Once(InPlaceFiles(call.prog, NewEngine(call.quiet), call.files, FALSE, <<>>), LAMBDA all : \A i \in DOMAIN all.outs : all.outs[i] = InPlaceFiles(call.prog, NewEngine(call.quiet), <<call.files[i]>>, FALSE, <<>>).outs[1])

\* Streaming several files is streaming their lines as one file, for programs that do not read
\* lines themselves and files that are read to the end, the last of which has a line.
OneStream ==
  SedRan /\ Len(call.files) > 1 /\ ~call.reads /\ (\A i \in DOMAIN call.files : ~call.files[i].bad /\ call.files[i].regular) /\ call.files[Len(call.files)].lines # <<>> =>
    LET one == [call.files[1] EXCEPT !.lines = FlattenSeq([i \in DOMAIN call.files |-> call.files[i].lines])]
    IN  Once(Streamed(call.prog, "tree", <<one>>, call.quiet), LAMBDA joined : joined.st.err \in {"", "quit"} => run.ran.st.out = joined.st.out /\ run.ran.code = joined.code)

\* The lines that a pair of addresses selects: from a line the first matches, to the first one
\* behind it that the second matches (or the opening line, for a number that is not greater).
RangeLines(a1, a2, lines) ==
  LET Hit(a, k) == CASE a.k = "line" -> k = a.n [] a.k = "last" -> k = Len(lines) [] a.k = "step" -> k >= a.n /\ (k - a.n) % a.step = 0
                     [] OTHER -> Occurs(a.re, lines[k])
      Ends(o, k) == IF a2.k = "line" THEN (k = o /\ a2.n <= o) \/ (k = a2.n /\ k > o)
                    ELSE Hit(a2, k) /\ (k > o \/ a2.k # "re" \/ (a1.k = "line" /\ a1.n = 0))
      RECURSIVE Spanned(_)
      Spanned(from) ==
        LET opens == {k \in from..Len(lines) : IF a1.k = "line" /\ a1.n = 0 THEN k = 1 ELSE Hit(a1, k)}
            o == CHOOSE k \in opens : \A j \in opens : k <= j
            ends == {k \in o..Len(lines) : Ends(o, k)}
            e == IF ends = {} THEN Len(lines) ELSE CHOOSE k \in ends : \A j \in ends : k <= j
        IN  IF opens = {} THEN {} ELSE o..e \cup Spanned(e + 1)
  IN  Spanned(1)

\* The range flag kept on a command between lines selects exactly the lines of its ranges.
RangeSelects ==
  call.tool = "sed range" =>
    LET cmd == [k |-> "p", a1 |-> call.a1, a2 |-> call.a2, neg |-> FALSE, id |-> 1, children |-> <<>>]
        f == [lines |-> call.lines, ends |-> TRUE, bad |-> FALSE, regular |-> TRUE]
        selected == SetToSortSeq(RangeLines(call.a1, call.a2, call.lines), <)
    IN  Streamed(<<cmd>>, "tree", <<f>>, TRUE).st.out = FlattenSeq([i \in DOMAIN selected |-> Append(call.lines[selected[i]], Newline)])

\* No command leaves a space, or the queued texts, larger than its limit.
SpacesBounded ==
  SedRan =>
    LET st == run.ran.st
    IN  st.peak <= MaxSpaceBytes /\ Len(st.hold) <= MaxSpaceBytes /\ FoldLeft(LAMBDA n, t : n + Len(t), 0, st.queue) <= MaxAppendQueueBytes

\* sed runs the program that was written, and every way of running it agrees:
\* in place and streaming, several files and one, nested groups and flat jumps,
\* sizing a replacement and making it; its spaces stay within their limits.
SedTrue ==
  /\ ScriptReadsBack
  /\ ParsedIsRunnable
  /\ BreReadsAsEre
  /\ ShapeMirrors
  /\ SubstituteExact
  /\ IdentityKeepsFile
  /\ InPlaceAsStreamed
  /\ BranchesAgree
  /\ FilesSeparate
  /\ OneStream
  /\ RangeSelects
  /\ SpacesBounded

=============================================================================

------------------------------ MODULE Nesting ------------------------------
(***************************************************************************)
(* The scan that bounds the nesting of a script before it is parsed.  It   *)
(* follows the parser's lexer with a stack of contexts and counts the ones *)
(* the parser recurses into; the script is refused when the count passes   *)
(* MaxNestingDepth, that is when sc.deepest does.                          *)
(*                                                                         *)
(* A script is a sequence of tokens: a run of letters is one, every other  *)
(* byte one of its own: "NL", "TAB", "CR", "SQ" and "DQ" (the quotes),     *)
(* "BS" (backslash), "BT" (backtick) and the others as they are.           *)
(***************************************************************************)
EXTENDS Call, SequencesExt, FiniteSetsExt

Marks == {" ", "NL", "TAB", "CR", ";", "&", "|", "(", ")", "<", ">", "BT", "SQ", "DQ", "BS", "$", "{", "}", "[", "]", "#", "!", "=", "+", "-", "*", ":", "@", "_", "1", ""}
IsLetters(t) == t \notin Marks
IsBlank(t) == t \in {" ", "TAB", "CR"}
IsWordSep(t) == t \in {" ", "TAB", "CR", "NL", ";", "&", "|", "(", ")", "<", ">", "BT", ""}

CountedKind(k) == k \in {"paren", "param", "brace", "backtick", "if", "elif", "loop", "case", "arith", "arithsq", "arithparen", "arithindex", "patgroup"}
Heredocs == {"expand", "literal"}

(***************************************************************************)
(* The scanner.  sc.kinds is the stack of frames, sc.bodies the delimiters *)
(* of the here-documents among them, sc.pending those whose body begins    *)
(* after this line.                                                        *)
(***************************************************************************)
CmdStart == [cmdPos |-> TRUE, wordStart |-> TRUE, argWords |-> 0, inDecl |-> FALSE, redirTarget |-> FALSE, afterTime |-> FALSE]
NewScanner(s) ==
  CmdStart @@ [s |-> s, i |-> 1, kinds |-> <<>>, depth |-> 0, deepest |-> 0, bodies |-> <<>>, pending |-> <<>>, lineStart |-> TRUE, patStart |-> FALSE, prevSpace |-> FALSE]

PeekAt(sc, off) == IF sc.i + off <= Len(sc.s) THEN sc.s[sc.i + off] ELSE ""
TopKind(sc) == IF sc.kinds = <<>> THEN "none" ELSE Last(sc.kinds)
Skip(sc, n) == [sc EXCEPT !.i = sc.i + n]
StartCmd(sc) == CmdStart @@ sc
NoCmd(sc) == [sc EXCEPT !.cmdPos = FALSE]

PushKind(sc, k) ==
  LET d == sc.depth + (IF CountedKind(k) THEN 1 ELSE 0) IN
  [sc EXCEPT !.kinds = Append(sc.kinds, k), !.depth = d, !.deepest = IF d > sc.deepest THEN d ELSE sc.deepest]
PopKind(sc) ==
  [sc EXCEPT !.kinds = Front(sc.kinds), !.bodies = IF TopKind(sc) \in Heredocs THEN Front(sc.bodies) ELSE sc.bodies,
             !.depth = sc.depth - (IF CountedKind(TopKind(sc)) THEN 1 ELSE 0)]
PopIf(sc, k) == IF TopKind(sc) = k THEN PopKind(sc) ELSE sc

StartNextHeredoc(sc) ==
  IF sc.pending = <<>> \/ TopKind(sc) \in Heredocs THEN sc
  ELSE [sc EXCEPT !.pending = Tail(sc.pending), !.bodies = Append(sc.bodies, sc.pending[1]),
                  !.kinds = Append(sc.kinds, IF sc.pending[1].expand THEN "expand" ELSE "literal")]

\* the first place at or after i with a token of the set, or the end
Find(s, i, set) == LET at == {k \in i .. Len(s) : s[k] \in set} IN IF at = {} THEN Len(s) + 1 ELSE Min(at)

\* A line of a here-document's body; "no" when it is an ordinary line of a
\* body that expands.
HeredocLine(sc) ==
  LET eol == Find(sc.s, sc.i, {"NL"})
      whole == SubSeq(sc.s, sc.i, eol - 1)
      noCr == IF whole # <<>> /\ Last(whole) = "CR" THEN Front(whole) ELSE whole
      info == Last(sc.bodies)
      first == {k \in DOMAIN noCr : noCr[k] # "TAB"}
      line == IF info.strip THEN IF first = {} THEN <<>> ELSE SubSeq(noCr, Min(first), Len(noCr)) ELSE noCr
      after == [sc EXCEPT !.i = eol + 1, !.lineStart = TRUE]
  IN IF line = info.delim THEN [took |-> TRUE, sc |-> StartNextHeredoc(PopKind(after))]
     ELSE [took |-> TopKind(sc) = "literal", sc |-> after]

Dollar(sc, ansi) ==
  CASE PeekAt(sc, 1) = "(" /\ PeekAt(sc, 2) = "(" -> PushKind(Skip(sc, 3), "arith")
    [] PeekAt(sc, 1) = "(" /\ PeekAt(sc, 2) # "(" -> PushKind(StartCmd(Skip(sc, 2)), "paren")
    [] PeekAt(sc, 1) = "{" -> PushKind(Skip(sc, 2), "param")
    [] PeekAt(sc, 1) = "[" -> PushKind(Skip(sc, 2), "arithsq")
    [] PeekAt(sc, 1) = "SQ" /\ ansi -> PushKind(Skip(sc, 2), "ansi")
    [] OTHER -> Skip(sc, 1)
Backtick(sc) == PushKind(StartCmd(Skip(sc, 1)), "backtick")

\* quotes and substitutions, where nothing else is special
StepQuoting(sc) ==
  CASE PeekAt(sc, 0) = "BS" -> Skip(sc, 2)
    [] PeekAt(sc, 0) = "SQ" -> PushKind(Skip(sc, 1), "single")
    [] PeekAt(sc, 0) = "DQ" -> PushKind(Skip(sc, 1), "double")
    [] PeekAt(sc, 0) = "BT" -> Backtick(sc)
    [] PeekAt(sc, 0) = "$" -> Dollar(sc, TRUE)
    [] OTHER -> Skip(sc, 1)

StepDouble(sc) ==
  CASE PeekAt(sc, 0) = "BS" -> Skip(sc, 2)
    [] PeekAt(sc, 0) = "DQ" /\ TopKind(sc) = "double" -> Skip(PopKind(sc), 1)
    [] PeekAt(sc, 0) = "BT" -> Backtick(sc)
    [] PeekAt(sc, 0) = "$" -> Dollar(sc, FALSE)
    [] PeekAt(sc, 0) = "NL" -> Skip([sc EXCEPT !.lineStart = TRUE], 1)
    [] OTHER -> Skip(sc, 1)

StepParam(sc) == IF PeekAt(sc, 0) = "}" THEN Skip(PopKind(sc), 1) ELSE StepQuoting(sc)

LetEnds(sc) == PeekAt(sc, 0) \in {";", "NL", ")", "BT"} \/ (sc.prevSpace /\ PeekAt(sc, 0) \in {"&", "|", "<", ">"})
StepArith(sc) ==
  LET k == TopKind(sc)  c == PeekAt(sc, 0)  t == [sc EXCEPT !.prevSpace = FALSE] IN
  CASE k = "let" /\ LetEnds(sc) -> NoCmd(PopKind(sc))
    [] k = "let" /\ IsBlank(c) -> Skip([sc EXCEPT !.prevSpace = TRUE], 1)
    [] c = "(" -> PushKind(Skip(t, 1), "arithparen")
    [] c = ")" /\ ~(k = "let") ->
         IF k = "arithparen" THEN Skip(PopKind(t), 1)
         ELSE IF k = "arith" /\ PeekAt(t, 1) = ")" THEN NoCmd(Skip(PopKind(t), 2))
         ELSE IF k = "arith" THEN Skip(PopKind(t), 1) ELSE Skip(t, 1)
    [] c = "[" -> PushKind(Skip(t, 1), "arithindex")
    [] c = "]" -> IF k \in {"arithindex", "arithsq"} THEN Skip(PopKind(t), 1) ELSE Skip(t, 1)
    [] OTHER -> StepQuoting(t)

\* a "#" begins a comment at the start and after a separator
CommentHere(sc) == PeekAt(sc, 0) = "#" /\ (sc.i = 1 \/ sc.s[sc.i - 1] \in {" ", "TAB", "NL", "CR", ";", "&", "|", "("})
SkipComment(sc) == [sc EXCEPT !.i = Find(sc.s, sc.i, {"NL"})]

StepPattern(sc) ==
  LET k == TopKind(sc)  c == PeekAt(sc, 0)  t == [sc EXCEPT !.patStart = FALSE] IN
  CASE IsBlank(c) -> Skip(sc, 1)
    [] c = "NL" -> StartNextHeredoc(Skip([sc EXCEPT !.lineStart = TRUE], 1))
    [] CommentHere(sc) -> SkipComment(sc)
    [] IsLetters(c) ->
         IF k = "casepat" /\ sc.patStart /\ c = "esac" /\ IsWordSep(PeekAt(sc, 1))
         THEN NoCmd(StartCmd(PopIf(PopKind(Skip(t, 1)), "case"))) ELSE Skip(t, 1)
    [] c = "(" -> IF k = "casepat" /\ sc.patStart THEN Skip(t, 1) ELSE PushKind(Skip(t, 1), "patgroup")
    [] c = ")" -> IF k = "casepat" THEN StartCmd(PopKind(Skip(t, 1))) ELSE PopKind(Skip(t, 1))
    [] OTHER -> StepQuoting(t)

(***************************************************************************)
(* Command context.                                                        *)
(***************************************************************************)
\* the tokens of a here-document's delimiter
RECURSIVE ReadDelim(_, _, _, _)
ReadDelim(s, i, delim, expand) ==
  IF i > Len(s) \/ s[i] \in {" ", "TAB", "NL", "CR", ";", "&", "|", "<", ">", "(", ")"} THEN [delim |-> delim, expand |-> expand, end |-> i]
  ELSE IF s[i] \in {"SQ", "DQ"} THEN LET e == Find(s, i + 1, {s[i]}) IN ReadDelim(s, IF e > Len(s) THEN e ELSE e + 1, delim \o SubSeq(s, i + 1, e - 1), FALSE)
  ELSE IF s[i] = "BS" THEN ReadDelim(s, i + 2, IF i < Len(s) THEN Append(delim, s[i + 1]) ELSE delim, FALSE)
  ELSE ReadDelim(s, i + 1, Append(delim, s[i]), expand)

ScanRedirOrHeredoc(sc) ==
  IF PeekAt(sc, 1) # "<" THEN Skip(sc, 1)
  ELSE IF PeekAt(sc, 2) = "<" THEN Skip(sc, 3)
  ELSE LET strip == PeekAt(sc, 2) = "-"
           from == sc.i + (IF strip THEN 3 ELSE 2)
           word == {k \in from .. Len(sc.s) : sc.s[k] \notin {" ", "TAB"}}
           d == ReadDelim(sc.s, IF word = {} THEN Len(sc.s) + 1 ELSE Min(word), <<>>, TRUE)
       IN [sc EXCEPT !.i = d.end, !.pending = IF d.delim = <<>> THEN sc.pending ELSE Append(sc.pending, [delim |-> d.delim, strip |-> strip, expand |-> d.expand])]

RedirWord(sc) == [sc EXCEPT !.redirTarget = TRUE, !.wordStart = TRUE, !.cmdPos = FALSE]
StepRedirect(sc) ==
  IF PeekAt(sc, 1) = "(" THEN PushKind(StartCmd(Skip(sc, 2)), "paren")
  ELSE LET t == IF PeekAt(sc, 0) = "<" THEN ScanRedirOrHeredoc(sc) ELSE Skip(sc, 1) IN
       RedirWord(IF PeekAt(t, 0) \in {">", "&", "|"} THEN Skip(t, 1) ELSE t)

\* "()" is the parameter list of a function, whose body is a command
StepOpenParen(sc) ==
  LET j == {k \in sc.i + 1 .. Len(sc.s) : ~IsBlank(sc.s[k])}
      t == [sc EXCEPT !.wordStart = TRUE] IN
  IF j # {} /\ sc.s[Min(j)] = ")" THEN StartCmd([t EXCEPT !.i = Min(j) + 1])
  ELSE IF PeekAt(sc, 1) = "(" THEN PushKind(NoCmd(Skip(t, 2)), "arith")
  ELSE PushKind(StartCmd(Skip(t, 1)), "paren")

\* the separators and operators of command context
NestSeparators == {" ", "TAB", "CR", "NL", ";", "&", "|", "<", ">", "(", ")"}
StepSeparator(sc, k) ==
  LET c == PeekAt(sc, 0) IN
  CASE IsBlank(c) -> Skip([sc EXCEPT !.wordStart = TRUE], 1)
    [] c = "NL" -> StartNextHeredoc([StartCmd(Skip(sc, 1)) EXCEPT !.lineStart = TRUE])
    [] c = ";" /\ k = "case" /\ PeekAt(sc, 1) \in {";", "&"} ->
         PushKind([sc EXCEPT !.patStart = TRUE, !.i = sc.i + (IF PeekAt(sc, 2) = "&" THEN 3 ELSE 2)], "casepat")
    [] c = "&" /\ PeekAt(sc, 1) = ">" -> RedirWord(Skip(sc, IF PeekAt(sc, 2) = ">" THEN 3 ELSE 2))
    [] c \in {"<", ">"} -> StepRedirect(sc)
    [] c = "(" -> StepOpenParen(sc)
    [] c = ")" -> NoCmd([Skip(PopIf(sc, "paren"), 1) EXCEPT !.wordStart = TRUE])
    [] OTHER -> StartCmd(Skip(sc, 1))

\* Mutant: a coproc's first word is always taken for its name.
CoprocNamedAlways(s, j) == TRUE
CoprocNamed(s, j) ==
  LET k == LET e == {e \in j .. Len(s) : IsWordSep(s[e])} IN IF e = {} THEN Len(s) + 1 ELSE Min(e)
      next == {e \in k .. Len(s) : ~IsBlank(s[e])}
      openers == {"if", "while", "until", "for", "select", "case"}
  IN k > j /\ SubSeq(s, j, k - 1) \notin {<<o>> : o \in openers \cup {"{"}} /\ next # {} /\ s[Min(next)] \in openers \cup {"(", "{"}

NotBlankFrom(s, i) == LET at == {k \in i .. Len(s) : ~IsBlank(s[k])} IN IF at = {} THEN Len(s) + 1 ELSE Min(at)

RECURSIVE PopElifs(_)
PopElifs(sc) == IF TopKind(sc) = "elif" THEN PopElifs(PopKind(sc)) ELSE PopIf(sc, "if")

BodyFollows(sc, ks) == IF TopKind(sc) \in ks THEN StartCmd(sc) ELSE NoCmd(sc)

\* a standalone word in command position; sc stands after it
Keyword(sc, w) ==
  CASE w \in {"if", "elif"} -> PushKind(StartCmd(sc), w)
    [] w \in {"while", "until"} -> PushKind(StartCmd(sc), "loop")
    [] w \in {"for", "select"} -> PushKind(NoCmd(sc), "loop")
    [] w = "case" -> PushKind(PushKind(NoCmd(sc), "case"), "casehead0")
    [] w = "fi" -> NoCmd(PopElifs(sc))
    [] w = "done" -> NoCmd(PopIf(sc, "loop"))
    [] w = "esac" -> NoCmd(PopIf(sc, "case"))
    [] w \in {"then", "else"} -> BodyFollows(sc, {"if", "elif"})
    [] w = "do" -> BodyFollows(sc, {"loop"})
    [] w = "time" -> [StartCmd(sc) EXCEPT !.afterTime = TRUE]
    [] w \in {"function", "coproc"} ->
         LET j == NotBlankFrom(sc.s, sc.i) IN
         IF w = "coproc" /\ ~CoprocNamed(sc.s, j) THEN StartCmd(sc)
         ELSE StartCmd([sc EXCEPT !.i = LET e == {e \in j .. Len(sc.s) : IsWordSep(sc.s[e])} IN IF e = {} THEN Len(sc.s) + 1 ELSE Min(e)])
    [] w = "let" -> PushKind(NoCmd([sc EXCEPT !.prevSpace = FALSE]), "let")
    [] OTHER -> NoCmd(sc)

\* The word that begins here: took when the scan moved on.
Declarations == {"declare", "local", "export", "readonly", "typeset", "nameref"}
BeginWord(sc0) ==
  LET sc == [sc0 EXCEPT !.afterTime = FALSE]
      stop == {k \in sc.i .. Len(sc.s) : ~(IsLetters(sc.s[k]) \/ sc.s[k] = "_" \/ (k > sc.i /\ sc.s[k] = "1"))}
      j == IF stop = {} THEN Len(sc.s) + 1 ELSE Min(stop)
      named == j > sc.i
      next == IF j <= Len(sc.s) THEN sc.s[j] ELSE ""
      digits == {k \in sc.i .. Len(sc.s) : sc.s[k] # "1"}
      word == [sc EXCEPT !.argWords = sc.argWords + 1,
                         !.inDecl = sc.inDecl \/ (sc.argWords = 0 /\ sc.cmdPos /\ j = sc.i + 1 /\ sc.s[sc.i] \in Declarations /\ IsWordSep(next))]
  IN CASE sc0.redirTarget -> [took |-> FALSE, sc |-> [sc0 EXCEPT !.redirTarget = FALSE]]
       [] ~sc0.redirTarget /\ named /\ next = "[" /\ (sc.argWords = 0 \/ sc.inDecl) -> [took |-> TRUE, sc |-> PushKind(NoCmd([sc EXCEPT !.i = j + 1]), "arithindex")]
       [] ~sc0.redirTarget /\ named /\ (next = "=" \/ (next = "+" /\ j < Len(sc.s) /\ sc.s[j + 1] = "=")) -> [took |-> FALSE, sc |-> sc]
       [] ~sc0.redirTarget /\ ~named /\ sc.s[sc.i] = "1" /\ digits # {} /\ sc.s[Min(digits)] \in {"<", ">"} -> [took |-> FALSE, sc |-> sc]
       [] ~sc0.redirTarget /\ ~named /\ sc0.afterTime /\ sc.cmdPos /\ PeekAt(sc, 0) = "-" /\ PeekAt(sc, 1) = "p" /\ IsWordSep(PeekAt(sc, 2)) ->
            [took |-> TRUE, sc |-> [Skip(sc, 2) EXCEPT !.wordStart = TRUE]]
       [] OTHER -> [took |-> FALSE, sc |-> word]

StepText(sc, k, head, subjectSeen) ==
  LET c == PeekAt(sc, 0) IN
  CASE c = "BS" -> IF PeekAt(sc, 1) = "NL" THEN Skip(sc, 2) ELSE NoCmd(Skip(sc, 2))
    [] c \in {"SQ", "DQ", "$"} -> StepQuoting(NoCmd(sc))
    [] c = "BT" -> IF k = "backtick" THEN NoCmd(Skip(PopKind(sc), 1)) ELSE Backtick(sc)
    [] CommentHere(sc) -> SkipComment(sc)
    [] c = "{" -> IF sc.cmdPos /\ IsWordSep(PeekAt(sc, 1)) THEN PushKind(StartCmd(Skip(sc, 1)), "brace") ELSE NoCmd(Skip(sc, 1))
    [] c = "}" -> NoCmd(Skip(IF sc.cmdPos /\ k = "brace" /\ IsWordSep(PeekAt(sc, 1)) THEN PopKind(sc) ELSE sc, 1))
    [] IsLetters(c) ->
         LET t == Skip(sc, 1)  standalone == IsWordSep(PeekAt(sc, 1)) IN
         IF head THEN IF subjectSeen /\ c = "in" /\ standalone THEN [t EXCEPT !.kinds = Append(Front(t.kinds), "casepat"), !.patStart = TRUE] ELSE t
         ELSE IF sc.cmdPos /\ standalone THEN Keyword(t, c) ELSE NoCmd(t)
    [] OTHER -> NoCmd(Skip(sc, 1))

StepCommand(sc0) ==
  LET c == PeekAt(sc0, 0)
      k0 == TopKind(sc0)
      head == k0 \in {"casehead0", "casehead1"}
      seen == k0 = "casehead0" /\ ~IsBlank(c) /\ c # "NL"
      sc == IF ~head THEN sc0 ELSE [NoCmd(sc0) EXCEPT !.kinds = IF seen THEN Append(Front(sc0.kinds), "casehead1") ELSE sc0.kinds]
      k == TopKind(sc)
      t == [sc EXCEPT !.wordStart = FALSE]
      w == BeginWord(t)
  IN CASE c \in NestSeparators -> StepSeparator(sc, k)
       [] c \notin NestSeparators /\ sc.wordStart /\ c = "!" /\ sc.cmdPos /\ IsWordSep(PeekAt(sc, 1)) -> Skip(sc, 1)
       [] OTHER -> IF sc.wordStart /\ ~head THEN IF w.took THEN w.sc ELSE StepText(w.sc, k, head, k0 = "casehead1")
                   ELSE StepText(t, k, head, k0 = "casehead1")

StepMode(sc) ==
  LET k == TopKind(sc) IN
  CASE k = "single" -> Skip(IF PeekAt(sc, 0) = "SQ" THEN PopKind(sc) ELSE sc, 1)
    [] k = "ansi" -> IF PeekAt(sc, 0) = "BS" THEN Skip(sc, 2) ELSE Skip(IF PeekAt(sc, 0) = "SQ" THEN PopKind(sc) ELSE sc, 1)
    [] k \in {"double", "expand"} -> StepDouble(sc)
    [] k = "param" -> StepParam(sc)
    [] k \in {"arith", "arithsq", "arithparen", "arithindex", "let"} -> StepArith(sc)
    [] k \in {"casepat", "patgroup"} -> StepPattern(sc)
    [] OTHER -> StepCommand(sc)

StepScan(sc) ==
  LET line == HeredocLine(sc)  t == [sc EXCEPT !.lineStart = FALSE] IN
  IF sc.lineStart /\ TopKind(sc) \in Heredocs THEN IF line.took THEN line.sc ELSE StepMode(t) ELSE StepMode(t)

RECURSIVE ScanScript(_)
ScanScript(sc) == IF sc.i > Len(sc.s) THEN sc ELSE ScanScript(StepScan(sc))

(***************************************************************************)
(* The nesting of a script, by the grammar: a fragment is its tokens and   *)
(* its depth, and a construct puts tokens around a fragment of the kind it *)
(* holds.  inner says how many levels deeper that fragment is, own how     *)
(* deep the construct is without it.                                       *)
(***************************************************************************)
Construct(holds, makes, pre, inner, post, own) == [holds |-> holds, makes |-> makes, pre |-> pre, inner |-> inner, post |-> post, own |-> own]
LevelAround(c, f) == [kind |-> c.makes, text |-> c.pre \o f.text \o c.post, depth |-> Max({c.own, c.inner + f.depth})]

(***************************************************************************)
(* The scan counts the levels of the script, neither fewer, which would    *)
(* let a script through that exhausts the parser's stack, nor more, which  *)
(* would refuse a legitimate one ("The invariant that matters for safety   *)
(* is that the scan never undercounts", checkScriptNestingDepth); and it   *)
(* leaves every construct the script leaves.                               *)
(***************************************************************************)
NestingExact ==
  call.tool = "nesting" =>
    Once(ScanScript(NewScanner(Append(call.script.text, "NL"))), LAMBDA end : end.deepest = call.script.depth /\ end.kinds = <<>>)
=============================================================================

------------------------------ MODULE AwkParse ------------------------------
(***************************************************************************)
(* The front of awk: the lexer, then the parser, which takes its tokens.   *)
(***************************************************************************)
(***************************************************************************)
(* The awk lexer (builtins/awk/lexer.go).  A text is a sequence of         *)
(* characters; a token is [k, v]: "id", "num", "str", "re", "eof" or "op"  *)
(* with its characters.  A scan gives [at, err, tok].                      *)
(***************************************************************************)
EXTENDS Call, SequencesExt

LexDigits == {"0", "1", "8"}
OctalDigits == {"0", "1"}
HexDigits == LexDigits \cup {"a"}
LexLetters == {"a", "e", "x", "n", "i", "t"}
RegexKeywords == {<<"e", "x", "i", "t">>}
Blanks == {" ", "\t"}
LexDigitValue == [d \in HexDigits |-> CASE d = "0" -> 0 [] d = "1" -> 1 [] d = "8" -> 8 [] d = "a" -> 10]
Operators == {<<"+">>, <<"+", "+">>, <<"+", "=">>, <<"*">>, <<"*", "*">>, <<"*", "*", "=">>, <<"*", "=">>, <<"/">>, <<"/", "=">>, <<"=">>, <<"=", "=">>, <<"!">>,
              <<"!", "=">>, <<"!", "~">>, <<"~">>, <<">">>, <<">", "=">>, <<">", ">">>, <<"&", "&">>, <<"|", "|">>, <<"(">>, <<")">>, <<"[">>, <<"]">>, <<"\n">>, <<";">>, <<"$">>}

LexAt(s, i) == IF i <= Len(s) THEN s[i] ELSE "end"

\* skipLineContinuations.
RECURSIVE Joined(_, _)
Joined(s, i) == IF LexAt(s, i) = "\\" /\ LexAt(s, i + 1) = "\n" THEN Joined(s, i + 2)
                ELSE IF LexAt(s, i) = "\\" /\ LexAt(s, i + 1) = "\r" /\ LexAt(s, i + 2) = "\n" THEN Joined(s, i + 3) ELSE i
\* What peek sees at i.
Peeked(s, i) == LexAt(s, Joined(s, i))

RECURSIVE LineEnd(_, _), SkipBlank(_, _), Run(_, _, _)
LineEnd(s, i) == IF LexAt(s, i) \in {"\n", "end"} THEN i ELSE LineEnd(s, i + 1)
SkipBlank(s, i) ==
  LET j == Joined(s, i)
  IN  IF LexAt(s, j) \in Blanks THEN SkipBlank(s, j + 1) ELSE IF LexAt(s, j) = "#" THEN SkipBlank(s, LineEnd(s, j)) ELSE j
\* The first place at or behind i, continuations aside, whose character is not in cs.
Run(s, i, cs) == IF Peeked(s, i) \in cs THEN Run(s, Joined(s, i) + 1, cs) ELSE Joined(s, i)

\* tokenLiteral: the characters from i up to j without the continuations.
RECURSIVE TokenLiteral(_, _, _)
TokenLiteral(s, i, j) == IF i >= j THEN <<>> ELSE IF Joined(s, i) # i THEN TokenLiteral(s, Joined(s, i), j) ELSE <<s[i]>> \o TokenLiteral(s, i + 1, j)

Scanned(at, k, v) == [at |-> at, err |-> "", tok |-> [k |-> k, v |-> v]]
Unlexed(why) == [at |-> 0, err |-> why, tok |-> [k |-> "eof", v |-> <<>>]]

ScanIdent(s, start) == LET end == Run(s, start, LexLetters \cup LexDigits) IN Scanned(end, "id", TokenLiteral(s, start, end))

\* Where a number ends whose digits end at i: behind an exponent, if it has digits.
Exponent(s, i) ==
  LET sign == Joined(s, i) + 1
      digits == IF Peeked(s, sign) = "+" THEN Joined(s, sign) + 1 ELSE sign
  IN  IF Peeked(s, i) # "e" \/ Peeked(s, digits) \notin LexDigits THEN Joined(s, i) ELSE Run(s, digits, LexDigits)

ScanNumber(s, start) ==
  LET whole == Run(s, start, LexDigits)
  IN  Once(Exponent(s, IF s[start] = "." THEN Run(s, start + 1, LexDigits) ELSE IF Peeked(s, whole) = "." THEN Run(s, whole + 1, LexDigits) ELSE whole), LAMBDA end : IF s[start] = "0" /\ Peeked(s, start + 1) = "x" THEN Unlexed("non-decimal") ELSE Scanned(end, "num", TokenLiteral(s, start, end)))

SimpleEscape(c) == CASE c = "n" -> 10 [] c = "a" -> 7 [] OTHER -> c

\* decodeAwkHexEscape: x and at most two digits; n is the number of digits.
HexEscape(s) ==
  LET n == IF LexAt(s, 1) # "x" THEN 0 ELSE IF LexAt(s, 2) \notin HexDigits THEN 0 ELSE IF LexAt(s, 3) \notin HexDigits THEN 1 ELSE 2
  IN  [n |-> n, value |-> IF n = 0 THEN 0 ELSE IF n = 1 THEN LexDigitValue[s[2]] ELSE 16 * LexDigitValue[s[2]] + LexDigitValue[s[3]]]

\* The octal digits at i, at most n more; peek passes continuations only in a program's text.
RECURSIVE ScanOctal(_, _, _, _), ScanString(_, _, _), DecodeOctal(_, _, _), DecodeAwkEscapes(_)
ScanOctal(s, i, n, value) == IF n = 0 \/ Peeked(s, i) \notin OctalDigits THEN [at |-> i, value |-> value % 256]
                             ELSE ScanOctal(s, Joined(s, i) + 1, n - 1, 8 * value + LexDigitValue[Peeked(s, i)])

ScanString(s, from, sofar) ==
  LET i == Joined(s, from)
      esc == Joined(s, i + 1)
      octal == ScanOctal(s, i + 1, 3, 0)
      hex == HexEscape(SubSeq(s, esc, Len(s)))
  IN  CASE i > Len(s) \/ s[i] = "\n" -> Unlexed("unterminated string")
        [] s[i] = "\"" -> Scanned(i + 1, "str", sofar)
        [] s[i] # "\\" -> ScanString(s, i + 1, Append(sofar, s[i]))
        [] s[i] = "\\" /\ esc > Len(s) -> Unlexed("unterminated escape")
        [] OTHER -> IF LexAt(s, esc) \in OctalDigits THEN ScanString(s, octal.at, Append(sofar, octal.value))
                    ELSE IF hex.n > 0 THEN ScanString(s, esc + 1 + hex.n, Append(sofar, hex.value))
                    ELSE ScanString(s, esc + 1, Append(sofar, SimpleEscape(s[esc])))

DecodeOctal(s, n, value) == IF n = 0 \/ LexAt(s, 1) \notin OctalDigits THEN [rest |-> s, value |-> value % 256] ELSE DecodeOctal(Tail(s), n - 1, 8 * value + LexDigitValue[s[1]])

\* The same decoding for the value of a command-line assignment.
DecodeAwkEscapes(s) ==
  LET rest == Tail(s)
      octal == DecodeOctal(rest, 3, 0)
      hex == HexEscape(rest)
  IN  IF s = <<>> THEN <<>>
      ELSE IF s[1] # "\\" \/ rest = <<>> THEN <<s[1]>> \o DecodeAwkEscapes(rest)
      ELSE IF rest[1] \in OctalDigits THEN <<octal.value>> \o DecodeAwkEscapes(octal.rest)
      ELSE IF hex.n > 0 THEN <<hex.value>> \o DecodeAwkEscapes(SubSeq(rest, 2 + hex.n, Len(rest)))
      ELSE <<SimpleEscape(rest[1])>> \o DecodeAwkEscapes(Tail(rest))

\* A regular expression up to a slash outside a bracket expression.  b is [in, start, member, sub, end]: inside one, nothing read yet, something
\* read, inside [: :] and at its closing colon.
NoBracket == [in |-> FALSE, start |-> FALSE, member |-> FALSE, sub |-> FALSE, end |-> FALSE]

Bracket(b, c, next) ==
  IF ~b.in THEN IF c = "[" THEN [NoBracket EXCEPT !.in = TRUE, !.start = TRUE] ELSE b
  ELSE IF b.sub THEN [b EXCEPT !.sub = ~(c = "]" /\ b.end), !.end = ~(c = "]" /\ b.end) /\ c = ":", !.start = FALSE, !.member = TRUE]
  ELSE IF c = "[" THEN [b EXCEPT !.sub = next = ":", !.start = FALSE, !.member = TRUE]
  ELSE IF b.start /\ c = "^" THEN [b EXCEPT !.start = FALSE]
  ELSE IF c = "]" /\ b.member THEN [b EXCEPT !.in = FALSE]
  ELSE [b EXCEPT !.start = FALSE, !.member = TRUE]

RECURSIVE ScanRegex(_, _, _, _)
ScanRegex(s, from, sofar, b) ==
  LET i == Joined(s, from)
      esc == Joined(s, i + 1)
  IN  CASE i > Len(s) \/ s[i] = "\n" -> Unlexed("unterminated regular expression")
        [] s[i] = "/" /\ ~b.in -> Scanned(i + 1, "re", sofar)
        [] s[i] = "\\" -> IF esc > Len(s) THEN Unlexed("unterminated escape")
                          ELSE ScanRegex(s, esc + 1, sofar \o <<"\\", s[esc]>>, IF b.in THEN [b EXCEPT !.start = FALSE, !.member = TRUE] ELSE b)
        [] OTHER -> ScanRegex(s, i + 1, Append(sofar, s[i]), Bracket(b, s[i], Peeked(s, i + 1)))

\* Whether a slash behind this token begins a regular expression.
CanStartRegex(prev) ==
  \/ prev.k = "eof"
  \/ prev.k = "id" /\ prev.v \in RegexKeywords
  \/ prev.k = "op" /\ prev.v \notin {<<")">>, <<"]">>, <<"$">>, <<"+", "+">>, <<">", ">">>}

\* An operator: its first character, and as many more as still make one.
ScanOperator(s, i) ==
  LET second == Joined(s, i + 1)
      third == Joined(s, second + 1)
      one == <<LexAt(s, i)>>
      two == Append(one, LexAt(s, second))
      three == Append(two, LexAt(s, third))
  IN  IF two \in Operators /\ three \in Operators THEN Scanned(third + 1, "op", three)
      ELSE IF two \in Operators THEN Scanned(second + 1, "op", two)
      ELSE IF one \in Operators THEN Scanned(i + 1, "op", one) ELSE Unlexed("unexpected character")

LexNext(s, at, prev) ==
  Once(SkipBlank(s, at), LAMBDA i :
  LET c == LexAt(s, i)
  IN  CASE i > Len(s) -> Scanned(i, "eof", <<>>)
        [] c = "/" /\ CanStartRegex(prev) -> ScanRegex(s, i + 1, <<>>, NoBracket)
        [] c = "\"" -> ScanString(s, i + 1, <<>>)
        [] c \in LexDigits \/ (c = "." /\ Peeked(s, i + 1) \in LexDigits) -> ScanNumber(s, i)
        [] c \in LexLetters -> ScanIdent(s, i)
        [] OTHER -> ScanOperator(s, i))

RECURSIVE LexFrom(_, _, _, _)
LexFrom(s, at, prev, sofar) ==
  Once(LexNext(s, at, prev), LAMBDA t :
      IF t.err # "" THEN [err |-> t.err, toks |-> <<>>]
      ELSE IF t.tok.k = "eof" THEN [err |-> "", toks |-> sofar] ELSE LexFrom(s, t.at, t.tok, Append(sofar, t.tok)))
Lex(s) == LexFrom(s, 1, [k |-> "eof", v |-> <<>>], <<>>)

-----------------------------------------------------------------------------
(* What the tokens of a text are, by the forms of the tokens alone.           *)

AllIn(t, cs) == \A i \in DOMAIN t : t[i] \in cs
Ints(t) == t # <<>> /\ AllIn(t, LexDigits)
ExponentForm(t) == t = <<>> \/ (t[1] = "e" /\ (Ints(Tail(t)) \/ (LexAt(t, 2) = "+" /\ Ints(SubSeq(t, 3, Len(t))))))
NumberForm(t) == \E i, j \in 0..Len(t) : /\ i <= j /\ ExponentForm(SubSeq(t, j + 1, Len(t)))
                                         /\ LET w == SubSeq(t, 1, i) f == SubSeq(t, i + 1, j)
                                            IN  (Ints(w) /\ (f = <<>> \/ (f[1] = "." /\ AllIn(Tail(f), LexDigits)))) \/ (w = <<>> /\ f # <<>> /\ f[1] = "." /\ Ints(Tail(f)))
\* The places of t inside a bracket expression: behind its [, and not yet behind the first ] that is not its first character.
RegexForm(t) ==
  /\ Len(t) >= 2 /\ t[1] = "/" /\ Last(t) = "/"
  /\ LET closers(i) == {j \in (i + 2)..(Len(t) - 1) : t[j] = "]"}
         RECURSIVE outside(_)
         outside(i) == IF i > Len(t) - 1 THEN TRUE
                       ELSE IF t[i] = "[" THEN closers(i) # {} /\ outside(1 + CHOOSE j \in closers(i) : \A k \in closers(i) : j <= k)
                       ELSE t[i] \notin {"/", "\n"} /\ outside(i + 1)
     IN  outside(2)
Form(t, prev) == CASE t[1] = "/" /\ (prev.k = "eof" \/ prev.v = <<"e", "x", "i", "t">> \/ (prev.k = "op" /\ prev.v \notin {<<")">>, <<"]">>, <<"+", "+">>})) -> IF RegexForm(t) THEN "re" ELSE ""
                   [] t[1] \in LexLetters -> IF AllIn(t, LexLetters \cup LexDigits) THEN "id" ELSE ""
                   [] t[1] \in LexDigits \cup {"."} -> IF NumberForm(t) THEN "num" ELSE ""
                   [] OTHER -> IF t \in Operators THEN "op" ELSE ""

RECURSIVE TokensOf(_, _, _)
TokensOf(s, prev, sofar) ==
  LET ends == {n \in 1..Len(s) : Form(SubSeq(s, 1, n), prev) # ""}
      regex == \E n \in ends : Form(SubSeq(s, 1, n), prev) = "re"
  IN  Once(CHOOSE n \in ends : \A m \in ends : IF regex THEN n <= m ELSE m <= n, LAMBDA n :
  LET t == SubSeq(s, 1, n)
      k == Form(t, prev)
      tok == [k |-> k, v |-> IF k = "re" THEN SubSeq(t, 2, n - 1) ELSE t]
  IN  IF s = <<>> THEN [err |-> "", toks |-> sofar]
      ELSE IF s[1] = " " THEN TokensOf(Tail(s), prev, sofar)
      ELSE IF ends = {} \/ (s[1] = "0" /\ LexAt(s, 2) = "x") THEN [err |-> "refused", toks |-> <<>>]
      ELSE TokensOf(SubSeq(s, n + 1, Len(s)), tok, Append(sofar, tok)))

\* The lexer splits a program as its tokens' forms say: each the longest possible, a regular expression up to its first slash outside brackets, and a slash
\* a division exactly behind an operand.
LexExact ==
  call.tool = "awklex" => LET l == Lex(call.text) r == TokensOf(call.text, [k |-> "eof", v |-> <<>>], <<>>)
                          IN  (l.err = "") = (r.err = "") /\ l.toks = r.toks

\* A line continuation may stand anywhere in a program, in the middle of a token too, and changes nothing.
ContinuationInvisible ==
  call.tool \in {"awklex", "awkjoin"} =>
    \A i \in 0..Len(call.text) : ~(i > 0 /\ call.text[i] = "\\") =>
      Lex(SubSeq(call.text, 1, i) \o <<"\\", "\n">> \o SubSeq(call.text, i + 1, Len(call.text))) = Lex(call.text)

\* The escapes of a string in the program and of a value assigned on the command line mean the same.
EscapesAgree ==
  call.tool = "awkescape" => LET l == Lex(<<"\"">> \o call.text \o <<"\"">>) IN l.err = "" => l.toks = <<[k |-> "str", v |-> DecodeAwkEscapes(call.text)]>>

-----------------------------------------------------------------------------
(***************************************************************************)
(* The awk parser (builtins/awk/parser.go) on tokens.  A token is [k, v,   *)
(* glued]: its kind ("id", "num", "str", "re", or the operator itself),    *)
(* its text, and whether it directly follows the token before it.  Every   *)
(* node of the syntax tree is [k, v, w, xs, body, els, ends]: its kind,    *)
(* its name or operator, a second name, its expressions, its statements,   *)
(* those of else, and whether it ended with a brace.  A parse gives        *)
(* [at, err, v].  The context c is [toks, stop, depth, fn]: the tokens,    *)
(* whether > ends an expression, the nesting, whether a function is read.  *)
(***************************************************************************)
CONSTANTS MaxParserDepth, MaxFunctionArguments, MaxFunctionParameters

Node(k, v, xs) == [k |-> k, v |-> v, w |-> "", xs |-> xs, body |-> <<>>, els |-> <<>>, ends |-> FALSE]
NoExpr == Node("nil", "", <<>>)
AwkParsed(at, v) == [at |-> at, err |-> "", v |-> v]
Refused(why) == [at |-> 0, err |-> why, v |-> NoExpr]

Kind(c, at) == IF at <= Len(c.toks) THEN c.toks[at].k ELSE "eof"
TokenText(c, at) == IF at <= Len(c.toks) THEN c.toks[at].v ELSE ""
IsIdent(c, at, s) == Kind(c, at) = "id" /\ TokenText(c, at) = s
RECURSIVE PastKinds(_, _, _)
PastKinds(c, at, ks) == IF Kind(c, at) \in ks THEN PastKinds(c, at + 1, ks) ELSE at
SkipNewlines(c, at) == PastKinds(c, at, {"\n"})
SkipSeparators(c, at) == PastKinds(c, at, {"\n", ";"})

-----------------------------------------------------------------------------
(* Names and operators; of those the parser treats alike, a few stand for all. *)

SupportedBuiltins == {"gsub", "index", "length", "substr"}
UnsupportedBuiltins == {"system", "rand"}
Keywords == {"BEGIN", "END", "if", "while", "for", "next", "exit", "break", "continue", "return", "function", "else", "getline", "in",
             "delete", "printf", "print"}
ContextualKeywords == {"switch"}
ReservedVariables == {"NF", "NR"}

ValidReference(name) == name \notin Keywords \cup SupportedBuiltins \cup UnsupportedBuiltins
ValidFunctionName(name) == name \notin Keywords \cup ContextualKeywords \cup SupportedBuiltins \cup UnsupportedBuiltins \cup ReservedVariables
ValidParameterName(function, name) == name \notin {function} \cup ReservedVariables \cup SupportedBuiltins \cup UnsupportedBuiltins \cup Keywords
ValidArity(name, n) == CASE name = "length" -> n <= 1 [] name \in {"substr", "gsub"} -> n \in 2..3 [] name = "index" -> n = 2 [] OTHER -> TRUE

AssignOps == {"=", "+=", "^="}
CompareOps == {"==", "<", ">"}
Assignable(x) == x.k \in {"var", "idx", "field"}

PrecTernary == 15
PrecIn == 35
PrecConcat == 50
PrecPrefix == 80
PrecPostfix == 100

\* Mutant: a comparison binds more tightly than a concatenation.
BinaryPrecTight(op) == CASE op \in AssignOps -> 10 [] op = "||" -> 20 [] op = "&&" -> 30 [] op \in {"~", "!~"} -> 40 [] op \in CompareOps -> 55
                         [] op \in {"+", "-"} -> 60 [] op \in {"*", "/"} -> 70 [] op = "^" -> 90 [] OTHER -> -1

\* The binary operators with their precedence; -1 for any other token.
BinaryPrec(op) == CASE op \in AssignOps -> 10 [] op = "||" -> 20 [] op = "&&" -> 30 [] op \in {"~", "!~"} -> 40 [] op \in CompareOps -> 45
                    [] op \in {"+", "-"} -> 60 [] op \in {"*", "/"} -> 70 [] op = "^" -> 90 [] OTHER -> -1
RightAssoc(op) == op \in AssignOps \cup {"^"}
StartsConcatenation(k) == k \in {"id", "num", "str", "re", "$", "(", "!", "++", "--"}

RECURSIVE LiteralNumber(_)
LiteralNumber(x) == CASE x.k = "num" -> IF x.v = "0" THEN 0 ELSE 1
                      [] x.k = "un" /\ x.v = "-" -> LiteralNumber(x.xs[1])
                      [] x.k = "un" /\ x.v = "!" -> LET n == LiteralNumber(x.xs[1]) IN IF n = -1 THEN -1 ELSE 1 - n
                      [] OTHER -> -1

-----------------------------------------------------------------------------
(* Expressions.                                                               *)

Descended(c) == [c EXCEPT !.depth = @ + 1]
Unstopped(c) == [c EXCEPT !.stop = FALSE]

\* The parts of a program that contain each other.
RECURSIVE Parsing(_, _, _, _, _, _)
ParseExpr(c, at, minPrec, bare) == Parsing("expr", c, at, minPrec, bare, <<>>)
ParseExprList(c, at, close, sofar, max) == Parsing("exprs", c, at, close, sofar, max)
ParseStatement(outer, at) == Parsing("statement", outer, at, <<>>, <<>>, <<>>)
ParseStatementGroup(c, from) == Parsing("group", c, from, <<>>, <<>>, <<>>)
ParseStatementList(c, from, sofar) == Parsing("list", c, from, sofar, <<>>, <<>>)
ParseRules(c, at, rules, functions) == Parsing("rules", c, at, rules, functions, <<>>)
ParseProgram(toks) == Parsing("program", toks, <<>>, <<>>, <<>>, <<>>)

RECURSIVE ParsePrefix(_, _), Climb(_, _, _, _, _), ParseFieldRef(_, _), ParseFunctionCall(_, _)

\* parseExpressionWithBareComposite.
ParseExpressionWithBareComposite(c, at, minPrec, bare) ==
  LET left == ParsePrefix(Descended(c), at)
  IN  IF c.depth >= MaxParserDepth THEN Refused("depth")
      ELSE IF left.err # "" THEN left ELSE Climb(Descended(c), left.at, left.v, minPrec, bare)

\* The expressions of a list up to its closing token; at most max of them.
ParseExpressions(c, at, close, sofar, max) ==
  LET x == ParseExpr(c, at, 0, FALSE)
  IN  IF Len(sofar) >= max THEN Refused("too many arguments")
      ELSE IF x.err # "" THEN x
      ELSE IF Kind(c, x.at) = close THEN [at |-> x.at + 1, err |-> "", v |-> Append(sofar, x.v)]
      ELSE IF Kind(c, x.at) = "," THEN ParseExprList(c, SkipNewlines(c, x.at + 1), close, Append(sofar, x.v), max)
      ELSE Refused("expected , or close")

ParseFunctionCall(c, at) ==
  LET name == TokenText(c, at)
      args == IF Kind(c, at + 2) = ")" THEN [at |-> at + 3, err |-> "", v |-> <<>>] ELSE ParseExprList(c, at + 2, ")", <<>>, MaxFunctionArguments)
  IN  IF name \in Keywords \cup UnsupportedBuiltins THEN Refused("not supported")
      ELSE IF args.err # "" THEN args
      ELSE IF name \in SupportedBuiltins /\ ~ValidArity(name, Len(args.v)) THEN Refused("arity")
      ELSE IF name = "gsub" /\ Len(args.v) = 3 /\ ~Assignable(args.v[3]) THEN Refused("not assignable")
      ELSE AwkParsed(args.at, Node("call", name, args.v))

ParseFieldRef(c, at) ==
  LET ident == Kind(c, at + 1) = "id" /\ Kind(c, at + 2) # "("
      index == ParseExprList(c, at + 3, "]", <<>>, Len(c.toks) + 1)
      x == ParseExpr(c, at + 1, PrecPostfix + 1, FALSE)
  IN  IF ident /\ ~ValidReference(TokenText(c, at + 1)) THEN Refused("reference")
      ELSE IF ident /\ Kind(c, at + 2) = "[" THEN IF index.err # "" THEN index ELSE AwkParsed(index.at, Node("field", "", <<Node("idx", TokenText(c, at + 1), index.v)>>))
      ELSE IF ident THEN AwkParsed(at + 2, Node("field", "", <<Node("var", TokenText(c, at + 1), <<>>)>>))
      ELSE IF Kind(c, at + 1) \notin {"num", "str", "re", "id", "$", "(", "+", "-", "!", "++", "--"} THEN Refused("expected field")
      ELSE IF x.err # "" THEN x ELSE AwkParsed(x.at, Node("field", "", <<x.v>>))

ParsePrefix(c, at) ==
  LET k == Kind(c, at)
      v == TokenText(c, at)
      calls == k = "id" /\ Kind(c, at + 1) = "(" /\ (c.toks[at + 1].glued \/ v \in SupportedBuiltins \cup UnsupportedBuiltins)
      index == ParseExprList(c, at + 2, "]", <<>>, Len(c.toks) + 1)
      inner == ParseExpr(Unstopped(c), at + 1, 0, FALSE)
      more == ParseExprList(c, SkipNewlines(c, inner.at + 1), ")", <<inner.v>>, Len(c.toks) + 1)
      operand == ParseExpr(c, at + 1, IF k \in {"++", "--"} THEN PrecPostfix + 1 ELSE PrecPrefix, FALSE)
  IN  CASE k \in {"num", "str", "re"} -> AwkParsed(at + 1, Node(k, v, <<>>))
        [] calls -> ParseFunctionCall(c, at)
        [] k = "id" /\ v = "length" -> AwkParsed(at + 1, Node("call", v, <<>>))
        [] k = "id" /\ ~ValidReference(v) -> Refused("reference")
        [] k = "id" /\ Kind(c, at + 1) = "[" -> IF index.err # "" THEN index ELSE AwkParsed(index.at, Node("idx", v, index.v))
        [] k = "id" -> AwkParsed(at + 1, Node("var", v, <<>>))
        [] k = "$" -> ParseFieldRef(c, at)
        [] k = "(" -> IF inner.err # "" THEN inner
                      ELSE IF Kind(c, inner.at) = "," THEN IF more.err # "" THEN more ELSE AwkParsed(more.at, Node("comp", "", more.v))
                      ELSE IF Kind(c, inner.at) = ")" THEN AwkParsed(inner.at + 1, Node("group", "", <<inner.v>>)) ELSE Refused("expected )")
        [] k \in {"+", "-", "!"} -> IF operand.err # "" THEN operand ELSE AwkParsed(operand.at, Node("un", k, <<operand.v>>))
        [] k \in {"++", "--"} -> IF operand.err # "" THEN operand
                                 ELSE IF Assignable(operand.v) THEN AwkParsed(operand.at, Node("pre", k, <<operand.v>>)) ELSE Refused("not assignable")
        [] OTHER -> Refused("expected expression")

\* The loop behind a prefix: one more operator, or the end of the expression.
Climb(c, at, left, minPrec, bare) ==
  LET k == Kind(c, at)
      prec == BinaryPrec(k)
      then == ParseExpr(c, SkipNewlines(c, at + 1), 0, FALSE)
      else == ParseExpr(c, SkipNewlines(c, then.at + 1), 10, FALSE)
      right == ParseExpr(c, IF k \in {"||", "&&"} THEN SkipNewlines(c, at + 1) ELSE at + 1, IF RightAssoc(k) THEN prec ELSE prec + 1, FALSE)
      joined == ParseExpr(c, at, PrecConcat + 1, FALSE)
      binary == Node(IF k \in AssignOps THEN "assign" ELSE "bin", k, <<left, right.v>>)
      concat == minPrec <= PrecConcat /\ StartsConcatenation(k)
  IN  IF left.k = "comp" /\ (~IsIdent(c, at, "in") \/ PrecIn < minPrec) THEN IF bare THEN AwkParsed(at, left) ELSE Refused("composite")
      ELSE IF k = "?" THEN IF PrecTernary < minPrec THEN AwkParsed(at, left)
                           ELSE IF then.err # "" THEN then
                           ELSE IF Kind(c, then.at) # ":" THEN Refused("expected :")
                           ELSE IF else.err # "" THEN else
                           ELSE Climb(c, else.at, Node("tern", "", <<left, then.v, else.v>>), minPrec, bare)
      ELSE IF k \in {"++", "--"} /\ PrecPostfix < minPrec THEN AwkParsed(at, left)
      ELSE IF k \in {"++", "--"} /\ Assignable(left) THEN Climb(c, at + 1, Node("post", k, <<left>>), minPrec, bare)
      ELSE IF c.stop /\ k \in {">", ">>"} THEN AwkParsed(at, left)
      ELSE IF IsIdent(c, at, "in") THEN IF PrecIn < minPrec THEN AwkParsed(at, left)
                                        ELSE IF Kind(c, at + 1) # "id" \/ ~ValidReference(TokenText(c, at + 1)) THEN Refused("in")
                                        ELSE Climb(c, at + 2, Node("bin", "in", <<left, Node("var", TokenText(c, at + 1), <<>>)>>), minPrec, bare)
      ELSE IF prec >= 0 THEN IF prec < minPrec THEN AwkParsed(at, left)
                             ELSE IF right.err # "" THEN right
                             ELSE IF k = "/" /\ LiteralNumber(right.v) = 0 THEN Refused("division by zero")
                             ELSE IF k \in CompareOps /\ left.k = "bin" /\ left.v \in CompareOps THEN Refused("chained comparisons")
                             ELSE IF k \in AssignOps /\ ~Assignable(left) THEN Refused("assignment")
                             ELSE Climb(c, right.at, binary, minPrec, bare)
      ELSE IF concat THEN IF joined.err # "" THEN joined ELSE Climb(c, joined.at, Node("bin", "concat", <<left, joined.v>>), minPrec, bare)
      ELSE AwkParsed(at, left)

ParseAwkExpression(c, at) == ParseExpr(c, at, 0, FALSE)

-----------------------------------------------------------------------------
(* Statements.                                                                *)

EndsStatement(c, at) == Kind(c, at) \in {"}", "eof", "\n", ";"}
Redirected(c, at) == Kind(c, at) \in {">", ">>"}
Compound(k, xs, body, els, ends) == [Node(k, "", xs) EXCEPT !.body = body, !.els = els, !.ends = ends]

RECURSIVE ParsePrint(_, _, _, _), ParsePrintf(_, _, _, _)

\* The statements up to the closing brace, each behind a separator unless it ended with a brace.
ParseStatementsOfAction(c, from, sofar) ==
  LET at == SkipSeparators(c, from)
      st == ParseStatement(c, at)
  IN  IF Kind(c, at) = "}" THEN [at |-> at + 1, err |-> "", v |-> sofar]
      ELSE IF Kind(c, at) = "eof" THEN Refused("unterminated action")
      ELSE IF st.err # "" THEN st
      ELSE IF EndsStatement(c, st.at) \/ st.v.ends THEN ParseStatementList(c, st.at, Append(sofar, st.v))
      ELSE Refused("expected statement separator")

ParseAction(c, at) == IF Kind(c, at) = "{" THEN ParseStatementList(c, at + 1, <<>>) ELSE Refused("expected action")

\* The body of a loop or branch: nothing before a semicolon, a block, or one statement.
ParseGroupOrStatement(c, from) ==
  LET at == SkipNewlines(c, from)
      block == ParseStatementList(c, at + 1, <<>>)
      st == ParseStatement(c, at)
      group(at2, body, braced) == [at |-> at2, err |-> "", v |-> body, braced |-> braced]
  IN  IF Kind(c, at) = ";" THEN group(at, <<>>, FALSE)
      ELSE IF Kind(c, at) = "{" THEN IF block.err # "" THEN block ELSE group(block.at, block.v, TRUE)
      ELSE IF st.err # "" THEN st ELSE group(st.at, <<st.v>>, st.v.ends)

\* Where an else would stand behind a branch, and where parsing goes on without one.
ElseAt(c, then) ==
  LET semi == ~then.braced /\ Kind(c, then.at) = ";"
  IN  [at |-> SkipNewlines(c, IF semi THEN then.at + 1 ELSE then.at), back |-> then.at, may |-> then.braced \/ semi \/ Kind(c, then.at) = "\n"]

\* if and while: a condition in parentheses, a body, and for if an else.
ParseIf(c, at) ==
  LET cond == ParseAwkExpression(c, at + 2)
      then == ParseStatementGroup(c, cond.at + 1)
      e == ElseAt(c, then)
      els == ParseStatementGroup(c, e.at + 1)
  IN  IF Kind(c, at + 1) # "(" THEN Refused("expected (")
      ELSE IF cond.err # "" THEN cond
      ELSE IF Kind(c, cond.at) # ")" THEN Refused("expected )")
      ELSE IF then.err # "" THEN then
      ELSE IF ~(e.may /\ IsIdent(c, e.at, "else")) THEN AwkParsed(e.back, Compound("if", <<cond.v>>, then.v, <<>>, then.braced))
      ELSE IF els.err # "" THEN els
      ELSE AwkParsed(els.at, Compound("if", <<cond.v>>, then.v, els.v, els.braced))

ParseWhile(c, at) ==
  LET cond == ParseAwkExpression(c, at + 2)
      body == ParseStatementGroup(c, cond.at + 1)
  IN  IF Kind(c, at + 1) # "(" THEN Refused("expected (")
      ELSE IF cond.err # "" THEN cond
      ELSE IF Kind(c, cond.at) # ")" THEN Refused("expected )")
      ELSE IF body.err # "" THEN body
      ELSE AwkParsed(body.at, Compound("while", <<cond.v>>, body.v, <<>>, body.braced))

ParseOptional(c, at, end) == IF Kind(c, at) = end THEN AwkParsed(at, NoExpr) ELSE ParseAwkExpression(c, at)

ParseForIn(c, at) ==
  LET body == ParseStatementGroup(c, at + 6)
  IN  IF ~ValidReference(TokenText(c, at + 2)) \/ Kind(c, at + 4) # "id" \/ ~ValidReference(TokenText(c, at + 4)) \/ Kind(c, at + 5) # ")" THEN Refused("for in")
      ELSE IF body.err # "" THEN body
      ELSE AwkParsed(body.at, [Compound("forin", <<>>, body.v, <<>>, body.braced) EXCEPT !.v = TokenText(c, at + 2), !.w = TokenText(c, at + 4)])

ParseFor(c, at) ==
  LET init == ParseOptional(c, at + 2, ";")
      cond == ParseOptional(c, SkipNewlines(c, init.at + 1), ";")
      post == ParseOptional(c, SkipNewlines(c, cond.at + 1), ")")
      body == ParseStatementGroup(c, post.at + 1)
  IN  IF Kind(c, at + 1) # "(" THEN Refused("expected (")
      ELSE IF Kind(c, at + 2) = "id" /\ IsIdent(c, at + 3, "in") THEN ParseForIn(c, at)
      ELSE IF init.err # "" THEN init
      ELSE IF Kind(c, init.at) # ";" THEN Refused("expected ;")
      ELSE IF cond.err # "" THEN cond
      ELSE IF Kind(c, cond.at) # ";" THEN Refused("expected ;")
      ELSE IF post.err # "" THEN post
      ELSE IF Kind(c, post.at) # ")" THEN Refused("expected )")
      ELSE IF body.err # "" THEN body
      ELSE AwkParsed(body.at, Compound("for", <<init.v, cond.v, post.v>>, body.v, <<>>, body.braced))

\* exit and return, with or without a value.
ParseValued(c, at, k) ==
  LET x == ParseAwkExpression(c, at + 1)
  IN  IF EndsStatement(c, at + 1) THEN AwkParsed(at + 1, Node(k, "", <<>>))
      ELSE IF x.err # "" THEN x ELSE AwkParsed(x.at, Node(k, "", <<x.v>>))

ParseDelete(c, at) ==
  LET index == ParseExprList(c, at + 3, "]", <<>>, Len(c.toks) + 1)
  IN  IF Kind(c, at + 1) # "id" \/ ~ValidReference(TokenText(c, at + 1)) THEN Refused("delete")
      ELSE IF Kind(c, at + 2) # "[" THEN AwkParsed(at + 2, Node("delete", TokenText(c, at + 1), <<>>))
      ELSE IF index.err # "" THEN index ELSE AwkParsed(index.at, Node("delete", TokenText(c, at + 1), index.v))

\* The arguments of print; the first may be a list in parentheses, which is then all of them.
ParsePrint(c, at, sofar, parens) ==
  LET x == ParseExpr([c EXCEPT !.stop = TRUE], at, 0, parens)
      list == parens /\ x.v.k = "comp"
      args == IF list THEN x.v.xs ELSE Append(sofar, x.v)
  IN  IF x.err # "" THEN x
      ELSE IF list /\ Kind(c, x.at) = "," THEN Refused("unexpected comma")
      ELSE IF Redirected(c, x.at) THEN Refused("redirection")
      ELSE IF Kind(c, x.at) = "," THEN ParsePrint(c, SkipNewlines(c, x.at + 1), args, FALSE)
      ELSE AwkParsed(x.at, Node("print", "", args))

\* The arguments of printf; a parenthesis closed behind the first argument may group that argument alone.
ParsePrintf(c, at, sofar, parens) ==
  LET x == ParseAwkExpression([c EXCEPT !.stop = TRUE], at)
      args == Append(sofar, x.v)
      more == SkipNewlines(c, x.at + 1)
  IN  IF x.err # "" THEN x
      ELSE IF Redirected(c, x.at) THEN Refused("redirection")
      ELSE IF parens /\ Kind(c, x.at) = ")" THEN IF Len(args) = 1 /\ Kind(c, x.at + 1) = "," THEN ParsePrintf(c, SkipNewlines(c, x.at + 2), args, FALSE)
                                                 ELSE IF Redirected(c, x.at + 1) THEN Refused("redirection") ELSE AwkParsed(x.at + 1, Node("printf", "", args))
      ELSE IF Kind(c, x.at) = "," THEN ParsePrintf(c, more, args, parens)
      ELSE IF parens THEN Refused("expected , or )") ELSE AwkParsed(x.at, Node("printf", "", args))

ParseOneStatement(outer, at) ==
  LET c == Descended(outer)
      is(s) == IsIdent(c, at, s)
      x == ParseAwkExpression(c, at)
      parens == Kind(c, at + 1) = "("
  IN  IF outer.depth >= MaxParserDepth THEN Refused("depth")
      ELSE CASE is("if") -> ParseIf(c, at)
             [] is("for") -> ParseFor(c, at)
             [] is("while") -> ParseWhile(c, at)
             [] is("exit") -> ParseValued(c, at, "exit")
             [] is("return") -> IF c.fn THEN ParseValued(c, at, "return") ELSE Refused("return")
             [] is("next") \/ is("break") \/ is("continue") -> AwkParsed(at + 1, Node(TokenText(c, at), "", <<>>))
             [] is("print") -> IF EndsStatement(c, at + 1) THEN AwkParsed(at + 1, Node("print", "", <<>>)) ELSE ParsePrint(c, at + 1, <<>>, parens)
             [] is("printf") -> LET first == IF parens THEN at + 2 ELSE at + 1
                                IN  IF EndsStatement(c, first) \/ Kind(c, first) = ")" THEN Refused("printf format") ELSE ParsePrintf(c, first, <<>>, parens)
             [] is("delete") -> ParseDelete(c, at)
             [] OTHER -> IF x.err # "" THEN x ELSE AwkParsed(x.at, Node("expr", "", <<x.v>>))

-----------------------------------------------------------------------------
(* Programs: rules ("BEGIN", "END" or "rule", ends: with an action) and       *)
(* functions, in order.                                                       *)

RECURSIVE ParseParameters(_, _, _, _)

ParseParameters(c, at, name, sofar) ==
  LET p == TokenText(c, at)
      all == Append(sofar, p)
  IN  IF Kind(c, at) # "id" \/ Len(sofar) >= MaxFunctionParameters \/ ~ValidParameterName(name, p) \/ p \in ToSet(sofar) THEN Refused("parameter")
      ELSE IF Kind(c, at + 1) = ")" THEN [at |-> at + 2, err |-> "", v |-> all]
      ELSE IF Kind(c, at + 1) # "," THEN Refused("expected , or )")
      ELSE ParseParameters(c, SkipNewlines(c, at + 2), name, all)

ParseFunctionDefinition(c, at) ==
  LET name == TokenText(c, at + 1)
      params == IF Kind(c, at + 3) = ")" THEN [at |-> at + 4, err |-> "", v |-> <<>>] ELSE ParseParameters(c, at + 3, name, <<>>)
      body == ParseAction([c EXCEPT !.fn = TRUE], SkipNewlines(c, params.at))
  IN  IF Kind(c, at + 1) # "id" \/ ~ValidFunctionName(name) \/ Kind(c, at + 2) # "(" THEN Refused("function name")
      ELSE IF params.err # "" THEN params
      ELSE IF body.err # "" THEN body
      ELSE AwkParsed(body.at, [Node("function", name, [i \in DOMAIN params.v |-> Node("var", params.v[i], <<>>)]) EXCEPT !.body = body.v, !.ends = TRUE])

ParseRule(c, at) ==
  LET with(k, xs, a) == IF a.err # "" THEN a ELSE AwkParsed(a.at, [Node(k, "", xs) EXCEPT !.body = a.v, !.ends = TRUE])
      start == ParseAwkExpression(c, at)
      end == ParseAwkExpression(c, SkipNewlines(c, start.at + 1))
      ranged == Kind(c, start.at) = ","
      p == IF ranged THEN Node("range", "", <<start.v, end.v>>) ELSE start.v
      after == IF ranged THEN end.at ELSE start.at
  IN  CASE IsIdent(c, at, "BEGIN") \/ IsIdent(c, at, "END") -> with(TokenText(c, at), <<>>, ParseAction(c, at + 1))
        [] Kind(c, at) = "{" -> with("rule", <<>>, ParseAction(c, at))
        [] OTHER -> IF start.err # "" THEN start
                    ELSE IF ranged /\ end.err # "" THEN end
                    ELSE IF Kind(c, after) = "{" THEN with("rule", <<p>>, ParseAction(c, after))
                    ELSE AwkParsed(after, Node("rule", "", <<p>>))

ParseRulesFrom(c, at, rules, functions) ==
  LET function == IsIdent(c, at, "function")
  IN  Once(IF function THEN ParseFunctionDefinition(c, at) ELSE ParseRule(c, at), LAMBDA r :
  LET after == IF r.v.ends THEN SkipNewlines(c, r.at) ELSE r.at
      next == SkipNewlines(c, IF Kind(c, after) = ";" THEN after + 1 ELSE after)
  IN  IF Kind(c, at) = "eof" THEN [at |-> at, err |-> "", v |-> [rules |-> rules, functions |-> functions]]
      ELSE IF r.err # "" THEN r
      ELSE IF function /\ \E i \in DOMAIN functions : functions[i].v = r.v.v THEN Refused("already defined")
      ELSE IF function THEN ParseRules(c, next, rules, Append(functions, r.v)) ELSE ParseRules(c, next, Append(rules, r.v), functions))

\* validateProgramNesting: the height of a tree, which the parser's own recursion does not bound.
RECURSIVE Height(_)
Height(n) ==
  LET below == {Height(x) : x \in {x \in ToSet(n.xs) : x.k # "nil"} \cup ToSet(n.body) \cup ToSet(n.els)}
  IN  1 + (IF below = {} THEN 0 ELSE CHOOSE h \in below : \A g \in below : g <= h)

NestingValid(p) ==
  /\ \A r \in ToSet(p.rules) : \A x \in ToSet(r.xs) \cup ToSet(r.body) : Height(x) <= MaxParserDepth
  /\ \A f \in ToSet(p.functions) : \A x \in ToSet(f.body) : Height(x) <= MaxParserDepth

RECURSIVE LoopControlValid(_, _, _)
LoopControlValid(stmts, loops, allowNext) == \A s \in ToSet(stmts) :
  CASE s.k = "if" -> LoopControlValid(s.body, loops, allowNext) /\ LoopControlValid(s.els, loops, allowNext)
    [] s.k \in {"forin", "for", "while"} -> LoopControlValid(s.body, loops + 1, allowNext)
    [] s.k \in {"break", "continue"} -> loops > 0
    [] s.k = "next" -> allowNext
    [] OTHER -> TRUE

\* validateNameNotUserFunction.
VariableName(name, functions, locals) == name \in locals \/ (name \notin ContextualKeywords \cup functions)

RECURSIVE ReferencesValid(_, _, _)
ReferencesValid(n, functions, locals) ==
  /\ n.k \in {"var", "idx", "delete", "forin"} => VariableName(n.v, functions, locals)
  /\ n.k = "forin" => VariableName(n.w, functions, locals)
  /\ n.k = "call" => n.v \notin locals /\ n.v \in SupportedBuiltins \cup functions
  /\ \A x \in ToSet(n.xs) \cup ToSet(n.body) \cup ToSet(n.els) : ReferencesValid(x, functions, locals)

ProgramValid(p) ==
  LET functions == {f.v : f \in ToSet(p.functions)}
  IN  /\ NestingValid(p)
      /\ \A r \in ToSet(p.rules) : LoopControlValid(r.body, 0, r.k = "rule")
      /\ \A f \in ToSet(p.functions) : LoopControlValid(f.body, 0, TRUE)
      /\ \A r \in ToSet(p.rules) : ReferencesValid(r, functions, {})
      /\ \A f \in ToSet(p.functions) : \A s \in ToSet(f.body) : ReferencesValid(s, functions, {x.v : x \in ToSet(f.xs)})

ParseTokens(toks) ==
  LET c == [toks |-> toks, stop |-> FALSE, depth |-> 0, fn |-> FALSE]
      p == ParseRules(c, SkipNewlines(c, 1), <<>>, <<>>)
  IN  IF p.err # "" \/ ProgramValid(p.v) THEN p ELSE Refused("invalid")
Parsing(k, x, y, z, u, v) ==
  CASE k = "expr" -> ParseExpressionWithBareComposite(x, y, z, u)
    [] k = "exprs" -> ParseExpressions(x, y, z, u, v)
    [] k = "statement" -> ParseOneStatement(x, y)
    [] k = "group" -> ParseGroupOrStatement(x, y)
    [] k = "list" -> ParseStatementsOfAction(x, y, z)
    [] k = "rules" -> ParseRulesFrom(x, y, z, u)
    [] k = "program" -> ParseTokens(x)

-----------------------------------------------------------------------------
(* The tokens a tree is written with.                                         *)

T(k) == [k |-> k, v |-> "", glued |-> FALSE]
Id(name) == [k |-> "id", v |-> name, glued |-> FALSE]
Glued(t) == [t EXCEPT !.glued = TRUE]
Interspersed(sep, texts) == FoldRight(LAMBDA x, acc : x \o (IF acc = <<>> THEN <<>> ELSE sep \o acc), texts, <<>>)

RECURSIVE Spelled(_)
WrittenList(xs) == Interspersed(<<T(",")>>, [i \in DOMAIN xs |-> Spelled(xs[i])])
Spelled(x) ==
  CASE x.k \in {"num", "str", "re"} -> <<[k |-> x.k, v |-> x.v, glued |-> FALSE]>>
    [] x.k = "nil" -> <<>>
    [] x.k = "var" -> <<Id(x.v)>>
    [] x.k = "idx" -> <<Id(x.v), T("[")>> \o WrittenList(x.xs) \o <<T("]")>>
    [] x.k = "field" -> <<T("$")>> \o Spelled(x.xs[1])
    [] x.k \in {"group", "comp"} -> <<T("(")>> \o WrittenList(x.xs) \o <<T(")")>>
    [] x.k \in {"un", "pre"} -> <<T(x.v)>> \o Spelled(x.xs[1])
    [] x.k = "post" -> Spelled(x.xs[1]) \o <<T(x.v)>>
    [] x.k \in {"bin", "assign"} -> Spelled(x.xs[1]) \o (CASE x.v = "concat" -> <<>> [] x.v = "in" -> <<Id("in")>> [] OTHER -> <<T(x.v)>>) \o Spelled(x.xs[2])
    [] x.k = "tern" -> Spelled(x.xs[1]) \o <<T("?")>> \o Spelled(x.xs[2]) \o <<T(":")>> \o Spelled(x.xs[3])
    [] x.k = "call" -> IF x.v = "length" /\ x.xs = <<>> THEN <<Id(x.v)>> ELSE <<Id(x.v), Glued(T("("))>> \o WrittenList(x.xs) \o <<T(")")>>

\* The same for statements; how is [braced, sep]: whether a body of one statement gets braces, and what separates statements.
RECURSIVE WrittenBody(_, _, _), WrittenBlock(_, _), WrittenStmt(_, _)
WrittenBlock(stmts, how) == <<T("{")>> \o Interspersed(<<T(how.sep)>>, [i \in DOMAIN stmts |-> WrittenStmt(stmts[i], how)]) \o <<T("}")>>
WrittenBody(stmts, ends, how) ==
  IF ends \/ Len(stmts) > 1 THEN WrittenBlock(stmts, how) ELSE IF stmts = <<>> THEN <<T(";")>> ELSE WrittenStmt(stmts[1], how)
WrittenStmt(s, how) ==
  CASE s.k = "if" /\ s.els # <<>> -> LET then == WrittenBody(s.body, how.braced, how)
                                     IN  <<Id("if"), T("(")>> \o Spelled(s.xs[1]) \o <<T(")")>> \o then
                                          \o (IF Last(then).k \in {"}", ";"} THEN <<>> ELSE <<T(how.sep)>>) \o <<Id("else")>> \o WrittenBody(s.els, s.ends, how)
    [] s.k \in {"if", "while"} -> <<Id(s.k), T("(")>> \o Spelled(s.xs[1]) \o <<T(")")>> \o WrittenBody(s.body, s.ends, how)
    [] s.k = "for" -> <<Id("for"), T("(")>> \o Spelled(s.xs[1]) \o <<T(";")>> \o Spelled(s.xs[2]) \o <<T(";")>> \o Spelled(s.xs[3]) \o <<T(")")>>
                       \o WrittenBody(s.body, s.ends, how)
    [] s.k = "forin" -> <<Id("for"), T("("), Id(s.v), Id("in"), Id(s.w), T(")")>> \o WrittenBody(s.body, s.ends, how)
    [] s.k = "delete" -> <<Id("delete"), Id(s.v)>> \o (IF s.xs = <<>> THEN <<>> ELSE <<T("[")>> \o WrittenList(s.xs) \o <<T("]")>>)
    [] s.k = "expr" -> Spelled(s.xs[1])
    [] OTHER -> <<Id(s.k)>> \o WrittenList(s.xs)

WrittenRule(r, how) ==
  CASE r.k = "function" -> <<Id("function"), Id(r.v), T("(")>> \o WrittenList(r.xs) \o <<T(")")>> \o WrittenBlock(r.body, how)
    [] r.k \in {"BEGIN", "END"} -> <<Id(r.k)>> \o WrittenBlock(r.body, how)
    [] OTHER -> (IF r.xs = <<>> THEN <<>> ELSE IF r.xs[1].k = "range" THEN WrittenList(r.xs[1].xs) ELSE Spelled(r.xs[1]))
                 \o (IF r.ends THEN WrittenBlock(r.body, how) ELSE <<>>)
WrittenProgram(p, how) == Interspersed(<<T(how.sep)>>, [i \in DOMAIN p.functions |-> WrittenRule(p.functions[i], how)] \o [i \in DOMAIN p.rules |-> WrittenRule(p.rules[i], how)])

-----------------------------------------------------------------------------
(* The grammar's levels, and the trees that need no further parentheses.      *)

GrammarLevel(x) ==
  CASE x.k = "assign" -> 1
    [] x.k = "tern" -> 2
    [] x.k = "bin" -> CASE x.v = "||" -> 3 [] x.v = "&&" -> 4 [] x.v = "in" -> 5 [] x.v \in {"~", "!~"} -> 6 [] x.v \in CompareOps -> 7
                        [] x.v = "concat" -> 8 [] x.v \in {"+", "-"} -> 9 [] x.v \in {"*", "/"} -> 10 [] OTHER -> 12
    [] x.k = "un" -> 11
    [] x.k \in {"pre", "post"} -> 13
    [] x.k = "field" -> 14
    [] OTHER -> 15

BareLength == Node("call", "length", <<>>)

\* The expression a following ++ would apply to.
RECURSIVE Rightmost(_)
Rightmost(x) == IF x.k \in {"un", "bin", "assign", "tern"} THEN Rightmost(x.xs[Len(x.xs)]) ELSE x

\* Whether the operands of x may stand there without parentheses.
ProperTop(x) ==
  LET l == x.xs[1]
      r == x.xs[2]
      first == Spelled(r)[1].k
  IN  CASE x.k = "assign" -> Assignable(l)
        [] x.k = "tern" -> GrammarLevel(l) >= 3
        [] x.k = "un" -> GrammarLevel(l) >= 11
        [] x.k \in {"pre", "post"} -> Assignable(l)
        [] x.k = "field" -> (GrammarLevel(l) >= 14 /\ l # BareLength) \/ l.k = "pre"
        [] x.k = "bin" /\ x.v = "in" -> (GrammarLevel(l) >= 5 \/ l.k = "comp") /\ r.k = "var"
        [] x.k = "bin" /\ x.v \in CompareOps -> GrammarLevel(l) >= 8 /\ GrammarLevel(r) >= 8
        [] x.k = "bin" /\ x.v = "^" -> GrammarLevel(l) >= 13 /\ (GrammarLevel(r) >= 12 \/ r.k = "un")
        [] x.k = "bin" /\ x.v = "concat" -> GrammarLevel(l) >= 8 /\ GrammarLevel(r) >= 9 /\ first \notin {"+", "-"} /\ ~(Assignable(Rightmost(l)) /\ first \in {"++", "--"})
                                                       /\ ~(Rightmost(l) = BareLength /\ first = "(")
        [] x.k = "bin" -> GrammarLevel(l) >= GrammarLevel(x) /\ GrammarLevel(r) > GrammarLevel(x) /\ (x.v = "/" => LiteralNumber(r) # 0)
        [] OTHER -> TRUE

\* An if without else that an else behind it would belong to.
RECURSIVE Dangling(_)
Dangling(stmts) == stmts # <<>> /\ LET s == stmts[Len(stmts)]
                                   IN  IF s.k = "if" /\ s.els # <<>> THEN Dangling(s.els) ELSE s.k = "if" \/ (s.k \in {"while", "for", "forin"} /\ Dangling(s.body))

\* The tree of a program is kept: written in any of these ways and parsed, it is the tree again (awk program text).
AwkReadsBack == call.tool = "awktree" => Once(ParseProgram(WrittenProgram(call.tree, call.how)), LAMBDA r : r.err = "" /\ r.v = call.tree)

Unseparated(toks) == SelectSeq([i \in DOMAIN toks |-> [toks[i] EXCEPT !.glued = FALSE]], LAMBDA t : t.k \notin {"\n", ";", "(", ")"})
\* No token is dropped, invented or moved: what the parser accepts, written again, is the text it was given, separators and parentheses
\* aside.
AwkTokensKept ==
  call.tool = "awktext" => Once(ParseProgram(call.toks), LAMBDA r : r.err = "" => Unseparated(WrittenProgram(r.v, [braced |-> FALSE, sep |-> ";"])) = Unseparated(call.toks))

\* The paths from the root to every node.
RECURSIVE Paths(_)
Paths(n) == {<<n>>} \cup {<<n>> \o p : p \in UNION {Paths(x) : x \in ToSet(n.xs) \cup ToSet(n.body) \cup ToSet(n.els)}}
Above(p, ks) == \E i \in 1..(Len(p) - 1) : p[i].k \in ks

\* What the evaluator may take for granted about an accepted program: loop control is inside a loop, next inside a rule or a function, return inside a
\* function, every function called exists and is not a parameter, no function is used as a variable, and no tree is deeper than the limit.
AwkAcceptedRuns ==
  call.tool \in {"awktext", "awkprog"} =>
    Once(ParseProgram(call.toks), LAMBDA r :
    LET functions == {f.v : f \in ToSet(r.v.functions)}
    IN  r.err = "" => \A top \in ToSet(r.v.rules) \cup ToSet(r.v.functions) : \A p \in Paths(top) :
          LET n == p[Len(p)]
              locals == IF top.k = "function" THEN {x.v : x \in ToSet(top.xs)} ELSE {}
          IN  /\ n.k \in {"break", "continue"} => Above(p, {"while", "for", "forin"})
              /\ n.k = "next" => top.k \in {"rule", "function"}
              /\ n.k = "return" => top.k = "function"
              /\ n.k = "call" => n.v \in (functions \ locals) \cup SupportedBuiltins
              /\ n.k \in {"var", "idx", "delete", "forin"} => {n.v, n.w} \cap functions \subseteq locals
              /\ Len(p) <= MaxParserDepth + 1)

\* An awk program is read as it was written: the same tokens, however its lines
\* are continued, and the same tree, which has all that the evaluator takes for
\* granted.
AwkProgramsTrue ==
  /\ LexExact
  /\ ContinuationInvisible
  /\ EscapesAgree
  /\ AwkReadsBack
  /\ AwkTokensKept
  /\ AwkAcceptedRuns

=============================================================================

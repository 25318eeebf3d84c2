------------------------------- MODULE Bytes -------------------------------
(***************************************************************************)
(* The text filters read and write bytes.  A byte is its code; a formatted *)
(* number or a file name is one output symbol above the bytes, since no    *)
(* filter looks into what it has formatted.                                *)
(***************************************************************************)
EXTENDS Integers, SequencesExt, TLC, Values

NUL == 0
TAB == 9
NL == 10
CR == 13
SP == 32
Byte == 0..255

Blank(b) == b \in {SP, TAB}
Digit(b) == b \in 48..57
ToLower(b) == IF b \in 65..90 THEN b + 32 ELSE b
ToUpper(b) == IF b \in 97..122 THEN b - 32 ELSE b
LowerCase(s) == [i \in DOMAIN s |-> ToLower(s[i])]

Num(n) == 1000 + n
Name(i) == 2000 + i
Text(word) == CASE word = "--" -> 3001 [] word = "==>" -> 3002 [] word = "FAILED" -> 3003
                [] word = "OK" -> 3004 [] word = "unreadable" -> 3005

Take(s, n) == SubSeq(s, 1, n)
Drop(s, n) == SubSeq(s, n + 1, Len(s))
If(c, s) == IF c THEN s ELSE <<>>

\* The elements of s at the positions in I, in order.
Pick(s, I) ==
  LET f[i \in 0..Len(s)] == IF i = 0 THEN <<>>
                            ELSE IF i \in I THEN Append(f[i - 1], s[i]) ELSE f[i - 1]
  IN f[Len(s)]

\* Where the token that starts after position p ends, its delimiter included.
TokenEnd(d, p, delim) ==
  LET E == {i \in p + 1..Len(d) : d[i] = delim} IN IF E = {} THEN Len(d) ELSE Min(E)

Tokens(d, delim) ==
  LET f[p \in 0..Len(d)] == IF p = Len(d) THEN <<>>
                            ELSE Once(TokenEnd(d, p, delim), LAMBDA e : <<SubSeq(d, p + 1, e)>> \o f[e])
  IN f[0]

Terminated(tok, delim) == tok # <<>> /\ Last(tok) = delim
Chomp(tok, delim) == IF Terminated(tok, delim) THEN Front(tok) ELSE tok
Lines(d, delim) == LET t == Tokens(d, delim) IN [i \in DOMAIN t |-> Chomp(t[i], delim)]

\* Byte order on strings.
Less(a, b) ==
  \/ IsStrictPrefix(a, b)
  \/ \E i \in DOMAIN a \cap DOMAIN b : a[i] < b[i] /\ \A k \in 1..i - 1 : a[k] = b[k]

=============================================================================

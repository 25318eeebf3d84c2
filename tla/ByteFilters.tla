---------------------------- MODULE ByteFilters ----------------------------
(***************************************************************************)
(* What wc, tr, strings and sha256sum do with the blocks they read; where  *)
(* one block ends and the next begins is up to the reader.                 *)
(***************************************************************************)
EXTENDS Bytes, FiniteSets

CONSTANTS MaxStringLen,        \* longest string strings keeps
          MaxManifestEntries, MaxCheckOutputBytes, MaxManifestBytes, MaxOperands

-----------------------------------------------------------------------------
(* wc.  UTF-8 decoding and the Unicode classes are the library's.          *)

Size(b) == IF b < 128 THEN 1 ELSE IF b \in 194..223 THEN 2 ELSE IF b \in 224..239 THEN 3
           ELSE IF b \in 240..244 THEN 4 ELSE 1
Continues(b) == b \in 128..191
FullRune(p) == LET n == Min({Size(p[1]), Len(p)})
               IN Len(p) >= Size(p[1]) \/ \E i \in 2..n : ~Continues(p[i])
Valid(p) == (p[1] < 128 \/ Size(p[1]) > 1) /\ \A i \in 2..Size(p[1]) : Continues(p[i])
DecodeRune(p) == IF Valid(p) THEN Take(p, Size(p[1])) ELSE <<p[1]>>
Class(r) ==
  CASE r = <<NL>> -> "newline" [] r \in {<<CR>>, <<12>>} -> "return" [] r = <<TAB>> -> "tab"
    [] r \in {<<SP>>, <<194, 160>>} -> "space"
    [] r \in {<<11>>, <<226, 129, 160>>} -> "break"
    [] r[1] < 32 \/ r = <<127>> -> "control"
    [] r[1] < 128 \/ r \in {<<195, 169>>} -> "narrow"
    [] r = <<228, 184, 173>> -> "wide" [] r = <<204, 129>> -> "combining"
    [] OTHER -> IF Len(r) = 1 THEN "invalid" ELSE "other"
Width(k) == IF k = "wide" THEN 2 ELSE IF k \in {"narrow", "space"} THEN 1 ELSE 0

WcZero == [lines |-> 0, words |-> 0, chars |-> 0, bytes |-> 0, max |-> 0]

WcStart(s) == [results |-> s.results, c |-> WcZero, inWord |-> FALSE, col |-> 0, carry |-> <<>>]

\* One decoded character; inWord and the display column carry over.
WcRune(s, r) ==
  LET k == Class(r)
      ends == k \in {"newline", "return"}
      graphic == k \in {"narrow", "wide", "combining"}
  IN IF k = "invalid" THEN s
     ELSE [s EXCEPT !.c.chars = @ + 1,
                    !.c.lines = IF k = "newline" THEN @ + 1 ELSE @,
                    !.c.max = IF ends THEN Max({@, s.col}) ELSE @,
                    !.c.words = IF graphic /\ ~s.inWord THEN @ + 1 ELSE @,
                    !.inWord = IF graphic THEN TRUE ELSE IF k \in {"control", "other"} THEN @ ELSE FALSE,
                    !.col = IF ends THEN 0 ELSE IF k = "tab" THEN (@ \div 8 + 1) * 8 ELSE @ + Width(k)]

\* The complete characters at the front of d, in order.
Runes(d) ==
  LET f[p \in 0..Len(d)] == IF p = Len(d) \/ ~FullRune(Drop(d, p)) THEN <<>>
                            ELSE LET r == DecodeRune(Drop(d, p)) IN <<r>> \o f[p + Len(r)]
  IN f[0]

\* Mutant: a character that a block cuts in two is dropped.
WcCarryNothing(d, rs) == <<>>
\* A block that ends inside a character leaves its bytes to the next one.
WcCarry(d, rs) == Drop(d, Len(FlattenSeq(rs)))
WcChunk(s, chunk) ==
  LET d == s.carry \o chunk
      rs == Runes(d)
      rest == WcCarry(d, rs)
      f[i \in 0..Len(rs)] == IF i = 0 THEN s ELSE WcRune(f[i - 1], rs[i])
  IN [f[Len(rs)] EXCEPT !.carry = rest, !.c.bytes = @ + Len(d) - Len(rest)]
WcEnd(s) == [s.c EXCEPT !.bytes = @ + Len(s.carry), !.max = Max({@, s.col})]

WcColumns(o) == IF o = {} THEN {"l", "w", "c"} ELSE o
WcRow(o, c) ==
  LET cols == WcColumns(o)
  IN If("l" \in cols, <<Num(c.lines)>>) \o If("w" \in cols, <<Num(c.words)>>) \o If("m" \in cols, <<Num(c.chars)>>)
       \o If("c" \in cols, <<Num(c.bytes)>>) \o If("L" \in cols, <<Num(c.max)>>)
WcAdd(t, c) == [lines |-> t.lines + c.lines, words |-> t.words + c.words, chars |-> t.chars + c.chars,
                bytes |-> t.bytes + c.bytes, max |-> Max({t.max, c.max})]
WcReport(o, results, n) ==
  LET f[i \in 0..Len(results)] == IF i = 0 THEN WcZero ELSE WcAdd(f[i - 1], results[i].c)
  IN FlattenSeq([i \in DOMAIN results |-> WcRow(o, results[i].c) \o If(results[i].name # 0, <<Name(results[i].name)>>) \o <<NL>>])
       \o If(n > 1, WcRow(o, f[Len(results)]) \o <<Name(99), NL>>)

-----------------------------------------------------------------------------
(* tr.  A SET is a sequence of items [k, a, b]: a character, a range, a    *)
(* class, an equivalence class, a character repeated b times, or a fill    *)
(* that stretches SET2 to the length of SET1.                              *)

Ascending(S) ==
  LET f[lo \in Byte, hi \in Byte] ==
        LET mid == (lo + hi) \div 2
        IN IF lo = hi THEN If(lo \in S, <<lo>>) ELSE f[lo, mid] \o f[mid + 1, hi]
  IN f[0, 255]

Upper == 65..90
Lower == 97..122
Digits == 48..57
CharClass(name) ==
  CASE name = "alnum" -> Digits \cup Upper \cup Lower [] name = "alpha" -> Upper \cup Lower
    [] name = "blank" -> {TAB, SP} [] name = "cntrl" -> 0..31 \cup {127} [] name = "digit" -> Digits
    [] name = "graph" -> 33..126 [] name = "lower" -> Lower [] name = "print" -> 32..126
    [] name = "punct" -> 33..126 \ (Digits \cup Upper \cup Lower) [] name = "space" -> 9..13 \cup {SP}
    [] name = "upper" -> Upper [] name = "xdigit" -> Digits \cup 65..70 \cup 97..102 [] OTHER -> {}

ItemBytes(it, fill) ==
  CASE it.k \in {"char", "equiv"} -> <<it.a>>
    [] it.k = "range" -> [i \in 1..it.b - it.a + 1 |-> it.a + i - 1]
    [] it.k = "class" -> Ascending(CharClass(it.a))
    [] it.k = "repeat" -> [i \in 1..it.b |-> it.a]
    [] it.k = "fill" -> [i \in 1..fill |-> it.a]

\* The fill takes what the items before and after it leave of SET1's length.
ExpandSet(items, isSet2, set1Len, translating) ==
  LET Laid(fill) == [i \in DOMAIN items |-> ItemBytes(items[i], fill)]
      bad == \E i \in DOMAIN items : LET it == items[i] IN
               \/ it.k = "range" /\ it.a > it.b
               \/ it.k = "class" /\ (CharClass(it.a) = {} \/ (translating /\ it.a \notin {"upper", "lower"}))
               \/ it.k = "equiv" /\ translating
               \/ it.k = "fill" /\ (~isSet2 \/ ~translating \/ \E j \in 1..i - 1 : items[j].k = "fill")
  IN  Once(Laid(IF bad THEN 0 ELSE Max({set1Len - Len(FlattenSeq(Laid(0))), 0})), LAMBDA parts :
  LET CaseAt(i) == items[i].k = "class" /\ items[i].a \in {"upper", "lower"}
  IN
     IF bad THEN [bad |-> TRUE]
     ELSE [bad |-> FALSE, set |-> FlattenSeq(parts),
           cases |-> {Len(FlattenSeq(Take(parts, i - 1))) : i \in {k \in DOMAIN items : CaseAt(k)}},
           endsClass |-> items # <<>> /\ Last(items).k = "class",
           hasClass |-> \E i \in DOMAIN items : items[i].k = "class"])

ComplementSet(set) == Ascending(Byte \ ToSet(set))

TrConfig(o) ==
  LET n == Len(o.ops)
      d == "d" \in o.flags
      s == "s" \in o.flags
      c == "c" \in o.flags
      t == "t" \in o.flags
      translating == ~d /\ n >= 2
  IN  Once(ExpandSet(o.ops[1], FALSE, 0, FALSE), LAMBDA e1 :
  LET set1 == IF c THEN ComplementSet(e1.set) ELSE e1.set
  IN  Once(
            IF n > 1 THEN ExpandSet(o.ops[2], TRUE, Len(set1), translating)
            ELSE [bad |-> FALSE, set |-> <<>>, cases |-> {}, endsClass |-> FALSE], LAMBDA e2 :
  LET refused == /\ translating
                 /\ \/ ~c /\ ~(e2.cases \subseteq e1.cases)
                    \/ ~t /\ Len(set1) > Len(e2.set) /\ e2.endsClass
                    \/ c /\ e1.hasClass /\ (t \/ Cardinality(ToSet(e2.set)) > 1)
                    \/ ~t /\ o.ops[2] = <<>> /\ set1 # <<>>
  IN
     IF \/ n = 0 \/ n > 2 \/ (d /\ s /\ n < 2) \/ (d /\ ~s /\ n > 1) \/ (~d /\ ~s /\ n < 2)
        \/ e1.bad \/ e2.bad \/ refused
     THEN [usage |-> 1]
     ELSE [usage |-> 0, delete |-> d, squeeze |-> s, translate |-> translating, truncate |-> t,
           set1 |-> set1, set2 |-> e2.set]))

\* SET1 is cut, or SET2 stretched with its last byte; later positions win.
Table(c, b) ==
  LET n == IF c.truncate THEN Min({Len(c.set1), Len(c.set2)}) ELSE Len(c.set1)
      P == {i \in 1..n : c.set1[i] = b}
  IN IF P = {} \/ c.set2 = <<>> THEN b ELSE c.set2[Min({Max(P), Len(c.set2)})]

\* Repeats are squeezed across blocks: the last byte written is remembered.
TrLast(c, s, out) == IF out = <<>> THEN s.last ELSE Last(out)
TrChunk(c, s, chunk) ==
  LET squeezed == ToSet(IF c.translate \/ c.delete THEN c.set2 ELSE c.set1)
      f[i \in 0..Len(chunk)] ==
        IF i = 0 THEN <<>>
        ELSE LET b == IF c.translate THEN Table(c, chunk[i]) ELSE chunk[i]
                 last == IF f[i - 1] = <<>> THEN s.last ELSE Last(f[i - 1])
             IN IF \/ c.delete /\ b \in ToSet(c.set1)
                   \/ c.squeeze /\ b \in squeezed /\ b = last
                THEN f[i - 1] ELSE Append(f[i - 1], b)
      out == f[Len(chunk)]
  IN [st |-> [s EXCEPT !.last = TrLast(c, s, out)], out |-> out, then |-> "go"]

-----------------------------------------------------------------------------
(* strings *)

Printable(b) == b \in 32..126 \/ b = TAB

Flush(c, s) == If(Len(s.cur) >= c.min,
                  If(c.names, <<Name(s.file)>>) \o If(c.radix, <<Num(s.start)>>) \o s.cur \o c.sep)

StringsStart(file) == [cur |-> <<>>, start |-> 0, off |-> 0, file |-> file]

StringsByte(c, a, b) ==
  IF Printable(b)
  THEN [a EXCEPT !.st.start = IF a.st.cur = <<>> THEN a.st.off ELSE @,
                 !.st.cur = IF Len(@) < MaxStringLen THEN Append(@, b) ELSE @, !.st.off = @ + 1]
  ELSE [a EXCEPT !.out = @ \o Flush(c, a.st), !.st.cur = <<>>, !.st.off = @ + 1]

StringsChunk(c, s, chunk) ==
  LET f[i \in 0..Len(chunk)] == IF i = 0 THEN [st |-> s, out |-> <<>>, then |-> "go"]
                                ELSE StringsByte(c, f[i - 1], chunk[i])
  IN f[Len(chunk)]

-----------------------------------------------------------------------------
(* sha256sum.  Without collisions the digest of a file is its content.  A  *)
(* manifest is a sequence of lines [ok, digest, name]; ok is FALSE for a   *)
(* line that is not a checksum.                                            *)

ShaUsage(o, files) == IF (~o.check /\ (o.quiet \/ o.status)) \/ Len(files) > MaxOperands THEN 1 ELSE 0

ShaLine(digest, file) == digest \o <<Name(file), NL>>

\* The result of one line is written, or the budget for results is spent.
ShaVerdict(c, e, got) ==
  IF got.err THEN If(~c.status, <<Name(e.name), Text("unreadable")>>)
  ELSE IF got.digest # e.digest THEN If(~c.status, <<Name(e.name), Text("FAILED")>>)
  ELSE If(~c.status /\ ~c.quiet, <<Name(e.name), Text("OK")>>)

ShaEntry(c, s, e, got, fromStdin) ==
  LET s0 == [s EXCEPT !.read = @ + 1]
      verdict == ShaVerdict(c, e, got)
      cost == Len(verdict) + (IF got.err THEN 1 ELSE 0)
      t == [s0 EXCEPT !.entries = @ + 1, !.unreadable = IF got.err THEN @ + 1 ELSE @,
                     !.mismatched = IF ~got.err /\ got.digest # e.digest THEN @ + 1 ELSE @]
  IN IF s.read >= MaxManifestBytes THEN [st |-> s, out |-> <<>>, then |-> "fail"]
     ELSE IF ~e.ok \/ (fromStdin /\ e.name = 0)
     THEN [st |-> [s0 EXCEPT !.malformed = @ + 1], out |-> <<>>, then |-> "go"]
     ELSE IF s.entries >= MaxManifestEntries THEN [st |-> s0, out |-> <<>>, then |-> "fail"]
     ELSE IF s.outBytes + cost > MaxCheckOutputBytes THEN [st |-> t, out |-> <<>>, then |-> "fail"]
     ELSE [st |-> [t EXCEPT !.outBytes = @ + cost], out |-> verdict, then |-> "go"]

=============================================================================

---------------------------- MODULE LineFilters -----------------------------
(***************************************************************************)
(* What cat, head, tail, uniq, cut and grep do with their options and with *)
(* each line or block they read.  For every command: its configuration     *)
(* from the options (an erroneous one has usage # 0, the exit status), the *)
(* memory it starts a file with, and its loop body as a function from the  *)
(* memory and the next token to the new memory, the output, and whether    *)
(* the loop goes on, stops or returns an error.                            *)
(***************************************************************************)
EXTENDS Bytes, FiniteSets

CONSTANTS MaxCount,          \* largest count head, tail and uniq keep
          MaxRingLines,      \* lines and bytes tail -n holds
          MaxRingBytes,
          MaxBytesBuffer,    \* bytes tail -c holds
          MaxTotalReadBytes, \* bytes tail takes from a stream
          MaxContextLines,   \* lines and bytes of context grep holds
          MaxContextBytes,
          Int64Max, Uint64Max

Go(s, o) == [st |-> s, out |-> o, then |-> "go"]
Stop(s, o) == [st |-> s, out |-> o, then |-> "stop"]
Fail(s) == [st |-> s, out |-> <<>>, then |-> "fail"]

-----------------------------------------------------------------------------
(* cat *)

CatConfig(o) ==
  [usage |-> 0,
   number |-> "n" \in o /\ "b" \notin o, nonblank |-> "b" \in o, squeeze |-> "s" \in o,
   ends |-> o \cap {"E", "A", "e"} # {}, tabs |-> o \cap {"T", "A", "t"} # {},
   nonprinting |-> o \cap {"v", "A", "e", "t"} # {}]

CatByLine(c) == c.number \/ c.nonblank \/ c.squeeze \/ c.ends \/ c.tabs \/ c.nonprinting

Nonprinting(b) ==
  CASE b \in {TAB, NL} -> <<b>>
    [] b \notin {TAB, NL} /\ b < 32 -> <<94, b + 64>>
    [] b \in 32..126 -> <<b>>
    [] b = 127 -> <<94, 63>>
    [] b \in 128..159 -> <<77, 45, 94, b - 64>>
    [] b \in 160..254 -> <<77, 45, b - 128>>
    [] b = 255 -> <<77, 45, 94, 63>>

CatByte(c, b) == IF c.tabs /\ b = TAB THEN <<94, 73>>
                 ELSE IF c.nonprinting THEN Nonprinting(b) ELSE <<b>>

CatLine(c, s, tok) ==
  LET term == Terminated(tok, NL)
      content == Chomp(tok, NL)
      blank == content = <<>> /\ term
      numbered == (c.nonblank /\ ~blank) \/ c.number
      crlf == c.ends /\ ~c.nonprinting /\ term /\ content # <<>> /\ Last(content) = CR
      shown == IF crlf THEN Front(content) ELSE content
  IN IF c.squeeze /\ blank /\ s.prevBlank THEN Go(s, <<>>)
     ELSE Go([lineNum |-> IF numbered THEN s.lineNum + 1 ELSE s.lineNum, prevBlank |-> blank],
             If(numbered, <<Num(s.lineNum)>>)
               \o FlattenSeq([i \in DOMAIN shown |-> CatByte(c, shown[i])])
               \o If(crlf, <<94, 77>>) \o If(c.ends /\ term, <<36>>) \o If(term, <<NL>>))

-----------------------------------------------------------------------------
(* head and tail: -n and -c values are what was written before and after   *)
(* the digits: [plus, neg, num, mult], num = -1 without digits, mult = -1  *)
(* without a suffix, -2 with an unknown one, 0 for Z and Y.                *)

LastSet(o, flags) == Max({0} \cup {i \in DOMAIN o : o[i].flag \in flags})

HeadParse(v) ==
  [ok |-> v.num \in 0..Int64Max /\ v.mult = -1 /\ (v.neg => v.num = 0) /\ ~(v.plus /\ v.neg),
   n |-> Min({v.num, MaxCount})]

TailParse(v) ==
  LET none == v.num = -1
      digits == IF none THEN 1 ELSE v.num
      over == digits > Int64Max
      n == IF over THEN MaxCount ELSE digits
      suffixed == v.mult # -1
  IN [ok |-> /\ ~(v.plus /\ (v.neg \/ none))
             /\ none => suffixed
             /\ over => ~suffixed /\ digits <= Uint64Max
             /\ v.mult # -2
             /\ v.mult = 0 => n = 0,
      n |-> IF v.mult > 0 /\ n > MaxCount \div v.mult THEN MaxCount
            ELSE Min({IF v.mult > 0 THEN n * v.mult ELSE n, MaxCount})]

CountConfig(o, files, Parsed) ==
  LET counts == {i \in DOMAIN o : o[i].flag \in {"n", "c"}}
      at == LastSet(o, {"n", "c"})
      quiet == LastSet(o, {"q", "silent"})
      verbose == LastSet(o, {"v"})
  IN [usage |-> IF \E i \in counts : ~Parsed[i].ok THEN 1 ELSE 0,
      bytes |-> LastSet(o, {"c"}) > LastSet(o, {"n"}),
      count |-> IF at = 0 THEN 10 ELSE Parsed[at].n,
      offset |-> FALSE,
      headers |-> IF verbose # quiet THEN verbose > quiet ELSE Len(files) > 1]

HeadConfig(o, files) == CountConfig(o, files, [i \in DOMAIN o |-> HeadParse(o[i].val)])

\* A + on any count flag is remembered, whichever flag gives the count.
TailConfig(o, files) ==
  [CountConfig(o, files, [i \in DOMAIN o |-> TailParse(o[i].val)])
     EXCEPT !.offset = \E i \in DOMAIN o : o[i].flag \in {"n", "c"} /\ o[i].val.plus]

Header(c, s, i) == If(c.headers, If(s.header, <<NL>>) \o <<Text("==>"), Name(i), NL>>)

HeadStart(c) == [header |-> c.headers, emitted |-> 0, bytes |-> 0]
HeadMore(c, s) == s.emitted < c.count
HeadLine(c, s, tok) == Go([s EXCEPT !.emitted = @ + 1, !.bytes = @ + Len(tok)], tok)
HeadChunk(c, s, chunk) == Go([s EXCEPT !.emitted = @ + Len(chunk), !.bytes = @ + Len(chunk)], chunk)

RingSize(c) == IF c.count < MaxRingLines THEN c.count ELSE MaxRingLines
BufSize(c) == IF c.count < MaxBytesBuffer THEN c.count ELSE MaxBytesBuffer

\* No header announces a tail of nothing.
TailStart(c, s, regular) ==
  [header |-> s.header \/ (c.headers /\ (c.offset \/ c.count > 0)), regular |-> regular,
   head |-> 0, held |-> 0, bytes |-> 0, total |-> 0,
   ring |-> [k \in 0..(IF c.offset THEN 0 ELSE IF c.bytes THEN BufSize(c) ELSE RingSize(c)) - 1
               |-> IF c.bytes THEN 0 ELSE <<>>]]

\* tail -n: the ring refuses to grow past its limits rather than to lose a
\* line that must be printed.
RingFull(c, s) == s.held = RingSize(c)
RingLoses(c, s) == RingFull(c, s) /\ RingSize(c) < c.count
TailLine(c, s, tok) ==
  LET total == s.total + Len(tok)
      bytes == s.bytes + Len(tok) - (IF RingFull(c, s) THEN Len(s.ring[s.head]) ELSE 0)
  IN IF (~s.regular /\ total > MaxTotalReadBytes) \/ RingLoses(c, s) \/ bytes > MaxRingBytes
     THEN Fail(s)
     ELSE Go([s EXCEPT !.ring[s.head] = tok, !.total = total, !.bytes = bytes,
                       !.head = (@ + 1) % RingSize(c),
                       !.held = IF RingFull(c, s) THEN @ ELSE @ + 1], <<>>)

TailRing(c, s) ==
  LET size == RingSize(c)
      start == (s.head - s.held + size) % size
  IN IF size = 0 THEN <<>>
     ELSE FlattenSeq([i \in 1..s.held |-> s.ring[(start + i - 1) % size]])

\* tail -c: block copies into a circular buffer.
TailChunk(c, s, chunk) ==
  LET size == BufSize(c)
      total == s.total + Len(chunk)
      At(k) == {i \in DOMAIN chunk : (s.total + i - 1) % size = k}
      buf == [k \in DOMAIN s.ring |-> IF At(k) = {} THEN s.ring[k] ELSE chunk[Max(At(k))]]
  IN IF (total > size /\ c.count > size) \/ (~s.regular /\ total > MaxTotalReadBytes)
     THEN Fail(s)
     ELSE Go([s EXCEPT !.ring = buf, !.total = total], <<>>)

TailBuf(c, s) ==
  LET size == BufSize(c)
      start == s.total % size
  IN IF size = 0 \/ s.total = 0 THEN <<>>
     ELSE IF s.total <= size THEN [i \in 1..s.total |-> s.ring[i - 1]]
     ELSE [i \in 1..size |-> s.ring[(start + i - 1) % size]]

\* tail -n +N and -c +N: the first N - 1 lines or bytes are read and dropped.
SkipCount(c) == Max({c.count - 1, 0})
SkipLine(c, s, tok) == IF s.total < SkipCount(c) THEN Go([s EXCEPT !.total = @ + 1], <<>>)
                       ELSE Go(s, tok)
SkipChunk(c, s, chunk) == IF s.total < SkipCount(c) THEN Go([s EXCEPT !.total = @ + Len(chunk)], <<>>)
                          ELSE Go(s, chunk)

-----------------------------------------------------------------------------
(* uniq *)

UniqConfig(o, files) ==
  LET allRep == o.D # ""
      clash == allRep /\ o.u
  IN [usage |-> IF \/ o.f < 0 \/ o.s < 0 \/ o.w < -1 \/ o.D = "bad" \/ o.group = "bad"
                   \/ o.group # "" /\ (o.c \/ o.d \/ allRep \/ o.u)
                   \/ allRep /\ o.c
                   \/ Len(files) > 1
                THEN 1 ELSE 0,
      count |-> o.c, repeated |-> o.d \/ clash, unique |-> o.u /\ ~clash, fold |-> o.i,
      fields |-> Min({o.f, MaxCount}), chars |-> Min({o.s, MaxCount}), check |-> o.w,
      delim |-> IF o.z THEN NUL ELSE NL,
      allRep |-> IF clash THEN "" ELSE o.D, group |-> o.group]

\* Position after field n: blanks, then what follows them up to the next blank.
SkipFields(line, n) ==
  LET Past(i, b) == Min({k \in i..Len(line) : k = Len(line) \/ Blank(line[k + 1]) # b})
      f[k \in 0..n] == IF k = 0 THEN 0 ELSE Past(Past(f[k - 1], TRUE), FALSE)
  IN f[n]

UniqKey(c, line) ==
  Once(Drop(line, SkipFields(line, c.fields)), LAMBDA s :
  LET t == Drop(s, Min({c.chars, Len(s)}))
      u == IF c.check >= 0 /\ c.check < Len(t) THEN Take(t, c.check) ELSE t
  IN  IF c.fold THEN LowerCase(u) ELSE u)

UniqStart == [prev |-> <<>>, key |-> <<>>, n |-> 0, first |-> TRUE, groups |-> 0]

EmitStandard(c, line, n) ==
  If(~(c.repeated /\ (c.unique \/ n < 2)) /\ ~(c.unique /\ n >= 2),
     If(c.count, <<Num(n)>>) \o line \o <<c.delim>>)

UniqSeparator(c, s) == (s.groups > 0 /\ c.allRep # "none") \/ (s.groups = 0 /\ c.allRep = "prepend")

UniqLine(c, s, line) ==
  LET key == UniqKey(c, line)
      row == line \o <<c.delim>>
      fresh == [s EXCEPT !.prev = line, !.key = key, !.n = 1, !.first = FALSE]
      again == [s EXCEPT !.n = @ + 1]
  IN IF s.first
     THEN Go(fresh, If(c.group # "", If(c.group \in {"prepend", "both"}, <<c.delim>>) \o row))
     ELSE IF s.key = key
     THEN IF c.group # "" THEN Go(again, row)
          ELSE IF c.allRep # ""
          THEN IF s.n = 1
               THEN Go([again EXCEPT !.groups = @ + 1],
                       If(UniqSeparator(c, s), <<c.delim>>) \o s.prev \o <<c.delim>> \o row)
               ELSE Go(again, row)
          ELSE Go(again, <<>>)
     ELSE IF c.group # "" THEN Go([fresh EXCEPT !.groups = @ + 1], <<c.delim>> \o row)
     ELSE IF c.allRep # "" THEN Go(fresh, <<>>)
     ELSE Go(fresh, EmitStandard(c, s.prev, s.n))

UniqEnd(c, s) ==
  IF s.first THEN <<>>
  ELSE IF c.group # "" THEN If(c.group \in {"append", "both"}, <<c.delim>>)
  ELSE IF c.allRep # "" THEN <<>>
  ELSE EmitStandard(c, s.prev, s.n)

-----------------------------------------------------------------------------
(* cut: a list item is <<first, last>>, -1 where a side of the dash is     *)
(* empty; a single number is <<n, n>>.                                     *)

MaxInt32 == 2147483647
CutItem(r) == <<IF r[1] = -1 THEN 1 ELSE r[1], IF r[2] = -1 THEN MaxInt32 ELSE r[2]>>
CutItemBad(r) == r = <<-1, -1>> \/ r[1] = 0 \/ r[2] = 0 \/ CutItem(r)[1] > CutItem(r)[2]

\* Overlapping ranges are merged; ranges that only touch are not.
Overlaps(last, r) == r[1] <= last[2]
ParseList(list) ==
  LET byStart(a, b) == a[1] < b[1] \/ (a[1] = b[1] /\ a[2] < b[2])
      s == SortSeq([i \in DOMAIN list |-> CutItem(list[i])], byStart)
      Merge(m, r) == IF m # <<>> /\ Overlaps(Last(m), r)
                     THEN [m EXCEPT ![Len(m)][2] = Max({@, r[2]})] ELSE Append(m, r)
      f[i \in 0..Len(s)] == IF i = 0 THEN <<>> ELSE Merge(f[i - 1], s[i])
  IN f[Len(s)]

CutConfig(o) ==
  LET lists == {m \in {"b", "c", "f"} : o.list[m] # <<>>}
      mode == CHOOSE m \in lists : TRUE
      list == o.list[mode]
  IN IF \/ o.d # <<>> /\ Len(o.d) # 1
        \/ Cardinality(lists) # 1
        \/ mode # "f" /\ (o.d # <<>> \/ o.s)
        \/ \E i \in DOMAIN list : CutItemBad(list[i])
     THEN [usage |-> 1]
     ELSE [usage |-> 0, fields |-> mode = "f", ranges |-> ParseList(list),
           delim |-> IF o.d = <<>> THEN TAB ELSE o.d[1], only |-> o.s, complement |-> o.complement,
           outDelim |-> IF o.out # <<>> THEN o.out[1] ELSE IF o.d = <<>> THEN <<TAB>> ELSE o.d,
           outDelimSet |-> o.out # <<>>]

\* The search stops at the first range that starts or ends beyond pos.
InRanges(pos, rs) ==
  LET K == {k \in DOMAIN rs : pos < rs[k][1] \/ pos <= rs[k][2]}
  IN K # {} /\ pos >= rs[Min(K)][1]

ComplementRanges(rs, total) ==
  LET f[k \in 0..Len(rs)] ==
        IF k = 0 THEN [got |-> <<>>, next |-> 1, over |-> FALSE]
        ELSE LET a == f[k - 1] IN
             IF a.over \/ rs[k][1] > total THEN [a EXCEPT !.over = TRUE]
             ELSE [got |-> IF a.next < rs[k][1] THEN Append(a.got, <<a.next, rs[k][1] - 1>>) ELSE a.got,
                   next |-> Min({rs[k][2], total}) + 1, over |-> rs[k][2] >= total]
      e == f[Len(rs)]
  IN IF e.next <= total THEN Append(e.got, <<e.next, total>>) ELSE e.got

Join(parts, sep) ==
  LET f[i \in 0..Len(parts)] ==
        IF i = 0 THEN <<>> ELSE f[i - 1] \o If(i > 1, sep) \o parts[i]
  IN f[Len(parts)]

CutBytes(c, raw) ==
  LET n == Len(raw)
      rs == IF c.complement THEN ComplementRanges(c.ranges, n)
            ELSE SelectSeq(c.ranges, LAMBDA r : r[1] <= n)
  IN (IF raw = <<>> THEN <<>>
      ELSE IF c.outDelimSet
      THEN Join([k \in DOMAIN rs |-> SubSeq(raw, rs[k][1], Min({rs[k][2], n}))], c.outDelim)
      ELSE Pick(raw, {i \in 1..n : InRanges(i, c.ranges) # c.complement})) \o <<NL>>

CutFields(c, raw) ==
  LET fields == Lines(Append(raw, c.delim), c.delim)
      chosen == Pick(fields, {i \in DOMAIN fields : InRanges(i, c.ranges) # c.complement})
  IN IF c.delim \notin ToSet(raw) THEN If(~c.only, raw \o <<NL>>)
     ELSE Join(chosen, c.outDelim) \o <<NL>>

CutLine(c, s, tok) ==
  LET raw == Chomp(tok, NL) IN Go(s, IF c.fields THEN CutFields(c, raw) ELSE CutBytes(c, raw))

-----------------------------------------------------------------------------
(***************************************************************************)
(* grep: its options and its loop body (see LineFilters for the form).     *)
(* Regular expressions are Go's; a pattern here is one byte, and no byte   *)
(* at all stands for the empty pattern, which matches every line.          *)
(***************************************************************************)
WordByte(b) == b \in 48..57 \cup 65..90 \cup 97..122 \cup {95}

\* Positions at which the combined expression matches (regexp.FindAllIndex).
Spans(c, line) ==
  LET Hit(i) == line[i] \in c.pats \/ (c.fold /\ ToLower(line[i]) \in {ToLower(p) : p \in c.pats})
      Edge(i) == (i = 0 \/ ~WordByte(line[i])) # (i = Len(line) \/ ~WordByte(line[i + 1]))
  IN {i \in DOMAIN line : /\ Hit(i)
                          /\ c.line => Len(line) = 1
                          /\ (c.word /\ ~c.line) => Edge(i - 1) /\ Edge(i)}
Matches(c, line) == IF c.pats = {} THEN c.line => line = <<>> ELSE Spans(c, line) # {}

\* A flag of an ordered pair counts from its last setting; =false clears it.
FlagPos(o, f) == LET P == {i \in DOMAIN o : o[i].flag = f}
                 IN IF P = {} \/ ~o[Max(P)].on THEN 0 ELSE Max(P)

Clamp(n) == Max({0, Min({n, MaxContextLines})})

GrepConfig(o, files) ==
  LET after == IF o.C >= 0 /\ o.A = -1 THEN o.C ELSE o.A
      before == IF o.C >= 0 /\ o.B = -1 THEN o.C ELSE o.B
      Pos(f) == FlagPos(o.order, f)
      listing == Pos("l") # Pos("L")
  IN [usage |-> IF Len(o.matchers) > 1 \/ "bad" \in o.flags THEN 2 ELSE 0,
      pats |-> o.pats, fold |-> "i" \in o.flags, word |-> "w" \in o.flags, line |-> "x" \in o.flags,
      invert |-> "v" \in o.flags, only |-> "o" \in o.flags, quiet |-> "q" \in o.flags,
      silent |-> "s" \in o.flags, text |-> "a" \in o.flags, number |-> "n" \in o.flags,
      with |-> Pos("l") > Pos("L"), without |-> Pos("L") > Pos("l"),
      count |-> "c" \in o.flags /\ ~listing, max |-> o.m,
      names |-> IF Pos("H") # Pos("h") THEN Pos("H") > Pos("h") ELSE Len(files) > 1,
      after |-> IF "o" \in o.flags THEN 0 ELSE Clamp(after),
      before |-> IF "o" \in o.flags THEN 0 ELSE Clamp(before),
      context |-> "o" \notin o.flags /\ (o.A # -1 \/ o.B # -1 \/ o.C # -1)]

\* A file starts binary when a NUL is among the bytes of the first read.
GrepStart(c, s, file, probe) ==
  [n |-> 0, matches |-> 0, before |-> <<>>, after |-> 0, abytes |-> 0, last |-> 0, sep |-> FALSE,
   file |-> file, binary |-> ~c.text /\ NUL \in ToSet(probe), matched |-> s.matched]

Printing(c) == ~(c.quiet \/ c.count \/ c.with \/ c.without)

Row(c, s, sep, n, text) == If(c.names, <<Name(s.file), sep>>) \o If(c.number, <<Num(n), sep>>) \o text \o <<NL>>

SumLen(rows) == LET f[i \in 0..Len(rows)] == IF i = 0 THEN 0 ELSE f[i - 1] + Len(rows[i].text) IN f[Len(rows)]

\* The lines kept for leading context: the oldest make room for the newest.
Hold(c, before, row) ==
  LET Fits(k) == Len(before) - k < c.before /\ SumLen(Drop(before, k)) + Len(row.text) <= MaxContextBytes
      K == {k \in 0..Len(before) : k = Len(before) \/ Fits(k)}
  IN Append(Drop(before, Min(K)), row)

GrepMatch(c, s, line) ==
  LET n == s.n + 1
      counted == [s EXCEPT !.n = n, !.matches = @ + 1]
      parts == Spans(c, line)
      gap == c.context /\ s.sep /\ s.last > 0 /\ n > s.last + 1
      lead == SelectSeq(s.before, LAMBDA r : r.num > s.last)
      body == IF ~c.only THEN Row(c, s, 58, n, line)
              ELSE If(~c.invert, FlattenSeq([k \in 1..Cardinality(parts) |->
                                   Row(c, s, 58, n, <<Pick(line, parts)[k]>>)]))
  IN IF c.max >= 0 /\ s.matches >= c.max THEN Stop([s EXCEPT !.n = n], <<>>)
     ELSE IF c.quiet THEN Stop(counted, <<>>)
     ELSE IF s.binary \/ ~Printing(c) THEN Go(counted, <<>>)
     ELSE Go([counted EXCEPT !.last = n, !.sep = TRUE, !.after = c.after, !.abytes = 0, !.before = <<>>],
             If(gap, <<Text("--"), NL>>)
               \o If(c.before > 0, FlattenSeq([k \in DOMAIN lead |-> Row(c, s, 45, lead[k].num, lead[k].text)]))
               \o body)

GrepMiss(c, s, line) ==
  LET n == s.n + 1
      trailing == ~s.binary /\ s.after > 0 /\ Printing(c)
      shown == trailing /\ s.abytes + Len(line) <= MaxContextBytes
  IN Go([s EXCEPT !.n = n,
                  !.after = IF trailing THEN @ - 1 ELSE @,
                  !.last = IF shown THEN n ELSE @,
                  !.abytes = IF shown THEN @ + Len(line) ELSE @,
                  !.before = IF ~s.binary /\ c.before > 0 THEN Hold(c, @, [num |-> n, text |-> line]) ELSE @],
        If(shown, Row(c, s, 45, n, line)))

\* A NUL makes the file binary from the line that holds it on.
GrepLine(c, s, line) ==
  LET t == [s EXCEPT !.binary = @ \/ (~c.text /\ NUL \in ToSet(line))]
  IN IF Matches(c, line) # c.invert THEN GrepMatch(c, t, line) ELSE GrepMiss(c, t, line)

GrepEnd(c, s) ==
  If(~(c.quiet /\ s.matches > 0),
     If(c.count, If(c.names, <<Name(s.file), 58>>) \o <<Num(s.matches), NL>>)
       \o If((c.with /\ s.matches > 0) \/ (c.without /\ s.matches = 0), <<Name(s.file), NL>>))

GrepCode(s) == IF s.failed THEN 2 ELSE IF s.matched THEN 0 ELSE 1

-----------------------------------------------------------------------------
(***************************************************************************)
(* sort: its options, the keys it extracts, its comparisons, and what it   *)
(* does with the lines once it has them.  A key is [sf, sc, ef, ec, opts,  *)
(* sb, eb]: fields and characters from 1, 0 where absent, the modifiers    *)
(* written on it, and whether b was among those of the start and the end.  *)
(***************************************************************************)
CONSTANTS MaxSortLines, MaxSortBytes   \* MaxLines and MaxTotalBytes

\* Modifiers that cannot be combined on one key, or globally.
Clash(opts) == {"d", "n"} \subseteq opts \/ {"h", "n"} \subseteq opts \/ {"d", "h"} \subseteq opts

KeyBad(k) == k.sf < 1 \/ (k.dot /\ k.sc = 0) \/ (k.hasEnd /\ k.ef < 1) \/ Clash(k.opts) \/ "bad" \in k.opts

\* The first error in the order of the checks; 0 when there is none.
SortUsage(o, files) ==
  LET diagnose == "diagnose" \in o.check
      silent == "silent" \in o.check
      globals == o.keys = <<>> \/ \E i \in DOMAIN o.keys : o.keys[i].opts = {}
  IN IF \/ "bad" \in o.check \/ (diagnose /\ (silent \/ o.C))
        \/ o.t # <<>> /\ Len(o.t[1]) # 1
        \/ \E i \in DOMAIN o.keys : KeyBad(o.keys[i])
        \/ globals /\ Clash(o.global)
     THEN 2
     ELSE IF o.refused THEN 1
     ELSE IF (o.check # {} \/ o.C) /\ Len(files) > 1 THEN 2 ELSE 0

SortConfig(o, files) ==
  [usage |-> SortUsage(o, files), check |-> o.check # {} \/ o.C, silent |-> "silent" \in o.check \/ o.C,
   stable |-> o.stable, unique |-> o.unique, keys |-> o.keys, global |-> o.global,
   sep |-> IF o.t = <<>> THEN -1 ELSE o.t[1][1]]

\* The bounds <<start, end>> of the fields: between separators, or leading
\* blanks with the word that follows them.
FieldBounds(c, line) ==
  IF c.sep # -1
  THEN Once(Tokens(Append(line, c.sep), c.sep), LAMBDA f :
       LET At(k) == LET g[i \in 0..k] == IF i = 0 THEN 0 ELSE g[i - 1] + Len(f[i]) IN g[k]
       IN  [k \in DOMAIN f |-> <<At(k - 1), At(k) - 1>>])
  ELSE LET Past(i, b) == Min({k \in i..Len(line) : k = Len(line) \/ Blank(line[k + 1]) # b})
           f[p \in 0..Len(line)] == IF p = Len(line) THEN <<>>
                                    ELSE Once(Past(Past(p, TRUE), FALSE), LAMBDA e : <<<<p, e>>>> \o f[e])
       IN f[0]

SkipBlanks(line, p) == Min({k \in p..Len(line) : k = Len(line) \/ ~Blank(line[k + 1])})

\* The end character counts from the start of the field, blanks or not.
KeyEnd(line, k, b, skip) ==
  IF k.ec > 0 THEN Min({(IF skip THEN SkipBlanks(line, b[1]) ELSE b[1]) + k.ec, Len(line)}) ELSE b[2]

ExtractKey(c, line, k, startB, endB) ==
  Once(FieldBounds(c, line), LAMBDA bounds :
  LET s0 == bounds[k.sf][1]
  IN  Once(IF startB THEN SkipBlanks(line, s0) ELSE s0, LAMBDA s1 :
  LET start == IF k.sc > 0 THEN s1 + k.sc - 1 ELSE s1
      whole == k.ef = 0 \/ k.ef > Len(bounds)
  IN
     IF k.sf > Len(bounds) \/ start >= Len(line) THEN <<>>
     ELSE SubSeq(line, start + 1, IF whole THEN Len(line) ELSE KeyEnd(line, k, bounds[k.ef], endB))))

Cmp(x, y) == IF x < y THEN -1 ELSE IF x > y THEN 1 ELSE 0
CmpBytes(a, b) == IF Less(a, b) THEN -1 ELSE IF a = b THEN 0 ELSE 1

\* Integer parts without leading zeros: the longer is larger; then digit by
\* digit, a missing fraction digit counting as 0.
CompareMagnitude(a, b) ==
  LET n == Max({Len(a.frac), Len(b.frac)})
      Pad(f) == f \o [i \in 1..n - Len(f) |-> 48]
  IN IF Len(a.int) # Len(b.int) THEN Cmp(Len(a.int), Len(b.int))
     ELSE IF a.int # b.int THEN CmpBytes(a.int, b.int)
     ELSE CmpBytes(Pad(a.frac), Pad(b.frac))

\* Blanks, a sign, digits with an optional fraction, then a unit letter.
Order(b) ==
  Once(<<{75, 107}, {77}, {71}, {84}, {80}, {69}, {90}, {89}, {82}, {81}>>, LAMBDA units :
  LET K == {k \in DOMAIN units : b \in units[k]}
  IN  IF K = {} THEN 0 ELSE Min(K))
NumParts(s, human) ==
  Once(Drop(s, SkipBlanks(s, 0)), LAMBDA t :
  LET neg == t # <<>> /\ t[1] = 45
  IN  Once(IF neg THEN Tail(t) ELSE t, LAMBDA u :
  LET DigitsFrom(p) == Min({k \in p..Len(u) : k = Len(u) \/ ~Digit(u[k + 1])})
  IN  Once(DigitsFrom(0), LAMBDA i :
  LET dot == i < Len(u) /\ u[i + 1] = 46
  IN  Once(IF dot THEN DigitsFrom(i + 1) ELSE i, LAMBDA j :
  LET raw == Take(u, i)
      z == IF raw = <<>> THEN 0 ELSE Min({k \in 0..Len(raw) - 1 : k = Len(raw) - 1 \/ raw[k + 1] # 48})
  IN  Once(IF raw = <<>> THEN <<48>> ELSE Drop(raw, z), LAMBDA int :
  Once(IF dot THEN SubSeq(u, i + 2, j) ELSE <<>>, LAMBDA frac :
  LET zero == \A x \in ToSet(int \o frac) : x = 48
      number == IF human THEN raw # <<>> \/ frac # <<>> ELSE u # <<>> /\ (Digit(u[1]) \/ u[1] = 46)
  IN
     IF ~number THEN [neg |-> FALSE, zero |-> TRUE, order |-> 0, int |-> <<48>>, frac |-> <<>>]
     ELSE [neg |-> neg /\ ~zero, zero |-> zero, int |-> int, frac |-> frac,
           order |-> IF human /\ j < Len(u) THEN Order(u[j + 1]) ELSE 0]))))))

CompareNumeric(a, b) ==
  Once(NumParts(a, FALSE), LAMBDA x :
  Once(NumParts(b, FALSE), LAMBDA y :
     IF x.neg # y.neg THEN (IF x.neg THEN -1 ELSE 1)
     ELSE IF x.neg THEN CompareMagnitude(y, x) ELSE CompareMagnitude(x, y)))

\* By sign, then by unit, then by magnitude: 1023K is less than 1M.
SignCategory(x) == IF x.zero THEN 0 ELSE IF x.neg THEN -1 ELSE 1
CompareHuman(a, b) ==
  Once(NumParts(a, TRUE), LAMBDA x :
  Once(NumParts(b, TRUE), LAMBDA y :
  Once(IF x.order # y.order THEN Cmp(x.order, y.order) ELSE CompareMagnitude(x, y), LAMBDA up :
     IF SignCategory(x) # SignCategory(y) THEN Cmp(SignCategory(x), SignCategory(y))
     ELSE IF SignCategory(x) = 0 THEN 0
     ELSE IF x.neg THEN -up ELSE up)))

DictByte(b) == Blank(b) \/ Digit(b) \/ ToLower(b) \in 97..122
CompareStrings(a, b, opts) ==
  LET Prep(s) == Once(IF "b" \in opts THEN Drop(s, SkipBlanks(s, 0)) ELSE s, LAMBDA t :
                 Once(IF "f" \in opts THEN [i \in DOMAIN t |-> ToUpper(t[i])] ELSE t, LAMBDA u : IF "d" \in opts /\ "h" \notin opts THEN SelectSeq(u, DictByte) ELSE u))
  IN IF "h" \in opts THEN CompareHuman(Prep(a), Prep(b))
     ELSE IF "n" \in opts THEN CompareNumeric(Prep(a), Prep(b))
     ELSE CmpBytes(Prep(a), Prep(b))

\* Key by key, then the whole lines as a last resort; -r reverses each.
SortCompare(c, a, b) ==
  LET Signed(r, x) == IF r THEN -x ELSE x
      ByKey(k) ==
        LET own == k.opts # {}
            opts == IF own THEN k.opts ELSE c.global
            sb == IF own THEN k.sb ELSE "b" \in opts
            eb == IF own THEN k.eb ELSE "b" \in opts
        IN Signed("r" \in opts, CompareStrings(ExtractKey(c, a, k, sb, eb), ExtractKey(c, b, k, sb, eb),
                                               opts \ {"b"}))
  IN  Once(
               IF c.keys = <<>> THEN <<Signed("r" \in c.global, CompareStrings(a, b, c.global))>>
               ELSE [i \in DOMAIN c.keys |-> ByKey(c.keys[i])], LAMBDA keyed :
  LET decided == {i \in DOMAIN keyed : keyed[i] # 0}
  IN
     IF decided # {} THEN keyed[Min(decided)]
     ELSE IF c.stable \/ c.unique THEN 0
     ELSE Signed("r" \in c.global, CmpBytes(a, b)))

\* slices.SortStableFunc and slices.SortFunc; without -s and -u only equal
\* lines compare equal, so the two agree.
SortAll(c, lines) ==
  LET before(p, q) == Once(SortCompare(c, p[2], q[2]), LAMBDA x : x < 0 \/ (x = 0 /\ p[1] < q[1]))
  IN  Once(SortSeq([i \in DOMAIN lines |-> <<i, lines[i]>>], before), LAMBDA s : [i \in DOMAIN s |-> s[i][2]])

Dedup(c, lines) == Pick(lines, {i \in DOMAIN lines : i = 1 \/ SortCompare(c, lines[i - 1], lines[i]) # 0})

\* The number of the first line out of order; 0 when the input is sorted.
Disorder(c, lines) ==
  Once(
           {i \in 2..Len(lines) : Once(SortCompare(c, lines[i - 1], lines[i]), LAMBDA x : x > 0 \/ (c.unique /\ x = 0))}, LAMBDA D : IF D = {} THEN 0 ELSE Min(D))

SortLine(c, s, line) ==
  LET total == s.total + Len(line)
  IN IF total > MaxSortBytes \/ Len(s.own) >= MaxSortLines
     THEN [st |-> s, out |-> <<>>, then |-> "fail"]
     ELSE [st |-> [s EXCEPT !.total = total, !.own = Append(@, line)], out |-> <<>>, then |-> "go"]

=============================================================================

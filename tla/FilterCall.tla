----------------------------- MODULE FilterCall -----------------------------
(***************************************************************************)
(* One call of a text filter: cat, head, tail, uniq, cut, grep, wc, tr,    *)
(* strings, sha256sum, sort or tee.  The call checks its options, visits   *)
(* its operands in order, reads each to the end in blocks or lines, and    *)
(* leaves an exit status.  The context may be cancelled and the reader of  *)
(* standard output may go away between any two steps; files may be absent, *)
(* directories, or fail when read or written.  File 0 is standard input.   *)
(***************************************************************************)
EXTENDS LineFilters, ByteFilters

CONSTANTS MaxLineBytes,   \* longest line a scanner returns
          MaxRead,        \* largest block one read returns
          MaxTeeOperands,
          Calls           \* the calls [cmd, opt, files, disk] considered

VARIABLES inv,    \* the call, and the files [kind, data] it will find
          cfg,    \* the options as understood
          pc, idx,
          at,     \* file |-> how far it has been read
          ahead,  \* bytes a scanner has taken beyond that
          st,     \* the command's memory
          dst,    \* tee's destinations
          out,    \* what standard output has received
          diag,   \* the operands reported on standard error
          failed, live, sink, code

vars == <<inv, cfg, pc, idx, at, ahead, st, dst, out, diag, failed, live, sink, code>>
world == <<inv, cfg>>

cmd == inv.cmd
disk == inv.disk
Sources == IF cmd = "tr" \/ inv.files = <<>> THEN <<0>> ELSE inv.files
f == Sources[idx]
data == disk[f].data

Config(i) ==
  CASE i.cmd = "cat" -> CatConfig(i.opt)
    [] i.cmd = "head" -> HeadConfig(i.opt, i.files)
    [] i.cmd = "tail" -> TailConfig(i.opt, i.files)
    [] i.cmd = "uniq" -> UniqConfig(i.opt, i.files)
    [] i.cmd = "cut" -> CutConfig(i.opt)
    [] i.cmd = "grep" -> GrepConfig(i.opt, i.files)
    [] i.cmd = "sort" -> SortConfig(i.opt, i.files)
    [] i.cmd = "wc" -> [usage |-> 0, cols |-> i.opt]
    [] i.cmd = "tr" -> TrConfig(i.opt)
    [] i.cmd = "strings" -> [i.opt EXCEPT !.usage = IF i.opt.min < 1 THEN 1 ELSE 0]
    [] i.cmd = "sha256sum" -> [i.opt EXCEPT !.usage = ShaUsage(i.opt, i.files)]
    [] i.cmd = "tee" -> [usage |-> IF Len(i.files) > MaxTeeOperands THEN 1 ELSE 0, append |-> i.opt.append]

\* What a command remembers from one operand to the next.
Memory ==
  CASE cmd = "cat" -> [lineNum |-> 1, prevBlank |-> FALSE]
    [] cmd \in {"head", "tail"} -> [header |-> FALSE]
    [] cmd = "grep" -> [matched |-> FALSE]
    [] cmd = "wc" -> [results |-> <<>>]
    [] cmd = "sort" -> [total |-> 0, own |-> <<>>, all |-> <<>>]
    [] cmd = "sha256sum" -> [entries |-> 0, malformed |-> 0, mismatched |-> 0, unreadable |-> 0,
                             outBytes |-> 0, read |-> 0, before |-> 0, got |-> <<>>]
    [] cmd = "tee" -> [up |-> TRUE]
    [] OTHER -> [none |-> 0]

\* The memory at the start of a file; grep has looked for a NUL in the first n bytes.
FileStart(n) ==
  CASE cmd = "head" -> HeadStart(cfg)
    [] cmd = "tail" -> TailStart(cfg, st, disk[f].kind = "file")
    [] cmd = "uniq" -> UniqStart
    [] cmd = "grep" -> GrepStart(cfg, st, f, Take(data, n))
    [] cmd = "wc" -> WcStart(st)
    [] cmd = "tr" -> [last |-> -1]
    [] cmd = "strings" -> StringsStart(f)
    [] cmd = "sort" -> [st EXCEPT !.own = <<>>]
    [] cmd = "sha256sum" -> [st EXCEPT !.before = st.entries, !.got = <<>>]
    [] OTHER -> st

Delim == CASE cmd = "uniq" -> cfg.delim [] cmd = "tail" -> (IF LastSet(inv.opt, {"z"}) > 0 THEN NUL ELSE NL) [] OTHER -> NL
LineLimit == IF cmd \in {"cat", "sort"} THEN MaxLineBytes + 1 ELSE MaxLineBytes
ByLine == \/ cmd \in {"uniq", "cut", "grep", "sort"}
          \/ cmd = "cat" /\ CatByLine(cfg)
          \/ cmd \in {"head", "tail"} /\ ~cfg.bytes
ByEntry == cmd = "sha256sum" /\ cfg.check
ByBlock == ~ByLine /\ ~ByEntry

\* Whether the loop over a file goes on before it looks at the input.
More == CASE cmd = "head" -> HeadMore(cfg, st) [] cmd = "tail" -> cfg.offset \/ cfg.count > 0 [] OTHER -> TRUE

Want == CASE cmd = "head" -> cfg.count - st.emitted
          [] cmd = "tail" /\ cfg.offset /\ st.total < SkipCount(cfg) -> SkipCount(cfg) - st.total
          [] OTHER -> MaxRead

Feed(tok) ==
  CASE cmd = "cat" -> IF ByLine THEN CatLine(cfg, st, tok) ELSE Go(st, tok)
    [] cmd = "head" -> IF ByLine THEN HeadLine(cfg, st, tok) ELSE HeadChunk(cfg, st, tok)
    [] cmd = "tail" -> IF cfg.offset THEN (IF ByLine THEN SkipLine(cfg, st, tok) ELSE SkipChunk(cfg, st, tok))
                       ELSE IF ByLine THEN TailLine(cfg, st, tok) ELSE TailChunk(cfg, st, tok)
    [] cmd = "uniq" -> UniqLine(cfg, st, Chomp(tok, Delim))
    [] cmd = "cut" -> CutLine(cfg, st, tok)
    [] cmd = "grep" -> GrepLine(cfg, st, Chomp(Chomp(tok, NL), CR))
    [] cmd = "sort" -> SortLine(cfg, st, Chomp(tok, NL))
    [] cmd = "wc" -> Go(WcChunk(st, tok), <<>>)
    [] cmd = "tr" -> TrChunk(cfg, st, tok)
    [] cmd = "strings" -> StringsChunk(cfg, st, tok)
    [] cmd = "sha256sum" -> Go([st EXCEPT !.got = @ \o tok], <<>>)

\* What is written once a file has been read.
Tailpiece ==
  CASE cmd = "tail" /\ ~cfg.offset -> (IF cfg.bytes THEN TailBuf(cfg, st) ELSE TailRing(cfg, st))
    [] cmd = "uniq" -> UniqEnd(cfg, st)
    [] cmd = "grep" -> GrepEnd(cfg, st)
    [] cmd = "strings" -> Flush(cfg, st)
    [] cmd = "sha256sum" /\ ~cfg.check -> ShaLine(st.got, f)
    [] OTHER -> <<>>

\* What the command remembers of a file that has been read.
Kept ==
  CASE cmd = "wc" -> [results |-> Append(st.results, [c |-> WcEnd(st), name |-> IF inv.files = <<>> THEN 0 ELSE f])]
    [] cmd = "sort" -> [st EXCEPT !.all = @ \o st.own]
    [] cmd = "grep" -> [st EXCEPT !.matched = @ \/ st.matches > 0]
    [] OTHER -> st

FilterStart ==
  /\ cfg = [usage |-> 0]
  /\ pc = "begin" /\ idx = 1 /\ ahead = 0
  /\ at = [g \in DOMAIN disk |-> 0]
  /\ st = Memory
  /\ dst = <<>> /\ out = <<>> /\ diag = {} /\ failed = FALSE
  /\ live = TRUE /\ sink = "up" /\ code = -1

Init == inv \in Calls /\ FilterStart

Exit(c) == pc' = "done" /\ code' = c

Begin ==
  /\ pc = "begin"
  /\ cfg' = Config(inv)
  /\ IF cfg'.usage # 0 THEN Exit(cfg'.usage) /\ UNCHANGED idx
     ELSE pc' = "operand" /\ UNCHANGED <<code, idx>>
  /\ UNCHANGED <<inv, at, ahead, st, dst, out, diag, failed, live, sink>>

-----------------------------------------------------------------------------
(* Errors, operands and ends of files *)

\* An operand fails: it is reported and the next one is tried, or the call ends.
AbortCode == CASE cmd \in {"uniq", "tr"} -> 1 [] cmd = "sort" -> (IF cfg.check THEN 2 ELSE 1) [] OTHER -> -1
FileError ==
  /\ diag' = diag \cup {idx}
  /\ failed' = TRUE
  /\ IF AbortCode # -1 THEN Exit(AbortCode) /\ UNCHANGED idx
     ELSE pc' = "operand" /\ idx' = idx + 1 /\ UNCHANGED code

\* Writing to a standard output that nobody reads, or that is full: some
\* commands do not look at the result, cat leaves its loop when the reader is
\* gone, the others fail the file.
Write(o, next) ==
  IF o = <<>> \/ sink = "up" THEN out' = out \o o /\ next
  ELSE /\ UNCHANGED out
       /\ CASE cmd = "cat" /\ sink = "gone" -> pc' = "finish" /\ UNCHANGED <<idx, diag, failed, code>>
            [] cmd \in {"cat", "head", "tail", "uniq", "tr"} -> FileError
            [] OTHER -> next

\* The loop over the operands looks at the context before each of them.
Polls == cmd \notin {"uniq", "tr"} /\ ~(cmd = "sort" /\ cfg.check)

Missing(k) == k = "none" \/ (k = "dir" /\ cmd \in {"strings", "sha256sum"})

Open ==
  /\ pc = "operand" /\ cmd # "tee" /\ idx <= Len(Sources)
  /\ live \/ ~Polls
  /\ LET idle == (cmd = "tail" /\ f # 0 /\ cfg.count = 0 /\ ~cfg.offset) \/ (cmd = "grep" /\ disk[f].kind = "nil")
         opened == ~idle /\ ~Missing(disk[f].kind)
     IN \/ /\ idle
           /\ idx' = idx + 1
           /\ UNCHANGED <<pc, at, ahead, st, out, diag, failed, code>>
        \/ /\ ~idle /\ Missing(disk[f].kind)
           /\ FileError
           /\ UNCHANGED <<at, ahead, st, out>>
        \/ /\ opened
           /\ pc' = "read"
           /\ at' = IF f = 0 THEN at ELSE [at EXCEPT ![f] = 0]
           /\ ahead' = 0
           /\ \E n \in (IF cmd = "grep" /\ data # <<>> THEN 1..Len(data) ELSE {0}) : st' = FileStart(n)
           /\ out' = IF cmd \in {"head", "tail"} /\ sink = "up" /\ st'.header /\ cfg.headers THEN out \o Header(cfg, st, f) ELSE out
           /\ UNCHANGED <<idx, diag, failed, code>>
  /\ UNCHANGED <<world, dst, live, sink>>

OperandsOver ==
  /\ pc = "operand" /\ cmd # "tee"
  /\ \/ idx > Len(Sources)
     \/ ~live /\ Polls
  /\ IF idx <= Len(Sources) /\ cmd \in {"sort", "sha256sum"} THEN Exit(1)
     ELSE pc' = "finish" /\ UNCHANGED code
  /\ UNCHANGED <<world, idx, at, ahead, st, dst, out, diag, failed, live, sink>>

Advance(k) == at' = [at EXCEPT ![f] = k]

Apply(r, k) ==
  /\ Advance(k)
  /\ st' = r.st
  /\ IF r.then = "fail" THEN FileError /\ UNCHANGED out
     ELSE Write(r.out, pc' = (IF r.then = "stop" THEN "end" ELSE "read") /\ UNCHANGED <<idx, diag, failed, code>>)

\* bufio.Scanner: a line that fills the buffer is an error, the last line
\* needs no newline, and an error of the source comes after what was read.
NextEnd == TokenEnd(data, at[f], Delim)
NextToken == SubSeq(data, at[f] + 1, NextEnd)
TooLong == Len(NextToken) > LineLimit \/ (Len(NextToken) = LineLimit /\ ~Terminated(NextToken, Delim))

ScanLine ==
  /\ pc = "read" /\ ByLine /\ More
  /\ at[f] < Len(data) /\ ~TooLong
  /\ IF live
     THEN /\ Apply(Feed(NextToken), NextEnd)
          /\ IF cmd = "head" THEN \E a \in Max({0, at[f] + ahead - NextEnd})..Len(data) - NextEnd : ahead' = a
             ELSE UNCHANGED ahead
     ELSE FileError /\ UNCHANGED <<at, ahead, st, out>>
  /\ UNCHANGED <<world, dst, live, sink>>

ReadBlock ==
  /\ pc = "read" /\ ByBlock /\ More /\ live /\ cmd # "tee"
  /\ at[f] < Len(data)
  /\ \E n \in 1..Min({MaxRead, Want, Len(data) - at[f]}) :
       Apply(Feed(SubSeq(data, at[f] + 1, at[f] + n)), at[f] + n)
  /\ UNCHANGED <<world, ahead, dst, live, sink>>

\* tr treats a cancelled context as the end of its input.
ReadCancelled ==
  /\ pc = "read" /\ ~ByLine /\ More /\ ~live /\ cmd # "tee"
  /\ IF cmd = "tr" THEN Exit(0) /\ UNCHANGED <<idx, diag, failed>> ELSE FileError
  /\ UNCHANGED <<world, at, ahead, st, dst, out, live, sink>>

\* sha256sum -c: each line of a manifest names a file to digest.
Digest(g) == IF disk[g].kind \in {"none", "dir", "bad"} THEN [err |-> TRUE, digest |-> <<>>]
             ELSE [err |-> FALSE, digest |-> disk[g].data]
VerifyEntry ==
  /\ pc = "read" /\ ByEntry /\ live
  /\ at[f] < Len(data)
  /\ LET e == data[at[f] + 1] IN Apply(ShaEntry(cfg, st, e, Digest(e.name), f = 0), at[f] + 1)
  /\ UNCHANGED <<world, ahead, dst, live, sink>>

\* A read that fails: wc still counts a directory, strings prints what it has.
Fails == disk[f].kind \in {"dir", "bad"}
ReadFails ==
  /\ pc = "read" /\ cmd # "tee" /\ More
  /\ ByLine \/ live
  /\ \/ at[f] = Len(data) /\ Fails
     \/ ByLine /\ at[f] < Len(data) /\ TooLong
  /\ FileError
  /\ st' = IF cmd = "wc" /\ disk[f].kind = "dir" THEN Kept ELSE st
  /\ out' = IF cmd = "strings" /\ sink = "up" THEN out \o Flush(cfg, st) ELSE out
  /\ UNCHANGED <<world, at, ahead, dst, live, sink>>

ReadEnds ==
  /\ pc = "read" /\ cmd # "tee"
  /\ \/ ~More
     \/ More /\ at[f] = Len(data) /\ ~Fails /\ (ByLine \/ live)
  /\ pc' = "end"
  /\ UNCHANGED <<world, idx, at, ahead, st, dst, out, diag, failed, live, sink, code>>

\* head gives back to a seekable input what its scanner took in excess.
SeekBack(k) == ahead > 0 /\ k = "pipe"

EndFile ==
  /\ pc = "end"
  /\ st' = Kept
  /\ at' = IF SeekBack(disk[f].kind) THEN [at EXCEPT ![f] = @ + ahead] ELSE at
  /\ ahead' = 0
  /\ LET next == IF cmd \in {"uniq", "tr"} THEN Exit(0) /\ UNCHANGED <<idx, diag, failed>>
                 ELSE IF cmd = "sort" /\ Len(st'.all) > MaxSortLines THEN Exit(1) /\ UNCHANGED <<idx, diag, failed>>
                 ELSE IF cmd = "grep" /\ cfg.quiet /\ st.matches > 0 THEN Exit(0) /\ UNCHANGED <<idx, diag, failed>>
                 ELSE IF ByEntry /\ st.entries = st.before THEN FileError
                 ELSE pc' = "operand" /\ idx' = idx + 1 /\ UNCHANGED <<diag, failed, code>>
     IN Write(Tailpiece, next)
  /\ UNCHANGED <<world, dst, live, sink>>

Finish ==
  /\ pc = "finish" /\ cmd # "tee"
  /\ out' = IF cmd = "wc" /\ sink = "up" THEN out \o WcReport(cfg.cols, st.results, Len(Sources)) ELSE out
  /\ IF cmd = "sort" /\ ~cfg.check
     THEN /\ pc' = "emit" /\ UNCHANGED code
          /\ st' = [st EXCEPT !.all = IF cfg.unique THEN Dedup(cfg, SortAll(cfg, @)) ELSE SortAll(cfg, @)]
     ELSE /\ UNCHANGED st
          /\ Exit(CASE cmd = "grep" -> GrepCode([failed |-> failed, matched |-> st.matched])
                    [] cmd = "sort" -> (IF ~live /\ Len(st.all) > 1 THEN 1 ELSE IF Disorder(cfg, st.all) # 0 THEN 1 ELSE 0)
                    [] cmd = "sha256sum" /\ cfg.check -> (IF failed \/ st.mismatched > 0 \/ st.unreadable > 0 THEN 1 ELSE 0)
                    [] OTHER -> IF failed THEN 1 ELSE 0)
  /\ UNCHANGED <<world, idx, at, ahead, dst, diag, failed, live, sink>>

\* sort looks at the context before each line it writes.
EmitLine ==
  /\ pc = "emit"
  /\ IF ~live /\ st.all # <<>> THEN Exit(1) /\ UNCHANGED <<out, st>>
     ELSE IF st.all = <<>> THEN Exit(0) /\ UNCHANGED <<out, st>>
     ELSE /\ out' = IF sink = "up" THEN out \o Head(st.all) \o <<NL>> ELSE out
          /\ st' = [st EXCEPT !.all = Tail(@)]
          /\ UNCHANGED <<pc, code>>
  /\ UNCHANGED <<world, idx, at, ahead, dst, diag, failed, live, sink>>

-----------------------------------------------------------------------------
(* tee: every destination is opened, then each block goes to standard      *)
(* output and to every file that still takes it, then the files are closed. *)

TeeOpen ==
  /\ pc = "operand" /\ cmd = "tee"
  /\ IF idx > Len(inv.files)
     THEN /\ pc' = IF disk[0].kind = "nil" THEN "close" ELSE "copy"
          /\ UNCHANGED <<idx, dst, diag, failed, code>>
     ELSE IF ~live THEN Exit(1) /\ UNCHANGED <<idx, dst, diag, failed>>
     ELSE LET g == inv.files[idx] IN
          /\ idx' = idx + 1
          /\ IF disk[g].kind = "dir"
             THEN diag' = diag \cup {idx} /\ failed' = TRUE /\ UNCHANGED dst
             ELSE /\ dst' = Append(dst, [file |-> g, op |-> idx, live |-> TRUE,
                                        data |-> IF cfg.append THEN disk[g].data ELSE <<>>])
                  /\ UNCHANGED <<diag, failed>>
          /\ UNCHANGED <<pc, code>>
  /\ UNCHANGED <<world, at, ahead, st, out, live, sink>>

\* A destination that fails is dropped; a broken pipe stops the copy.
TeeWrite(d, chunk) ==
  IF disk[d.file].kind = "full" THEN [d EXCEPT !.live = FALSE] ELSE [d EXCEPT !.data = @ \o chunk]

TeeCopy ==
  /\ pc = "copy" /\ live
  /\ at[0] < Len(disk[0].data)
  /\ \E n \in 1..Min({MaxRead, Len(disk[0].data) - at[0]}) :
       LET chunk == SubSeq(disk[0].data, at[0] + 1, at[0] + n)
           up == st.up /\ sink = "up"
           newly == {dst[k].op : k \in {j \in DOMAIN dst : dst[j].live /\ ~dst'[j].live}}
                      \cup (IF st.up /\ ~up THEN {0} ELSE {})
       IN /\ at' = [at EXCEPT ![0] = @ + n]
          /\ IF st.up /\ sink = "gone"
             THEN pc' = "close" /\ UNCHANGED <<st, dst, out, diag, failed>>
             ELSE /\ out' = IF up THEN out \o chunk ELSE out
                  /\ dst' = [k \in DOMAIN dst |-> IF dst[k].live THEN TeeWrite(dst[k], chunk) ELSE dst[k]]
                  /\ st' = [up |-> up]
                  /\ diag' = diag \cup newly
                  /\ failed' = (failed \/ newly # {})
                  /\ pc' = IF up \/ \E k \in DOMAIN dst : dst'[k].live THEN "copy" ELSE "close"
  /\ UNCHANGED <<world, idx, ahead, live, sink, code>>

TeeEnds ==
  /\ pc = "copy"
  /\ ~live \/ at[0] = Len(disk[0].data)
  /\ pc' = "close"
  /\ failed' = (failed \/ ~live \/ disk[0].kind = "bad")
  /\ diag' = IF live /\ disk[0].kind = "bad" THEN diag \cup {0} ELSE diag
  /\ UNCHANGED <<world, idx, at, ahead, st, dst, out, live, sink, code>>

\* A write that only fails when the file is closed is still reported.
TeeClose ==
  /\ pc = "close"
  /\ LET late == {dst[k].op : k \in {j \in DOMAIN dst : disk[dst[j].file].kind = "late"}}
     IN diag' = diag \cup late /\ failed' = (failed \/ late # {})
  /\ Exit(IF failed' THEN 1 ELSE 0)
  /\ UNCHANGED <<world, idx, at, ahead, st, dst, out, live, sink>>

-----------------------------------------------------------------------------
(* The surroundings *)

Cancel == /\ pc # "done" /\ live /\ live' = FALSE
          /\ UNCHANGED <<world, pc, idx, at, ahead, st, dst, out, diag, failed, sink, code>>
SinkFails == /\ pc # "done" /\ sink = "up" /\ sink' \in {"gone", "full"}
             /\ UNCHANGED <<world, pc, idx, at, ahead, st, dst, out, diag, failed, live, code>>
Done == pc = "done" /\ UNCHANGED vars

Next == \/ Begin \/ Open \/ OperandsOver \/ ScanLine \/ ReadBlock \/ ReadCancelled \/ VerifyEntry
        \/ ReadFails \/ ReadEnds \/ EndFile \/ Finish \/ EmitLine
        \/ TeeOpen \/ TeeCopy \/ TeeEnds \/ TeeClose \/ Cancel \/ SinkFails \/ Done

Spec == Init /\ [][Next]_vars

-----------------------------------------------------------------------------
(***************************************************************************)
(* What the text filters promise: the output as a function of the whole    *)
(* input, written without blocks, loops or memory, and the properties that *)
(* hold of every call.                                                     *)
(***************************************************************************)
c0 == Config(inv)
Data(k) == disk[Sources[k]].data
Concat(ss) == FlattenSeq(ss)
PerFile(R) == Concat([k \in DOMAIN Sources |-> R[k]])

RefLowShow(b) == IF b \in 32..126 THEN <<b>> ELSE IF b = 127 THEN <<94, 63>> ELSE <<94, b + 64>>
RefShow(c, b) == IF b = TAB THEN (IF c.tabs THEN <<94, 73>> ELSE <<TAB>>)
                 ELSE IF ~c.nonprinting THEN <<b>>
                 ELSE IF b >= 128 THEN <<77, 45>> \o RefLowShow(b - 128) ELSE RefLowShow(b)
\* cat: the lines of all files; a number is how many numbered lines came so far.
RefCat ==
  Once(c0, LAMBDA c :
  LET toks == PerFile([k \in DOMAIN Sources |-> Tokens(Data(k), NL)])
  IN  Once(Pick(toks, {i \in DOMAIN toks : ~(c.squeeze /\ toks[i] = <<NL>> /\ i > 1 /\ toks[i - 1] = <<NL>>)}), LAMBDA kept :
  LET Numbered(i) == c.number \/ (c.nonblank /\ kept[i] # <<NL>>)
      Line(i) ==
        LET body == Chomp(kept[i], NL)
            crlf == c.ends /\ ~c.nonprinting /\ Terminated(kept[i], NL) /\ Terminated(body, CR)
        IN If(Numbered(i), <<Num(Cardinality({j \in 1..i : Numbered(j)}))>>)
             \o Concat([k \in DOMAIN body |-> IF crlf /\ k = Len(body) THEN <<94, 77>> ELSE RefShow(c, body[k])])
             \o If(Terminated(kept[i], NL), If(c.ends, <<36>>) \o <<NL>>)
  IN  Concat([i \in DOMAIN kept |-> Line(i)])))

\* head and tail: a slice of each file; a seekable input gives the rest to the next "-".
RefSlice ==
  Once(c0, LAMBDA c :
  LET Part(d) ==
        Once(IF c.bytes THEN [i \in DOMAIN d |-> <<d[i]>>] ELSE Tokens(d, Delim), LAMBDA s :
           Concat(IF cmd = "head" THEN Take(s, Min({c.count, Len(s)}))
                  ELSE IF c.offset THEN Drop(s, Min({SkipCount(c), Len(s)}))
                  ELSE Drop(s, Max({0, Len(s) - c.count}))))
      f0[k \in 0..Len(Sources)] ==
        IF k = 0 THEN [out |-> <<>>, used |-> 0]
        ELSE LET p == f0[k - 1]
                 d == IF Sources[k] = 0 THEN Drop(Data(k), p.used) ELSE Data(k)
                 empty == cmd = "tail" /\ ~c.offset /\ c.count = 0
                 r == Part(d)
             IN [out |-> p.out \o If(~empty, Header(c, [header |-> k > 1], Sources[k])) \o r,
                 used |-> IF Sources[k] # 0 THEN p.used
                          ELSE IF cmd = "head" THEN p.used + Len(r) ELSE Len(Data(k))]
  IN  f0[Len(Sources)])

\* uniq: the maximal runs of lines with equal keys.
RefUniq ==
  Once(c0, LAMBDA c :
  LET ls == Lines(Data(1), c.delim)
  IN  Once({i \in DOMAIN ls : i = 1 \/ UniqKey(c, ls[i]) # UniqKey(c, ls[i - 1])}, LAMBDA starts :
  LET first == Pick([i \in DOMAIN ls |-> i], starts)
      n == Len(first)
      Size1(g) == (IF g = n THEN Len(ls) + 1 ELSE first[g + 1]) - first[g]
      Group(g) == Concat([i \in 1..Size1(g) |-> ls[first[g] + i - 1] \o <<c.delim>>])
      many == Pick([g \in 1..n |-> g], {g \in 1..n : Size1(g) > 1})
      Sep(m, j) == If((m = "prepend") \/ (m \in {"separate", "append", "both"} /\ j > 1), <<c.delim>>)
  IN
     IF c.group # ""
     THEN If(n > 0 /\ c.group = "both", <<c.delim>>) \o Concat([g \in 1..n |-> Sep(c.group, g) \o Group(g)])
            \o If(n > 0 /\ c.group \in {"append", "both"}, <<c.delim>>)
     ELSE IF c.allRep # "" THEN Concat([j \in DOMAIN many |-> Sep(c.allRep, j) \o Group(many[j])])
     ELSE Concat([g \in 1..n |->
            If((c.repeated => Size1(g) > 1) /\ (c.unique => Size1(g) = 1),
               If(c.count, <<Num(Size1(g))>>) \o ls[first[g]] \o <<c.delim>>)])))

\* cut: the positions some item of the list contains, or the others; a run of
\* chosen bytes ends where the list has a boundary.
RefCut ==
  Once(c0, LAMBDA c :
  LET o == inv.opt
      items == LET l == CHOOSE m \in {"b", "c", "f"} : o.list[m] # <<>> IN o.list[l]
      In(i) == \E k \in DOMAIN items : (items[k][1] = -1 \/ items[k][1] <= i) /\ (items[k][2] = -1 \/ i <= items[k][2])
      Joins(i, k) == CutItem(items[k])[1] < i /\ i <= CutItem(items[k])[2]
      Cuts(i, got) == i - 1 \notin got \/ (~c.complement /\ ~\E k \in DOMAIN items : Joins(i, k))
      Line(raw) ==
        LET parts == IF c.fields THEN Lines(Append(raw, c.delim), c.delim) ELSE [i \in DOMAIN raw |-> <<raw[i]>>]
            whole == c.fields /\ c.delim \notin ToSet(raw)
            got == {i \in DOMAIN parts : In(i) # c.complement}
        IN IF whole THEN If(~c.only, raw \o <<NL>>)
           ELSE IF c.fields THEN Join(Pick(parts, got), c.outDelim) \o <<NL>>
           ELSE Concat([i \in DOMAIN raw |-> If(i \in got,
                  If(c.outDelimSet /\ Cuts(i, got) /\ \E j \in got : j < i, c.outDelim) \o parts[i])]) \o <<NL>>
  IN  PerFile([k \in DOMAIN Sources |-> LET ls == Lines(Data(k), NL) IN Concat([i \in DOMAIN ls |-> Line(ls[i])])]))

\* grep: the selected lines (the first m of them) and those close to them; the
\* separators between groups are left out.
RefGrep ==
  Once(c0, LAMBDA c :
  LET File(k) ==
        LET ls == Lines(Data(k), NL)
        IN  Once({i \in DOMAIN ls : Matches(c, Chomp(ls[i], CR)) # c.invert}, LAMBDA sel :
        LET hit == {i \in sel : c.max >= 0 => Cardinality({j \in sel : j <= i}) <= c.max}
            stop == IF c.max >= 0 /\ Cardinality(sel) > c.max THEN Min(sel \ hit) ELSE Len(ls) + 1
            near == {i \in 1..stop - 1 : \E h \in hit : h - c.before <= i /\ i <= h + c.after}
            s == [file |-> Sources[k]]
        IN
           IF c.count THEN If(c.names, <<Name(s.file), 58>>) \o <<Num(Cardinality(hit)), NL>>
           ELSE IF c.with \/ c.without THEN If(c.with = (hit # {}), <<Name(s.file), NL>>)
           ELSE If(~c.quiet, Concat([i \in DOMAIN ls |-> If(i \in near,
                  (IF i \in hit /\ c.only
                   THEN LET p == Spans(c, ls[i])
                        IN If(~c.invert, Concat([q \in 1..Cardinality(p) |-> Row(c, s, 58, i, <<Pick(ls[i], p)[q]>>)]))
                   ELSE Row(c, s, IF i \in hit THEN 58 ELSE 45, i, Chomp(ls[i], CR))))])))
  IN  PerFile([k \in DOMAIN Sources |-> File(k)]))

\* wc: counts over the characters of each whole file.
RefWc ==
  LET Count(d) ==
        LET all == Runes(d)
        IN  Once([i \in DOMAIN all |-> Class(all[i])], LAMBDA cls :
        LET chars == SelectSeq(cls, LAMBDA k : k # "invalid")
            N(K) == Cardinality({i \in DOMAIN chars : chars[i] \in K})
            graphic == {"narrow", "wide", "combining"}
            inside == {"control", "other"}
            Opens(i) == /\ chars[i] \in graphic
                        /\ LET before == {j \in 1..i - 1 : chars[j] \notin inside}
                           IN before = {} \/ chars[Max(before)] \notin graphic
            col[i \in 0..Len(chars)] ==
              IF i = 0 THEN 0 ELSE IF chars[i] \in {"newline", "return"} THEN 0
              ELSE IF chars[i] = "tab" THEN col[i - 1] + 8 - (col[i - 1] % 8) ELSE col[i - 1] + Width(chars[i])
        IN
           [lines |-> N({"newline"}), words |-> Cardinality({i \in DOMAIN chars : Opens(i)}),
            chars |-> Len(chars), bytes |-> Len(d), max |-> Max({col[i] : i \in 0..Len(chars)})])
  IN WcReport(inv.opt, [k \in DOMAIN Sources |->
       [c |-> Count(Data(k)), name |-> IF inv.files = <<>> THEN 0 ELSE Sources[k]]], Len(Sources))

\* tr: translate or delete byte by byte, then drop a repeated squeezed byte.
RefTr ==
  Once(c0, LAMBDA c :
  LET d == SelectSeq(Data(1), LAMBDA b : ~(c.delete /\ b \in ToSet(c.set1)))
      t == IF c.translate THEN [i \in DOMAIN d |-> Table(c, d[i])] ELSE d
      sq == ToSet(IF c.translate \/ c.delete THEN c.set2 ELSE c.set1)
  IN  Pick(t, {i \in DOMAIN t : ~(c.squeeze /\ i > 1 /\ t[i] = t[i - 1] /\ t[i] \in sq)}))

\* strings: the maximal runs of printable bytes that are long enough.
RefStrings ==
  Once(c0, LAMBDA c :
  LET File(k) ==
        LET d == Data(k)
            P(i) == i \in DOMAIN d /\ Printable(d[i])
            End(i) == Min({j \in i..Len(d) : ~P(j + 1)})
        IN Concat([i \in DOMAIN d |->
             If(P(i) /\ ~P(i - 1) /\ End(i) - i + 1 >= c.min /\ MaxStringLen >= c.min,
                If(c.names, <<Name(Sources[k])>>) \o If(c.radix, <<Num(i - 1)>>)
                  \o SubSeq(d, i, Min({End(i), i + MaxStringLen - 1})) \o c.sep)])
  IN  PerFile([k \in DOMAIN Sources |-> File(k)]))

RefSha ==
  Once(c0, LAMBDA c :
  LET Good(k, e) == e.ok /\ ~(Sources[k] = 0 /\ e.name = 0)
  IN
     IF c.check
     THEN PerFile([k \in DOMAIN Sources |-> LET m == Data(k)
            IN Concat([i \in DOMAIN m |-> If(Good(k, m[i]), ShaVerdict(c, m[i], Digest(m[i].name)))])])
     ELSE PerFile([k \in DOMAIN Sources |-> Data(k) \o <<Name(Sources[k]), NL>>]))

\* sort: each line stands after those that compare less, equals in input order.
RefSort ==
  Once(c0, LAMBDA c :
  LET ls == PerFile([k \in DOMAIN Sources |-> Lines(Data(k), NL)])
      Before(i, j) == Once(SortCompare(c, ls[i], ls[j]), LAMBDA x : x < 0 \/ (x = 0 /\ i < j))
  IN  Once({i \in DOMAIN ls : ~(c.unique /\ \E j \in 1..i - 1 : SortCompare(c, ls[j], ls[i]) = 0)}, LAMBDA kept :
  LET At(p) == CHOOSE i \in kept : Cardinality({j \in kept : Before(j, i)}) = p - 1
  IN  If(~c.check, Concat([p \in 1..Cardinality(kept) |-> ls[At(p)] \o <<NL>>]))))

Reference ==
  CASE cmd = "cat" -> RefCat [] cmd \in {"head", "tail"} -> RefSlice.out [] cmd = "uniq" -> RefUniq
    [] cmd = "cut" -> RefCut [] cmd = "grep" -> RefGrep [] cmd = "wc" -> RefWc [] cmd = "tr" -> RefTr
    [] cmd = "strings" -> RefStrings [] cmd = "sha256sum" -> RefSha [] cmd = "sort" -> RefSort
    [] cmd = "tee" -> disk[0].data

-----------------------------------------------------------------------------
(* Properties *)

\* The steps and states a call of a filter can be in (FilterCall).
TypeOK ==
  /\ pc \in {"begin", "operand", "read", "end", "finish", "emit", "copy", "close", "done"}
  /\ idx \in 1..Len(Sources) + 1
  /\ diag \subseteq 0..Len(Sources)
  /\ \A g \in DOMAIN disk : at[g] \in 0..Len(disk[g].data)
  /\ ahead \in Nat /\ failed \in BOOLEAN /\ live \in BOOLEAN
  /\ sink \in {"up", "gone", "full"} /\ code \in -1..2
  /\ pc = "done" <=> code # -1

\* grep's group separators are not part of the reference.
Tidy(o) == IF cmd = "grep" THEN Pick(o, {i \in DOMAIN o : /\ o[i] # Text("--")
                                                          /\ i = 1 \/ o[i - 1] # Text("--")})
           ELSE o

\* The reference describes the call: grep has an input and has not given up
\* context or a binary file, and head does not read ahead in a pipe that is named twice.
Described ==
  /\ cmd = "grep" => \A k \in DOMAIN Sources : /\ disk[Sources[k]].kind # "nil"
                                               /\ c0.text \/ NUL \notin ToSet(Data(k))
                                               /\ \A l \in ToSet(Lines(Data(k), NL)) : Len(l) * Max({c0.before, c0.after}) <= MaxContextBytes
  /\ cmd = "head" /\ disk[0].kind = "pipe" => Cardinality({k \in DOMAIN Sources : Sources[k] = 0}) <= 1

\* A filter that was neither cancelled nor cut off by its reader and reports
\* success has written exactly what its options say about the whole input,
\* wherever the blocks it read happened to end, and no operand it visited
\* was missing.
SuccessIsComplete(whole) ==
  pc = "done" /\ cfg.usage = 0 /\ live /\ sink = "up" /\ (code = 0 \/ (cmd = "grep" /\ code = 1)) /\ Described
    => /\ Tidy(out) = whole
       /\ cmd \notin {"tee", "grep", "tail"} => \A k \in DOMAIN Sources : ~Missing(disk[Sources[k]].kind)

\* With one operand nothing is ever written that the complete output would
\* not begin with, whatever fails or is cancelled (wc reports what it counted).
OnlyAPrefix(whole) ==
  pc # "begin" /\ cfg.usage = 0 /\ Len(Sources) = 1 /\ cmd # "wc" /\ Described => IsPrefix(Tidy(out), whole)

RingBytes == LET held == [i \in 1..Cardinality(DOMAIN st.ring) |-> [text |-> st.ring[i - 1]]] IN SumLen(held)

\* What a filter holds in memory stays within its limits: tail's ring, grep's
\* leading context (one line may exceed it alone), strings, sort, sha256sum.
MemoryBounded ==
  pc = "read" =>
    CASE cmd = "tail" /\ ~cfg.offset /\ ~cfg.bytes ->
           /\ RingBytes <= MaxRingBytes
           /\ st.bytes = RingBytes /\ Cardinality(DOMAIN st.ring) <= MaxRingLines
      [] cmd = "grep" -> Len(st.before) <= Max({1, cfg.before}) /\ (Len(st.before) > 1 => SumLen(st.before) <= MaxContextBytes)
      [] cmd = "strings" -> Len(st.cur) <= MaxStringLen
      [] cmd = "sort" -> st.total <= MaxSortBytes /\ Len(st.own) <= MaxSortLines
      [] cmd = "sha256sum" -> st.entries <= MaxManifestEntries /\ st.outBytes <= MaxCheckOutputBytes
      [] OTHER -> TRUE

\* head returns to a seekable standard input everything it did not print, so
\* that the next reader of the stream starts right after it.
HeadLeavesRest ==
  pc = "done" /\ cmd = "head" /\ cfg.usage = 0 /\ code = 0 /\ live /\ sink = "up" /\ disk[0].kind = "file"
    => at[0] = RefSlice.used

\* The value of a line's leading number, in thousandths.
Value(line) ==
  LET t == SelectSeq(line, LAMBDA b : b \in 45..57)
      u == SelectSeq(t, LAMBDA b : b # 45)
      dot == Min({Len(u) + 1} \cup {i \in DOMAIN u : u[i] = 46})
      v[i \in 0..Len(u)] == IF i = 0 THEN 0 ELSE IF i < dot THEN v[i - 1] * 10 + (u[i] - 48) * 1000
                            ELSE IF i = dot THEN v[i - 1] ELSE v[i - 1] + (u[i] - 48) * 10 ^ (3 - (i - dot))
  IN IF u # t THEN -v[Len(u)] ELSE v[Len(u)]

\* sort's comparison is a total preorder on the lines at hand, without which
\* the library's sort promises nothing, and -n orders them by their value.
OrderIsSound ==
  pc = "operand" /\ idx = 1 /\ cmd = "sort" =>
    LET L == UNION {ToSet(Lines(Data(k), NL)) : k \in DOMAIN Sources} IN
    Once([p \in L \X L |-> SortCompare(cfg, p[1], p[2])], LAMBDA order :
    /\ \A a, b \in L : order[a, b] = -order[b, a]
    /\ \A a, b, d \in L : order[a, b] <= 0 /\ order[b, d] <= 0 => order[a, d] <= 0
    /\ cfg.global = {"n"} /\ cfg.keys = <<>> => \A a, b \in L : Value(a) < Value(b) => order[a, b] < 0)

\* Every file tee still writes to holds the same part of the input, all that
\* has been read unless the reader of standard output went away; a file that
\* was dropped is reported, and success means every file has everything.
TeeAgrees ==
  cmd = "tee" /\ pc # "begin" =>
    LET Got(d) == IF cfg.append THEN Drop(d.data, Len(disk[d.file].data)) ELSE d.data
        L == {k \in DOMAIN dst : dst[k].live}
    IN /\ \A k \in L : IsPrefix(Got(dst[k]), disk[0].data) /\ Got(dst[k]) = Got(dst[Min(L)])
       /\ \A k \in L : sink # "gone" => Len(Got(dst[k])) = at[0]
       /\ \A k \in DOMAIN dst \ L : dst[k].op \in diag
       /\ pc = "done" /\ code = 0 => /\ diag = {} /\ Len(dst) = Len(inv.files)
                                     /\ sink = "up" => at[0] = Len(disk[0].data)

\* A filter that reports success has written exactly what its options say of
\* the whole input, one that was stopped a prefix of it; it holds no more than
\* its limits, and what it shares with other commands, standard input and the
\* files of tee, it leaves as it should.
FiltersTrue ==
  /\ TypeOK
  /\ Once(Reference, LAMBDA whole : SuccessIsComplete(whole) /\ OnlyAPrefix(whole))
  /\ MemoryBounded
  /\ HeadLeavesRest
  /\ TeeAgrees
  /\ OrderIsSound

=============================================================================

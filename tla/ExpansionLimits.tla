--------------------------- MODULE ExpansionLimits ---------------------------
(***************************************************************************)
(* Word expansion and its limits (interp/runner_expand.go).  The stages of *)
(* a run expand words at the same time; they share the budget of bytes,    *)
(* the budget of directory reads and the limited standard output.  The     *)
(* fields of a word are all built before the first is yielded, so their    *)
(* number is estimated first; the output of a command substitution is      *)
(* charged to the estimate when it is known.                               *)
(*                                                                         *)
(* A word is a sequence of parts: [k |-> "lit" | "param", s],              *)
(* [k |-> "quoted", s], [k |-> "subst", id, s, fate] with the output s of the *)
(* command, and [k |-> "brace", elems].  "0" is the NUL byte, "n" a        *)
(* newline, "*" a pattern character and <<"s">> the word sudo.             *)
(***************************************************************************)
EXTENDS Call, SequencesExt, FiniteSetsExt

CONSTANTS MaxArguments,       \* MaxExpandedArgumentsPerCommand
          MaxCommandBytes,    \* MaxExpandedBytesPerCommand
          MaxRunBytes,        \* MaxExpandedBytesPerRun
          MaxSubstBytes,      \* maxCmdSubstOutput
          MaxVarLength,       \* MaxVarBytes
          MaxHeredoc,         \* MaxHeredocBytes
          MaxGlobReads,       \* MaxGlobReadDirCalls
          MaxStdout,          \* maxStdoutBytes
          MaxBraces           \* the expander's own limit on alternatives

Least(m, n) == IF m < n THEN m ELSE n
TotalLen(seqs) == FoldFunction(LAMBDA s, n : Len(s) + n, 0, seqs)

-----------------------------------------------------------------------------
(* The estimates.                                                             *)

\* splitFieldSources: the runs of s between IFS characters.
SplitSources(s, ifs) ==
  [n |-> Cardinality({i \in DOMAIN s : s[i] \notin ifs /\ (i = 1 \/ s[i - 1] \in ifs)}),
   closes |-> s # <<>> /\ s[1] \in ifs,
   opens |-> s # <<>> /\ s[Len(s)] \notin ifs]

\* A run that continues the open field is no source of its own.
NewSources(r, open) == IF r.n > 0 /\ open /\ ~r.closes THEN r.n - 1 ELSE r.n

OpenAfter(s, r, open) == IF s # <<>> THEN r.opens ELSE open

\* The last part was counted although the substitution before it may leave a field open: it
\* is charged with the substitution.
Defer(acc, counted, inBrace) ==
  IF acc.after > 0 /\ ~inBrace /\ counted
  THEN [acc EXCEPT !.substs[acc.after].deferredNext = TRUE, !.n = @ - 1, !.after = 0]
  ELSE [acc EXCEPT !.after = 0]

RECURSIVE PartsFieldSources(_, _, _, _)
PartsFieldSources(parts, ifs, inBrace, acc) ==
  IF parts = <<>> THEN acc
  ELSE LET p == Head(parts)
           Rest(a) == PartsFieldSources(Tail(parts), ifs, inBrace, a)
       IN  CASE p.k = "param" ->
                  LET r == SplitSources(p.s, ifs)
                      n == NewSources(r, acc.open)
                  IN  Rest(Defer([acc EXCEPT !.n = @ + n, !.open = OpenAfter(p.s, r, @)], n > 0 /\ ~r.closes, inBrace))
             [] p.k = "subst" ->
                  Rest([acc EXCEPT !.substs = Append(@, [id |-> p.id, inBrace |-> inBrace, openBefore |-> acc.open,
                                                         prev |-> acc.after, deferredNext |-> FALSE,
                                                         ran |-> FALSE, openAfter |-> FALSE]),
                                   !.after = Len(acc.substs) + 1, !.open = FALSE])
             [] p.k = "brace" ->
                  LET each[i \in 0..Len(p.elems)] ==
                        IF i = 0 THEN [largest |-> 0, all |-> TRUE, substs |-> acc.substs]
                        ELSE LET e == PartsFieldSources(p.elems[i], ifs, TRUE,
                                        [n |-> 0, open |-> acc.open, after |-> 0, substs |-> each[i - 1].substs])
                             IN  [largest |-> IF e.n > each[i - 1].largest THEN e.n ELSE each[i - 1].largest,
                                  all |-> each[i - 1].all /\ e.open, substs |-> e.substs]
                      done == each[Len(p.elems)]
                  IN  Rest([n |-> acc.n + done.largest, open |-> done.all, after |-> 0, substs |-> done.substs])
             [] OTHER ->
                  Rest(Defer([acc EXCEPT !.n = IF acc.open THEN @ ELSE @ + 1, !.open = TRUE], ~acc.open, inBrace))

WordFieldSources(parts, ifs) ==
  PartsFieldSources(parts, ifs, FALSE, [n |-> 0, open |-> FALSE, after |-> 0, substs |-> <<>>])

\* What the expander makes of the output of a command: without NULs and trailing newlines.
NormalizeSubstOutput(s) ==
  LET end == Max({0} \cup {i \in DOMAIN s : s[i] \notin {"n", "0"}})
  IN  SelectSeq(SubSeq(s, 1, end), LAMBDA c : c # "0")

\* Mutant: any output is taken to leave a field open.
SubstFieldSourcesOpen(substs, i, out, ifs) ==
  LET s == substs[i]
      before == IF s.prev > 0 /\ substs[s.prev].ran THEN substs[s.prev].openAfter ELSE s.openBefore
      n == NewSources(SplitSources(out, ifs), before)
  IN  [n |-> IF s.deferredNext /\ out = <<>> /\ ~before THEN n + 1 ELSE n,
       substs |-> [substs EXCEPT ![i].ran = TRUE, ![i].openAfter = out # <<>> \/ before]]

\* [n, substs]: what the output of the i-th substitution adds.
SubstFieldSources(substs, i, out, ifs) ==
  LET s == substs[i]
      r == SplitSources(out, ifs)
      before == IF s.prev > 0 /\ substs[s.prev].ran THEN substs[s.prev].openAfter ELSE s.openBefore
      after == OpenAfter(out, r, before)
      n == NewSources(r, before)
  IN  IF s.inBrace THEN [n |-> r.n, substs |-> substs]
      ELSE [n |-> IF s.deferredNext /\ ~after THEN n + 1 ELSE n,
            substs |-> [substs EXCEPT ![i].ran = TRUE, ![i].openAfter = after]]

AddSize(m, n) == Least(m + n, MaxCommandBytes + 1)
RECURSIVE PartsSize(_)
PartsSize(parts) ==
  IF parts = <<>> THEN [known |-> 0, maximum |-> 0]
  ELSE LET p == Head(parts)
           rest == PartsSize(Tail(parts))
           own == CASE p.k = "subst" -> [known |-> 0, maximum |-> MaxSubstBytes]
                    [] p.k = "brace" -> LET sizes == {PartsSize(p.elems[i]) : i \in DOMAIN p.elems}
                                        IN  [known |-> Max({z.known : z \in sizes}), maximum |-> Max({z.maximum : z \in sizes})]
                    [] OTHER -> [known |-> Len(p.s), maximum |-> Len(p.s)]
       IN  [known |-> AddSize(own.known, rest.known), maximum |-> AddSize(own.maximum, rest.maximum)]

SizeRefused(parts, limit) == PartsSize(parts).known > limit \/ PartsSize(parts).maximum > MaxCommandBytes

-----------------------------------------------------------------------------
(* The expander, as far as rshell relies on it.                               *)
RECURSIVE Alternatives(_)
Alternatives(parts) ==
  IF parts = <<>> THEN << <<>> >>
  ELSE LET rest == Alternatives(Tail(parts))
           heads == IF Head(parts).k = "brace" THEN Head(parts).elems ELSE << <<Head(parts)>> >>
           n == Len(rest)
       IN  [i \in 1..(Len(heads) * n) |-> heads[((i - 1) \div n) + 1] \o rest[((i - 1) % n) + 1]]

Split(acc, s, ifs) ==
  FoldLeft(LAMBDA x, c : IF c \in ifs THEN [fields |-> IF x.cur = <<>> THEN x.fields ELSE Append(x.fields, x.cur), cur |-> <<>>]
                         ELSE [fields |-> x.fields, cur |-> Append(x.cur, c)],
           acc, s)

\* The value of a part. cmdSubst keeps at most MaxSubstBytes of what the command, or the file of
\* $(<file), has to say, and nothing if the file may not be read or the command met a limit.
PartText(p) ==
  IF p.k # "subst" THEN p.s
  ELSE IF p.fate # "ok" THEN <<>>
  ELSE NormalizeSubstOutput(SubSeq(p.s, 1, Least(Len(p.s), MaxSubstBytes)))

\* A limit that a substituted command met ends the script too.
MetLimit(parts) == \E i \in DOMAIN parts : parts[i].k = "subst" /\ parts[i].fate = "limit"

WordFields(parts, ifs) ==
  LET acc == FoldLeft(LAMBDA x, p : IF p.k \in {"lit", "quoted"} THEN [x EXCEPT !.cur = @ \o p.s] ELSE Split(x, PartText(p), ifs),
                      [fields |-> <<>>, cur |-> <<>>], parts)
      all == IF acc.cur = <<>> THEN acc.fields ELSE Append(acc.fields, acc.cur)
  IN  IF all = <<>> /\ \E i \in DOMAIN parts : parts[i].k = "quoted" THEN << <<>> >> ELSE all

Literal(parts) == FoldLeft(LAMBDA s, p : s \o PartText(p), <<>>, parts)

-----------------------------------------------------------------------------
(* The stages. A program is a sequence of items [k, words, allowed] with k a  *)
(* command, a for loop, an assignment or a here-document.                     *)
Stage == DOMAIN call.programs
Current(s) == call.programs[s][run.at[s].item]
Collector(max) == [max |-> max, fields |-> <<>>, bytes |-> 0, sources |-> 0, substSources |-> 0, substs |-> <<>>, prefix |-> FALSE]
Idle(item) == [pc |-> "item", item |-> item, word |-> 1, alts |-> <<>>, pend |-> <<>>, col |-> Collector(0),
               built |-> 0, estimate |-> 0]

ExpandInit ==
  run = [pc |-> "stages", at |-> [s \in Stage |-> Idle(1)], charged |-> 0, reads |-> 0, listed |-> 0, out |-> 0, exceeded |-> FALSE,
         offered |-> 0, delivered |-> 0, live |-> TRUE, exiting |-> [s \in Stage |-> FALSE], code |-> [s \in Stage |-> 0], expanded |-> {}]

\* expandErr for a limit: it ends the stage's script.
Refuse(r, s) == [r EXCEPT !.exiting[s] = TRUE, !.code[s] = 1, !.at[s] = Idle(@.item + 1)]

\* expandErr for other errors: the command fails. Its other words are expanded only while the
\* command is not known; a loop runs over what there is.
FailWord(r, s) ==
  [r EXCEPT !.code[s] = 1, !.at[s].pc = "word", !.at[s].alts = <<>>, !.at[s].pend = <<>>,
            !.at[s].word = IF Current(s).k = "command" /\ ~r.at[s].col.prefix THEN @ + 1 ELSE Len(Current(s).words) + 1]

\* chargeExpansionBytes: the sum that Add returns is compared; what was added stays.
Charge(r, n) == [r EXCEPT !.charged = @ + n]

Exhausted(n) == n > 0 /\ run.charged + n > MaxRunBytes

\* The next command, loop, assignment or here-document of the script.
StartItem(s) ==
  LET i == Current(s)
      st == run.at[s]
      word == i.words[1]
      limit == IF i.k = "assign" THEN MaxVarLength ELSE MaxHeredoc
      text == Literal(word)
  IN  /\ st.pc = "item" /\ st.item <= Len(call.programs[s]) /\ ~run.exiting[s]
      /\ run' = IF i.k \in {"command", "for"}
                THEN [run EXCEPT !.at[s].pc = "word", !.code[s] = 0,
                                 !.at[s].col = Collector(IF i.k = "command" THEN MaxArguments + 2 ELSE MaxArguments)]
                ELSE IF SizeRefused(word, limit) \/ MetLimit(word) \/ Len(text) > limit THEN Refuse(run, s)
                ELSE IF i.k = "document" THEN [run EXCEPT !.at[s] = Idle(@.item + 1)]
                ELSE IF Exhausted(Len(text)) THEN Refuse(Charge(run, Len(text)), s)
                ELSE [Charge(run, Len(text)) EXCEPT !.delivered = @ + Len(text), !.at[s] = Idle(@.item + 1)]

\* callExpr: the command is known once there is a field, after sudo a second one.
Known(col) == col.fields # <<>> /\ (col.fields[1] # <<"s">> \/ Len(col.fields) > 1)
PrefixFields(col) == IF col.fields[1] = <<"s">> /\ Len(col.fields) > 1 THEN 2 ELSE 1

Identified(s) == Current(s).k = "for" \/ run.at[s].col.prefix \/ ~Known(run.at[s].col)

\* setCommandPrefixFields, and the policy on the command, before anything else is expanded.
IdentifyCommand(s) ==
  LET st == run.at[s]
      n == PrefixFields(st.col)
      left == SubSeq(st.col.fields, n + 1, Len(st.col.fields))
  IN  /\ st.pc = "word" /\ Current(s).k = "command" /\ ~st.col.prefix /\ ~run.exiting[s]
      /\ Known(st.col) \/ (st.word > Len(Current(s).words) /\ st.col.fields # <<>>)
      /\ run' = IF run.code[s] # 0 THEN [run EXCEPT !.at[s] = Idle(@.item + 1)]
                ELSE IF Len(st.col.fields) > n + MaxArguments THEN Refuse(run, s)
                ELSE IF ~Current(s).allowed THEN [run EXCEPT !.at[s] = Idle(@.item + 1)]
                ELSE [run EXCEPT !.at[s].col.prefix = TRUE, !.at[s].col.max = n + MaxArguments, !.at[s].col.bytes = TotalLen(left)]

\* fieldCollector.add up to the expansion of a word: the estimates.
AddWord(s) ==
  LET st == run.at[s]
      word == Current(s).words[st.word]
      est == WordFieldSources(word, call.ifs)
  IN  /\ st.pc = "word" /\ st.word <= Len(Current(s).words) /\ Identified(s) /\ ~run.exiting[s] /\ run.live
      /\ run' = IF SizeRefused(word, MaxCommandBytes - st.col.bytes) THEN Refuse(run, s)
                ELSE IF est.n > st.col.max - Len(st.col.fields) THEN Refuse(run, s)
                ELSE IF Len(Alternatives(word)) > MaxBraces THEN Refuse(run, s)
                ELSE [run EXCEPT !.at[s].pc = "alternative", !.at[s].alts = Alternatives(word), !.at[s].built = 0, !.at[s].estimate = est.n,
                                 !.at[s].col.sources = est.n, !.at[s].col.substSources = 0, !.at[s].col.substs = est.substs,
                                 !.expanded = @ \cup {<<s, st.item, st.word>>}]

\* One alternative of the word: its substitutions run in order, each output is charged to the
\* estimate of fields, then all its fields are built.
ExpandAlternative(s) ==
  LET st == run.at[s]
      parts == Head(st.alts)
      charge[i \in 0..Len(parts)] ==
        IF i = 0 THEN st.col
        ELSE LET col == charge[i - 1]
                 known == {x \in DOMAIN col.substs : parts[i].k = "subst" /\ col.substs[x].id = parts[i].id}
             IN  IF parts[i].k # "subst" \/ known = {} \/ col.sources + col.substSources > col.max - Len(col.fields) THEN col
                 ELSE LET more == SubstFieldSources(col.substs, Max(known), PartText(parts[i]), call.ifs)
                      IN  [col EXCEPT !.substSources = @ + more.n, !.substs = more.substs]
      col == charge[Len(parts)]
      fields == WordFields(parts, call.ifs)
  IN  /\ st.pc = "alternative" /\ st.alts # <<>> /\ st.pend = <<>>
      /\ run' = IF MetLimit(parts) \/ col.sources + col.substSources > col.max - Len(col.fields) THEN Refuse(run, s)
                ELSE [run EXCEPT !.at[s].alts = Tail(@), !.at[s].pend = fields, !.at[s].col = col,
                                 !.at[s].built = Len(fields), !.at[s].estimate = col.sources + col.substSources]

\* A field with a pattern reads the directory, unless the run has read too often already.
ReadDirectory(s) ==
  LET st == run.at[s]
  IN  /\ st.pc = "alternative" /\ st.pend # <<>> /\ "*" \in Range(Head(st.pend))
      /\ run' = IF run.reads + 1 > MaxGlobReads THEN FailWord([run EXCEPT !.reads = @ + 1], s)
                ELSE [run EXCEPT !.reads = @ + 1, !.listed = @ + 1,
                                 !.at[s].pend = (IF call.dir = <<>> THEN <<SelectSeq(Head(@), LAMBDA c : c # "*")>> ELSE call.dir) \o Tail(@)]

\* The collector takes a field.
TakeField(s) ==
  LET st == run.at[s]
      n == Len(Head(st.pend))
  IN  /\ st.pc = "alternative" /\ st.pend # <<>> /\ "*" \notin Range(Head(st.pend)) /\ run.live
      /\ run' = IF Len(st.col.fields) >= st.col.max \/ n > MaxCommandBytes - st.col.bytes THEN Refuse(run, s)
                ELSE IF Exhausted(n) THEN Refuse(Charge(run, n), s)
                ELSE [Charge(run, n) EXCEPT !.delivered = @ + n, !.at[s].pend = Tail(@), !.at[s].col.substSources = 0,
                                            !.at[s].col.bytes = @ + n, !.at[s].col.fields = Append(@, Head(st.pend))]

EndWord(s) ==
  /\ run.at[s].pc = "alternative" /\ run.at[s].alts = <<>> /\ run.at[s].pend = <<>>
  /\ run' = [run EXCEPT !.at[s].pc = "word", !.at[s].word = @ + 1]

\* limitWriter.Write: what exceeds the limit is dropped, and that is remembered.
WriteOut(r, n) ==
  [r EXCEPT !.out = Least(@ + n, MaxStdout), !.offered = @ + n, !.exceeded = @ \/ r.out >= MaxStdout \/ n > MaxStdout - r.out]

\* The command runs with its fields, here one that writes them; a loop starts.
RunItem(s) ==
  LET st == run.at[s]
      runs == Current(s).k = "command" /\ run.code[s] = 0 /\ st.col.fields # <<>>
  IN  /\ st.pc = "word" /\ st.word > Len(Current(s).words) /\ ~run.exiting[s]
      /\ Current(s).k = "for" \/ st.col.prefix \/ st.col.fields = <<>>
      /\ run' = [(IF runs THEN WriteOut(run, TotalLen(st.col.fields)) ELSE run) EXCEPT !.at[s] = Idle(@.item + 1)]

\* The run's context is cancelled; a stage notices with the next word or field.
CancelRun == call.cancels /\ run.live /\ run' = [run EXCEPT !.live = FALSE]

Notice(s) ==
  /\ ~run.live /\ ~run.exiting[s]
  /\ run' = [run EXCEPT !.exiting[s] = TRUE, !.at[s] = Idle(@.item + 1)]

\* Run: the end.
EndRun ==
  /\ run.pc = "stages"
  /\ \A s \in Stage : run.exiting[s] \/ (run.at[s].pc = "item" /\ run.at[s].item > Len(call.programs[s]))
  /\ run' = [run EXCEPT !.pc = "done"]

ExpandStep ==
  /\ call.tool = "expand" /\ run.pc = "stages"
  /\ \/ \E s \in Stage : \/ StartItem(s) \/ IdentifyCommand(s) \/ AddWord(s) \/ ExpandAlternative(s) \/ ReadDirectory(s)
                         \/ TakeField(s) \/ EndWord(s) \/ RunItem(s) \/ Notice(s)
     \/ CancelRun \/ EndRun

-----------------------------------------------------------------------------
Expanding == call.tool = "expand"

\* The fields that one alternative of a word has built before the first is yielded are at most
\* what partsFieldSources and chargeSplitSubstOutput counted, so the field cap holds while
\* they are built.
EstimateHolds == Expanding => \A s \in Stage : run.at[s].built <= run.at[s].estimate

\* The credits for adjacent parts are exact: a word without braces and empty parts
\* has just as many fields as were counted, so no word that fits is refused.
EstimateExact ==
  Expanding =>
    \A s \in Stage :
      (run.at[s].pc = "alternative" /\ run.at[s].alts = <<>> /\
       \A i \in DOMAIN Current(s).words[run.at[s].word] :
         LET p == Current(s).words[run.at[s].word][i] IN p.k # "brace" /\ (p.k = "subst" \/ p.s # <<>>))
      => run.at[s].built = run.at[s].estimate

\* Whatever the stages do at the same time, commands and variables never receive more expanded
\* bytes than MaxExpandedBytesPerRun, and no more directories are read for patterns than
\* MaxGlobReadDirCalls.
RunBounded == Expanding => run.delivered <= MaxRunBytes /\ run.listed <= MaxGlobReads

\* What limitWriter passes on is the beginning of what was written, and if anything was
\* dropped the run can say so at its end.
DropsAreReported ==
  Expanding => /\ run.out = Least(run.offered, MaxStdout)
               /\ run.offered > MaxStdout => run.exceeded
               /\ run.exceeded => run.out = MaxStdout

FieldsBefore(words) == FlattenSeq([w \in DOMAIN words |-> FlattenSeq([i \in DOMAIN Alternatives(words[w]) |-> WordFields(Alternatives(words[w])[i], call.ifs)])])

\* Of a command that is not allowed only the words that name it are expanded: no substitution
\* in its arguments runs (callExpr).
DeniedExpandsNothing ==
  Expanding =>
    \A x \in run.expanded :
      LET item == call.programs[x[1]][x[2]]
      IN  (item.k = "command" /\ ~item.allowed) => FieldsBefore(SubSeq(item.words, 1, x[3] - 1)) \in {<<>>, << <<"s">> >>}

\* The limits on expansion hold while words are built and whatever the stages
\* of a pipeline do at the same time, they refuse nothing that fits, what is
\* dropped is reported, and a command that is not allowed expands nothing.
ExpansionTrue ==
  /\ EstimateHolds
  /\ EstimateExact
  /\ RunBounded
  /\ DropsAreReported
  /\ DeniedExpandsNothing

=============================================================================

------------------------------ MODULE MCCalls ------------------------------
(* Calls of the parts of the shell, one at a time, each in a part of the     *)
(* state space of its own.                                                   *)
EXTENDS FilterCall, MCTools

Upto(S, n) == UNION {[1..k -> S] : k \in 0..n}
On(k, d) == [kind |-> k, data |-> d]
Absent == On("none", <<>>)

\* One operand, every short text over a small alphabet, readable or failing at its end.
Solo(c, opts, texts, kinds) ==
  {[cmd |-> c, opt |-> o, files |-> <<>>, disk |-> 0 :> On(k, d)] : o \in opts, d \in texts, k \in kinds}
\* Several operands.
Multi(c, opts, files, d0, D1, D2) ==
  {[cmd |-> c, opt |-> o, files |-> fs, disk |-> (0 :> d0 @@ 1 :> d1 @@ 2 :> d2)] :
     o \in opts, fs \in files, d1 \in D1, d2 \in D2}

a == 97
b == 98
Some == {On("file", <<a, NL, b>>), Absent, On("dir", <<>>)}
Pairs == {<<1, 2>>, <<2, 1, 2>>}

CatCalls ==
  Solo("cat", {{"n", "s"}, {"b", "s", "E"}, {}}, Upto({NL, a, CR}, 2) \cup {<<NL, NL, NL>>, <<a, NL, NL>>, <<CR, NL, a>>, <<NL, NL, a>>, <<a, CR, NL>>}, {"pipe", "bad"})
  \cup Solo("cat", {{"A"}, {"v", "T"}}, Upto({TAB, 1, 127, 137, 200, 255}, 1), {"file"})
  \cup Multi("cat", {{"s", "n"}}, Pairs, On("pipe", <<>>), Some \cup {On("file", <<NL, NL>>)}, {On("bad", <<NL, a>>)})

Val(n) == [plus |-> FALSE, neg |-> FALSE, num |-> n, mult |-> -1]
Flag(x, v) == [flag |-> x, val |-> v]
CountOpts == {<<Flag("n", Val(2))>>, <<Flag("c", Val(2))>>, <<Flag("n", Val(1)), Flag("v", Val(0))>>}
TailOpts == {<<Flag("n", [Val(2) EXCEPT !.plus = TRUE])>>, <<Flag("c", [Val(3) EXCEPT !.plus = TRUE])>>,
             <<Flag("n", Val(0))>>, <<Flag("n", Val(5)), Flag("z", Val(0))>>, <<Flag("c", Val(5))>>,
             <<Flag("c", [Val(1) EXCEPT !.mult = 3])>>, <<Flag("n", [Val(-1) EXCEPT !.plus = TRUE])>>}
Longer == {<<NL, NL, NL, NL>>, <<a, NL, a, NL, a>>, <<a, NL, a, a>>, <<a, a, a, a, NL>>}
HeadCalls ==
  Solo("head", CountOpts, Upto({NL, a}, 2) \cup Longer, {"file", "pipe"})
  \cup Solo("head", CountOpts, {<<>>}, {"nil"})
  \cup Multi("head", CountOpts \cup {<<Flag("q", Val(0)), Flag("n", [Val(1) EXCEPT !.neg = TRUE])>>},
             {<<0, 0>>, <<1, 0>>}, On("file", <<a, NL, b, NL, a>>), Some, {Absent})
TailCalls ==
  Solo("tail", CountOpts \cup TailOpts, Upto({NL, a}, 2) \cup Longer, {"pipe"})
  \cup Solo("tail", TailOpts, Longer, {"file"})
  \cup Multi("tail", CountOpts \cup {<<Flag("n", Val(0))>>}, {<<1, 2>>}, On("pipe", <<>>), Some, {On("bad", <<a, NL>>)})

Uniq == [c |-> FALSE, d |-> FALSE, u |-> FALSE, i |-> FALSE, z |-> FALSE, f |-> 0, s |-> 0, w |-> -1, D |-> "", group |-> ""]
UniqCalls ==
  Solo("uniq", {[Uniq EXCEPT !.c = TRUE], [Uniq EXCEPT !.d = TRUE], [Uniq EXCEPT !.u = TRUE], [Uniq EXCEPT !.D = "separate"],
                [Uniq EXCEPT !.D = "prepend"], [Uniq EXCEPT !.group = "both"], [Uniq EXCEPT !.group = "append"],
                [Uniq EXCEPT !.D = "none", !.u = TRUE], [Uniq EXCEPT !.group = "prepend", !.i = TRUE]},
       Upto({NL, a}, 3) \cup {<<a, NL, a, NL, b, NL, b, NL>>, <<a, NL, 65, NL, a>>}, {"pipe"})
  \cup Solo("uniq", {[Uniq EXCEPT !.c = TRUE], [Uniq EXCEPT !.group = "both"]}, Upto({NL, a}, 2), {"bad"})
  \cup Solo("uniq", {[Uniq EXCEPT !.f = 1], [Uniq EXCEPT !.s = 1, !.w = 1], [Uniq EXCEPT !.f = -1]}, {<<a, SP, b, NL, b, SP, b>>, <<a, b, NL, b, b, a>>}, {"pipe"})

Cut(l) == [list |-> l @@ [x \in {"b", "c", "f"} |-> <<>>], d |-> <<>>, s |-> FALSE, complement |-> FALSE, out |-> <<>>]
CutLists == {<< <<2, 2>> >>, << <<1, 1>>, <<2, 3>> >>, << <<3, -1>>, <<-1, 1>> >>, << <<1, 2>>, <<2, 3>> >>}
CutCalls ==
  Solo("cut", {[Cut("b" :> l) EXCEPT !.complement = x, !.out = y] : l \in CutLists, x \in BOOLEAN, y \in {<<>>, << <<58>> >>}},
       {<<a>>, <<a, b, a, b, NL>>, <<NL, a, b, a>>}, {"pipe", "bad"})
  \cup Solo("cut", {[Cut("f" :> l) EXCEPT !.complement = x, !.s = y, !.d = <<58>>] : l \in CutLists, x \in BOOLEAN, y \in BOOLEAN},
       {<<a, NL, 58, b>>, <<a, 58, b, 58, a, NL>>}, {"pipe"})
  \cup Solo("cut", {Cut("b" :> << <<2, 1>> >>), Cut("b" :> << <<0, 1>> >>)}, {<<a>>}, {"pipe"})

Grep0 == [A |-> -1, B |-> -1, C |-> -1, order |-> <<>>, matchers |-> <<>>, flags |-> {}, pats |-> {a}, m |-> -1]
GrepOpts == {[Grep0 EXCEPT !.C = 1, !.flags = {"n"}], [Grep0 EXCEPT !.B = 2], [Grep0 EXCEPT !.flags = {"o", "n"}],
             [Grep0 EXCEPT !.flags = {"v", "c"}], [Grep0 EXCEPT !.m = 1, !.A = 1], [Grep0 EXCEPT !.flags = {"w", "i"}]}
GrepLists == {[Grep0 EXCEPT !.order = <<[flag |-> "l", on |-> TRUE]>>], [Grep0 EXCEPT !.order = <<[flag |-> "L", on |-> TRUE]>>],
              [Grep0 EXCEPT !.flags = {"q"}], [Grep0 EXCEPT !.flags = {"bad"}], Grep0}
GrepCalls ==
  Solo("grep", GrepOpts, Upto({NL, a, b}, 2) \cup {<<a, NL, b>>, <<b, NL, a>>, <<NL, a, NL>>, <<b, NL, b, NL, a, NL, b, NL, b, NL, a, NL>>, <<b, NUL, NL, a, NL>>,
                                                   <<b, b, NL, b, b, NL, b, b, NL, b, b, NL, a>>}, {"pipe"})
  \cup Multi("grep", GrepLists, {<<1, 2>>}, On("nil", <<>>), Some, {On("file", <<a, NL>>), On("bad", <<b, NL>>)})
  \cup Solo("grep", GrepLists, {<<>>}, {"nil"})

Sort0 == [check |-> {}, C |-> FALSE, t |-> <<>>, keys |-> <<>>, global |-> {}, refused |-> FALSE, stable |-> FALSE, unique |-> FALSE]
Key(sf, ef, o) == [sf |-> sf, sc |-> 0, ef |-> ef, ec |-> 0, dot |-> FALSE, hasEnd |-> ef > 0, opts |-> o, sb |-> "b" \in o, eb |-> FALSE]
SortTexts == {<<b, NL, a>>, <<a, SP, b, NL, b, SP, a, NL, a>>, <<65, NL, a, NL, b>>, <<>>, <<a, NL, a, NL>>}
Numbers == {<<50, NL, 49, 48, NL, 45, 49, NL, 45, 50>>, <<48, 49, NL, 49, 46, 53, NL, 45, 46, 53, NL, 46, 53>>, <<50, 75, NL, 49, 77, NL, 51, NL, 45, 49, 75>>}
SortCalls ==
  Solo("sort", {Sort0, [Sort0 EXCEPT !.global = {"r"}], [Sort0 EXCEPT !.unique = TRUE, !.global = {"f"}],
                [Sort0 EXCEPT !.keys = <<Key(2, 2, {"b"}), Key(1, 1, {"r"})>>, !.stable = TRUE],
                [Sort0 EXCEPT !.check = {"diagnose"}], [Sort0 EXCEPT !.refused = TRUE]}, SortTexts, {"pipe", "bad"})
  \cup Solo("sort", {[Sort0 EXCEPT !.global = {"n"}], [Sort0 EXCEPT !.global = {"h"}],
                     [Sort0 EXCEPT !.keys = <<Key(1, 0, {"n", "r"})>>]}, Numbers, {"file"})
  \cup Multi("sort", {Sort0}, {<<1, 2>>}, On("pipe", <<>>), Some, {On("file", <<b, NL, b, NL, b, NL, a>>)})

WcTexts == {<<195, 169, a, NL>>, <<228, 184, 173, TAB, a>>, <<a, 204, 129, SP, b, CR, NL>>, <<195>>, <<a, 200, b>>, <<a, 1, b, NL, NL>>, <<226, 129, 160, a>>}
WcCalls ==
  Solo("wc", {{}, {"m", "L"}}, WcTexts, {"pipe", "bad"})
  \cup Multi("wc", {{"l"}}, Pairs, On("nil", <<>>), Some, {On("file", <<a>>)})

Item(k, x, y) == [k |-> k, a |-> x, b |-> y]
Ch(x) == Item("char", x, x)
Tr(fl, ops) == [flags |-> fl, ops |-> ops]
TrCalls ==
  Solo("tr", {Tr({"s"}, << <<Ch(a)>> >>), Tr({"d"}, << <<Ch(a)>> >>), Tr({"d", "s"}, << <<Ch(a)>>, <<Ch(b)>> >>),
              Tr({}, << <<Ch(a), Ch(b)>>, <<Ch(NL)>> >>), Tr({"s"}, << <<Item("range", a, b)>>, <<Item("fill", b, 0)>> >>),
              Tr({"t"}, << <<Ch(a), Ch(b)>>, <<Ch(b)>> >>), Tr({"c", "s"}, << <<Ch(a)>>, <<Ch(b)>> >>),
              Tr({}, << <<Item("class", "lower", 0)>>, <<Item("class", "upper", 0)>> >>)},
       Upto({NL, a, b}, 2) \cup {<<a, a, a>>, <<a, b, NL>>, <<a, a, b, b, a, a>>}, {"pipe"})
  \cup Solo("tr", {Tr({"d"}, <<>>), Tr({}, << <<Item("range", b, a)>>, <<Ch(a)>> >>), Tr({"s"}, << <<Ch(a)>> >>)}, {<<a, a>>}, {"bad", "nil"})

Strings(n, r) == [usage |-> 0, min |-> n, names |-> r, radix |-> r, sep |-> <<NL>>]
StringsCalls ==
  Solo("strings", {Strings(2, TRUE), Strings(1, FALSE), Strings(0, TRUE)}, Upto({NUL, a}, 3) \cup {<<a, a, NUL, a, a>>, <<a, a, a, a, a>>, <<a, NUL, a, a>>}, {"pipe"})
  \cup Multi("strings", {Strings(1, TRUE)}, {<<1, 2>>}, On("pipe", <<>>), Some, {On("bad", <<a, a>>)})

Sha(ch, q, s) == [usage |-> 0, check |-> ch, quiet |-> q, status |-> s]
Entry(d, n) == [ok |-> TRUE, digest |-> d, name |-> n]
Junk == [ok |-> FALSE, digest |-> <<>>, name |-> 0]
ShaCalls ==
  Multi("sha256sum", {Sha(FALSE, FALSE, FALSE)}, {<<1, 2>>}, On("nil", <<>>), Some, {On("file", <<a, b>>)})
  \cup Multi("sha256sum", {Sha(TRUE, FALSE, FALSE), Sha(TRUE, TRUE, FALSE), Sha(TRUE, FALSE, TRUE)}, {<<2>>, <<2, 2>>, <<0>>},
             On("pipe", <<Entry(<<>>, 0), Entry(<<a, NL, b>>, 1)>>), Some,
             {On("file", <<Junk, Entry(<<a, NL, b>>, 1), Entry(<<>>, 1)>>), On("file", <<Junk>>)})
  \cup {[cmd |-> "sha256sum", opt |-> Sha(FALSE, TRUE, FALSE), files |-> <<>>, disk |-> 0 :> On("pipe", <<>>)]}

Tee(ap, rem) == [append |-> ap, remediation |-> rem]
TeeCalls ==
  Multi("tee", {Tee(TRUE, TRUE), Tee(FALSE, TRUE)}, {<<1, 2>>}, On("pipe", <<a, b, NL>>),
        {On("file", <<b>>), Absent, On("dir", <<>>), On("full", <<>>), On("late", <<>>)}, {On("full", <<>>), On("file", <<>>)})
  \cup {[cmd |-> "tee", opt |-> Tee(FALSE, r), files |-> <<>>, disk |-> 0 :> On(k, <<a, NL>>)] : r \in BOOLEAN, k \in {"bad", "pipe"}}
  \cup Multi("tee", {Tee(FALSE, TRUE)}, {<<1>>, <<1, 1, 1>>}, On("nil", <<>>), {Absent}, {Absent})

MCCalls == CatCalls \cup HeadCalls \cup TailCalls \cup UniqCalls \cup CutCalls \cup GrepCalls \cup SortCalls
             \cup WcCalls \cup TrCalls \cup StringsCalls \cup ShaCalls \cup TeeCalls

QuietFilter == [cmd |-> "cat", opt |-> {}, files |-> <<>>, disk |-> 0 :> Absent]
NoCall == [tool |-> "none"]

CallsInit ==
  \/ Init /\ call = NoCall /\ run = [pc |-> "done"]
  \/ /\ inv = QuietFilter /\ FilterStart
     /\ \/ call \in MCScripts /\ ExpandInit
        \/ call \in MCXargsCases /\ XargsInit
        \/ call \in WalkCases /\ FindInit
        \/ call \in PureFindCases /\ run = [pc |-> "done"]
        \/ call \in EngineCases /\ SedInit
        \/ call \in RangeCases /\ run = [pc |-> "done"]
        \/ call \in FitsCases /\ run = [pc |-> "done"]
        \/ call \in ParseCases /\ run = [pc |-> "done"]
        \/ call \in AwkLexCases /\ run = [pc |-> "done"]
        \/ call \in AwkParseCases /\ run = [pc |-> "done"]
        \/ call \in StoreCases /\ StoreInit
        \/ call \in FieldCases /\ AwkFieldsInit
        \/ call \in SplitCases /\ run = [pc |-> "done"]
        \/ call \in AwkInputCases /\ AwkInputInit
        \/ call \in NumberCases /\ run = [pc |-> "done"]
        \/ call \in SubstrCases /\ run = [pc |-> "done"]
        \/ call \in GsubCases /\ run = [pc |-> "done"]
        \/ call \in PrintfCases /\ run = [pc |-> "done"]
        \/ call \in CacheCases /\ CacheInit
        \/ /\ call \in JumpCases \/ call \in RangeRunCases \/ call \in OrderCases \/ call \in CompareCases \/ call \in TextRunCases
           /\ AwkRunInit
        \/ call \in AwkMainCases /\ AwkMainInit
        \/ call \in AwkRecordCases /\ AwkRecordInit
        \/ JqInit
        \/ JqParseInit
        \/ call \in JqInputCases /\ JqInputInit
        \/ call \in JqMainCases /\ JqMainInit
        \/ call \in SharedCases \cup RecordCases /\ ReadInit
        \/ call \in ReadSplitCases /\ run = [pc |-> "done"]
        \/ call \in NestingCases /\ run = [pc |-> "done"]
        \/ call \in FewWordsCases \cup TestExprCases /\ run = [pc |-> "done"]
        \/ call \in CheckCases /\ run = [pc |-> "done"]

Finished == call # NoCall /\ run.pc = "done" /\ UNCHANGED <<vars, call, run>>

CallsNext ==
  \/ call = NoCall /\ Next /\ UNCHANGED <<call, run>>
  \/ ExpandStep /\ UNCHANGED <<vars, call>>
  \/ XargsStep /\ UNCHANGED <<vars, call>>
  \/ FindStep /\ UNCHANGED <<vars, call>>
  \/ SedStep /\ UNCHANGED <<vars, call>>
  \/ AwkStoreStep /\ UNCHANGED <<vars, call>>
  \/ AwkFieldsStep /\ UNCHANGED <<vars, call>>
  \/ AwkInputStep /\ UNCHANGED <<vars, call>>
  \/ AwkCacheStep /\ UNCHANGED <<vars, call>>
  \/ AwkMainStep /\ UNCHANGED <<vars, call>>
  \/ AwkRecordStep /\ UNCHANGED <<vars, call>>
  \/ AwkRunStep /\ UNCHANGED <<vars, call>>
  \/ JqStep /\ UNCHANGED <<vars, call>>
  \/ JqInputStep /\ UNCHANGED <<vars, call>>
  \/ JqMainStart /\ UNCHANGED <<vars, call>>
  \/ JqMainNull /\ UNCHANGED <<vars, call>>
  \/ JqMainItem /\ UNCHANGED <<vars, call>>
  \/ JqMainEnd /\ UNCHANGED <<vars, call>>
  \/ ReadStep /\ UNCHANGED <<vars, call>>
  \/ Finished

CallsSpec == CallsInit /\ [][CallsNext]_<<vars, call, run>>
=============================================================================

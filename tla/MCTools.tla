------------------------------ MODULE MCTools -------------------------------
(***************************************************************************)
(* The calls of the parts of the shell that are checked, part by part:     *)
(* small inputs that reach every limit.                                    *)
(***************************************************************************)
(* Words of up to three parts, and scripts of two stages at the limits.       *)
EXTENDS ExpansionLimits, ReadInput, Nesting, TestCmd, ScriptCheck, Xargs, Find, Sed, JqMain,
        AwkRun, AwkMain

X == <<"x">>
Values == {<<>>, <<"x", " ">>, <<" ", "x">>, <<"x", " ", "x">>}
Plain == {[k |-> "lit", s |-> X], [k |-> "quoted", s |-> <<>>], [k |-> "quoted", s |-> <<" ">>]}
           \cup {[k |-> "param", s |-> v] : v \in Values}
Subst(i, v) == [k |-> "subst", id |-> i, s |-> v, fate |-> "ok"]
Outputs == {<<>>, <<"x", "n">>, <<" ", "x">>, <<"x", " ", "0">>, <<"x", "0", "x", " ", "x">>}
Brace == {[k |-> "brace", elems |-> << <<[k |-> "lit", s |-> X]>>, <<[k |-> "param", s |-> v], Subst(7, o)>> >>] :
            v \in {<<>>, <<"x", " ", "x">>}, o \in {<<>>, <<"x", " ", "x">>}}
PartAt(i) == Plain \cup Brace \cup {Subst(i, o) : o \in Outputs}
Words == {<<p, q>> : p \in PartAt(1), q \in PartAt(2)}
         \cup {<<p, q, r>> : p \in Plain \cup {Subst(1, o) : o \in Outputs}, q \in {Subst(2, o) : o \in Outputs}, r \in {[k |-> "param", s |-> <<" ", "x">>], [k |-> "quoted", s |-> <<>>], Subst(3, X)}}

Script(ifs, dir, programs) == [tool |-> "expand", ifs |-> ifs, dir |-> dir, programs |-> programs, cancels |-> FALSE]
Do(kind, words) == [k |-> kind, words |-> words, allowed |-> TRUE]
Lit(s) == <<[k |-> "lit", s |-> s]>>
Echo == Lit(X)

OneWord == {Script(ifs, <<>>, << <<Do("for", <<w>>)>> >>) : w \in Words, ifs \in {{" ", "n"}, {}}}
\* Two stages, with commands, assignments and documents that together pass the limits.
Items == {Do("command", <<Echo, Lit(<<"x", "x", "x">>)>>), Do("for", <<Lit(<<"*">>), Lit(<<"x", "*">>)>>), Do("assign", <<Lit(<<"x", "x">>)>>),
          Do("command", <<Lit(<<"s">>), Lit(<<"*">>), Lit(<<"*">>)>>), Do("document", <<Lit(<<"x", "x", "x">>)>>),
          Do("command", <<Echo, <<[k |-> "brace", elems |-> <<Lit(X), Lit(X), Lit(X)>>]>> >>)}
TwoStages == {[Script({" "}, d, << <<i, h>>, <<j>> >>) EXCEPT !.cancels = (i = h)] : i \in Items, h \in Items, j \in {Do("command", <<Echo, Lit(<<"x", "x", "x">>)>>), Do("for", <<Lit(<<"*">>), Lit(<<"x", "*">>)>>)}, d \in {<<X, X>>}}
Denied == {Script({" "}, <<>>, << <<[k |-> "command", words |-> <<w, v, <<Subst(1, X)>>, Echo>>, allowed |-> a], Do("command", <<Lit(<<"s">>)>>)>> >>) :
             w \in {<<[k |-> "param", s |-> <<>>]>>, Lit(<<"s">>), Echo, <<[k |-> "param", s |-> <<"s", " ", "x">>]>>, Lit(<<"*">>)},
             v \in {Echo, <<Subst(2, <<>>)>>, <<Subst(3, <<"x", " ", "x">>)>>}, a \in BOOLEAN}
Large == {Script({" "}, <<>>, << <<Do(k, <<w>>), Do("assign", <<Lit(X)>>)>> >>) : k \in {"command", "for", "assign", "document"},
            w \in {Lit(<<"x", "x", "x", "x">>), Lit([i \in 1..5 |-> "x"]), Lit([i \in 1..8 |-> "x"]), <<Subst(1, [i \in 1..9 |-> "x"])>>,
                   <<Subst(1, X), Subst(2, X), Lit(X)[1]>>, <<[Subst(1, X) EXCEPT !.fate = "limit"]>>, <<[Subst(1, X) EXCEPT !.fate = "fails"], Lit(X)[1]>>,
                   <<[k |-> "param", s |-> <<"x", " ", "x", " ", "x", " ", "x">>]>>}}
         \cup {Script({" "}, <<>>, << <<Do("for", << <<[k |-> "brace", elems |-> [i \in 1..n |-> Lit(X)]]>> >>)>> >>) : n \in {4, 5}}
MCScripts == OneWord \cup TwoStages \cup Denied \cup Large

-----------------------------------------------------------------------------
(* Calls of read on one input, and records with every kind of byte.          *)
ReadOpt(raw, delim, limit, fixed, wait) == [raw |-> raw, delim |-> delim, limit |-> limit, fixed |-> fixed, wait |-> wait]
Line == ReadOpt(FALSE, "n", -1, FALSE, "none")
Timed == [Line EXCEPT !.wait = "time"]

ReadCase(stdin, cancellable, early, data, reads) == [tool |-> "read", stdin |-> stdin, early |-> early, cancellable |-> cancellable, data |-> data, reads |-> reads]

\* every order of arrivals, timeouts and cancellations
SharedCases ==
  {ReadCase(s, c, FALSE, <<"a", "n", ".", "n">>, r) : s \in {"pipe", "reader"}, c \in BOOLEAN,
      r \in {<<Timed, Timed, Line>>, <<ReadOpt(FALSE, "n", -1, FALSE, "poll"), Line, Timed>>}}
    \cup {ReadCase("pipe", c, FALSE, <<"a", "b", "n", ".">>, <<Timed, Line>>) : c \in BOOLEAN}

\* every record: what the bytes mean
ReadData == UNION {[1 .. n -> {"a", "n", "b", "0"}] : n \in 0 .. 3}
         \cup {<<"L", "C", "a", "L", "C">>, <<"L", "b", "C", "n">>, <<"a", "L", "C", "n", "a", "n">>, <<"a", "a", "a", "a", "n">>, <<"a", "a", "a", "a", "a", "n">>, <<"b", "n", "b", "n", "b", "n">>}
RecordCases ==
  {ReadCase("pipe", FALSE, TRUE, d, <<ReadOpt(raw, delim, lim[1], lim[2], "none"), Line>>) :
      d \in ReadData, raw \in BOOLEAN, delim \in {"n", "0"}, lim \in {<<-1, FALSE>>, <<2, FALSE>>, <<2, TRUE>>}}

-----------------------------------------------------------------------------
(* Records and separators for read.                                          *)
ReadSplitCases ==
  {[tool |-> "readsplit", text |-> t, ifs |-> f, n |-> n] : t \in UNION {[1 .. k -> {"a", " ", ":", ","}] : k \in 0 .. 3} \cup [1 .. 4 -> {"a", " ", ":"}], f \in {{" "}, {":"}, {" ", ":"}, {":", ","}, {}}, n \in 1 .. 3}

-----------------------------------------------------------------------------
(* Commands nested around the limit.                                         *)
NestLeaf(kind, text) == [kind |-> kind, text |-> text, depth |-> 0]
NestLeaves ==
  {NestLeaf("list", t) : t \in {<<"x">>, <<"x", " ", "fi", " ", "}", " ", "done">>, <<"x", " ", "SQ", "if", "(", "SQ">>, <<"x", " ", "BS", "(", " ", "#", "(", "NL">>, <<"x", "NL", "x", " ", "#", " ", "if", " ", "(", "NL">>,
       <<"x", " ", "<", "<", "SQ", "E", "SQ", "NL", "$", "(", "NL", "E", "NL">>, <<"x", "<", "<", "-", "E", " ", "1", ">", "x", "NL", "if", " ", "(", "NL", "TAB", "E", "CR", "NL">>,
       <<"x", " ", "<", "<", "<", " ", "x">>, <<"x", " ", "$", "SQ", "BS", "SQ", "(", "SQ">>, <<"x", "#", "x", " ", "&", ">", " ", "if">>, <<"x", "=", "1", " ", ">", "if", " ", "fi">>, <<"x", " ", "x", "[", "x", "]", " ", "let", " ", "(", ")">>}}
  \cup {NestLeaf("word", t) : t \in {<<"x">>, <<"DQ", "(", "{", "DQ">>}}
  \cup {NestLeaf("arith", t) : t \in {<<"1", "<", "<", "1">>, <<"if">>}}
  \cup {NestLeaf("pat", t) : t \in {<<"x">>, <<"if", "|", "x">>, <<"*">>}}

Con(makes, holds, pre, inner, post, own) == Construct(holds, makes, pre, inner, post, own)
Compounds ==
  {Con("list", "list", <<"(", " ">>, 1, <<")">>, 1), Con("list", "list", <<"{", " ">>, 1, <<"NL", "}">>, 1),
   Con("list", "list", <<"if", " ">>, 1, <<"NL", "then", " ", "x", ";", "fi">>, 1), Con("list", "list", <<"if", " ", "x", ";", "then", " ">>, 1, <<"NL", "else", " ", "x", ";", "fi">>, 1),
   Con("list", "list", <<"if", " ", "x", ";", "then", " ", "x", ";", "elif", " ">>, 2, <<"NL", "then", " ", "x", ";", "fi">>, 2),
   Con("list", "list", <<"if", " ", "x", ";", "then", " ", "x", ";", "elif", " ", "x", ";", "then", " ", "x", ";", "elif", " ", "x", ";", "then", " ">>, 3, <<"NL", "fi">>, 3),
   Con("list", "list", <<"while", " ">>, 1, <<"NL", "do", " ", "x", ";", "done">>, 1), Con("list", "list", <<"for", " ", "x", " ", "in", " ", "do", ";", "do", " ">>, 1, <<"NL", "done", " ", ">", "x">>, 1),
   Con("list", "list", <<"case", " ", "in", " ", "in", " ", "x", ")", " ">>, 1, <<"NL", ";", ";", "esac">>, 1),
   Con("list", "list", <<"case", " ", "x", " ", "in", "NL", "(", "x", "|", "if", ")", " ", "x", ";", ";", "&", " ", "x", ")">>, 1, <<"NL", "esac">>, 1),
   Con("list", "list", <<"f", " ", "(", " ", ")", " ", "{", " ">>, 1, <<"NL", "}">>, 1), Con("list", "list", <<"function", " ", "if", " ", "{", " ">>, 1, <<"NL", "}">>, 1),
   Con("list", "list", <<"coproc", " ", "x", " ", "{", " ">>, 1, <<"NL", "}">>, 1), Con("list", "list", <<"coproc", " ", "{", " ">>, 1, <<"NL", "}">>, 1)}
Lists ==
  {Con("list", "list", <<"!", " ">>, 0, <<>>, 0), Con("list", "list", <<"time", " ", "-", "p", " ">>, 0, <<>>, 0), Con("list", "list", <<"x", " ", "|", " ">>, 0, <<>>, 0),
   Con("list", "list", <<"x", "BS", "NL", " ", "fi", " ", "&", "&", " ">>, 0, <<"NL", "x">>, 0), Con("list", "list", <<"let", " ", "1", " ", "&", "&", " ">>, 0, <<>>, 0)}
NestSubstitutions ==
  {Con("word", "list", <<"$", "(">> \o <<" ">>, 1, <<")">>, 1), Con("psub", "list", <<"<", "(">>, 1, <<")">>, 1), Con("word", "list", <<"DQ", "$", "(", " ">>, 1, <<")", "DQ">>, 1)}
Backticks == {Con("word", "list", <<"BT">>, 1, <<"BT">>, 1), Con("word", "list", <<"DQ", "BT">>, 1, <<"BT", "DQ">>, 1)}
NestWords ==
  {Con("list", "psub", <<"x", " ">>, 0, <<>>, 0), Con("list", "psub", <<"x", " ", "<", " ">>, 0, <<" ", "fi">>, 0)} \cup
  {Con("list", "word", <<"x", " ">>, 0, <<>>, 0), Con("list", "word", <<"x", "=">>, 0, <<" ", "x">>, 0), Con("list", "word", <<"x", " ", ">", " ">>, 0, <<" ", "if">>, 0),
   Con("list", "word", <<"case", " ">>, 1, <<" ", "in", " ", "esac">>, 1), Con("list", "word", <<"for", " ", "x", " ", "in", " ">>, 1, <<";", "do", " ", "x", ";", "done">>, 1),
   Con("list", "word", <<"x", " ", "<", "<", "E", "NL", "if", " ", "SQ", "(">>, 0, <<"NL", "E", "NL">>, 0),
   Con("word", "word", <<"$", "{", "x", ":", "-", "(", "SQ", "}", "SQ">>, 1, <<"}">>, 1), Con("arith", "word", <<"1", "+">>, 0, <<>>, 0), Con("pat", "word", <<"x">>, 0, <<>>, 0)}
Ariths ==
  {Con("word", "arith", <<"$", "(", "(">>, 1, <<")", ")">>, 1), Con("word", "arith", <<"$", "[">>, 1, <<"]">>, 1), Con("list", "arith", <<"(", "(">>, 1, <<")", ")">>, 1), Con("list", "arith", <<"let", " ">>, 0, <<>>, 0),
   Con("list", "arith", <<"x", "[">>, 1, <<"]", "=", "1">>, 1), Con("list", "arith", <<"export", " ", "x", "[">>, 1, <<"]", "+", "=", "1">>, 1),
   Con("arith", "arith", <<"(">>, 1, <<")">>, 1), Con("arith", "arith", <<"x", "[">>, 1, <<"]", "<", "<", "1">>, 1)}
Patterns == {Con("list", "pat", <<"case", " ", "x", " ", "in", " ", "(">>, 1, <<")", " ", "x", " ", "esac", ";", ";", " ", "esac">>, 1), Con("list", "pat", <<"case", " ", "x", " ", "in", " ">>, 1, <<")", " ", "if", " ", "x", ";", "then", " ", "x", ";", "fi", ";", ";", " ", "esac">>, 2), Con("pat", "pat", <<"@", "(">>, 1, <<"|", "x", ")">>, 1)}

NestLevel(cs, fs) == {LevelAround(c, f) : <<c, f>> \in {p \in cs \X fs : p[1].holds = p[2].kind}}
PlainText == Compounds \cup Lists \cup NestSubstitutions \cup NestWords \cup Ariths \cup Patterns
Level1 == NestLevel(PlainText, NestLeaves)
SimpleCmds == {NestLeaf("list", <<"x", " ", "fi">>), NestLeaf("word", <<"x">>), NestLeaf("arith", <<"1", "<", "<", "1">>), NestLeaf("pat", <<"x">>)}
Level2 == NestLevel(PlainText, NestLevel(PlainText, SimpleCmds) \cup NestLevel(Backticks, NestLeaves))
\* three levels, the middle one holding its fragment twice removed from the top
Deep == NestLevel({c \in PlainText : Len(c.pre) > 5 \/ c.holds # "list"}, NestLevel(Backticks \cup NestSubstitutions \cup Ariths \cup Patterns, NestLevel(PlainText, SimpleCmds)))
NestingCases == {[tool |-> "nesting", script |-> f] : f \in {g \in NestLeaves \cup Level1 \cup Level2 \cup Deep : g.kind = "list"}}

-----------------------------------------------------------------------------

FewWords == UNION {[1 .. n -> {"", "x", "!", "(", ")", "=", "-a", "-o", "-n", "-f"}] : n \in 0 .. 3} \cup [1 .. 4 -> {"x", "!", "(", ")", "=", "-o"}] \cup {<<"1", "-lt", w>> : w \in {"2", "x", ""}} \cup {<<"!", "x", "-nt", w>> : w \in {"y", "z"}}
FewWordsCases == {[tool |-> "test4", args |-> w] : w \in FewWords}

(* Expressions with their truth; level says how they bind: 1 -o, 2 -a, 3 the *)
(* operands and "!".  An error anywhere makes the whole an error.            *)
Expr(level, words, status, depth) == [level |-> level, words |-> words, status |-> status, depth |-> depth]
Operands == {Expr(3, <<"-n", "x">>, 0, 0), Expr(3, <<"-f", "z">>, 1, 0), Expr(3, <<"x", "=", "-a">>, 1, 0), Expr(3, <<"!", "=", "!">>, 0, 0), Expr(3, <<"1", "-lt", "x">>, 2, 0)}
Both(a, b, op) == IF a.status = 2 \/ b.status = 2 THEN 2 ELSE IF op = "-a" THEN TruthStatus(a.status = 0 /\ b.status = 0) ELSE TruthStatus(a.status = 0 \/ b.status = 0)
DeeperOf(a, b) == IF a.depth > b.depth THEN a.depth ELSE b.depth
Ands(es) == {Expr(2, e[1].words \o <<"-a">> \o e[2].words, Both(e[1], e[2], "-a"), DeeperOf(e[1], e[2])) : e \in {p \in es \X es : p[1].level >= 2 /\ p[2].level >= 3}}
Ors(es) == {Expr(1, e[1].words \o <<"-o">> \o e[2].words, Both(e[1], e[2], "-o"), DeeperOf(e[1], e[2])) : e \in {p \in es \X es : p[2].level >= 2}}
TestNots(es) == {Expr(3, <<"!">> \o e.words, NotStatus(e.status), e.depth + 1) : e \in {f \in es : f.level = 3}}
TestGroups(es) == {Expr(3, <<"(">> \o e.words \o <<")">>, e.status, e.depth + 1) : e \in es}
\* ! = ! is a comparison only where its subexpression has no other words
Joinable(es) == {e \in es : \A i \in DOMAIN e.words : e.words[i] = "!" => (i < Len(e.words) /\ e.words[i + 1] # "=" /\ (i = 1 \/ e.words[i - 1] # "="))}
Exprs1 == Operands \cup TestNots(Operands) \cup TestGroups(Operands)
Exprs2 == Exprs1 \cup Ands(Joinable(Exprs1)) \cup Ors(Joinable(Exprs1)) \cup TestNots(TestGroups(Operands))
Exprs3 == Exprs2 \cup TestGroups(Exprs2) \cup TestNots(TestGroups(Exprs2))
Exprs4 == Exprs3 \cup Ands(Joinable(Exprs1) \cup TestGroups(Ors(Joinable(Operands)))) \cup Ors(Joinable(Exprs1) \cup Ands(Joinable(Operands)))
TestExprCases == {[tool |-> "test", expr |-> e] : e \in Exprs4}

-----------------------------------------------------------------------------

Lt(s) == [k |-> "lit", t |-> <<s>>, x |-> "x", q |-> FALSE, body |-> <<>>]
Vr(x) == [Lt("") EXCEPT !.k = "var", !.x = x]
Qt(x) == [Vr(x) EXCEPT !.q = TRUE]
Sb(stmts) == [Lt("") EXCEPT !.k = "sub", !.body = stmts]
Gl == [Lt("") EXCEPT !.k = "glob"]
ScriptCmd(id, as, ws, rds) == [k |-> "call", id |-> id, args |-> ws, assigns |-> as, redirs |-> rds]
Cm(id, ws) == ScriptCmd(id, <<>>, ws, <<>>)
As(x, w) == [x |-> x, w |-> w]
Set(id, x, w) == ScriptCmd(id, <<As(x, w)>>, <<>>, <<>>)
RedirTo(w) == [op |-> "out", w |-> w]
From(w) == [op |-> "in", w |-> w]

\* Statements that change what is known, and statements that depend on it.
Changes(i) ==
  {Cm(i, <<Lt("cd"), Lt(d)>>) : d \in {"/g", "/h"}} \cup {Cm(i, <<Lt("cd"), Vr("x")>>), Cm(i, <<Lt("cd")>>), Cm(i, <<Lt("sudo"), Lt("cd"), Lt("/r")>>)}
  \cup {Cm(i, <<Lt("read"), Lt(v)>>) : v \in {"x", "IFS", "HOME"}}
  \cup {Set(i, "x", Lt(t)) : t \in {"/g/p", "/h/p", "cd", "p"}} \cup {Set(i, "x", [Lt("cat") EXCEPT !.t = <<"cat", "/g/p">>]), Set(i, "x", Gl), Set(i, "IFS", Lt("o"))}
  \cup {Set(i, "x", Sb(<<Cm(i + 1, <<Lt("cat"), Vr("x")>>)>>)), ScriptCmd(i, <<As("x", Lt("/g/p"))>>, <<Lt("cat"), Vr("x")>>, <<>>), ScriptCmd(i, <<As("HOME", Lt("/g"))>>, <<Lt("cd")>>, <<>>)}
Uses(i) ==
  {Cm(i, <<Lt("cat"), w>>) : w \in {Lt("p"), Lt("/g/p"), Vr("x"), Qt("x"), Gl, Sb(<<ScriptCmd(i + 1, <<>>, <<>>, <<From(Vr("x"))>>)>>), Sb(<<Cm(i + 1, <<Lt("cat"), Lt("p")>>)>>)}}
  \cup {Cm(i, <<Vr("x")>>), Cm(i, <<Vr("x"), Lt("p")>>), Cm(i, <<Lt("sudo"), Vr("x"), Lt("/g/p")>>), Cm(i, <<Lt("sudo"), Lt("cat"), Lt("p")>>), Cm(i, <<Lt("tee"), Lt("p")>>), Cm(i, <<Lt("tee"), Vr("x")>>), Cm(i, <<Lt("nope"), Sb(<<Cm(i + 1, <<Lt("cat"), Lt("p")>>)>>)>>)}
  \cup {Cm(i, <<Lt("xargs"), Lt("tee")>>), Cm(i, <<Lt("xargs"), Vr("x")>>)}
  \cup {ScriptCmd(i, <<>>, <<Lt("echo")>>, <<RedirTo(w)>>) : w \in {Vr("x"), Lt("p"), Lt("null"), Sb(<<Cm(i + 1, <<Lt("cat"), Lt("p")>>)>>)}} \cup {ScriptCmd(i, <<>>, <<Lt("echo")>>, <<From(Vr("x"))>>)}

Blk(k, s) == [k |-> k, id |-> 99, redirs |-> <<>>, stmts |-> s]
TwoParts(k, a, b) == [k |-> k, id |-> 99, redirs |-> <<>>, left |-> a, right |-> b]
Cnd(k, c, d) == [k |-> k, id |-> 99, redirs |-> <<>>, cond |-> c, do |-> d]
For(items, d) == [k |-> "for", id |-> 99, redirs |-> <<>>, x |-> "x", items |-> items, do |-> d]
Ec(i) == Cm(i, <<Lt("echo")>>)

\* A change inside a construct, seen by a use in it or after it.
CheckAround(c, u) ==
  {<<Blk("block", <<c>>), u>>, <<Blk("subshell", <<c>>), u>>, <<TwoParts("pipe", c, Ec(60)), u>>, <<TwoParts("pipe", Ec(60), c), u>>, <<TwoParts("and", Ec(60), c), u>>, <<TwoParts("and", c, u)>>,
   <<Cnd("if", <<c>>, <<u>>)>>, <<Cnd("if", <<Ec(60)>>, <<c>>), u>>, <<Cnd("while", <<Ec(60)>>, <<u, c>>)>>, <<Cnd("while", <<c>>, <<Ec(60)>>), u>>,
   <<For(<<Lt("/g/p"), Lt("/h/p")>>, <<u, c>>)>>, <<For(<<Lt("p")>>, <<c>>), u>>, <<TwoParts("pipe", Blk("block", <<c, u>>), Ec(60))>>, <<[Blk("block", <<c, u>>) EXCEPT !.redirs = <<RedirTo(Vr("x"))>>]>>}

WritePolicy == [allowed |-> Registered, elevatable |-> {"cat", "cd"}, remediation |-> TRUE, writable |-> TRUE, remote |-> FALSE]
Policies == {WritePolicy, [WritePolicy EXCEPT !.remote = TRUE], [WritePolicy EXCEPT !.remediation = FALSE, !.writable = FALSE], [WritePolicy EXCEPT !.allowed = Registered \ {"cat"}, !.elevatable = {}, !.writable = FALSE]}
MCEnv == [x |-> <<"/h/p">>, HOME |-> <<"/r">>, IFS |-> BlankIFS]
OtherEnv == [x |-> <<"cat", "p">>, HOME |-> <<"/g">>, IFS |-> BlankIFS]

CheckOf(stmts, p, e, d) == [tool |-> "check", stmts |-> stmts, policy |-> p, env |-> e, dir |-> d]
KeyUses(i) == {u \in Uses(i) : u.assigns = <<>> /\ u.redirs = <<>> /\ u.args \in {<<Lt("cat"), Lt("p")>>, <<Lt("cat"), Vr("x")>>, <<Lt("tee"), Lt("p")>>, <<Lt("sudo"), Lt("cat"), Lt("p")>>, <<Vr("x"), Lt("p")>>}}
FlatScripts == {<<c, u>> : c \in Changes(10), u \in Uses(20)} \cup {<<c, d, Cm(20, <<Lt("sudo"), Vr("x"), Lt("/g/p")>>)>> : c \in Changes(10), d \in Changes(14)}
NestedScripts == UNION {CheckAround(c, u) : c \in Changes(10), u \in KeyUses(20)}
DeepScripts == {<<Blk("block", <<Blk("subshell", <<Blk("block", <<Cm(20, <<Lt("tee"), w>>)>>)>>)>>)>> : w \in {Lt("/r/p"), Lt("/g/p")}}
  \cup {<<Ec(1), Ec(2), Ec(3), Ec(4), u>> : u \in Uses(20)}
CheckCases ==
  {CheckOf(s, WritePolicy, MCEnv, "/h") : s \in FlatScripts} \cup {CheckOf(<<c, u>>, p, MCEnv, "/h") : c \in Changes(10), u \in KeyUses(20), p \in Policies} \cup {CheckOf(s, p, MCEnv, "/h") : s \in DeepScripts, p \in Policies} \cup {CheckOf(s, WritePolicy, OtherEnv, "/g") : s \in NestedScripts}

-----------------------------------------------------------------------------
(* Inputs written with every kind of quoting and separator, and batches at    *)
(* their limits.                                                              *)
Letters == {"x", "y"}
ItemWords == {<<"x">>, <<"x", " ">>, <<"'">>, <<>>, <<"n", "x">>, <<"d", "b">>}
Has(w, set) == \E i \in DOMAIN w : w[i] \in set
Slashed(w) == FlattenSeq([i \in DOMAIN w |-> IF w[i] \in Letters THEN <<w[i]>> ELSE <<"b", w[i]>>])
\* The ways to write a word.
Written(w) ==
  (IF w # <<>> THEN {Slashed(w)} ELSE {})
    \cup (IF ~Has(w, {"'", "n"}) THEN {<<"'">> \o w \o <<"'">>} ELSE {})
    \cup (IF ~Has(w, {"d", "n"}) /\ w # <<"x">> THEN {<<"d">> \o w \o <<"d">>} ELSE {})
Separators == {<<"n">>, <<" ", "n">>, <<"n", " ">>}
\* An item ends its line when a newline follows at once, or nothing.
EndsLine(sep) == sep[1] = "n"

XargsCall(flags, argv, in, want, last) ==
  [tool |-> "xargs", flags |-> flags, argv |-> argv, file |-> "ok", in |-> in, broken |-> FALSE, want |-> want, last |-> last,
   allowed |-> {<<"e">>, <<"x">>}, fates |-> {"0"}, cancels |-> FALSE]
XFlag(f, v) == [f |-> f, n |-> v]
XText(f, v) == [f |-> f, s |-> v]
XDelim(v) == [f |-> "d", d |-> v]
E == << <<"e">> >>

Quoting ==
  UNION {{XargsCall(fl, E, u \o s \o v \o t, <<w, x>>, <<EndsLine(s), TRUE>>) :
            u \in Written(w), v \in Written(x), s \in Separators, t \in IF x = <<>> THEN {<<"n">>} ELSE {<<>>, <<"n">>},
            fl \in {<<>>, <<XFlag("L", 1)>>}} : w \in ItemWords, x \in ItemWords}
\* The end marker, on a line of its own or after a blank, and a NUL in a word.
MarkerAt(in, want) == XargsCall(<<XText("E", <<"y">>)>>, E, in, want, [i \in DOMAIN want |-> TRUE])
Marker == {MarkerAt(<<"x", "n", "y">>, << <<"x">> >>), MarkerAt(<<"x", " ", "y">>, << <<"x">>, <<"y">> >>),
           MarkerAt(<<"x", " ", "y", "n", "x">>, << <<"x">> >>), MarkerAt(<<"y", "n", "x">>, <<>>),
           MarkerAt(<<"x", "y", "n", "y", " ">>, << <<"x", "y">> >>), MarkerAt(<<"x", "n", "y", "0", "x", " ", "x">>, << <<"x">> >>)}
Nul == {XargsCall(<<>>, E, <<"x", "0", "y", " ", "x">>, << <<"x">>, <<"x">> >>, <<FALSE, TRUE>>),
        XargsCall(<<XFlag("L", 1)>>, E, <<"x", "0", "y", "n", "0", "n", "x">>, << <<"x">>, <<>>, <<"x">> >>, <<TRUE, TRUE, TRUE>>),
        XargsCall(<<XText("I", <<"x">>)>>, << <<"e">>, <<"x">> >>, <<"y", "0", "y", "n", "x">>, << <<"y">>, <<"x">> >>, <<TRUE, TRUE>>)}
\* Records between delimiters, with -d cut at a NUL.
Records == {<<"x">>, <<" ", "x">>, <<>>, <<"'", "b">>}
Join3(r, q, p, sep, end) == r \o <<sep>> \o q \o <<sep>> \o p \o end
Delimited ==
  {XargsCall(<<XDelim([k |-> "char", value |-> 0, c |-> "y"]), XFlag("0", 1)>>, E, Join3(r, q, p, "0", <<"0">>), <<r, q, p>>, <<TRUE, TRUE, TRUE>>) :
     r \in Records, q \in Records, p \in Records}
  \cup {XargsCall(<<XFlag("0", 1), XDelim(d), XFlag("n", 2)>>, E, Join3(r, q \o <<"0", "x">>, p, "y", <<>>), <<r, q, p>>, <<TRUE, TRUE, TRUE>>) :
     r \in Records, q \in Records, p \in Records \ {<<>>},
     d \in {[k |-> "char", value |-> 0, c |-> "y"], [k |-> "escape", value |-> 0, c |-> "y"], [k |-> "number", value |-> 44, c |-> "y"]}}
\* With -I an item is a line, its quotes read and its first blanks dropped.
ReplaceLines == {XargsCall(<<XText("I", <<"R">>)>> \o s, a, <<" ">> \o u \o <<"n", "n">> \o v \o <<" ">>, <<w, x \o <<" ">> >>, <<TRUE, TRUE>>) :
            s \in {<<>>, <<XFlag("s", 5)>>, <<XFlag("s", 4)>>}, a \in {<< <<"e">>, <<"R", "y", "R">> >>, << <<"R">>, <<"R", "R">> >>, << <<"e">>, <<"x">> >>, << <<"R", "R">> >>},
            u \in {Slashed(<<"x">>)}, v \in {Slashed(<<"x", "y">>)}, w \in {<<"x">>}, x \in {<<"x", "y">>}}
         \cup {XargsCall(<<XText("I", <<"R", "R">>), XFlag("s", n)>>, << <<"e">>, <<"R", "R", "R">>, <<"R", "R">> >>, in, <<in>>, <<TRUE>>) :
            in \in {<<"x">>, <<"x", "y">>, <<"x", "y", "x">>}, n \in 4..9}
Broken == {[XargsCall(fl, E, in, <<<<"x">>>>, <<FALSE>>) EXCEPT !.broken = (in = <<"x", " ", "x">>), !.fates = {"0", "1"}] :
             in \in {<<"x", " ", "'", "x">>, <<"x", " ", "x">>, <<"x", " ", "d", "n">>, <<"x", " ", "x", "x", "x", "x", "x">>}, fl \in {<<>>, <<XFlag("n", 1)>>}}

\* Four items on two lines against the limits.
Four == << <<"x">>, <<"x", "y">>, <<"y">>, <<"x">> >>
FourIn(s) == <<"x", " ", "x", "y">> \o s \o <<"y", " ", "x", "n">>
Limits ==
  {[XargsCall(b \o z, a, FourIn(s), Four, <<FALSE, EndsLine(s), FALSE, TRUE>>) EXCEPT !.fates = Fates, !.cancels = c] :
     b \in {<<>>, <<XFlag("n", 1)>>, <<XFlag("n", 2)>>, <<XFlag("n", 3), XFlag("x", 1)>>, <<XFlag("L", 1)>>, <<XFlag("L", 2)>>, <<XFlag("n", 1), XFlag("L", 2)>>,
            <<XFlag("L", 1), XFlag("n", 3)>>},
     z \in {<<>>} \cup {<<XFlag("s", n)>> : n \in {4, 5, 6, 7, 9}}, a \in {E, << <<"e">>, <<"x">> >>}, s \in {<<"n">>, <<" ", "n">>}, c \in {FALSE}}
  \cup {[XargsCall(b, E, FourIn(<<"n">>), Four, <<FALSE, TRUE, FALSE, TRUE>>) EXCEPT !.fates = Fates, !.cancels = TRUE] : b \in {<<XFlag("n", 1)>>, <<XFlag("L", 1)>>}}
Odd ==
  {[XargsCall(fl, a, in, <<>>, <<>>) EXCEPT !.fates = Fates, !.file = f] :
     fl \in {<<>>, <<XFlag("r", 1)>>, <<XText("I", <<"R">>)>>, <<XFlag("s", 1)>>, <<XFlag("n", 0)>>, <<XFlag("L", 99)>>, <<XText("I", <<>>)>>, <<XFlag("a", 1)>>,
             <<XDelim([k |-> "number", value |-> 300, c |-> "y"])>>},
     a \in {<<>>, << <<"z">> >>}, in \in {<<>>, <<" ", "n">>}, f \in {"ok", "absent", "refused"}}
MCXargsCases == Quoting \cup Marker \cup Nul \cup Delimited \cup ReplaceLines \cup Broken \cup Limits \cup Odd

-----------------------------------------------------------------------------
(* Expressions, patterns, sizes, ages, modes and paths for find.             *)
Tok == {"(", ")", "!", "-o", "-a", "-true"}
TokenCases == {[tool |-> "find tokens", tokens |-> s] : s \in UNION {[1..n -> Tok] : n \in 1..4}}

L1 == {Leaf("-print", ""), Leaf("-name", "-o"), Leaf("-name", "-maxdepth")}
Ops(S, S2) == {[k |-> o, l |-> a, r |-> b] : o \in {"and", "or"}, a \in S, b \in S2}
Nots(S) == {[k |-> "not", x |-> a] : a \in S}
Groups(S) == {[k |-> "group", x |-> a] : a \in S}
E1 == Ops(L1, {Leaf("-print", "")}) \cup Nots(L1) \cup Groups(L1)
E2 == Ops(L1, L1 \cup Nots(L1)) \cup Nots(E1) \cup Groups(E1)
E3 == Ops(E2, E1 \cup L1) \cup Ops(L1 \cup E1, E1) \cup Nots(Groups(E2)) \cup Groups(Groups(E1)) \cup Ops(Groups(E1), Groups(E1))
Level(e) == CASE e.k = "or" -> 1 [] e.k = "and" -> 2 [] OTHER -> 3
\* The tokens of an expression that needs no other parentheses than its groups.
RECURSIVE Proper(_), Render(_)
Proper(e) == CASE e.k \in {"group"} -> Proper(e.x)
               [] e.k = "not" -> Level(e.x) = 3 /\ Proper(e.x)
               [] e.k \in {"and", "or"} -> Level(e.l) >= Level(e) /\ Level(e.r) > Level(e) /\ Proper(e.l) /\ Proper(e.r)
               [] OTHER -> TRUE
Render(e) == CASE e.k = "group" -> <<"(">> \o Render(e.x) \o <<")">>
               [] e.k = "not" -> <<"!">> \o Render(e.x)
               [] e.k = "or" -> Render(e.l) \o <<"-o">> \o Render(e.r)
               [] e.k = "and" -> Render(e.l) \o (IF e.l.k = "not" THEN <<"-a">> ELSE <<>>) \o Render(e.r)
               [] e.v # "" -> <<e.k, e.v>>
               [] OTHER -> <<e.k>>
ExpressionCases == {[tool |-> "find expression", e |-> e, tokens |-> Render(e)] : e \in {e \in E1 \cup E2 \cup E3 : Proper(e)}}

Chars == {97, 98, 93}
ClassPart(set, negate, text) == [k |-> "class", set |-> set, negate |-> negate, text |-> text]
Parts == {[k |-> "star", text |-> <<42>>], [k |-> "any", text |-> <<63>>],
          [k |-> "char", c |-> 97, text |-> <<97>>], [k |-> "char", c |-> 98, text |-> <<92, 98>>], [k |-> "char", c |-> 93, text |-> <<93>>],
          ClassPart({97, 98}, FALSE, <<91, 97, 45, 98, 93>>), ClassPart({93}, TRUE, <<91, 33, 93, 93>>), ClassPart({93, 97}, FALSE, <<91, 97, 92, 93, 93>>),
          ClassPart({98, 45}, FALSE, <<91, 98, 45, 93>>)}
Names == UNION {[1..n -> Chars] : n \in 0..2} \cup {<<97, 97, 98>>, <<97, 98, 98>>, <<98, 97, 93>>, <<97, 98, 97, 98>>, <<97, 97, 98, 98>>}
PartSeqs == UNION {[1..n -> Parts] : n \in 0..2} \cup {<<s, p, q>> : s \in Parts, p \in Parts, q \in {x \in Parts : x.k = "star"}}
              \cup {<<s, p, q>> : s \in {x \in Parts : x.k = "star"}, p \in Parts, q \in Parts}
              \cup {<<s, p, s, q>> : s \in {x \in Parts : x.k = "star"}, p \in Parts, q \in Parts}
GlobCases == {[tool |-> "find glob", parts |-> ps, text |-> FlattenSeq([i \in DOMAIN ps |-> ps[i].text]), name |-> n] : ps \in PartSeqs, n \in Names}

SizeCases == {[tool |-> "find size", size |-> s, block |-> b, n |-> n] : s \in 0..FileSizeMax, b \in {1, 2, 4, 8}, n \in 0..5}
AgeCases == {[tool |-> "find age", now |-> t, mod |-> t - a, n |-> n] : t \in {100, 101, 103}, a \in -3..(MaxMtimeN * Day + 7), n \in 0..(2 * MaxMtimeN + 2)}
Clauses == {[who |-> w, op |-> o, perms |-> p, copy |-> ""] : w \in {{}, {"u"}, {"g", "o"}}, o \in {"=", "+", "-"}, p \in {{"r"}, {"x", "s"}, {"w", "t"}, {}}}
ModeCases == {[tool |-> "find mode", clauses |-> <<c, d>>] : c \in Clauses, d \in Clauses}
PathChars == {"a", ".", "/"}
PathCases == {[tool |-> "find execdir", path |-> p, workDir |-> w, links |-> << >>] :
                p \in UNION {[1..n -> PathChars] : n \in 1..4}, w \in {<<"/">>, <<"/", "w">>, <<"/", "w", "/", "v">>}}

Not(e) == [k |-> "not", x |-> e]
Op(o, l, r) == [k |-> o, l |-> l, r |-> r]
Tree(kind, kids, target) == [kind |-> kind, kids |-> kids, target |-> target]
\* a/{b/{d}, c}; a/{b/{d -> a}, c -> b}; a/{b/{c/{d}}}, the last two with empty files.
T1 == Tree(<<"dir", "dir", "file", "file">>, <<<<2, 3>>, <<4>>, <<1>>, <<>>>>, <<1, 2, 3, 4>>)
T2 == Tree(<<"dir", "dir", "link", "link">>, <<<<2, 3>>, <<4>>, <<>>, <<>>>>, <<1, 2, 2, 1>>)
T3 == Tree(<<"dir", "dir", "dir", "link">>, <<<<2>>, <<3>>, <<4>>, <<>>>>, <<1, 2, 3, 2>>)
Word(s) == <<s>>
Exec(k, words) == [k |-> k, v |-> words]
Short == Exec("-exec", <<<<"x">>, <<"{}">>>>)
Long == Exec("-execdir", <<<<"x">>, <<"{}", "{}">>>>)
Named == Exec("-exec", <<<<"{}">>>>)
PrintIt == Leaf("-print", "")
PruneIt == Leaf("-prune", "")
WalkExprs == {Leaf("-true", ""), Op("or", Op("and", Leaf("-name", 2), PruneIt), PrintIt), Op("and", Not(Op("and", PruneIt, Leaf("-name", 2))), PrintIt),
              Op("and", Leaf("-type", "dir"), Not(Op("and", Leaf("-name", 1), Leaf("-false", "")))),
              Op("and", Op("or", Op("and", Leaf("-name", 2), PruneIt), Leaf("-true", "")), Leaf("-true", ""))}
ActionExprs == {Op("and", Short, PrintIt), Op("or", Long, PrintIt), Op("or", Named, PrintIt), Leaf("-empty", ""), Op("and", Leaf("-newer", 2), Not(Leaf("-empty", ""))),
                Op("or", Leaf("-newer", 3), Op("and", Leaf("-name", 3), Op("or", Leaf("-quit", ""), PrintIt))), Op("or", Op("and", Leaf("-name", 3), Leaf("-quit", "")), PrintIt)}
Walk(t, starts, follow, min, max, e) ==
  [tool |-> "find", starts |-> starts, follow |-> follow, minDepth |-> min, maxDepth |-> max, e |-> e, kind |-> t.kind, kids |-> t.kids, target |-> t.target,
   closed |-> {}, torn |-> {}, denied |-> {}, noId |-> {}, vanish |-> {}, cancels |-> FALSE, fate |-> <<"0", "1", "0", "broken">>, allowed |-> {<<"x">>, <<"b">>}]
Faulty(w) == {[w EXCEPT !.closed = {2}], [w EXCEPT !.torn = {2}, !.cancels = TRUE], [w EXCEPT !.denied = {2}], [w EXCEPT !.noId = {2, 3}], [w EXCEPT !.noId = {1, 2, 3}],
              [w EXCEPT !.vanish = {2}], [w EXCEPT !.vanish = {3, 4}, !.cancels = TRUE], [w EXCEPT !.vanish = {1}, !.closed = {3}]}
WalkCases ==
  LET plain == {Walk(t, s, f, 0, 9, e) : t \in {T1, T2, T3}, s \in {<<2, 1>>}, f \in BOOLEAN, e \in WalkExprs \cup ActionExprs}
      limits == {Walk(t, <<1>>, f, min, max, e) : t \in {T1, T2, T3}, f \in BOOLEAN, min \in 0..2, max \in 1..2, e \in WalkExprs}
      faulty == {Walk(t, s, f, 0, 9, e) : t \in {T1, T2, T3}, s \in {<<1>>, <<2, 3>>}, f \in {TRUE},
                   e \in {Leaf("-true", "")} \cup ActionExprs}
  IN  plain \cup limits \cup UNION {Faulty(w) : w \in faulty}

PureFindCases == TokenCases \cup ExpressionCases \cup GlobCases \cup SizeCases \cup AgeCases \cup ModeCases \cup PathCases

-----------------------------------------------------------------------------
(* Programs and files for sed.                                               *)
NoAddr == [k |-> "none", n |-> 0, step |-> 1, re |-> ""]
LineAddr(n) == [NoAddr EXCEPT !.k = "line", !.n = n]
LastAddr == [NoAddr EXCEPT !.k = "last"]
ReAddr(re) == [NoAddr EXCEPT !.k = "re", !.re = re]
StepAddr(first, step) == [NoAddr EXCEPT !.k = "step", !.n = first, !.step = step]

Cmd(k) == [k |-> k, a1 |-> NoAddr, a2 |-> NoAddr, neg |-> FALSE, id |-> 0, text |-> <<"t">>, label |-> "", code |-> 3,
           re |-> "x", repl |-> <<"y">>, g |-> FALSE, nth |-> 0, p |-> FALSE, trans |-> [x |-> "y", y |-> "x"], children |-> <<>>]
At(c, a) == [c EXCEPT !.a1 = a]
Between(c, a, b, id) == [c EXCEPT !.a1 = a, !.a2 = b, !.id = id]
Unless(c, a) == [c EXCEPT !.a1 = a, !.neg = TRUE]
To(k, label) == [Cmd(k) EXCEPT !.label = label]
Grouped(cs) == [Cmd("{") EXCEPT !.children = cs]
Sub(re, repl) == [Cmd("s") EXCEPT !.re = re, !.repl = repl]
NotLast(c) == Unless(c, LastAddr)

File(lines, ends) == [lines |-> lines, ends |-> ends, bad |-> FALSE, regular |-> TRUE]
LineX == <<"x">>
LineY == <<"y">>
LineXX == <<"x", "x">>
Files == {<<File(<<LineX, LineY, LineX>>, FALSE)>>, <<File(<<LineXX>>, TRUE)>>, <<File(<<LineY, LineXX>>, FALSE), File(<<LineX>>, FALSE)>>,
          <<File(<<LineX, LineX>>, TRUE), File(<<>>, TRUE), File(<<LineY, LineX>>, TRUE)>>,
          <<[File(<<LineX, LineY>>, TRUE) EXCEPT !.bad = TRUE], File(<<LineX>>, TRUE)>>, <<[File(<<LineX, LineY, LineX>>, TRUE) EXCEPT !.regular = FALSE]>>}

SedCall(prog, files, quiet, identity) ==
  LET cs == {Listing(prog)[i].c : i \in DOMAIN Listing(prog)}
  IN  [tool |-> "sed", prog |-> prog, files |-> files, quiet |-> quiet, identity |-> identity,
       reads |-> \E c \in cs : c.k \in {"n", "N"}, reuses |-> \E c \in cs : (c.k = "s" /\ c.re = "") \/ (c.a1.k = "re" /\ c.a1.re = "")]

\* Two or three commands in a row.
Kinds == {Cmd(k) : k \in {"p", "P", "d", "D", "=", "n", "N", "h", "H", "g", "G", "x", "l", "y", "i"}}
           \cup {At(Cmd("q"), LineAddr(2)), At(Cmd("Q"), ReAddr("y")), Cmd("a"), Between(Cmd("c"), LineAddr(1), ReAddr("y"), 1),
                 Sub("x", <<"&", "z">>), [Sub("x", <<"&", "&">>) EXCEPT !.g = TRUE, !.p = TRUE], [Sub("", <<>>) EXCEPT !.nth = 2],
                 Between(Cmd("p"), ReAddr("x"), LastAddr, 2), NotLast(Cmd("N")), At(Cmd("d"), ReAddr(""))}
Rows == {<<a, b>> : a, b \in Kinds} \cup {<<a, b, c>> : a \in {Cmd("h"), Cmd("N"), Cmd("a"), Cmd("p")}, b \in Kinds, c \in {Cmd("x"), Cmd("g"), Cmd("G"), Cmd("D"), Cmd("a"), Cmd("H")}}

\* A group with a label, entered by falling into it and by branches from both sides.
Before == {To("b", "a"), To("t", "a"), At(To("b", "a"), LineAddr(1)), Sub("x", <<"y">>), Cmd("n")}
Within == {Sub("x", <<"y">>), Sub("y", <<"x">>), Cmd("n"), NotLast(Cmd("N")), Cmd("D")}
Leave == {To("b", ""), To("t", "a"), To("T", "a"), NotLast(To("b", "a")), At(To("b", "z"), LineAddr(2)), To("t", "")}
Behind == {Cmd("p"), At(To("t", "a"), ReAddr("y")), Cmd("=")}
Nested == {<<b, Grouped(<<To(":", "a"), w, l>>), u, To(":", "z"), Cmd("p")>> : b \in Before, w \in Within, l \in Leave, u \in Behind}
            \cup {<<Sub("x", <<"z">>), b, At(Grouped(<<Grouped(<<w, To(":", "a"), l>>), u>>), ReAddr("y")), To(":", "z"), Cmd("=")>> : b \in Before, w \in Within, l \in Leave, u \in Behind}
            \cup {<<To(":", "a"), b, To(":", "a"), w, l, To(":", "z")>> : b \in Before, w \in Within, l \in Leave}

Identities == {<<>>, <<Cmd("n")>>, <<NotLast(Cmd("N"))>>, <<NotLast(Cmd("N")), Cmd("P"), Cmd("D")>>, <<Cmd("x"), Cmd("x")>>, <<Cmd("h"), Cmd("g")>>,
               <<Cmd("p"), Cmd("d")>>, <<Sub("x", <<"&">>)>>, <<To(":", "a"), NotLast(Cmd("N")), NotLast(To("b", "a"))>>,
               <<Cmd("y"), Cmd("y")>>, <<At(Cmd("d"), ReAddr("z"))>>, <<Cmd("n"), Cmd("x"), Cmd("x"), Cmd("n")>>}

Addrs == {LineAddr(n) : n \in 1..3} \cup {LastAddr, ReAddr("x"), ReAddr("y"), StepAddr(1, 2), StepAddr(0, 2)}
RangeCases ==
  {[tool |-> "sed range", a1 |-> a, a2 |-> b, lines |-> ls] : a \in Addrs, b \in Addrs, ls \in [1..3 -> {LineX, LineY}] \cup [1..2 -> {LineX, LineY, <<"x", "y">>}]}
    \cup {[tool |-> "sed range", a1 |-> LineAddr(0), a2 |-> b, lines |-> ls] : b \in {ReAddr("x"), ReAddr("y")}, ls \in [1..3 -> {LineX, LineY}]}

Piece(len, g) == [len |-> len, g |-> g]
Matches1 == {[len |-> l, g |-> g, pieces |-> p] : l \in {1}, g \in {-1, 1}, p \in {<<>>, <<Piece(1, 1)>>, <<Piece(1, -1)>>}}
             \cup {[len |-> 3, g |-> g, pieces |-> p] : g \in {0, 3}, p \in {<<Piece(1, 0), Piece(2, 2)>>, <<Piece(1, 1), Piece(1, -1), Piece(1, 1)>>, <<Piece(0, 0), Piece(3, 3)>>}}
Alone(m) == [m EXCEPT !.pieces = <<Piece(m.len, m.g)>>]
Shapes == [lit : {0, 3}, refs0 : {0, 2}, refs1 : 0..1, global : BOOLEAN, nth : {0, 2}]
FitsCases ==
  {[tool |-> "sed fits", s |-> s, ms |-> ms, n |-> SumLens(ms) + d, assertions |-> TRUE] :
      s \in Shapes, ms \in UNION {[1..n -> Matches1] : n \in 0..2}, d \in {2}}
    \cup {[tool |-> "sed fits", s |-> s, ms |-> [k \in DOMAIN ms |-> Alone(ms[k])], n |-> SumLens(ms) + d, assertions |-> FALSE] :
             s \in Shapes, ms \in UNION {[1..n -> Matches1] : n \in 0..1}, d \in {0, 2}}

EngineCases == {SedCall(p, f, q, FALSE) : p \in Rows, f \in {<<File(<<LineY, LineXX>>, FALSE), File(<<LineX>>, FALSE)>>}, q \in BOOLEAN} \cup {SedCall(p, <<File(<<LineX, LineY, LineX>>, FALSE)>>, FALSE, FALSE) : p \in Nested} \cup {SedCall(<<a, b>>, f, FALSE, FALSE) : a \in Kinds, b \in {Cmd("N"), Cmd("q")}, f \in Files}
                 \cup {SedCall(p, f, FALSE, TRUE) : p \in Identities, f \in Files}
                 \cup {SedCall(<<To(":", "a"), Cmd(k), To("b", "a")>>, <<File([i \in 1..5 |-> LineX], TRUE)>>, FALSE, FALSE) : k \in {"N", "H", "G"}}

-----------------------------------------------------------------------------
(* Texts of sed programs.                                                    *)
\* A piece of a program: its text and what it stands for.
P(text, v) == [text |-> text, v |-> v]
Addresses == {P(<<>>, NoAddress), P(<<"1", "2">>, [NoAddress EXCEPT !.k = "line", !.n = 12]), P(<<"$">>, [NoAddress EXCEPT !.k = "last"]),
              P(<<"0", "~", "3">>, [NoAddress EXCEPT !.k = "step", !.step = 3]),
              P(<<"/", ",", "\\", "/", "+", "/">>, [NoAddress EXCEPT !.k = "re", !.re = <<",", "/", "\\", "+">>]),
              P(<<"\\", "!", "\\", "!", "}", "!">>, [NoAddress EXCEPT !.k = "re", !.re = <<"!", "\\", "}">>]), P(<<"/", "/">>, [NoAddress EXCEPT !.k = "re"])}
PlainPieces == {P(<<k>>, [NewCmd EXCEPT !.k = k]) : k \in {"p", "D"}}
                 \cup {P(<<"q", " ", "2", "5", "7">>, [NewCmd EXCEPT !.k = "q", !.code = 1]), P(<<"Q">>, [NewCmd EXCEPT !.k = "Q"]),
                       P(<<":", " ", "l">>, [NewCmd EXCEPT !.k = ":", !.arg = <<"l">>]), P(<<"b">>, [NewCmd EXCEPT !.k = "b"]),
                       P(<<"t", "l">>, [NewCmd EXCEPT !.k = "t", !.arg = <<"l">>]),
                       P(<<"s", "|", "a", "\\", "|", "|", "\\", "n", "&", "|", "2", "g", "p">>,
                         [NewCmd EXCEPT !.k = "s", !.re = <<"a", "\\", "|">>, !.repl = <<"\n", "&">>, !.flags = [g |-> TRUE, p |-> TRUE, i |-> FALSE, nth |-> 2]]),
                       P(<<"s", "/", "\\", "(", "\\", "b", ")", "\\", ")", "/", "\\", "1", "\\", "q", "/">>,
                         [NewCmd EXCEPT !.k = "s", !.re = <<"(", "\\", "b", "\\", ")", ")">>, !.repl = <<"\\", "1", "\\", "q">>]),
                       P(<<"y", "/", "a", "\\", "/", "a", "/", "x", "y", "z", "/">>, [NewCmd EXCEPT !.k = "y", !.trans = ("a" :> "x") @@ ("/" :> "y")])}
\* A text runs to the end of its line.
TextPieces == {P(<<"a", " ", "}", ";", "\n">>, [NewCmd EXCEPT !.k = "a", !.arg = <<"}", ";">>]),
               P(<<"i", "\\", "\n", " ", "u", "\\", "\n", "v", "\n">>, [NewCmd EXCEPT !.k = "i", !.arg = <<" ", "u", "\n", "v">>])}
Sealed == {P(<<"#", "}", "\n">>, <<>>), P(<<";">>, <<>>), P(<<" ", "\n">>, <<>>)}
Addressed(c, a, b, bang) ==
  P(a.text \o (IF b.text = <<>> THEN <<>> ELSE <<",", " ">> \o b.text) \o (IF bang THEN <<"!", " ">> ELSE <<>>) \o c.text,
    [c.v EXCEPT !.a1 = a.v, !.a2 = b.v, !.neg = bang])
NoPiece == P(<<>>, NoAddress)
Simple == PlainPieces \cup TextPieces
EndedPiece(c) == IF c \in TextPieces THEN <<>> ELSE <<";">>
Braced(cs) == P(<<"{">> \o cs[1].text \o EndedPiece(cs[1]) \o cs[2].text \o <<"}">>, [NewCmd EXCEPT !.k = "{", !.children = <<cs[1].v, cs[2].v>>])
SedScript(cs, sep) == [tool |-> "sed script", ere |-> FALSE, text |-> cs[1].text \o sep.text \o cs[2].text, cmds |-> <<cs[1].v, cs[2].v>>]
LabelL == P(<<":", "l", "\n">>, [NewCmd EXCEPT !.k = ":", !.arg = <<"l">>])
ScriptCases ==
  {SedScript(<<LabelL, Addressed(c, a, b, bang)>>, [text |-> <<>>]) : c \in Simple, a \in Addresses \ {NoPiece}, b \in Addresses, bang \in BOOLEAN}
    \cup {SedScript(<<Braced(<<LabelL, c>>), d>>, sep) : c \in Simple, d \in Simple, sep \in {P(<<"#", "}", "\n">>, <<>>), NoPiece}}
    \cup {SedScript(<<Braced(<<Braced(<<c, d>>), LabelL>>), d>>, sep) : c \in Simple, d \in TextPieces, sep \in Sealed}

TextChars == {"b", "l", ":", ";", "{", "}", "0", "/", "\\", "w"}
TextCases == {[tool |-> "sed text", text |-> s] : s \in UNION {[1..n -> TextChars] : n \in 0..3}
                \cup {<<"{">> \o s : s \in [1..4 -> {"{", "}", "b", ";"}]} \cup {s \o <<"b", "l">> : s \in [1..4 -> {"{", "}", "l", ":"}]}}
BreCases == {[tool |-> "sed bre", p |-> s] : s \in UNION {[1..n -> {"\\", "(", "+", "a"}] : n \in 0..4}}
ReplacementCases == {[tool |-> "sed replacement", p |-> s] : s \in UNION {[1..n -> {"\\", "&", "$", "1", "0", "a", "{"}] : n \in 0..3}}
ParseCases == ScriptCases \cup TextCases \cup BreCases \cup ReplacementCases

-----------------------------------------------------------------------------
(***************************************************************************)
(* Filters of one or two operators over a few leaves, on small inputs.     *)
(***************************************************************************)
LitOf(v) == JqNode("literal", "", <<>>, v, <<>>)
Itself == JqOf("identity", <<>>)
FieldOf(x, name) == JqNode("field", "", name, JqNull, <<x>>)
JqCallOf(op, xs) == JqNode("call", op, <<>>, JqNull, xs)
BinaryOf(op, x, y) == JqNode("binary", op, <<>>, JqNull, <<x, y>>)
Fixed(name, x) == JqNode("fixed", "", name, JqNull, <<x>>)
Dynamic(x, y) == JqOf("dynamic", <<x, y>>)

\* Numbers 0, 1 and 2; texts a and b; [1, 2] and {a: 1, b: [2]}.
JqNum(n) == JqNumber(n)
Txt(s) == JqString(s)
OneTwo == JqArray(<<JqNum(1), JqNum(2)>>)
Ab == JqObject(<<Member(<<"a">>, JqNum(1)), Member(<<"b">>, JqArray(<<JqNum(2)>>))>>)
Inputs == {JqNum(2), OneTwo, Ab, JqNull}
Each(x) == JqOf("iterator", <<x>>)
Two == JqOf("comma", <<LitOf(JqNum(1)), LitOf(JqBool(FALSE))>>)
JqLeaves == {Itself, LitOf(JqNum(1)), LitOf(Txt(<<"a">>)), Each(Itself), FieldOf(Itself, <<"a">>), JqCallOf("empty", <<>>), Two, JqOf("array", <<Each(Itself)>>)}
Unary(L) ==
  UNION {{JqOf("optional", <<x>>), JqOf("group", <<x>>), JqOf("negate", <<x>>), JqOf("array", <<x>>), Each(x), FieldOf(x, <<"b">>),
          JqCallOf("has", <<x>>), JqCallOf("select", <<x>>), JqCallOf("map", <<x>>), JqOf("optional", <<Each(x)>>), JqOf("object", <<Fixed(<<"a">>, x)>>)} : x \in L}
Binary(L, M) ==
  UNION {{JqOf("pipe", <<x, y>>), JqOf("comma", <<x, y>>), JqOf("alternative", <<x, y>>), JqOf("index", <<x, y>>), BinaryOf("+", x, y), BinaryOf("-", x, y), BinaryOf("*", x, y),
          BinaryOf("<", x, y), BinaryOf("and", x, y), BinaryOf("or", x, y), JqOf("object", <<Dynamic(x, y)>>), JqOf("optional", <<JqOf("index", <<x, y>>)>>)} : <<x, y>> \in L \X M}
Few == {Itself, Each(Itself), Two, LitOf(Txt(<<"a">>))}
Keyed == UNION {{JqOf("object", <<Fixed(<<"a">>, x), Fixed(<<"b">>, y), Fixed(<<"a">>, LitOf(JqNum(2)))>>), JqOf("object", <<Fixed(<<"a">>, x), Dynamic(JqOf("comma", <<LitOf(Txt(<<"b">>)), y>>), Itself)>>),
                 JqOf("object", <<Dynamic(x, Two), Dynamic(JqOf("group", <<LitOf(Txt(<<"a">>))>>), y)>>)} : <<x, y>> \in (Few \cup {JqCallOf("empty", <<>>)}) \X Few}
JqPlain == {JqCallOf(op, <<>>) : op \in {"not", "type", "length", "keys"}} \cup {JqOf("array", <<>>), BinaryOf("/", Itself, LitOf(JqNum(2))), BinaryOf("/", LitOf(Txt(<<"a", "b", "a">>)), LitOf(Txt(<<"b">>))), BinaryOf("%", Itself, LitOf(JqNum(2)))}
Filters == JqLeaves \cup JqPlain \cup Unary(JqLeaves) \cup Binary(JqLeaves, JqLeaves) \cup Keyed \cup Unary(Unary(Few)) \cup Binary(Unary({Each(Itself), Two}), Few)
JqCase(f, v) == [tool |-> "jq", filter |-> f, in |-> v]
JqValues ==
  {JqNull, JqBool(TRUE), JqBool(FALSE), JqNum(1), JqNum(2), Txt(<<"a">>), Txt(<<"a", "b">>), JqArray(<<>>), OneTwo, Ab, JqObject(<<>>),
   JqObject(<<Member(<<"b">>, JqArray(<<JqNum(2)>>)), Member(<<"a">>, JqNum(1))>>), JqObject(<<Member(<<"b">>, JqNum(1)), Member(<<"a">>, JqNum(2))>>), JqObject(<<Member(<<"b">>, JqNum(1))>>)}
JqInit ==
  \/ \E f \in Filters, v \in Inputs : call = JqCase(f, v) /\ run = [pc |-> "start"]
  \/ \E a \in JqValues : call = [tool |-> "jqorder", a |-> a, others |-> JqValues] /\ run = [pc |-> "done"]

-----------------------------------------------------------------------------
(***************************************************************************)
(* Trees of up to three operators, and every text of up to four symbols.   *)
(***************************************************************************)
JqOne == LiteralNode(JqNumber(1))
JqDot == JqOf("identity", <<>>)
SmallTrees == {JqDot, JqOne, FieldNode(JqDot, <<"a">>), JqOf("array", <<>>), VariableNode(<<"a">>)}
Over1(L) ==
  UNION {{JqOf("optional", <<x>>), JqOf("group", <<x>>), JqOf("negate", <<x>>), JqOf("array", <<x>>), JqOf("iterator", <<x>>), FieldNode(x, <<"b", "and">>),
          CallNode("map", <<x>>), JqOf("object", <<FixedMember(<<"a">>, x), DynamicMember(x, JqDot)>>)} : x \in L}
Over2(L, M) ==
  {JqOf("index", p) : p \in L \X M} \cup {BinaryNode(op, p[1], p[2]) : op \in {"|", ",", "//", "or", "and", "<=", "-", "*"}, p \in L \X M}
FewTrees == {JqDot, LiteralNode(JqString(<<"a">>)), CallNode("not", <<>>)}
SpelledTrees ==
  LET one == Over1(FewTrees) \cup Over2(FewTrees, {JqDot})
      all == SmallTrees \cup FewTrees \cup Over1(SmallTrees) \cup Over2(SmallTrees, SmallTrees) \cup Over1(one) \cup Over2(one, FewTrees) \cup Over2({JqDot}, one)
  IN {n \in all : Grammatical(n)}
JqSymbols == {".", "a", "1", "-", "/", "?", "[", "]", "=", "|"}
JqParseInit ==
  /\ \/ \E n \in SpelledTrees : call = [tool |-> "jqspell", filter |-> n]
     \/ \E s \in UNION {[1..k -> JqSymbols] : k \in 1..3} \cup [1..4 -> {".", "a", "[", "]", "-"}] : call = [tool |-> "jqtext", text |-> s]
  /\ run = [pc |-> "done"]

-----------------------------------------------------------------------------
(***************************************************************************)
(* Strings of two and three escapes or characters in one file or cut in    *)
(* two, files that do not open or fail, and raw lines around the limit.    *)
(***************************************************************************)
EscapeAtoms == {<<"\\", "u", "8", "0">>, <<"\\", "u", "C", "0">>, <<"\\", "u", "0", "0">>, <<"\\", "u", "8">>, <<"\\", "q">>, <<"\\", "\\">>, <<"x">>}
JqStringsOf(k) == {<<"q">> \o FlattenSeq(s) \o <<"q">> : s \in [1..k -> EscapeAtoms]}
JqFileOf(data) == [open |-> TRUE, data |-> data, fails |-> FALSE]
AbsentFile == [open |-> FALSE, data |-> <<>>, fails |-> FALSE]
BrokenFile(data) == [JqFileOf(data) EXCEPT !.fails = TRUE]
TwoFiles == {<<JqFileOf(<<"x", "x">>), AbsentFile, JqFileOf(<<"x", "q">>)>>, <<BrokenFile(<<"q", "x">>), JqFileOf(<<"x">>)>>, <<JqFileOf(<<"q", "\\", "u", "8">>), JqFileOf(<<"0", "q", "x">>)>>,
             <<JqFileOf([i \in 1..11 |-> "x"]), JqFileOf(<<"x", "x", "x">>)>>, <<JqFileOf([i \in 1..11 |-> "x"]), JqFileOf(<<"x", "x", "x", "x">>)>>}
RawTexts == UNION {[1..k -> {"x", "n"}] : k \in {0, 1, 4, 5}}
JqInputCases ==
  {[tool |-> "jqin", mode |-> "json", files |-> <<JqFileOf(s)>>] : s \in UNION {JqStringsOf(k) : k \in 1..3}} \cup
  {[tool |-> "jqin", mode |-> "json", files |-> <<JqFileOf(<<"q", "\\", "u", "8", "0", "q", "x">>), JqFileOf(s)>>] : s \in JqStringsOf(1)} \cup
  {[tool |-> "jqin", mode |-> m, files |-> fs] : m \in {"json", "raw", "rawslurp"}, fs \in TwoFiles} \cup
  {[tool |-> "jqin", mode |-> "raw", files |-> <<JqFileOf(s)>>] : s \in RawTexts}

-----------------------------------------------------------------------------
(***************************************************************************)
(* Up to three items, filters that fail on some of them, and output limits *)
(* that a few results reach.                                               *)
(***************************************************************************)
JqIt == JqOf("identity", <<>>)
LitNode(v) == JqNode("literal", "", <<>>, v, <<>>)
VarNode(name) == JqNode("variable", "", name, JqNull, <<>>)
SumNode(x, y) == JqNode("binary", "+", <<>>, JqNull, <<x, y>>)
MainFilters ==
  {JqIt, JqOf("iterator", <<JqIt>>), SumNode(JqIt, LitNode(JqNumber(1))), JqOf("comma", <<JqIt, JqOf("iterator", <<JqIt>>)>>), JqNode("call", "empty", <<>>, JqNull, <<>>),
   JqOf("comma", <<VarNode(<<"a">>), JqOf("negate", <<JqIt>>)>>)}
ItemOf(what) == [what |-> what, v |-> JqNull]
ValueItem(v) == [what |-> "value", v |-> v]
MainItems == {ValueItem(JqNumber(3)), ValueItem(JqArray(<<JqNumber(1), JqBool(FALSE)>>)), ItemOf("depth"), ItemOf("missing")}
LastItems == MainItems \cup {ItemOf("parse"), ItemOf("read"), ItemOf("range")}
ItemLists == {<<>>} \cup {<<x>> : x \in LastItems} \cup {<<x, y>> : x \in MainItems, y \in LastItems} \cup {<<x, y, z>> : x \in MainItems, y \in MainItems, z \in MainItems}
BindingOf(name, json, v) == [name |-> name, json |-> json, v |-> v]
BindA == BindingOf(<<"a">>, FALSE, JqString(<<"a">>))
BindBad == BindingOf(<<"a">>, TRUE, JqError("invalid"))
BindBig == BindingOf(<<"a">>, TRUE, JqArray(<<JqNull, JqNull>>))
MainCase(f, items, opts, bs) == [tool |-> "jqmain", filter |-> f, items |-> items, bindings |-> bs, null |-> "n" \in opts, slurp |-> "s" \in opts, raw |-> "r" \in opts, status |-> "e" \in opts,
                                 breaks |-> IF opts = {} THEN 2 ELSE 0]
JqMainCases ==
  {MainCase(f, items, opts, <<BindA>>) : f \in MainFilters, items \in ItemLists, opts \in {{}, {"s"}, {"r", "e"}}} \cup
  {MainCase(f, <<ValueItem(JqNumber(2))>>, opts, bs) : f \in MainFilters, opts \in {{"n"}, {"n", "e"}, {"e"}}, bs \in {<<>>, <<BindBad>>, <<BindA, BindBad>>, <<BindBig>>}}

-----------------------------------------------------------------------------
(* Texts of awk tokens.                                                      *)
TextsUpTo(cs, n) == UNION {[1..k -> cs] : k \in 0..n}
LexCases == {[tool |-> "awklex", text |-> s] : s \in TextsUpTo({"a", "0", ".", "e", "+", "/", "=", ")", " "}, 3) \cup {<<"1">> \o s : s \in [1..3 -> {"e", "0", ".", "+"}]}
               \cup {<<"/">> \o s \o <<"/">> : s \in TextsUpTo({"[", "]", "/", "a"}, 4)} \cup {t \o <<"/", "a", "/">> : t \in {<<"e", "x", "i", "t">>, <<"e", "x", "i">>, <<"]">>, <<"+", "+">>, <<"(">>, <<"!">>, <<";">>, <<"\n">>}}
               \cup TextsUpTo({"*", "=", "!", "~", ">", "&"}, 3)}
JoinCases == {[tool |-> "awkjoin", text |-> s] : s \in {<<"\"">> \o t \o <<"\"">> : t \in TextsUpTo({"\\", "1", "n", "\""}, 4)}
                \cup {<<"/">> \o t \o <<"/">> : t \in TextsUpTo({"\\", "[", "]", ":", "^", "/"}, 3)} \cup {<<"/", "[", "[", ":">> \o t : t \in TextsUpTo({":", "]", "/"}, 4)}}
EscapeCases == {[tool |-> "awkescape", text |-> <<"\\">> \o s] : s \in TextsUpTo({"\\", "1", "x", "a", "8"}, 4)}
AwkLexCases == LexCases \cup JoinCases \cup EscapeCases

-----------------------------------------------------------------------------
(* Trees and texts of awk programs.                                          *)
VarA == Node("var", "a", <<>>)
One == Node("num", "1", <<>>)
BinaryTrees(xs, ys) == {Node("bin", op, <<x, y>>) : op \in {"||", "&&", "~", ">", "concat", "+", "-", "/", "^"}, x \in xs, y \in ys}
                         \cup {Node("assign", "+=", <<x, y>>) : x \in xs, y \in ys} \cup {Node("bin", "in", <<x, VarA>>) : x \in xs}
UnaryTrees(xs) == {Node(k, "", <<x>>) : k \in {"group", "field"}, x \in xs} \cup {Node("un", op, <<x>>) : op \in {"-", "!"}, x \in xs}
                    \cup {Node(k, "++", <<x>>) : k \in {"pre", "post"}, x \in xs} \cup {Node("idx", "a", <<x, One>>) : x \in xs} \cup {Node("call", "f", <<x>>) : x \in xs}
TernaryTrees(xs, ys, zs) == {Node("tern", "", <<x, y, z>>) : x \in xs, y \in ys, z \in zs}
ProperOnly(xs) == {x \in xs : ProperTop(x)}
Leaves == {VarA, One}
Trees1 == ProperOnly(BinaryTrees(Leaves, Leaves) \cup UnaryTrees(Leaves) \cup TernaryTrees({VarA}, {One}, Leaves)) \cup {BareLength}
OverA == ProperOnly(BinaryTrees({VarA}, {VarA}) \cup UnaryTrees({VarA}))
Trees2 == ProperOnly(BinaryTrees(Trees1, Leaves) \cup BinaryTrees(Leaves, Trees1) \cup BinaryTrees(OverA, OverA) \cup UnaryTrees(Trees1) \cup TernaryTrees(Trees1, {VarA}, {One}) \cup TernaryTrees({One}, Trees1, {VarA})
                       \cup TernaryTrees({VarA}, {One}, Trees1) \cup {Node("bin", "in", <<Node("comp", "", <<x, VarA>>), VarA>>) : x \in Trees1})
FunctionF == [Node("function", "f", <<Node("var", "x", <<>>)>>) EXCEPT !.ends = TRUE, !.body = <<Node("return", "", <<Node("var", "x", <<>>)>>)>>]
PatternRule(x) == Node("rule", "", <<x>>)
Program(r) == [rules |-> <<r>>, functions |-> <<FunctionF>>]
WithBody(k, body) == [Node(k, "", <<>>) EXCEPT !.body = body, !.ends = TRUE]
ByLines == [braced |-> FALSE, sep |-> "\n"]
Semicolons == [braced |-> FALSE, sep |-> ";"]
InBraces == [braced |-> TRUE, sep |-> ";"]

Simples == {Node("print", "", <<>>), Node("printf", "", <<One, VarA>>), Node("print", "", <<Node("group", "", <<Node("bin", ">", <<VarA, One>>)>>), VarA>>),
            Node("next", "", <<>>), Node("exit", "", <<One>>), Node("delete", "a", <<>>), Node("expr", "", <<Node("assign", "=", <<VarA, One>>)>>)}
Bodies1 == {<<>>, <<Node("next", "", <<>>)>>, <<Node("print", "", <<>>)>>}
Conditions(bodies, elses) ==
  {Compound("while", <<VarA>>, b, <<>>, e) : b \in bodies, e \in BOOLEAN} \cup {Compound("for", <<NoExpr, VarA, NoExpr>>, b, <<>>, e) : b \in bodies, e \in BOOLEAN}
    \cup {[Compound("forin", <<>>, b, <<>>, e) EXCEPT !.v = "a", !.w = "b"] : b \in bodies, e \in BOOLEAN}
    \cup {Compound("if", <<One>>, b, x, e) : b \in bodies, x \in elses, e \in BOOLEAN}
Bare(s) == s.ends \/ LET last == IF s.els # <<>> THEN s.els ELSE s.body IN last = <<>> \/ ~last[1].ends
Blocks1 == {s \in Conditions(Bodies1, Bodies1) : Bare(s)}
Blocks2 == {s \in Conditions({<<b>> : b \in Blocks1}, {<<>>, <<Node("print", "", <<>>)>>}) : Bare(s)}
ProperHow(s, how) == s.els # <<>> /\ Dangling(s.body) => how.braced
Style == {ByLines, Semicolons, InBraces}

TreeOf(p, how) == [tool |-> "awktree", tree |-> p, how |-> how]
TreeCases == {TreeOf(Program(PatternRule(x)), ByLines) : x \in Trees2}
               \cup {TreeOf(Program(PatternRule(Node("range", "", <<x, y>>))), Semicolons) : x \in Trees1, y \in {VarA}}
StatementCases ==
  {TreeOf(Program(WithBody("rule", <<s, t>>)), how) : s \in Simples \cup Blocks1, t \in Simples, how \in Style}
    \cup UNION {{TreeOf(Program(WithBody("rule", <<s, Node("next", "", <<>>)>>)), how) : how \in {h \in Style : ProperHow(s, h)}} : s \in Blocks2}

AwkWords == {Id("a"), Id("in"), Id("print"), Glued(T("(")), T(")"), T(","), T("++"), T("-"), T(">"), T("$"), T("?"), T(":"), T("["), T("]"), [T("num") EXCEPT !.v = "1"]}
TextsOf(n) == UNION {[1..k -> AwkWords] : k \in 0..n}
AwkTexts == {[tool |-> "awktext", toks |-> t] : t \in TextsOf(3) \cup {<<T("{"), Id("print")>> \o t \o <<T("}")>> : t \in TextsOf(2)}
               \cup {<<T("{"), Id(p)>> \o t \o <<T("}")>> : p \in {"print", "printf"}, t \in [1..5 -> {Id("a"), T("("), T(")"), T(",")}]}}

\* Programs built of parts that may not go together.
Part(b) == <<T("{")>> \o b \o <<T("}")>>
Stmts == {<<Id("break")>>, <<Id("next")>>, <<Id("return")>>, <<Id("f"), Glued(T("(")), Id("a"), T(")")>>, <<Id("x"), Glued(T("(")), T(")")>>, <<Id("f")>>, <<Id("switch")>>,
          <<Id("delete"), Id("f")>>, <<Id("length"), T("("), Id("a"), T(","), Id("a"), T(")")>>, <<Id("a"), T("+"), Id("a"), T("+"), Id("a"), T("+"), Id("a")>>}
WrappedIn(s) == {s, <<Id("while"), T("("), Id("a"), T(")")>> \o s, <<Id("if"), T("("), Id("a"), T(")"), T(";"), Id("else")>> \o s,
               <<Id("for"), T("("), Id("f"), Id("in"), Id("a"), T(")")>> \o s, <<T("$"), T("$"), T("$"), T("$")>> \o s}
Holders == {<<Id("BEGIN")>>, <<Id("a")>>, <<Id("function"), Id("f"), T("("), Id("x"), T(")")>>, <<Id("function"), Id("f"), T("("), Id("f"), T(")")>>,
            <<Id("function"), Id("length"), T("("), T(")")>>}
ProgramTexts == {[tool |-> "awkprog", toks |-> h \o Part(w) \o <<T(";")>> \o g] :
                   h \in Holders, w \in UNION {WrappedIn(s) : s \in Stmts \cup UNION {WrappedIn(s) : s \in Stmts}}, g \in {<<>>, <<Id("function"), Id("f"), T("("), Id("y"), T(")"), T("{"), T("}")>>}}
AwkParseCases == TreeCases \cup StatementCases \cup AwkTexts \cup ProgramTexts

-----------------------------------------------------------------------------
(* Every sequence of operations on a few names, with two calls deep; the     *)
(* limit holds four texts of StoreUnit characters.                           *)
StoreUnit == MaxVariableBytes \div 4
StoreText(n, ch) == [i \in 1..(n * StoreUnit) |-> ch]
StoreCase(globals, params, values) == [tool |-> "awkstore", globals |-> globals, params |-> params, key |-> StoreText(1, "k"), values |-> values]
StoreCases == {StoreCase({"ENVIRON"}, <<"p">>, {AwkNum(StoreText(1, "1"))}),
               StoreCase({"FS", "u"}, <<"p">>, {AwkStr(StoreText(2, "x"))})}

-----------------------------------------------------------------------------
(* Short texts, separators of every kind, and every sequence of changes of a *)
(* short record.                                                             *)
FieldTexts(n, alphabet) == UNION {[1..k -> alphabet] : k \in 0..n}
Regex(cs, least, most, bol) == [cs |-> cs, least |-> least, most |-> most, bol |-> bol]
Sep(k, re) == [k |-> k, re |-> re]
BlankRuns == Sep("blank", Regex({" "}, 1, 9, FALSE))
Comma == Sep("char", Regex({","}, 1, 1, FALSE))
RegexSeps == {Sep("regex", Regex(cs, least, most, bol)) : cs \in {{","}, {",", "a"}}, least \in 0..2, most \in 1..9 \ 3..8, bol \in BOOLEAN}
SplitCases == {[tool |-> "awksplit", text |-> t, fs |-> fs, paragraph |-> p] : t \in FieldTexts(4, {"a", ","}), fs \in RegexSeps, p \in {FALSE}}
                \cup {[tool |-> "awksplit", text |-> t, fs |-> fs, paragraph |-> p] : t \in FieldTexts(4, {"a", ",", "\n"}), fs \in {BlankRuns, Comma}, p \in BOOLEAN}
FieldCases == {[tool |-> "awkfields", fs |-> fs, seps |-> {Comma, BlankRuns}, texts |-> {<<>>, <<"a">>, <<"a", ",">>}] : fs \in {Comma}}

-----------------------------------------------------------------------------
(* Short texts in every separator and every way of arriving.                 *)
InputTexts(n, alphabet) == UNION {[1..k -> alphabet] : k \in 0..n}
InputCase(ops, f, g, in, seps) == [tool |-> "awkin", operands |-> ops, files |-> ("f" :> f @@ "g" :> g @@ "-" :> in), seps |-> seps]
InputFile(v) == [k |-> "file", v |-> v]
OperandOf(k) == [k |-> k, v |-> ""]
AwkInputCases ==
  {InputCase(<<InputFile("f")>>, t, <<>>, <<>>, seps) : t \in InputTexts(4, {"a", "\n"}), seps \in {<<"\n">>, <<"">>, <<"", "\n">>, <<"\n", "">>, <<"a", "">>}}
    \cup {InputCase(ops, <<"a", "\n">>, t, <<"b">>, <<"\n">>) : t \in InputTexts(1, {"a", "\n"}),
           ops \in UNION {[1..k -> {InputFile("f"), InputFile("g"), InputFile("-"), InputFile("missing"), OperandOf("NR"), OperandOf("FNR"), OperandOf("refused")}] : k \in 0..3}}

-----------------------------------------------------------------------------
(* Short texts, replacements and formats.                                    *)
NumberCases == {[tool |-> "awknumber", text |-> t] : t \in FieldTexts(5, {"7", ".", "e", "-"})}
SubstrCases == {[tool |-> "awksubstr", text |-> t, k |-> k] : t \in FieldTexts(3, {"a", "b"}), k \in -2..5}
GsubCases == {[tool |-> "awkgsub", text |-> t, re |-> fs.re, repl |-> r] : t \in FieldTexts(2, {"a", ","}) \cup {<<"a", ",", ",">>, <<",", "a", ",">>}, fs \in RegexSeps, r \in FieldTexts(2, {"&", "\\"}) \cup {<<"\\", "\\", "&">>}}
Bound(k, n) == [k |-> k, n |-> n]
Directive(flags, w, p, verb) == [flags |-> flags, width |-> w, prec |-> p, verb |-> verb]
NoBound == Bound("none", 0)
Directives == {Directive(flags, w, p, verb) : flags \in {<<>>, <<"0">>, <<"-", "#">>}, w \in {NoBound, Bound("num", 7), Bound("num", 77), Bound("star", 0)},
                 p \in {NoBound, Bound("dot", 0), Bound("num", 70), Bound("num", 77), Bound("star", 0)}, verb \in {"s", "g", "x"}}
                \cup {Directive(<<>>, NoBound, NoBound, verb) : verb \in {"%", "a", "u", "d"}}
PrintfCases == {[tool |-> "awkprintf", ds |-> <<d, e>>, args |-> args] : d \in Directives, e \in {Directive(<<>>, NoBound, NoBound, v) : v \in {"%", "d"}},
                  args \in UNION {[1..k -> {7, -7, 77}] : k \in 0..2} \cup {<<7, 0, 7>>, <<7, -7, 0>>}}
CacheCases == {[tool |-> "awkcache", patterns |-> FieldTexts(3, {"a", "b"}) \cup {<<"a", "a", "a", "a">>, <<"a", "a", "a", "a", "a">>}]}

-----------------------------------------------------------------------------
(* Small programs: a jump in a loop of every kind, ranges over all short     *)
(* inputs, expressions with side effects, and comparisons of fields.         *)
AwkProgram(family, rules, functions, records, more) == [tool |-> "awkrun", family |-> family, rules |-> rules, functions |-> functions, records |-> records] @@ more
RuleOf(k, xs, body) == [Node(k, "", xs) EXCEPT !.body = body, !.ends = TRUE]
VarOf(x) == Node("var", x, <<>>)
NumLit(s) == Node("num", s, <<>>)
StrLit(s) == Node("str", s, <<>>)
BinOf(op, a, b) == Node("bin", op, <<a, b>>)
Assigned(x, e) == Node("assign", "=", <<VarOf(x), e>>)
DoExpr(e) == Node("expr", "", <<e>>)
PrintOf(e) == Node("print", "", <<e>>)
Incremented(k) == Node(k, "++", <<VarOf("i")>>)

JumpStatement(j) == IF j = "exit" THEN Node("exit", "", <<Node("un", "-", <<NumLit(<<"3">>)>>)>>) ELSE IF j = "return" THEN Node("return", "", <<StrLit(<<"b">>)>>) ELSE Node(j, "", <<>>)
LoopBody(shape) == <<Compound("if", <<BinOf("==", VarOf("i"), NumLit(FormatAwkNumber(shape.at)))>>, <<JumpStatement(shape.jump)>>, <<>>, TRUE), PrintOf(VarOf("i"))>>
LoopOf(shape) ==
  CASE shape.loop = "while" -> <<DoExpr(Assigned("i", NumLit(<<"0">>))),
                                 Compound("while", <<BinOf("<", VarOf("i"), NumLit(<<"3">>))>>, <<DoExpr(Incremented("post"))>> \o LoopBody(shape), <<>>, TRUE)>>
    [] shape.loop = "for" -> <<Compound("for", <<Assigned("i", NumLit(<<"1">>)), BinOf("<=", VarOf("i"), NumLit(<<"3">>)), Incremented("pre")>>, LoopBody(shape), <<>>, TRUE)>>
    [] shape.loop = "forever" -> <<Compound("for", <<Assigned("i", NumLit(<<"1">>)), NoExpr, Incremented("pre")>>, LoopBody(shape), <<>>, TRUE)>>
    [] OTHER -> <<DoExpr(Node("call", "split", <<StrLit(<<"1", " ", "2", " ", "3">>), VarOf("u")>>)), [Compound("forin", <<>>, LoopBody(shape), <<>>, TRUE) EXCEPT !.v = "i", !.w = "u"]>>
\* The loop in the rule, or in a function called in the middle of an expression that holds temporaries.
JumpProgram(shape, called) ==
  LET arg == Node("call", "f", <<BinOf("concat", StrLit(<<"a">>), StrLit(<<"b">>)), VarOf("w")>>)
      f == [Node("function", "f", <<VarOf("p"), VarOf("q")>>) EXCEPT !.body = LoopOf(shape)]
      action == IF called THEN <<DoExpr(Assigned("x", BinOf("concat", StrLit(<<"x">>), arg)))>> ELSE LoopOf(shape)
  IN AwkProgram("jump", <<RuleOf("rule", <<>>, Append(action, PrintOf(StrLit(<<"y">>)))), RuleOf("END", <<>>, <<PrintOf(StrLit(<<"b">>))>>)>>, <<f>>, <<<<"a">>, <<"b">>>>, [shape |-> shape])
RunShapes == [loop : {"while", "for", "forever", "forin"}, jump : {"break", "continue", "next", "exit", "return"}, at : 1..4]
Sensible(shape, called) == /\ shape.jump = "return" => called
                           /\ shape.loop = "forever" => shape.at <= 3
                           /\ shape.loop = "forever" /\ shape.jump = "continue" => ~called
JumpCases == {JumpProgram(s[1], s[2]) : s \in {t \in RunShapes \X BOOLEAN : Sensible(t[1], t[2])}}

RegexLit(cs) == Node("re", [cs |-> cs, least |-> 1, most |-> 1, bol |-> FALSE], <<>>)
RangeRule == Node("rule", "", <<Node("range", "", <<RegexLit({"a", "x"}), RegexLit({"b", "x"})>>)>>)
SkipRule(k) == RuleOf("rule", <<BinOf("==", VarOf("NR"), NumLit(FormatAwkNumber(k)))>>, <<Node("next", "", <<>>)>>)
RangeRunCases == {AwkProgram("range", <<SkipRule(k), RangeRule>>, <<>>, recs, [skip |-> k]) : k \in {0, 2}, recs \in [1..4 -> {<<"a">>, <<"b">>, <<"x">>, <<"y">>}]}

OrderLeaves == {VarOf("i"), NumLit(<<"0">>), NumLit(<<"1">>), Incremented("post"), Incremented("pre"), Assigned("i", Incremented("post")), Node("assign", "+=", <<VarOf("i"), Incremented("post")>>)}
OrderOps == {"&&", "||", "-", "<"}
OrderPairs == {BinOf(op, a, b) : op \in OrderOps, a \in OrderLeaves, b \in OrderLeaves}
OrderProgram(e) == AwkProgram("order", <<RuleOf("BEGIN", <<>>, <<PrintOf(e), PrintOf(BinOf("-", VarOf("i"), NumLit(<<"0">>)))>>)>>, <<>>, <<>>, [expr |-> e])
OrderCases == {OrderProgram(e) : e \in OrderPairs} \cup {OrderProgram(BinOf(op, a, e)) : op \in OrderOps, a \in {Incremented("post")}, e \in OrderPairs}

CompareTexts == {<<"2">>, <<"1", "0">>, <<"0", "2">>, <<"a">>, <<"2", "a">>}
CompareCases == {AwkProgram("compare", <<RuleOf("rule", <<>>, <<PrintOf(Node("group", "", <<BinOf("<", Node("field", "", <<NumLit(<<"1">>)>>), Node("field", "", <<NumLit(<<"2">>)>>))>>))>>)>>,
                   <<>>, <<l \o <<" ">> \o r>>, [left |-> l, right |-> r]) : l \in CompareTexts, r \in CompareTexts}
CallOf(f, xs) == Node("call", f, xs)
Record == Node("field", "", <<NumLit(<<"0">>)>>)
TextProgram(rec) ==
  LET elem == Node("idx", "u", <<VarOf("i")>>)
      sep == Node("tern", "", <<BinOf(">", VarOf("i"), NumLit(<<"1">>)), StrLit(<<",">>), StrLit(<<>>)>>)
      run0 == Node("re", [cs |-> {"a"}, least |-> 1, most |-> 9, bol |-> FALSE], <<>>)
      body == <<DoExpr(Assigned("n", CallOf("split", <<Record, VarOf("u"), StrLit(<<",">>)>>))), DoExpr(Assigned("s", StrLit(<<>>))),
                Compound("for", <<Assigned("i", NumLit(<<"1">>)), BinOf("<=", VarOf("i"), VarOf("n")), Incremented("post")>>,
                         <<DoExpr(Assigned("s", BinOf("concat", BinOf("concat", VarOf("s"), sep), elem)))>>, <<>>, FALSE),
                PrintOf(VarOf("s")),
                PrintOf(Node("tern", "", <<CallOf("match", <<Record, run0>>), CallOf("substr", <<Record, VarOf("RSTART"), VarOf("RLENGTH")>>), StrLit(<<"y">>)>>)),
                PrintOf(CallOf("index", <<Record, StrLit(<<",">>)>>)),
                PrintOf(CallOf("gsub", <<StrLit(<<",">>), StrLit(<<"x", "b">>)>>)),
                Node("print", "", <<>>),
                Node("delete", "u", <<NumLit(<<"1">>)>>),
                PrintOf(BinOf("in", NumLit(<<"1">>), VarOf("u"))),
                PrintOf(CallOf("length", <<VarOf("u")>>))>>
  IN AwkProgram("text", <<RuleOf("rule", <<>>, body)>>, <<>>, <<rec>>, [x \in {} |-> 0])
TextRunCases == {TextProgram(rec) : rec \in {t \in UNION {[1..k -> {"a", "b", ","}] : k \in 0..4} : Cardinality({i \in DOMAIN t : t[i] = ","}) < 3}}

-----------------------------------------------------------------------------
(* One or two program files on every kind of reader, cancelled at any point. *)
MainCall(options, files, arg, parses, silent) == [tool |-> "awkmain", options |-> options, files |-> files, arg |-> arg, parses |-> parses, silent |-> silent]
Reader(kind, n) == [reader |-> kind, text |-> [i \in 1..n |-> "p"]]
ReaderKinds == {"poll", "deadline", "close", "generic", "nil", "missing"}
AwkMainCases ==
  {MainCall(<<>>, <<Reader(k, n)>>, <<>>, TRUE, silent) : k \in ReaderKinds \ {"nil"}, n \in {0, 2, 5}, silent \in BOOLEAN}
    \cup {MainCall(<<>>, <<Reader(k, 2), Reader(l, n)>>, <<>>, TRUE, FALSE) : k \in {"deadline", "generic"}, l \in {"poll", "close"}, n \in 1..2}
    \cup {MainCall(<<"vx=1", o>>, <<Reader("nil", 0)>>, <<>>, TRUE, FALSE) : o \in {"v", "v1x=", "vf=", "vENVIRON=", "vRS=ab", "vx=1"}}
    \cup {MainCall(<<>>, fs, arg, parses, FALSE) : fs \in {<<>>, [i \in 1..3 |-> Reader("poll", 1)]}, arg \in {<<>>} \cup {<<[i \in 1..n |-> "p"]>> : n \in 3..5}, parses \in BOOLEAN}
AwkRecordCases == [tool : {"awkrec"}, source : {"deadline", "close", "generic", "file"}, records : {2}, silent : BOOLEAN]

=============================================================================

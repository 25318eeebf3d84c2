--------------------------- MODULE MCPathSandbox ----------------------------
(***************************************************************************)
(* Two directories /a and /b with a file or a link in each, and a          *)
(* directory or link /a/b.  The file system spells "B" as "b".             *)
(***************************************************************************)
EXTENDS PathSandbox

MCFold(n) == IF n = "B" THEN "b" ELSE n
MCLocs == {<<"a">>, <<"b">>, <<"a", "a">>, <<"a", "b">>, <<"a", "b", "a">>, <<"b", "a">>}

Dir(n) == [kind |-> "dir", id |-> n, abs |-> FALSE, to |-> <<>>]
File(n) == [kind |-> "file", id |-> n, abs |-> FALSE, to |-> <<>>]
Special(n) == [kind |-> "special", id |-> n, abs |-> FALSE, to |-> <<>>]
Link(n, abs, to) == [kind |-> "link", id |-> n, abs |-> abs, to |-> to]

\* The entries /a/a, /a/b, /a/b/a and /b/a.
Tree(aa, ab, aba, ba) ==
  [l \in MCLocs |-> CASE l = <<"a">> -> Dir(1) [] l = <<"b">> -> Dir(2)
                      [] l = <<"a", "a">> -> aa [] l = <<"a", "b">> -> ab
                      [] l = <<"a", "b", "a">> -> aba [] l = <<"b", "a">> -> ba]

MCTrees ==
  { Tree(File(3), Dir(4), File(5), File(6)),
    Tree(File(3), Dir(4), Nothing, File(3)),
    Tree(Nothing, Nothing, Nothing, File(6)),
    Tree(Link(3, TRUE, <<"b", "a">>), Dir(4), Special(5), Link(6, TRUE, <<"a", "a">>)),
    Tree(Link(3, FALSE, <<Up, "b", "a">>), Link(4, TRUE, <<"b">>), Nothing, File(6)),
    Tree(Link(3, FALSE, <<"b", "a">>), Link(4, FALSE, <<Up, "b">>), Nothing, Link(6, FALSE, <<"a">>)),
    Tree(Link(3, FALSE, <<"b">>), Dir(4), Link(5, FALSE, <<Up, "a">>), Special(6)),
    Tree(File(3), Link(4, FALSE, <<Up>>), Nothing, Link(6, TRUE, <<"a", "b", "a">>)) }

Grant(path, mode) == [path |-> path, mode |-> mode]
Config(gs) == [grants |-> gs, prefix |-> <<>>, writable |-> TRUE]

MCConfigs ==
  { Config(<<Grant(<<"a">>, "rw")>>),
    Config(<<Grant(<<"a">>, "rw"), Grant(<<"b">>, "ro")>>),
    Config(<<Grant(<<"a">>, "rw"), Grant(<<"a", "b">>, "ro")>>),
    Config(<<Grant(<<"a">>, "ro"), Grant(<<"a", "b">>, "rw"), Grant(<<"b">>, "rw")>>),
    Config(<<Grant(<<"a", "b">>, "rw"), Grant(<<"b">>, "ro")>>),
    Config(<<Grant(<<"b">>, "rw"), Grant(<<"a">>, "rw"), Grant(<<"a">>, "ro")>>),
    [Config(<<Grant(<<"a">>, "rw"), Grant(<<"b">>, "rw")>>) EXCEPT !.prefix = <<"a">>],
    [Config(<<Grant(<<"a">>, "rw")>>) EXCEPT !.writable = FALSE] }

MCOperands == {<<"a", "a">>, <<"a", "b", "a">>, <<"a", "B", "a">>, <<"b", "a">>, <<"a">>}

MCEntries == {Nothing, File(0), Dir(0), Special(0), Link(0, TRUE, <<"b">>), Link(0, FALSE, <<Up, "a">>)}

=============================================================================

---------------------------- MODULE PathSandbox -----------------------------
(***************************************************************************)
(* The path sandbox: how an absolute path is matched against the granted   *)
(* roots, how symbolic links that lead from one root to another are        *)
(* followed, and how files are opened, truncated and removed               *)
(* (allowedpaths/sandbox.go, path_match.go, write_open.go, check.go,       *)
(* lexical.go and internal/writeopen).                                     *)
(*                                                                         *)
(* One operation is first checked (CheckPath) and then executed.  Every    *)
(* system call is a step, and between two steps other processes may change *)
(* the tree, except for the directories of the roots.  A path is a         *)
(* sequence of names; a location is a path without links, spelled as the   *)
(* file system spells it.  Operations of os.Root are external and atomic.  *)
(***************************************************************************)
EXTENDS Integers, Sequences, FiniteSets, SequencesExt

CONSTANTS
  Locs,         \* bound: the locations of the tree below /
  Trees,        \* initial trees
  Configs,      \* [grants: a sequence of [path, mode], prefix, writable]
  Operands,     \* absolute paths operations are called with
  Entries,      \* what others may put in place of an entry
  Fold(_),      \* how the file system spells a name
  MaxHops,      \* maxSymlinkHops
  MaxLinks,     \* links the kernel and os.Root follow
  MaxChanges    \* bound: changes by other processes

EntryKinds == {"none", "dir", "file", "special", "link"}
Entry == [kind : EntryKinds, id : Nat, abs : BOOLEAN, to : Seq(STRING)]

ASSUME SandboxAssumption ==
  /\ Trees \subseteq [Locs -> Entry] /\ Entries \subseteq Entry
  /\ MaxHops \in Nat /\ MaxLinks \in Nat /\ MaxChanges \in Nat

VARIABLES
  fs,       \* the tree
  grants,   \* the configuration
  roots,    \* Sandbox.roots
  prefix,   \* Sandbox.hostPrefix
  writable, \* not Sandbox.readOnly
  req,      \* the operation: kind, path, create or trailing slash
  phase,    \* "check", "examine" (a Stat before the open) or "exec"
  pc,
  w,        \* the walk: path, hops, component; the root and path it found
  fd,       \* the directory the no-follow walk has open
  seen,     \* the file openRegular examined
  verdict,  \* what CheckPath answered
  result,   \* how the operation ended, and on which location
  changes

sandbox == <<grants, roots, prefix, writable>>
vars == <<fs, sandbox, req, phase, pc, w, fd, seen, verdict, result, changes>>

Up == ".."
Nothing == [kind |-> "none", id |-> 0, abs |-> FALSE, to |-> <<>>]
Slash == [Nothing EXCEPT !.kind = "dir"]
At(l) == IF l = <<>> THEN Slash ELSE IF l \in DOMAIN fs THEN fs[l] ELSE Nothing
NoWalk == [abs |-> <<>>, hops |-> 0, i |-> 1, root |-> 0, rel |-> <<>>, goal |-> "none"]

-----------------------------------------------------------------------------
\* What the kernel and os.Root make of a path, below the directory base.  In a
\* rooted walk, absolute links and .. above base are escapes.
Lookup(base, path, follow, rooted) ==
  LET walk[at \in Seq(STRING), rest \in Seq(STRING), links \in 0..MaxLinks] ==
        LET End(st) == [st |-> st, loc |-> base \o at]
            next == Append(at, Fold(Head(rest)))
            e == At(base \o next)
            last == Len(rest) = 1
        IN CASE rest = <<>> -> End("ok")
             [] rest # <<>> /\ Head(rest) = Up ->
                  IF at # <<>> THEN walk[Front(at), Tail(rest), links]
                  ELSE IF rooted THEN End("escape") ELSE walk[at, Tail(rest), links]
             [] rest # <<>> /\ Head(rest) # Up ->
                  IF e.kind = "link" /\ (follow \/ ~last)
                  THEN IF e.abs /\ rooted THEN End("escape")
                       ELSE IF links = 0 THEN End("loop")
                       ELSE walk[IF e.abs THEN <<>> ELSE at, e.to \o Tail(rest), links - 1]
                  ELSE IF e.kind = "dir" \/ (last /\ e.kind # "none") THEN walk[next, Tail(rest), links]
                  ELSE End("missing")
  IN walk[<<>>, path, MaxLinks]

InRoot(i, rel, follow) == Lookup(roots[i].dir, rel, follow, TRUE)

\* filepath.Clean of an absolute path.
Clean(path) ==
  LET clean[acc \in Seq(STRING), rest \in Seq(STRING)] ==
        CASE rest = <<>> -> acc
          [] rest # <<>> /\ Head(rest) = Up -> clean[IF acc = <<>> THEN acc ELSE Front(acc), Tail(rest)]
          [] rest # <<>> /\ Head(rest) # Up -> clean[Append(acc, Head(rest)), Tail(rest)]
  IN clean[<<>>, path]

-----------------------------------------------------------------------------
\* New: grants that cannot be opened as a directory are skipped.
Opened(g) == LET r == Lookup(<<>>, g.path, TRUE, FALSE) IN
  [ok |-> r.st = "ok" /\ At(r.loc).kind = "dir", root |-> [path |-> g.path, dir |-> r.loc, mode |-> g.mode]]
New(gs) == LET open == SelectSeq(gs, LAMBDA g : Opened(g).ok) IN [i \in DOMAIN open |-> Opened(open[i]).root]

\* resolvePath: the longest of the roots that contain the path.
Longest(paths, abs) ==
  LET within == {i \in DOMAIN paths : IsPrefix(paths[i], abs)}
  IN {i \in within : \A j \in within : Len(paths[j]) <= Len(paths[i])}
First(S) == IF S = {} THEN 0 ELSE CHOOSE i \in S : \A j \in S : i <= j

\* preferReadOnlyRoot decides between equal paths.
ReadOnlyFirst(rs, S) == LET ro == {i \in S : rs[i].mode = "ro"} IN First(IF ro = {} THEN S ELSE ro)

Paths(rs) == [i \in DOMAIN rs |-> rs[i].path]
Resolve(abs) == First(Longest(Paths(roots), abs))
ResolveCanonical(abs) == ReadOnlyFirst(roots, Longest([i \in DOMAIN roots |-> roots[i].dir], abs))
Rel(i, abs) == SubSeq(abs, Len(roots[i].path) + 1, Len(abs))

\* LexicalPolicy.CheckPath: the same without a file system.
LexicalDenies(path, write) ==
  LET best == ReadOnlyFirst(grants, Longest(Paths(grants), path))
  IN best = 0 \/ (write /\ grants[best].mode = "ro")

-----------------------------------------------------------------------------
Kind == IF phase = "examine" THEN "read" ELSE req.kind
Writes == {"write", "truncate", "remove"}
PreserveLast == Kind \in {"lstat", "remove"}

Links(e) == Cardinality({l \in DOMAIN fs : fs[l].kind = "file" /\ fs[l].id = e.id})

Goto(label, walk) ==
  /\ pc' = label /\ w' = walk
  /\ UNCHANGED <<fs, sandbox, req, phase, fd, seen, verdict, result, changes>>

Finish(st, loc) ==
  /\ result' = [st |-> st, loc |-> loc, id |-> At(loc).id]
  /\ pc' = "done" /\ w' = NoWalk
  /\ UNCHANGED <<phase, seen, verdict>>

NextPhase(name) == phase' = name /\ pc' = "begin" /\ w' = NoWalk

\* The end of openRegular.
AsExamined(loc) == At(loc).kind = "file" /\ At(loc).id = seen

\* A call of the sandbox returns.
Conclude(st, loc) ==
  /\ CASE phase = "check" ->
            /\ verdict' = st
            /\ NextPhase(IF req.kind \in {"write", "regular"} THEN "examine" ELSE "exec")
            /\ UNCHANGED <<seen, result>>
       [] phase = "examine" /\ st = "ok" /\ At(loc).kind # "file" -> Finish("denied", loc)
       [] phase = "examine" /\ st # "ok" /\ req.kind = "regular" -> Finish(st, loc)
       [] phase = "examine" /\ (IF st = "ok" THEN At(loc).kind = "file" ELSE req.kind = "write") ->
            /\ seen' = At(loc).id /\ NextPhase("exec")
            /\ UNCHANGED <<verdict, result>>
       [] phase = "exec" ->
            Finish(IF st = "ok" /\ req.kind = "regular" /\ ~AsExamined(loc) THEN "denied" ELSE st, loc)
  /\ UNCHANGED <<sandbox, req, fd, changes>>

Stays(st) == Conclude(st, <<>>) /\ UNCHANGED fs

-----------------------------------------------------------------------------
StartWalk(goal) == [NoWalk EXCEPT !.abs = req.path, !.goal = goal]

\* Open, Stat, Lstat and the others resolve the path; what writes also needs a
\* writable sandbox and a read-write root, and goes on with the walk.
Begin ==
  /\ pc = "begin"
  /\ LET i == Resolve(req.path) IN
       IF i = 0 \/ (Kind \in Writes /\ (~writable \/ roots[i].mode # "rw")) THEN Stays("denied")
       ELSE IF Kind \in Writes THEN Goto("walk", StartWalk("mode"))
       ELSE Goto("primary", [NoWalk EXCEPT !.root = i, !.rel = Rel(i, req.path)])

\* The operation on the os.Root; an escape is looked at by the walk.  A check
\* does not mind a file that is missing.
Primary ==
  /\ pc = "primary"
  /\ LET r == InRoot(w.root, w.rel, ~PreserveLast) IN
       IF r.st = "escape" THEN Goto("walk", StartWalk("open"))
       ELSE Conclude(IF phase = "check" THEN "ok" ELSE r.st, r.loc) /\ UNCHANGED fs

Fallback ==
  /\ pc = "fallback"
  /\ LET r == InRoot(w.root, w.rel, ~PreserveLast) IN
       Conclude(IF r.st = "escape" THEN "denied" ELSE r.st, r.loc) /\ UNCHANGED fs

\* isWithinRoot, the modes and the canonical root of what the walk found.
ModeAllows(found, rel) ==
  LET i == Resolve(req.path)
      canonical == ResolveCanonical(roots[found].dir \o rel)
  IN /\ \/ IsPrefix(roots[i].path, roots[found].path \o rel)
        \/ IsPrefix(roots[i].dir, roots[found].dir \o rel)
     /\ roots[found].mode = "rw"
     /\ canonical # 0 => roots[canonical].mode = "rw"

\* The walk has come to its end at rel below a root.
Found(i, rel) ==
  CASE w.goal = "open" /\ phase = "check" -> Stays("ok")
    [] w.goal = "open" /\ phase # "check" -> Goto("fallback", [w EXCEPT !.root = i, !.rel = rel])
    [] w.goal = "mode" /\ ModeAllows(i, rel) ->
         Goto("identity", [w EXCEPT !.root = i, !.rel = rel, !.i = 0, !.goal = "operand"])
    [] w.goal = "mode" /\ ~ModeAllows(i, rel) -> Stays("denied")
    [] w.goal = "slash" -> Goto("reject", [w EXCEPT !.i = 1])

\* resolveRootFollowingSymlinks: one Lstat.
Walk ==
  /\ pc = "walk"
  /\ LET i == Resolve(w.abs)
         rel == Rel(i, w.abs)
         r == InRoot(i, SubSeq(rel, 1, w.i), FALSE)
     IN IF i = 0 THEN Stays("denied")
        ELSE IF w.i > Len(rel) \/ (PreserveLast /\ w.goal # "slash" /\ w.i = Len(rel)) \/ r.st # "ok"
             THEN Found(i, rel)
        ELSE IF At(r.loc).kind = "link" THEN Goto("readlink", w)
        ELSE Goto("walk", [w EXCEPT !.i = @ + 1])

\* Mutant: links are followed without counting them.
UncountedHop(h) == h

CountedHop(h) == h + 1

HopLimit == MaxHops

\* One Readlink: the walk goes on with the target, or has had enough.
Readlink ==
  /\ pc = "readlink"
  /\ LET i == Resolve(w.abs)
         rel == Rel(i, w.abs)
         r == InRoot(i, SubSeq(rel, 1, w.i), FALSE)
         parent == SubSeq(w.abs, 1, Len(roots[i].path) + w.i - 1)
         target == At(r.loc)
         path == Clean((IF target.abs THEN <<>> ELSE parent) \o target.to \o SubSeq(rel, w.i + 1, Len(rel)))
     IN IF r.st # "ok" \/ target.kind # "link" \/ w.hops = HopLimit THEN Stays("denied")
        ELSE Goto("walk", [w EXCEPT !.abs = IF prefix = <<>> \/ IsStrictPrefix(prefix, path) THEN path
                                            ELSE prefix \o path,
                                    !.hops = CountedHop(@), !.i = 1])

-----------------------------------------------------------------------------
\* reachesReadOnlyRoot compares the directories on the way, of the operand and
\* of what the walk found, with those of the read-only roots.
ReadOnlyDirs == {roots[i].dir : i \in {j \in DOMAIN roots : roots[j].mode = "ro"}}

\* A trailing slash makes Remove resolve the last component as well.
ModeChecked ==
  IF phase = "exec" /\ req.kind = "remove" /\ req.flag THEN Goto("walk", StartWalk("slash"))
  ELSE Goto("reject", [w EXCEPT !.i = 1])

Identity ==
  /\ pc = "identity"
  /\ LET operand == w.goal = "operand"
         i == IF operand THEN Resolve(req.path) ELSE w.root
         rel == IF operand THEN Rel(i, req.path) ELSE w.rel
         r == InRoot(i, SubSeq(rel, 1, w.i), ~(PreserveLast /\ w.i = Len(rel)))
     IN IF w.i <= Len(rel) /\ r.st = "ok" /\ ReadOnlyDirs # {}
        THEN IF r.loc \in ReadOnlyDirs THEN Stays("denied") ELSE Goto("identity", [w EXCEPT !.i = @ + 1])
        ELSE IF operand THEN Goto("identity", [w EXCEPT !.i = 0, !.goal = "found"])
        ELSE ModeChecked

OwnRoot == Resolve(req.path)
OwnRel == Rel(OwnRoot, req.path)

\* rejectSymlinkPathComponents
Reject ==
  /\ pc = "reject"
  /\ LET last == Len(OwnRel) - (IF req.kind = "remove" THEN 1 ELSE 0)
         r == InRoot(OwnRoot, SubSeq(OwnRel, 1, w.i), FALSE)
     IN IF w.i <= last /\ r.st = "ok"
        THEN IF At(r.loc).kind = "link" THEN Stays("denied") ELSE Goto("reject", [w EXCEPT !.i = @ + 1])
        ELSE IF phase = "check" THEN Goto("target", w)
        ELSE IF OwnRel = <<>> THEN Stays("denied")
        ELSE /\ pc' = "openat" /\ w' = [w EXCEPT !.i = 1]
             /\ fd' = [loc |-> roots[OwnRoot].dir, id |-> At(roots[OwnRoot].dir).id]
             /\ UNCHANGED <<fs, sandbox, req, phase, seen, verdict, result, changes>>

\* What CheckPath minds about an existing target of a write.
CheckTarget(e) == e.kind # "file" \/ Links(e) > 1

Target ==
  /\ pc = "target"
  /\ LET r == InRoot(OwnRoot, OwnRel, FALSE)
         e == At(r.loc)
     IN IF r.st = "ok" /\ (IF req.kind = "remove" THEN e.kind = "dir" ELSE CheckTarget(e))
        THEN Stays("denied") ELSE Stays("ok")

-----------------------------------------------------------------------------
\* writeopen: openat of one component after the other, following no link.  A
\* directory that was removed while it is open is empty.
Below == Append(fd.loc, Fold(OwnRel[w.i]))
StillThere == At(fd.loc).kind = "dir" /\ At(fd.loc).id = fd.id
Here == IF StillThere THEN At(Below) ELSE Nothing

\* Mutant: openat without O_NOFOLLOW.
EnterFollowing ==
  LET r == Lookup(<<>>, Append(fd.loc, OwnRel[w.i]), TRUE, FALSE)
  IN IF r.st = "ok" THEN r.loc ELSE Below

EnterNoFollow == Below

OpenDirAt ==
  /\ pc = "openat" /\ w.i < Len(OwnRel)
  /\ IF At(EnterNoFollow).kind # "dir" \/ Here = Nothing THEN Stays("error")
     ELSE /\ fd' = [loc |-> EnterNoFollow, id |-> At(EnterNoFollow).id]
          /\ w' = [w EXCEPT !.i = @ + 1]
          /\ UNCHANGED <<fs, sandbox, req, phase, pc, seen, verdict, result, changes>>

Fresh == 10 + 2 * changes   \* others take the odd numbers

\* What is made of an open file: hard links are refused, and Truncate takes only
\* regular files.
OpenedFile(e) ==
  IF (e.kind = "special" /\ req.kind = "truncate") \/ (e.kind = "file" /\ Links(e) > 1) THEN "denied" ELSE "ok"

\* openWriteFile and Truncate: the last openat, and what is done with the
\* descriptor it returns.
OpenAt ==
  /\ pc = "openat" /\ w.i = Len(OwnRel) /\ req.kind # "remove"
  /\ CASE Here.kind = "none" /\ req.flag /\ StillThere /\ Below \in Locs ->
            /\ fs' = [fs EXCEPT ![Below] = [Nothing EXCEPT !.kind = "file", !.id = Fresh]]
            /\ Conclude("ok", Below)
       [] Here.kind = "none" /\ ~(req.flag /\ StillThere /\ Below \in Locs) -> Stays("missing")
       [] Here.kind \in {"link", "dir"} -> Stays("denied")
       [] Here.kind \in {"special", "file"} -> Conclude(OpenedFile(Here), Below) /\ UNCHANGED fs

\* Unlink: fstatat, then unlinkat.  With a trailing slash (req.flag) nothing is
\* removed, whatever the entry is.
FstatAt ==
  /\ pc = "openat" /\ w.i = Len(OwnRel) /\ req.kind = "remove"
  /\ IF Here.kind = "none" THEN Stays("missing")
     ELSE IF Here.kind = "dir" \/ req.flag THEN Stays("denied")
     ELSE Goto("unlinkat", w)

UnlinkAt ==
  /\ pc = "unlinkat"
  /\ IF Here.kind \in {"none", "dir"} THEN Stays("missing")
     ELSE fs' = [fs EXCEPT ![Below] = Nothing] /\ Conclude("ok", Below)

-----------------------------------------------------------------------------
\* Another process replaces an entry; a directory has to be empty.
Change(l, e) ==
  /\ pc # "done" /\ changes < MaxChanges
  /\ \A i \in DOMAIN roots : ~IsPrefix(l, roots[i].dir)
  /\ At(Front(l)).kind = "dir" /\ \A m \in Locs : IsStrictPrefix(l, m) => fs[m].kind = "none"
  /\ fs' = [fs EXCEPT ![l] = [e EXCEPT !.id = IF e = Nothing THEN 0 ELSE Fresh + 1]]
  /\ fs[l].kind # e.kind \/ e.kind \in {"file", "link"}
  /\ changes' = changes + 1
  /\ UNCHANGED <<sandbox, req, phase, pc, w, fd, seen, verdict, result>>

Step ==
  \/ Begin \/ Primary \/ Fallback \/ Walk \/ Readlink \/ Identity \/ Reject \/ Target
  \/ OpenDirAt \/ OpenAt \/ FstatAt \/ UnlinkAt

Done == pc = "done" /\ UNCHANGED vars

Next == Step \/ Done \/ \E l \in Locs, e \in Entries : Change(l, e)

\* flag: create the file (write, truncate), or a trailing slash (remove).
Requests ==
  [kind : {"read", "lstat", "regular"}, path : Operands, flag : {FALSE}]
    \cup [kind : {"truncate", "remove"}, path : Operands, flag : BOOLEAN]
    \cup [kind : {"write"}, path : Operands, flag : {TRUE}]

Init ==
  /\ fs \in Trees
  /\ \E c \in Configs : grants = c.grants /\ prefix = c.prefix /\ writable = c.writable
  /\ roots = New(grants)
  /\ req \in Requests
  /\ phase = "check" /\ pc = "begin" /\ w = NoWalk
  /\ fd = [loc |-> <<>>, id |-> 0] /\ seen = 0
  /\ verdict = "none" /\ result = [st |-> "none", loc |-> <<>>, id |-> 0]
  /\ changes = 0

Spec == Init /\ [][Next]_vars

-----------------------------------------------------------------------------
Outcomes == {"none", "ok", "denied", "error", "missing", "loop"}

\* The file system keeps its shape under changes by others, and the walk stays within its hops.
TypeOK ==
  /\ fs \in [Locs -> Entry]
  /\ phase \in {"check", "examine", "exec"}
  /\ pc \in {"begin", "primary", "fallback", "walk", "readlink", "identity", "reject", "target", "openat",
             "unlinkat", "done"}
  /\ w.hops \in 0..MaxHops /\ w.root \in 0..Len(roots) /\ w.i \in Nat
  /\ verdict \in Outcomes /\ result.st \in Outcomes
  /\ changes \in 0..MaxChanges

\* Where an operation succeeds, it has reached a file below the directory of a
\* root; and what was opened for writing, truncated or removed belongs to a
\* read-write root, however the links on the way were changed meanwhile, and
\* however the path was spelled.
Confined ==
  result.st = "ok" =>
    LET i == ResolveCanonical(result.loc) IN i # 0 /\ (req.kind \in Writes => writable /\ roots[i].mode = "rw")

\* "checked using the same helpers as execution": while nobody changes the tree,
\* CheckPath denies exactly what the operation is then denied.
CheckAgrees ==
  pc = "done" /\ changes = 0 /\ req.kind # "regular" /\ ~(req.kind = "remove" /\ req.flag) =>
    (verdict = "denied" <=> result.st = "denied")

\* If every grant could be opened, the check without a file system denies
\* nothing that an operation is allowed.
LexicalAgrees ==
  result.st = "ok" /\ Len(roots) = Len(grants) => ~LexicalDenies(req.path, req.kind \in Writes)

\* How far the operation has come, most significant first.
Stage ==
  CASE pc = "begin" -> 0
    [] pc = "primary" -> 1
    [] pc \in {"walk", "readlink"} /\ w.goal # "slash" -> 2
    [] pc \in {"fallback", "identity"} /\ w.goal # "found" -> 3
    [] pc = "identity" /\ w.goal = "found" -> 4
    [] pc \in {"walk", "readlink"} /\ w.goal = "slash" -> 5
    [] pc = "reject" -> 6
    [] pc \in {"target", "openat"} -> 7
    [] pc = "unlinkat" -> 8
    [] pc = "done" -> 9

Position ==
  << CHOOSE n \in 1..3 : <<"check", "examine", "exec">>[n] = phase, Stage, w.hops,
     2 * w.i + (IF pc = "readlink" THEN 1 ELSE 0) >>

Before(p, q) == \E n \in 1..4 : p[n] < q[n] /\ \A m \in 1..(n - 1) : p[m] = q[m]

\* Every system call brings the operation forward, in an order without infinite
\* ascents: a link starts the walk of resolveRootFollowingSymlinks again from
\* the first component, but only maxSymlinkHops times, although links may form
\* a cycle across roots and others change them on the way.  As no step but the
\* end is a deadlock, every operation ends.
Forward == [][changes' = changes => Before(Position, Position')]_vars

\* An operation reaches only what its roots grant, however links change on the
\* way, and both checks of a path, with a file system and without, agree with
\* what it is then allowed.
PathsTrue ==
  /\ TypeOK
  /\ Confined
  /\ CheckAgrees
  /\ LexicalAgrees

=============================================================================

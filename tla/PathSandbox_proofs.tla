------------------------- MODULE PathSandbox_proofs -------------------------
(***************************************************************************)
(* Every operation of the sandbox ends, for any tree, grants, operands and *)
(* changes by others, and however often the links on the way lead from one *)
(* root to another: each of its system calls brings it forward in an order *)
(* that has no infinite ascents, because the links it follows are counted. *)
(***************************************************************************)
EXTENDS PathSandbox, TLAPS

Phases == {"check", "examine", "exec"}
PCs == {"begin", "primary", "fallback", "walk", "readlink", "identity", "reject", "target", "openat",
        "unlinkat", "done"}
Goals == {"none", "open", "mode", "operand", "found", "slash"}

WalkFields == {"abs", "hops", "i", "root", "rel", "goal"}

\* What the walk is for determines where it goes on when it has come to its end.
WalkTyped ==
  /\ DOMAIN w = WalkFields
  /\ w.hops \in 0..MaxHops /\ w.i \in Nat /\ w.goal \in Goals
  /\ pc \in {"walk", "readlink"} => w.goal \in {"open", "mode", "slash"}
  /\ pc = "fallback" => w.goal = "open"
  /\ pc = "identity" => w.goal \in {"operand", "found"}

IInv ==
  /\ fs \in [Locs -> Entry]
  /\ phase \in Phases /\ pc \in PCs
  /\ req.kind \in {"read", "lstat", "regular", "truncate", "remove", "write"}
  /\ phase = "examine" => req.kind \in {"regular", "write"}
  /\ WalkTyped
  /\ changes \in 0..MaxChanges

Advances == Before(Position, Position')

-----------------------------------------------------------------------------
PhaseNo(ph) == IF ph = "check" THEN 1 ELSE IF ph = "examine" THEN 2 ELSE 3

StageOf(label, goal) ==
  CASE label = "begin" -> 0
    [] label = "primary" -> 1
    [] label \in {"walk", "readlink"} /\ goal # "slash" -> 2
    [] label \in {"fallback", "identity"} /\ goal # "found" -> 3
    [] label = "identity" /\ goal = "found" -> 4
    [] label \in {"walk", "readlink"} /\ goal = "slash" -> 5
    [] label = "reject" -> 6
    [] label \in {"target", "openat"} -> 7
    [] label = "unlinkat" -> 8
    [] label = "done" -> 9

Sub(label, i) == 2 * i + (IF label = "readlink" THEN 1 ELSE 0)

\* The position of an operation, from its phase, its label and its walk.
LEMMA PositionIs ==
  /\ phase \in Phases => Position = <<PhaseNo(phase), StageOf(pc, w.goal), w.hops, Sub(pc, w.i)>>
  /\ phase' \in Phases => Position' = <<PhaseNo(phase'), StageOf(pc', w'.goal), w'.hops, Sub(pc', w'.i)>>
<1>1. ASSUME NEW ph \in Phases
      PROVE  (CHOOSE n \in 1..3 : <<"check", "examine", "exec">>[n] = ph) = PhaseNo(ph)
  <2>1. \E n \in 1..3 : <<"check", "examine", "exec">>[n] = ph
    BY DEF Phases
  <2>2. \A n \in 1..3 : <<"check", "examine", "exec">>[n] = ph => n = PhaseNo(ph)
    BY DEF Phases, PhaseNo
  <2> QED
    BY <2>1, <2>2
<1> QED
  BY <1>1 DEF Position, Stage, StageOf, Sub

\* The stages in their order.
LEMMA StageIs ==
  /\ \A goal : /\ StageOf("begin", goal) = 0 /\ StageOf("primary", goal) = 1
               /\ StageOf("reject", goal) = 6 /\ StageOf("target", goal) = 7 /\ StageOf("openat", goal) = 7
               /\ StageOf("unlinkat", goal) = 8 /\ StageOf("done", goal) = 9
  /\ \A goal \in {"open", "mode"} : StageOf("walk", goal) = 2 /\ StageOf("readlink", goal) = 2
  /\ StageOf("fallback", "open") = 3 /\ StageOf("identity", "operand") = 3
  /\ StageOf("identity", "found") = 4
  /\ StageOf("walk", "slash") = 5 /\ StageOf("readlink", "slash") = 5
BY DEF StageOf

\* A later phase, or a later stage of the same phase, is further on.
LEMMA Further ==
  ASSUME phase \in Phases, phase' \in Phases
  PROVE  /\ PhaseNo(phase) < PhaseNo(phase') => Advances
         /\ phase' = phase /\ StageOf(pc, w.goal) < StageOf(pc', w'.goal) => Advances
         /\ /\ phase' = phase /\ StageOf(pc', w'.goal) = StageOf(pc, w.goal)
            /\ w.hops < w'.hops \/ (w'.hops = w.hops /\ Sub(pc, w.i) < Sub(pc', w'.i))
            => Advances
<1>1. ASSUME NEW a, NEW b, NEW c, NEW d, NEW a2, NEW b2, NEW c2, NEW d2
      PROVE  /\ a < a2 => Before(<<a, b, c, d>>, <<a2, b2, c2, d2>>)
             /\ a = a2 /\ b < b2 => Before(<<a, b, c, d>>, <<a2, b2, c2, d2>>)
             /\ a = a2 /\ b = b2 /\ c < c2 => Before(<<a, b, c, d>>, <<a2, b2, c2, d2>>)
             /\ a = a2 /\ b = b2 /\ c = c2 /\ d < d2 => Before(<<a, b, c, d>>, <<a2, b2, c2, d2>>)
  BY DEF Before
<1>2. Advances <=> Before(<<PhaseNo(phase), StageOf(pc, w.goal), w.hops, Sub(pc, w.i)>>,
                          <<PhaseNo(phase'), StageOf(pc', w'.goal), w'.hops, Sub(pc', w'.i)>>)
  BY PositionIs DEF Advances
<1> QED
  BY <1>1, <1>2

-----------------------------------------------------------------------------
\* What a step other than a change by others has to do.
Good ==
  /\ Advances
  /\ phase' \in Phases /\ pc' \in PCs /\ req' = req /\ changes' = changes
  /\ phase' = "examine" => req.kind \in {"regular", "write"}
  /\ WalkTyped'

\* The walk a phase begins without.
LEMMA NoWalkIs ==
  DOMAIN NoWalk = WalkFields /\ NoWalk.hops = 0 /\ NoWalk.i = 1 /\ NoWalk.goal = "none"
  BY DEF NoWalk, WalkFields

\* The fields of the walks a step may go on with.
LEMMA WalksTyped ==
  ASSUME NEW r, DOMAIN r = WalkFields, NEW a, NEW h, NEW n, NEW x, NEW y, NEW g
  PROVE  /\ LET q == [r EXCEPT !.abs = a, !.goal = g] IN
            DOMAIN q = WalkFields /\ q.hops = r.hops /\ q.i = r.i /\ q.goal = g
         /\ LET q == [r EXCEPT !.root = x, !.rel = y] IN
            DOMAIN q = WalkFields /\ q.hops = r.hops /\ q.i = r.i /\ q.goal = r.goal
         /\ LET q == [r EXCEPT !.root = x, !.rel = y, !.i = n, !.goal = g] IN
            DOMAIN q = WalkFields /\ q.hops = r.hops /\ q.i = n /\ q.goal = g
         /\ LET q == [r EXCEPT !.i = n, !.goal = g] IN
            DOMAIN q = WalkFields /\ q.hops = r.hops /\ q.i = n /\ q.goal = g
         /\ LET q == [r EXCEPT !.abs = a, !.hops = h, !.i = n] IN
            DOMAIN q = WalkFields /\ q.hops = h /\ q.i = n /\ q.goal = r.goal
         /\ LET q == [r EXCEPT !.i = n] IN
            DOMAIN q = WalkFields /\ q.hops = r.hops /\ q.i = n /\ q.goal = r.goal
  BY DEF WalkFields

\* A call of the sandbox that returns begins the next phase, or ends the
\* operation.
LEMMA Concluded ==
  ASSUME IInv, pc # "done", NEW st, NEW loc, Conclude(st, loc)
  PROVE  Good
<1>1. phase \in Phases /\ pc \in PCs
  BY DEF IInv
<1>a. \/ /\ phase = "check"
         /\ NextPhase(IF req.kind \in {"write", "regular"} THEN "examine" ELSE "exec")
      \/ phase = "examine" /\ NextPhase("exec")
      \/ \E end : Finish(end, loc)
  <2>1. CASE phase = "check"
    BY <2>1 DEF Conclude
  <2>2. CASE phase = "examine"
    <3>1. req.kind \in {"regular", "write"}
      BY <2>2 DEF IInv
    <3>2. \/ phase = "examine" /\ st = "ok" /\ At(loc).kind # "file"
          \/ phase = "examine" /\ st # "ok" /\ req.kind = "regular"
          \/ phase = "examine" /\ (IF st = "ok" THEN At(loc).kind = "file" ELSE req.kind = "write")
      BY <2>2, <3>1
    <3> QED
      BY <2>2, <3>2, Zenon DEF Conclude
  <2>3. CASE phase = "exec"
    BY <2>3 DEF Conclude
  <2> QED
    BY <1>1, <2>1, <2>2, <2>3 DEF Phases
<1>2. req' = req /\ changes' = changes /\ w' = NoWalk
  BY <1>a DEF Conclude, Finish, NextPhase
<1>3. \/ phase' = phase /\ pc' = "done"
      \/ /\ pc' = "begin" /\ phase' \in Phases /\ PhaseNo(phase) < PhaseNo(phase')
         /\ phase' = "examine" => req.kind \in {"regular", "write"}
  BY <1>a DEF Finish, NextPhase, Phases, PhaseNo
<1>4. WalkTyped'
  BY <1>2, <1>3, NoWalkIs, SandboxAssumption DEF WalkTyped, Goals
<1>5. StageOf(pc, w.goal) < StageOf("done", w'.goal)
  BY <1>1, StageIs DEF IInv, WalkTyped, PCs
<1>6. Advances
  BY <1>1, <1>3, <1>5, Further
<1> QED
  BY <1>1, <1>2, <1>3, <1>4, <1>6 DEF Good, PCs, IInv

\* Staying where the tree is, likewise.
LEMMA Stayed ==
  ASSUME IInv, pc # "done", NEW st, Stays(st)
  PROVE  Good
BY Concluded DEF Stays

\* Going on with the walk.
LEMMA WentOn ==
  ASSUME IInv, NEW label \in PCs, NEW h \in 0..MaxHops, NEW n \in Nat, NEW g \in Goals,
         NEW walk, DOMAIN walk = WalkFields, walk.hops = h, walk.i = n, walk.goal = g, Goto(label, walk),
         label \in {"walk", "readlink"} => g \in {"open", "mode", "slash"},
         label = "fallback" => g = "open",
         label = "identity" => g \in {"operand", "found"},
         \/ StageOf(pc, w.goal) < StageOf(label, g)
         \/ /\ StageOf(label, g) = StageOf(pc, w.goal)
            /\ w.hops < h \/ (h = w.hops /\ Sub(pc, w.i) < Sub(label, n))
  PROVE  Good
<1>1. /\ pc' = label /\ w' = walk /\ phase' = phase /\ req' = req /\ changes' = changes
      /\ phase \in Phases
  BY DEF Goto, IInv
<1>2. w'.hops = h /\ w'.i = n /\ w'.goal = g /\ DOMAIN w' = WalkFields
  BY <1>1
<1>3. Advances
  BY <1>1, <1>2, Further
<1>4. WalkTyped'
  BY <1>1, <1>2 DEF WalkTyped
<1> QED
  BY <1>1, <1>3, <1>4 DEF Good, IInv

-----------------------------------------------------------------------------
\* Every system call of an operation brings it forward.
LEMMA StepGood == IInv /\ Step => Good
<1> SUFFICES ASSUME IInv, Step PROVE Good
  BY Zenon
<1> USE StageIs
<1>1. /\ phase \in Phases /\ pc \in PCs /\ w.hops \in 0..MaxHops /\ w.i \in Nat /\ w.goal \in Goals
      /\ DOMAIN w = WalkFields
      /\ pc \in {"walk", "readlink"} => w.goal \in {"open", "mode", "slash"}
      /\ pc = "fallback" => w.goal = "open"
      /\ pc = "identity" => w.goal \in {"operand", "found"}
  BY DEF IInv, WalkTyped
<1>a. /\ \A n : LET q == [w EXCEPT !.i = n] IN
                DOMAIN q = WalkFields /\ q.hops = w.hops /\ q.i = n /\ q.goal = w.goal
      /\ w.i + 1 \in Nat
  BY <1>1, WalksTyped
<1>2. ASSUME NEW goal \in {"open", "mode", "slash"}, StageOf(pc, w.goal) < StageOf("walk", goal),
             Goto("walk", StartWalk(goal))
      PROVE  Good
  <2>1. LET q == StartWalk(goal) IN DOMAIN q = WalkFields /\ q.hops = 0 /\ q.i = 1 /\ q.goal = goal
    BY NoWalkIs, WalksTyped DEF StartWalk
  <2> QED
    BY <1>2, <2>1, WentOn, SandboxAssumption DEF PCs, Goals
<1>3. CASE Begin
  <2>1. pc = "begin"
    BY <1>3 DEF Begin
  <2>2. ASSUME Goto("primary", [NoWalk EXCEPT !.root = Resolve(req.path), !.rel = Rel(Resolve(req.path), req.path)])
        PROVE  Good
    <3>1. LET q == [NoWalk EXCEPT !.root = Resolve(req.path), !.rel = Rel(Resolve(req.path), req.path)]
          IN  DOMAIN q = WalkFields /\ q.hops = 0 /\ q.i = 1 /\ q.goal = "none"
      BY NoWalkIs, WalksTyped
    <3>2. StageOf(pc, w.goal) < StageOf("primary", "none")
      BY <2>1
    <3>3. "primary" \in PCs /\ "none" \in Goals /\ 0 \in 0..MaxHops /\ 1 \in Nat
      BY SandboxAssumption DEF PCs, Goals
    <3> QED
      BY <2>2, <3>1, <3>2, <3>3, WentOn, Zenon
  <2> QED
    BY <1>2, <1>3, <2>1, <2>2, Stayed DEF Begin
<1>4. CASE Primary
  BY <1>2, <1>4, Concluded DEF Primary
<1>5. CASE Fallback
  BY <1>5, Concluded DEF Fallback
<1>6. CASE Walk
  <2>1. pc = "walk"
    BY <1>6, Zenon DEF Walk
  <2>2. ASSUME Goto("readlink", w) PROVE Good
    <3>2. Sub("walk", w.i) < Sub("readlink", w.i) /\ StageOf("readlink", w.goal) = StageOf("walk", w.goal)
      BY <1>1, <2>1 DEF Sub
    <3> QED
      BY <1>1, <2>1, <2>2, <3>2, WentOn DEF PCs
  <2>3. ASSUME Goto("walk", [w EXCEPT !.i = @ + 1]) PROVE Good
    <3>1. Sub("walk", w.i) < Sub("walk", w.i + 1)
      BY <1>1 DEF Sub
    <3> QED
      BY <1>1, <1>a, <2>1, <2>3, <3>1, WentOn, Zenon DEF PCs
  <2>4. ASSUME NEW i, NEW rel, Found(i, rel) PROVE Good
    <3>1. ASSUME w.goal = "open", Goto("fallback", [w EXCEPT !.root = i, !.rel = rel]) PROVE Good
      <4>1. LET q == [w EXCEPT !.root = i, !.rel = rel] IN
            DOMAIN q = WalkFields /\ q.hops = w.hops /\ q.i = w.i /\ q.goal = w.goal
        BY <1>1, WalksTyped
      <4>2. StageOf(pc, w.goal) < StageOf("fallback", w.goal)
        BY <2>1, <3>1
      <4>3. "fallback" \in PCs
        BY DEF PCs
      <4> QED
        BY <1>1, <3>1, <4>1, <4>2, <4>3, WentOn, Zenon
    <3>2. ASSUME w.goal = "mode",
                 Goto("identity", [w EXCEPT !.root = i, !.rel = rel, !.i = 0, !.goal = "operand"])
          PROVE  Good
      <4>1. LET q == [w EXCEPT !.root = i, !.rel = rel, !.i = 0, !.goal = "operand"] IN
            DOMAIN q = WalkFields /\ q.hops = w.hops /\ q.i = 0 /\ q.goal = "operand"
        BY <1>1, WalksTyped
      <4>2. StageOf(pc, w.goal) < StageOf("identity", "operand")
        BY <2>1, <3>2
      <4>3. "identity" \in PCs /\ "operand" \in Goals /\ 0 \in Nat
        BY DEF PCs, Goals
      <4> QED
        BY <1>1, <3>2, <4>1, <4>2, <4>3, WentOn, Zenon
    <3>3. ASSUME w.goal = "slash", Goto("reject", [w EXCEPT !.i = 1]) PROVE Good
      <4>1. StageOf(pc, w.goal) < StageOf("reject", w.goal)
        BY <2>1, <3>3
      <4>2. "reject" \in PCs /\ 1 \in Nat
        BY DEF PCs
      <4> QED
        BY <1>1, <1>a, <3>3, <4>1, <4>2, WentOn, Zenon
    <3>4. CASE w.goal = "open"
      BY <2>1, <2>4, <3>1, <3>4, Stayed, Zenon DEF Found
    <3>5. CASE w.goal = "mode"
      BY <2>1, <2>4, <3>2, <3>5, Stayed, Zenon DEF Found
    <3>6. CASE w.goal = "slash"
      BY <2>4, <3>3, <3>6 DEF Found
    <3> QED
      BY <1>1, <2>1, <3>4, <3>5, <3>6
  <2> QED
    BY <1>6, <2>1, <2>2, <2>3, <2>4, Stayed, Zenon DEF Walk
<1>7. CASE Readlink
  <2>1. pc = "readlink"
    BY <1>7 DEF Readlink
  <2>2. ASSUME NEW abs, w.hops # MaxHops, Goto("walk", [w EXCEPT !.abs = abs, !.hops = w.hops + 1, !.i = 1])
        PROVE  Good
    <3>1. LET q == [w EXCEPT !.abs = abs, !.hops = w.hops + 1, !.i = 1] IN
          DOMAIN q = WalkFields /\ q.hops = w.hops + 1 /\ q.i = 1 /\ q.goal = w.goal
      BY <1>1, WalksTyped
    <3>2. w.hops + 1 \in 0..MaxHops /\ w.hops < w.hops + 1
      BY <1>1, <2>2, SandboxAssumption
    <3>3. StageOf("readlink", w.goal) = StageOf("walk", w.goal)
      BY <1>1, <2>1
    <3> QED
      BY <1>1, <2>1, <2>2, <3>1, <3>2, <3>3, WentOn, Zenon DEF PCs
  <2> QED
    BY <1>7, <2>1, <2>2, Stayed, Zenon DEF Readlink, HopLimit, CountedHop
<1>8. CASE Identity
  <2>1. pc = "identity"
    BY <1>8 DEF Identity
  <2>2. ASSUME Goto("identity", [w EXCEPT !.i = @ + 1]) PROVE Good
    <3>1. Sub("identity", w.i) < Sub("identity", w.i + 1)
      BY <1>1 DEF Sub
    <3> QED
      BY <1>1, <1>a, <2>1, <2>2, <3>1, WentOn, Zenon DEF PCs
  <2>3. ASSUME w.goal = "operand", Goto("identity", [w EXCEPT !.i = 0, !.goal = "found"]) PROVE Good
    <3>1. LET q == [w EXCEPT !.i = 0, !.goal = "found"] IN
          DOMAIN q = WalkFields /\ q.hops = w.hops /\ q.i = 0 /\ q.goal = "found"
      BY <1>1, WalksTyped
    <3>2. StageOf(pc, w.goal) < StageOf("identity", "found")
      BY <2>1, <2>3
    <3>3. "identity" \in PCs /\ "found" \in Goals /\ 0 \in Nat
      BY DEF PCs, Goals
    <3> QED
      BY <1>1, <2>3, <3>1, <3>2, <3>3, WentOn, Zenon
  <2>4. ASSUME w.goal = "found", ModeChecked PROVE Good
    <3>1. ASSUME Goto("reject", [w EXCEPT !.i = 1]) PROVE Good
      <4>1. StageOf(pc, w.goal) < StageOf("reject", w.goal)
        BY <2>1, <2>4
      <4>2. "reject" \in PCs /\ 1 \in Nat
        BY DEF PCs
      <4> QED
        BY <1>1, <1>a, <3>1, <4>1, <4>2, WentOn, Zenon
    <3> QED
      BY <1>2, <2>1, <2>4, <3>1 DEF ModeChecked
  <2> QED
    BY <1>1, <1>8, <2>1, <2>2, <2>3, <2>4, Stayed DEF Identity
<1>9. CASE Reject
  <2>1. pc = "reject"
    BY <1>9, Zenon DEF Reject
  <2>2. ASSUME Goto("reject", [w EXCEPT !.i = @ + 1]) PROVE Good
    <3>1. Sub("reject", w.i) < Sub("reject", w.i + 1)
      BY <1>1 DEF Sub
    <3> QED
      BY <1>1, <1>a, <2>1, <2>2, <3>1, WentOn, Zenon DEF PCs
  <2>3. ASSUME Goto("target", w) PROVE Good
    BY <1>1, <2>1, <2>3, WentOn DEF PCs
  <2>4. ASSUME pc' = "openat", w' = [w EXCEPT !.i = 1], UNCHANGED <<req, phase, changes>> PROVE Good
    <3>1. Advances
      BY <1>1, <2>1, <2>4, Further
    <3>2. WalkTyped'
      BY <1>1, <1>a, <2>4 DEF WalkTyped
    <3> QED
      BY <2>4, <3>1, <3>2 DEF Good, IInv, PCs
  <2> QED
    BY <1>9, <2>1, <2>2, <2>3, <2>4, Stayed, Zenon DEF Reject
<1>10. CASE Target
  BY <1>10, Stayed, Zenon DEF Target
<1>11. CASE OpenDirAt
  <2>1. ASSUME pc = "openat", pc' = pc, w' = [w EXCEPT !.i = @ + 1], UNCHANGED <<req, phase, changes>>
        PROVE  Good
    <3>0. DOMAIN w' = WalkFields /\ w'.hops = w.hops /\ w'.i = w.i + 1 /\ w'.goal = w.goal
      BY <1>a, <2>1
    <3>1. Advances
      BY <1>1, <2>1, <3>0, Further DEF Sub
    <3>2. WalkTyped'
      BY <1>1, <2>1, <3>0 DEF WalkTyped
    <3> QED
      BY <2>1, <3>1, <3>2 DEF Good, IInv, PCs
  <2> QED
    BY <1>11, <2>1, Stayed DEF OpenDirAt
<1>12. CASE OpenAt
  <2>1. Here.kind \in EntryKinds
    <3>1. \A l : At(l).kind \in EntryKinds
      BY DEF At, Slash, Nothing, IInv, Entry, EntryKinds
    <3> QED
      BY <3>1 DEF Here, Nothing, EntryKinds
  <2>2. pc = "openat" /\ \E st, loc : Conclude(st, loc)
    <3>1. CASE Here.kind = "none"
      BY <1>12, <3>1, Zenon DEF OpenAt, Stays
    <3>2. CASE Here.kind \in {"link", "dir"}
      BY <1>12, <3>2, Zenon DEF OpenAt, Stays
    <3>3. CASE Here.kind \in {"special", "file"}
      BY <1>12, <3>3, Zenon DEF OpenAt
    <3> QED
      BY <2>1, <3>1, <3>2, <3>3 DEF EntryKinds
  <2> QED
    BY <2>2, Concluded
<1>13. CASE FstatAt
  <2>1. ASSUME pc = "openat", Goto("unlinkat", w) PROVE Good
    BY <1>1, <2>1, WentOn DEF PCs
  <2> QED
    BY <1>13, <2>1, Stayed DEF FstatAt
<1>14. CASE UnlinkAt
  BY <1>14, Stayed, Concluded DEF UnlinkAt
<1> QED
  BY <1>3, <1>4, <1>5, <1>6, <1>7, <1>8, <1>9, <1>10, <1>11, <1>12, <1>13, <1>14 DEF Step

\* The tree keeps its shape.
LEMMA TreeNext == IInv /\ [Next]_vars => fs' \in [Locs -> Entry]
<1> SUFFICES ASSUME IInv, Next PROVE fs' \in [Locs -> Entry]
  BY DEF IInv, vars
<1>1. Nothing \in Entry /\ [Nothing EXCEPT !.kind = "file", !.id = Fresh] \in Entry /\ Fresh + 1 \in Nat
  <2>1. Fresh \in Nat /\ Fresh + 1 \in Nat
    BY SandboxAssumption DEF Fresh, IInv
  <2>2. Nothing \in Entry
    BY DEF Nothing, Entry, EntryKinds
  <2> QED
    BY <2>1, <2>2, Zenon DEF Entry, EntryKinds
<1>2. CASE UNCHANGED fs
  BY <1>2 DEF IInv
<1>3. CASE OpenAt \/ UnlinkAt
  <2>1. \/ UNCHANGED fs \/ fs' = [fs EXCEPT ![Below] = Nothing]
        \/ fs' = [fs EXCEPT ![Below] = [Nothing EXCEPT !.kind = "file", !.id = Fresh]]
    <3>1. CASE UnlinkAt
      BY <3>1 DEF UnlinkAt, Stays
    <3>2. CASE OpenAt
      <4>1. \A l : At(l).kind \in EntryKinds
        BY DEF At, Slash, Nothing, IInv, Entry, EntryKinds
      <4>2. Here.kind \in EntryKinds
        BY <4>1 DEF Here, Nothing, EntryKinds
      <4>3. CASE Here.kind = "none"
        BY <3>2, <4>3, Zenon DEF OpenAt, Stays
      <4>4. CASE Here.kind \in {"link", "dir"}
        BY <3>2, <4>4, Zenon DEF OpenAt, Stays
      <4>5. CASE Here.kind \in {"special", "file"}
        BY <3>2, <4>5, Zenon DEF OpenAt
      <4> QED
        BY <4>2, <4>3, <4>4, <4>5 DEF EntryKinds
    <3> QED
      BY <1>3, <3>1, <3>2
  <2> QED
    BY <1>1, <1>2, <2>1 DEF IInv
<1>4. ASSUME NEW l \in Locs, NEW e \in Entries, Change(l, e) PROVE fs' \in [Locs -> Entry]
  <2>1. e \in Entry
    BY SandboxAssumption
  <2>2. [e EXCEPT !.id = IF e = Nothing THEN 0 ELSE Fresh + 1] \in Entry
    BY <1>1, <2>1, Zenon DEF Entry
  <2> QED
    BY <1>4, <2>2 DEF Change, IInv
<1>5. CASE Begin \/ Primary \/ Fallback \/ Walk \/ Readlink \/ Identity \/ Reject \/ Target \/ OpenDirAt \/ FstatAt \/ Done
  <2>1. UNCHANGED fs
    <3>1. CASE Walk
      <4>1. ASSUME NEW i, NEW rel, Found(i, rel) PROVE UNCHANGED fs
        <5>1. w.goal \in {"open", "mode", "slash"}
          BY <3>1 DEF Walk, IInv, WalkTyped
        <5> QED
          BY <4>1, <5>1, Zenon DEF Found, Stays, Goto
      <4> QED
        BY <3>1, <4>1, Zenon DEF Walk, Stays, Goto
    <3>2. CASE Identity
      BY <3>2 DEF Identity, ModeChecked, Stays, Goto
    <3>3. CASE Begin \/ Primary \/ Fallback \/ Readlink
      BY <3>3, Zenon DEF Begin, Primary, Fallback, Readlink, Stays, Goto
    <3>4. CASE Reject \/ Target \/ OpenDirAt \/ FstatAt \/ Done
      BY <3>4, Zenon DEF Reject, Target, OpenDirAt, FstatAt, Done, Stays, Goto, vars
    <3> QED
      BY <1>5, <3>1, <3>2, <3>3, <3>4
  <2> QED
    BY <1>2, <2>1
<1> QED
  BY <1>3, <1>4, <1>5 DEF Next, Step

\* The walk stays well typed, and every step advances or is a change by others.
LEMMA NextAdvances == IInv /\ [Next]_vars => IInv' /\ [changes' = changes => Advances]_vars
<1> SUFFICES ASSUME IInv, [Next]_vars PROVE IInv' /\ [changes' = changes => Advances]_vars
  OBVIOUS
<1>1. fs' \in [Locs -> Entry]
  BY TreeNext
<1>2. CASE Step
  BY <1>1, <1>2, StepGood DEF Good, IInv
<1>3. ASSUME NEW l \in Locs, NEW e \in Entries, Change(l, e)
      PROVE  IInv' /\ [changes' = changes => Advances]_vars
  <2>1. changes' = changes + 1 /\ changes' \in 0..MaxChanges /\ changes \in Nat
    BY <1>3, SandboxAssumption DEF Change, IInv
  <2>2. UNCHANGED <<req, phase, pc, w>>
    BY <1>3 DEF Change
  <2>3. WalkTyped'
    BY <2>2 DEF IInv, WalkTyped
  <2> QED
    BY <1>1, <2>1, <2>2, <2>3 DEF IInv
<1>4. CASE UNCHANGED vars
  <2>1. WalkTyped'
    BY <1>4 DEF IInv, WalkTyped, vars
  <2> QED
    BY <1>1, <1>4, <2>1 DEF IInv, vars
<1> QED
  BY <1>2, <1>3, <1>4 DEF Next, Done

\* The walk keeps to its hops and its purpose (resolveRootFollowingSymlinks).
THEOREM WalkInvariant == Spec => []IInv
<1>1. Init => IInv
  <2> SUFFICES ASSUME Init PROVE IInv
    OBVIOUS
  <2>1. WalkTyped
    BY SandboxAssumption DEF Init, WalkTyped, WalkFields, NoWalk, Goals
  <2>2. req.kind \in {"read", "lstat", "regular", "truncate", "remove", "write"}
    BY Zenon DEF Init, Requests
  <2> QED
    BY <2>1, <2>2, SandboxAssumption DEF Init, IInv, Phases, PCs
<1>2. IInv /\ [Next]_vars => IInv'
  BY NextAdvances
<1> QED
  BY <1>1, <1>2, PTL DEF Spec

\* Whatever the tree, the grants and the operand are, and whatever others do to
\* the links on the way, every system call of an operation brings it forward.
THEOREM AlwaysForward == Spec => Forward
<1>1. IInv /\ [Next]_vars => [changes' = changes => Before(Position, Position')]_vars
  BY NextAdvances DEF Advances
<1> QED
  BY <1>1, WalkInvariant, PTL DEF Spec, Forward

=============================================================================

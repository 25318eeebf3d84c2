------------------------- MODULE VarRestore_proofs -------------------------
(***************************************************************************)
(* Inline assignments are undone, and a failed cd leaves no trace, for any *)
(* number of overlays, names and assignments.                              *)
(*                                                                         *)
(* CallKept, one conjunct per label of a command, says where the value     *)
(* from before the command is until it is put back: still in place, or in  *)
(* a snapshot that is still to be restored.                                *)
(***************************************************************************)
EXTENDS VarStorage_proofs

\* Where a runner is while inline assignments may be installed.
InCall == {"install", "command", "cdPwd", "cdUndo", "restore", "keepPwd"}

\* n is as it was before the inline assignments of o's command.
AsBefore(o, n) == Get(o)[n] = before[o].env[n] /\ owned[o][n] = before[o].owned[n]

\* The snapshots still to be restored hold what was there before the command.
SnapsTrue(o) ==
  \A i \in DOMAIN snaps[o] :
    LET s == snaps[o][i] IN
    /\ before[o].env[s.name] = IF s.value # Absent THEN s.value ELSE inherited[o][s.name]
    /\ before[o].owned[s.name] = s.owned

AllSeen(o) == \A i \in DOMAIN call[o] : Seen(o, call[o][i][1])

\* What makes InlineRestored inductive: while assignments are installed every
\* name is untouched or has a snapshot, while the command runs every assigned
\* name has one, and while bindings are restored every assigned name has one or
\* is restored already.
CallKept(o) ==
  /\ pc[o] \notin InCall => snaps[o] = <<>>
  /\ pc[o] = "redirs" => at[o] = 1
  /\ SnapsTrue(o)
  /\ pc[o] = "install" =>
       /\ \A n \in Names : Seen(o, n) \/ AsBefore(o, n)
       /\ \A i \in DOMAIN call[o] : i < at[o] => Seen(o, call[o][i][1])
  /\ pc[o] \in {"command", "cdPwd", "cdUndo"} => AllSeen(o)
  /\ pc[o] \in {"restore", "keepPwd"} =>
       \A i \in DOMAIN call[o] :
         LET n == call[o][i][1] IN Seen(o, n) \/ n \in Kept(o) \/ AsBefore(o, n)
  /\ pc[o] \in {"cdPwd", "cdUndo"} /\ prevOLDPWD[o] = Absent => inherited[o][OLDPWD] = Absent

\* The runner whose inline assignments a temporary overlay evaluates waits for
\* it, and for no other.
TempWaits ==
  /\ \A t \in Overlays : pc[t] = "temp" => pc[parent[t]] = "expand"
  /\ \A t, u \in Overlays :
       pc[t] = "temp" /\ pc[u] = "temp" /\ parent[t] = parent[u] => t = u

CallsKept == TempWaits /\ \A o \in Overlays : CallKept(o)

\* What CallKept(q) is about is the same after the step.
Same(q) ==
  /\ pc'[q] = pc[q] /\ snaps'[q] = snaps[q] /\ before'[q] = before[q]
  /\ values'[q] = values[q] /\ owned'[q] = owned[q] /\ inherited'[q] = inherited[q]
  /\ call'[q] = call[q] /\ at'[q] = at[q] /\ prevOLDPWD'[q] = prevOLDPWD[q]

\* A step leaves alone the commands of the overlays it does not touch.
LEMMA Untouched ==
  ASSUME NEW q \in Overlays, CallKept(q), Same(q)
  PROVE  CallKept(q)'
<1>1. \A n \in Names : (Seen(q, n)' <=> Seen(q, n)) /\ (AsBefore(q, n)' <=> AsBefore(q, n))
  BY DEF Same, Seen, AsBefore, Get
<1>2. SnapsTrue(q)' <=> SnapsTrue(q)
  BY DEF Same, SnapsTrue
<1>3. Kept(q)' = Kept(q)
  BY DEF Same, Kept
<1>4. \A i \in DOMAIN call[q] : (Seen(q, call[q][i][1])' <=> Seen(q, call[q][i][1]))
                                /\ (AsBefore(q, call[q][i][1])' <=> AsBefore(q, call[q][i][1]))
  BY DEF Same, Seen, AsBefore, Get
<1> QED
  BY <1>1, <1>2, <1>3, <1>4 DEF Same, CallKept, AllSeen

\* Before a command's assignments are installed there is nothing to restore.
LEMMA NothingInstalled ==
  ASSUME NEW q \in Overlays, pc'[q] \notin InCall, snaps'[q] = <<>>, pc'[q] = "redirs" => at'[q] = 1
  PROVE  CallKept(q)'
BY DEF CallKept, SnapsTrue, InCall

\* While every assigned name has a snapshot, the command may assign anything.
LEMMA SnapshotsSuffice ==
  ASSUME NEW q \in Overlays, SnapsTrue(q), AllSeen(q),
         pc'[q] \in {"command", "cdPwd", "cdUndo", "restore", "keepPwd"},
         snaps'[q] = snaps[q], before'[q] = before[q], inherited'[q] = inherited[q], call'[q] = call[q],
         pc'[q] \in {"cdPwd", "cdUndo"} /\ prevOLDPWD'[q] = Absent => inherited[q][OLDPWD] = Absent
  PROVE  CallKept(q)'
<1>1. SnapsTrue(q)' /\ AllSeen(q)'
  BY DEF SnapsTrue, AllSeen, Seen
<1> QED
  BY <1>1 DEF CallKept, AllSeen, InCall

\* Set touches one overlay, and there one name.
LEMMA SetFrame ==
  ASSUME TypeOK, NEW o \in Overlays, NEW n, NEW len, Set(o, n, len)
  PROVE  /\ \A q \in Overlays \ {o} : values'[q] = values[q] /\ owned'[q] = owned[q]
         /\ \A m \in Names \ {n} : values'[o][m] = values[o][m] /\ owned'[o][m] = owned[o][m]
BY DEF TypeOK, Set, Own, Charge, Store, storage, Env

\* A temporary overlay and the runner that waits for it are not in a command.
LEMMA TempsApart ==
  ASSUME TypeOK, TempWaits, NEW t \in Overlays, pc[t] = "temp"
  PROVE  parent[t] \in Overlays /\ pc[parent[t]] = "expand" /\ parent[t] # t
BY DEF TypeOK, TempWaits

\* Every step keeps the waiting runners apart.
LEMMA TempWaitsNext == TypeOK /\ TempWaits /\ [Next]_vars => TempWaits'
<1> SUFFICES ASSUME TypeOK, TempWaits, [Next]_vars PROVE TempWaits'
  OBVIOUS
<1>0. pc \in [Overlays -> PCs] /\ parent \in [Overlays -> Overlays]
  BY DEF TypeOK
<1>1. ASSUME UNCHANGED <<pc, parent>> PROVE TempWaits'
  BY <1>1 DEF TempWaits
<1>2. ASSUME NEW o \in Overlays, NEW label \in PCs \ {"temp"}, pc[o] # "expand", UNCHANGED parent,
             pc' = [pc EXCEPT ![o] = label]
      PROVE  TempWaits'
  BY <1>0, <1>2 DEF TempWaits
<1>3. ASSUME NEW o \in Overlays, NEW n \in Names, NEW len \in Lens, Assign(o, n, len) PROVE TempWaits'
  BY <1>1, <1>3 DEF Assign, tree
<1>4. ASSUME NEW o \in Overlays, NEW c \in Overlays, Subshell(o, c) PROVE TempWaits'
  BY <1>0, <1>4 DEF Subshell, Goto, TempWaits
<1>5. ASSUME NEW o \in Overlays, NEW l \in Overlays, NEW r \in Overlays, Pipe(o, l, r) PROVE TempWaits'
  BY <1>0, <1>5 DEF Pipe, TempWaits
<1>6. ASSUME NEW c \in Overlays, Finish(c) PROVE TempWaits'
  BY <1>0, <1>6 DEF Finish, Goto, Detach, TempWaits
<1>7. ASSUME NEW o \in Overlays, NEW t \in Overlays, NEW as \in Assigns, BeginCall(o, t, as) PROVE TempWaits'
  BY <1>0, <1>7 DEF BeginCall, TempWaits
<1>8. ASSUME NEW t \in Overlays, EvalInline(t) \/ Install(t) PROVE TempWaits'
  BY <1>1, <1>8 DEF EvalInline, Install, tree
<1>9. ASSUME NEW t \in Overlays, EndInline(t) PROVE TempWaits'
  <2> DEFINE o == parent[t]
  <2>1. pc[t] = "temp" /\ o \in Overlays /\ pc[o] = "expand" /\ o # t
    BY <1>9, TempsApart DEF EndInline
  <2>2. PICK label \in {"stmts", "redirs"} : pc' = [pc EXCEPT ![t] = "free", ![o] = label]
    BY <1>9 DEF EndInline
  <2>3. \A u \in Overlays \ {t} : parent'[u] = parent[u]
    BY <1>0, <1>9 DEF EndInline, Detach
  <2>4. \A u \in Overlays : pc'[u] = "temp" => pc[u] = "temp" /\ u # t
    BY <1>0, <2>1, <2>2
  <2>5. ASSUME NEW u \in Overlays, pc'[u] = "temp" PROVE pc'[parent'[u]] = "expand"
    <3>1. pc[u] = "temp" /\ u # t /\ parent'[u] = parent[u] /\ parent[u] # o
      BY <2>1, <2>3, <2>4, <2>5 DEF TempWaits
    <3>2. pc[parent[u]] = "expand" /\ parent[u] \in Overlays /\ parent[u] # t
      BY <1>0, <2>1, <3>1 DEF TempWaits
    <3> QED
      BY <1>0, <2>2, <3>1, <3>2
  <2> QED
    BY <2>3, <2>4, <2>5 DEF TempWaits
<1>10. ASSUME NEW o \in Overlays, EndRedirs(o) \/ StartCommand(o) \/ EndCommand(o) \/ CdUndo(o) \/ EndCall(o)
       PROVE  TempWaits'
  BY <1>2, <1>10 DEF EndRedirs, StartCommand, EndCommand, CdUndo, EndCall, Goto, PCs, tree
<1>11. ASSUME NEW o \in Overlays, NEW dir \in Lens, CdOldPwd(o, dir) \/ CdPwd(o, dir) PROVE TempWaits'
  BY <1>2, <1>11 DEF CdOldPwd, CdPwd, Goto, PCs, tree
<1>12. ASSUME NEW o \in Overlays, Restore(o) PROVE TempWaits'
  BY <1>1, <1>12 DEF Restore, tree
<1>13. CASE UNCHANGED vars
  BY <1>1, <1>13 DEF vars, tree
<1> QED
  BY <1>3, <1>4, <1>5, <1>6, <1>7, <1>8, <1>9, <1>10, <1>11, <1>12, <1>13 DEF Next

\* An inline assignment is installed: its name has a snapshot afterwards, and
\* the others keep theirs or stay untouched.
LEMMA InstallKeeps ==
  ASSUME TypeOK, NEW o \in Overlays, CallKept(o), Install(o)
  PROVE  CallKept(o)'
<1>1. /\ before'[o] = before[o] /\ inherited'[o] = inherited[o] /\ call'[o] = call[o]
      /\ at'[o] = at[o] + 1 /\ at[o] \in Nat /\ at[o] \in 1..Len(call[o])
      /\ call[o] \in Seq(Names \X Lens) /\ pc[o] = "install" /\ pc'[o] = "install"
  BY DEF Install, TypeOK, tree
<1>2. call[o][at[o]] \in Names \X Lens
  BY <1>1
<1>3. PICK n \in Names : n = call[o][at[o]][1]
  BY <1>2
<1>4. PICK len \in Lens : len = call[o][at[o]][2]
  BY <1>2
<1>5. Set(o, n, len)
  BY <1>3, <1>4 DEF Install
<1>6. PICK saved \in Snapshot : saved = Saved(o, n)
  <2>1. values[o][n] \in Lens \cup {Absent} /\ owned[o][n] \in Cost
    BY DEF TypeOK, Env
  <2>2. Saved(o, n) \in Snapshot
    BY <2>1 DEF Saved, Snapshot
  <2> QED
    BY <2>2
<1>7. PICK old \in Seq(Snapshot) : old = snaps[o]
  BY DEF TypeOK
<1>8. snaps'[o] = IF Seen(o, n) THEN old ELSE Append(old, saved)
  <2>1. SnapshotBinding(o, n)
    BY <1>3 DEF Install
  <2>2. snaps \in [Overlays -> Seq(Snapshot)]
    BY DEF TypeOK
  <2> QED
    BY <1>6, <1>7, <2>1, <2>2 DEF SnapshotBinding
<1>9. saved.name = n /\ saved.value = values[o][n] /\ saved.owned = owned[o][n]
  BY <1>6 DEF Saved
<1>10. ASSUME NEW m, Seen(o, m) PROVE Seen(o, m)'
  <2>1. PICK i \in DOMAIN old : old[i].name = m
    BY <1>7, <1>10 DEF Seen
  <2>2. i \in DOMAIN snaps'[o] /\ snaps'[o][i] = old[i]
    BY <1>8
  <2> QED
    BY <2>1, <2>2 DEF Seen
<1>11. Seen(o, n)'
  <2>1. CASE Seen(o, n)
    BY <1>10, <2>1
  <2>2. CASE ~Seen(o, n)
    <3>1. Len(old) + 1 \in DOMAIN snaps'[o] /\ snaps'[o][Len(old) + 1] = saved
      BY <1>8, <2>2
    <3> QED
      BY <1>9, <3>1 DEF Seen
  <2> QED
    BY <2>1, <2>2
<1>12. \A m \in Names \ {n} : AsBefore(o, m) => AsBefore(o, m)'
  BY <1>1, <1>5, SetFrame DEF AsBefore, Get
<1>13. SnapsTrue(o)
  BY DEF CallKept
<1>14. SnapsTrue(o)'
  <2>1. CASE Seen(o, n)
    BY <1>1, <1>7, <1>8, <1>13, <2>1 DEF SnapsTrue
  <2>2. CASE ~Seen(o, n)
    <3>1. AsBefore(o, n)
      BY <1>1, <2>2 DEF CallKept
    <3>2. /\ before[o].env[n] = IF values[o][n] # Absent THEN values[o][n] ELSE inherited[o][n]
          /\ before[o].owned[n] = owned[o][n]
      BY <3>1 DEF AsBefore, Get
    <3>3. PICK new : new = snaps'[o]
      OBVIOUS
    <3>4. ASSUME NEW i \in DOMAIN new
          PROVE  (i \in DOMAIN old /\ new[i] = old[i]) \/ new[i] = saved
      BY <1>8, <2>2, <3>3
    <3>5. ASSUME NEW i \in DOMAIN new
          PROVE  /\ before[o].env[new[i].name] =
                      IF new[i].value # Absent THEN new[i].value ELSE inherited[o][new[i].name]
                 /\ before[o].owned[new[i].name] = new[i].owned
      <4>1. CASE i \in DOMAIN old /\ new[i] = old[i]
        BY <1>7, <1>13, <4>1 DEF SnapsTrue
      <4>2. CASE new[i] = saved
        BY <1>9, <3>2, <4>2
      <4> QED
        BY <3>4, <4>1, <4>2
    <3> QED
      BY <1>1, <3>3, <3>5 DEF SnapsTrue
  <2> QED
    BY <2>1, <2>2
<1>15. \A m \in Names : Seen(o, m)' \/ AsBefore(o, m)'
  <2> TAKE m \in Names
  <2>1. Seen(o, m) \/ AsBefore(o, m)
    BY <1>1 DEF CallKept
  <2> QED
    BY <1>10, <1>11, <1>12, <2>1
<1>16. ASSUME NEW i \in DOMAIN call[o], i < at'[o], NEW m, m = call[o][i][1]
       PROVE  Seen(o, m)'
  <2>1. i \in Nat /\ (i < at[o] \/ i = at[o])
    BY <1>1, <1>16
  <2>2. Seen(o, m) \/ m = n
    BY <1>1, <1>3, <1>16, <2>1 DEF CallKept
  <2> QED
    BY <1>10, <1>11, <2>2
<1>17. ASSUME NEW i \in DOMAIN call'[o], i < at'[o]
       PROVE  Seen(o, call[o][i][1])'
  <2>1. PICK m : m = call[o][i][1]
    OBVIOUS
  <2>2. Seen(o, m)' /\ call'[o][i][1] = m
    BY <1>1, <1>16, <1>17, <2>1
  <2> QED
    BY <2>2 DEF Seen
<1> QED
  BY <1>1, <1>14, <1>15, <1>17 DEF CallKept, InCall

\* A binding is put back from its snapshot, or kept by a successful cd.
LEMMA RestoreKeeps ==
  ASSUME TypeOK, NEW o \in Overlays, CallKept(o), Restore(o)
  PROVE  CallKept(o)'
<1>1. pc[o] \in {"restore", "keepPwd"} /\ pc'[o] = pc[o] /\ Kept(o)' = Kept(o)
  BY DEF Restore, Kept
<1>2. before'[o] = before[o] /\ inherited'[o] = inherited[o] /\ call'[o] = call[o]
  BY DEF Restore, tree
<1>3. PICK old \in Seq(Snapshot) : old = snaps[o] /\ old # <<>>
  BY DEF Restore, TypeOK
<1>4. snaps'[o] = Tail(old)
  BY <1>3 DEF Restore, TypeOK
<1>5. 1 \in DOMAIN old /\ old[1] = Head(old) /\ old[1] \in Snapshot
  BY <1>3
<1>6. PICK snap \in Snapshot : snap = old[1]
  BY <1>5
<1>7. snap.name \in Names
  BY DEF Snapshot
<1>8. SnapsTrue(o)
  BY DEF CallKept
<1>9. \A i \in DOMAIN Tail(old) : i + 1 \in DOMAIN old /\ Tail(old)[i] = old[i + 1]
  BY <1>3
<1>10. SnapsTrue(o)'
  BY <1>2, <1>3, <1>4, <1>8, <1>9 DEF SnapsTrue
<1>11. ASSUME NEW m, Seen(o, m), m # snap.name
       PROVE  Seen(o, m)'
  <2>1. PICK i \in DOMAIN old : old[i].name = m
    BY <1>3, <1>11 DEF Seen
  <2>2. i - 1 \in DOMAIN Tail(old) /\ Tail(old)[i - 1] = old[i]
    BY <1>3, <1>6, <1>11, <2>1
  <2> QED
    BY <1>4, <2>1, <2>2 DEF Seen
<1>12. ASSUME NEW m \in Names, Seen(o, m) \/ m \in Kept(o) \/ AsBefore(o, m)
       PROVE  Seen(o, m)' \/ m \in Kept(o) \/ AsBefore(o, m)'
  <2>1. CASE snap.name \in Kept(o) /\ UNCHANGED <<values, storage>>
    <3>1. AsBefore(o, m)' <=> AsBefore(o, m)
      BY <1>2, <2>1 DEF AsBefore, Get, storage
    <3> QED
      BY <1>11, <1>12, <2>1, <3>1
  <2>2. CASE RestoreBinding(o, snap)
    <3>1. /\ values'[o][snap.name] = snap.value /\ owned'[o][snap.name] = snap.owned
          /\ \A k \in Names \ {snap.name} : values'[o][k] = values[o][k] /\ owned'[o][k] = owned[o][k]
      BY <1>7, <2>2 DEF RestoreBinding, Own, Charge, Store, TypeOK, Env
    <3>2. /\ before[o].env[snap.name] = IF snap.value # Absent THEN snap.value ELSE inherited[o][snap.name]
          /\ before[o].owned[snap.name] = snap.owned
      BY <1>3, <1>5, <1>6, <1>8 DEF SnapsTrue
    <3>3. AsBefore(o, snap.name)'
      BY <1>2, <1>7, <3>1, <3>2 DEF AsBefore, Get
    <3>4. m # snap.name /\ AsBefore(o, m) => AsBefore(o, m)'
      BY <1>2, <3>1 DEF AsBefore, Get
    <3> QED
      BY <1>11, <1>12, <3>3, <3>4
  <2> QED
    BY <1>3, <1>5, <1>6, <2>1, <2>2 DEF Restore
<1>13. ASSUME NEW i \in DOMAIN call'[o]
       PROVE  (LET n == call[o][i][1] IN Seen(o, n) \/ n \in Kept(o) \/ AsBefore(o, n))'
  <2>1. call[o] \in Seq(Names \X Lens) /\ i \in DOMAIN call[o]
    BY <1>2 DEF TypeOK
  <2>2. call[o][i] \in Names \X Lens
    BY <2>1
  <2>3. PICK m \in Names : m = call[o][i][1]
    BY <2>2
  <2>4. Seen(o, m) \/ m \in Kept(o) \/ AsBefore(o, m)
    BY <1>1, <2>1, <2>3 DEF CallKept
  <2>5. Seen(o, m)' \/ m \in Kept(o)' \/ AsBefore(o, m)'
    BY <1>1, <1>12, <2>4
  <2>6. call'[o][i][1] = m
    BY <1>2, <2>3
  <2> QED
    BY <2>5, <2>6 DEF Seen, AsBefore, Get, Kept
<1> QED
  BY <1>1, <1>10, <1>13 DEF CallKept, InCall

\* Every step keeps what each command will restore.
LEMMA CallsKeptNext == IInv /\ CallsKept /\ [Next]_vars => CallsKept'
<1> SUFFICES ASSUME IInv, CallsKept, [Next]_vars PROVE CallsKept'
  OBVIOUS
<1>a. TypeOK /\ TempWaits /\ \A q \in Overlays : CallKept(q)
  BY DEF IInv, CallsKept
<1>b. /\ pc \in [Overlays -> PCs] /\ parent \in [Overlays -> Overlays]
      /\ inherited \in [Overlays -> Env] /\ values \in [Overlays -> Env]
      /\ owned \in [Overlays -> [Names -> Cost]]
  BY <1>a DEF TypeOK
<1>c. /\ call \in [Overlays -> Seq(Names \X Lens)] /\ at \in [Overlays -> Nat \ {0}]
      /\ snaps \in [Overlays -> Seq(Snapshot)]
      /\ prevOLDPWD \in [Overlays -> Lens \cup {Absent}] /\ before \in [Overlays -> View]
  BY <1>a DEF TypeOK
<1> DEFINE Good == \A q \in Overlays : CallKept(q)'
<1>d. \A q \in Overlays : Same(q) => CallKept(q)'
  BY <1>a, Untouched
<1>e. ASSUME NEW o \in Overlays, \A q \in Overlays \ {o} : Same(q), CallKept(o)' PROVE Good
  BY <1>d, <1>e
<1>f. \A q \in Overlays : pc[q] \notin InCall => snaps[q] = <<>>
  BY <1>a DEF CallKept
<1>1. ASSUME NEW o \in Overlays, NEW n \in Names, NEW len \in Lens, Assign(o, n, len) PROVE Good
  <2>1. \A q \in Overlays \ {o} : Same(q)
    BY <1>1, <1>a, SetFrame DEF Assign, Same, tree, locals
  <2>2. CASE pc[o] = "stmts"
    BY <1>1, <1>e, <1>f, <2>1, <2>2, NothingInstalled DEF Assign, locals, InCall
  <2>3. CASE pc[o] = "command"
    <3>1. SnapsTrue(o) /\ AllSeen(o)
      BY <1>a, <2>3 DEF CallKept
    <3> QED
      BY <1>1, <1>e, <2>1, <2>3, <3>1, SnapshotsSuffice, Zenon DEF Assign, tree, locals
  <2> QED
    BY <1>1, <2>2, <2>3 DEF Assign
<1>2. ASSUME NEW o \in Overlays, NEW c \in Overlays, Subshell(o, c) PROVE Good
  <2>1. \A q \in Overlays \ {c} : Same(q)
    BY <1>2, <1>b DEF Subshell, Goto, Same, storage, locals
  <2>2. pc'[c] = "stmts" /\ snaps'[c] = <<>>
    BY <1>2, <1>b, <1>f, Zenon DEF Subshell, Goto, locals, InCall
  <2> QED
    BY <1>e, <2>1, <2>2, NothingInstalled DEF InCall
<1>3. ASSUME NEW o \in Overlays, NEW l \in Overlays, NEW r \in Overlays, Pipe(o, l, r) PROVE Good
  <2>1. \A q \in Overlays \ {l, r} : Same(q)
    BY <1>3, <1>b DEF Pipe, Same, storage, locals
  <2>2. \A q \in {l, r} : pc'[q] = "stmts" /\ snaps'[q] = <<>>
    BY <1>3, <1>b, <1>f DEF Pipe, locals, InCall
  <2> QED
    BY <1>d, <2>1, <2>2, NothingInstalled DEF InCall
<1>4. ASSUME NEW c \in Overlays, Finish(c) PROVE Good
  <2>1. \A q \in Overlays \ {c} : Same(q)
    BY <1>4, <1>b DEF Finish, Release, ReleaseCrediting, Goto, Detach, Same, locals
  <2>2. pc'[c] = "free" /\ snaps'[c] = <<>>
    BY <1>4, <1>b, <1>f DEF Finish, Goto, locals, InCall
  <2> QED
    BY <1>e, <2>1, <2>2, NothingInstalled DEF InCall
<1>5. ASSUME NEW o \in Overlays, NEW t \in Overlays, NEW as \in Assigns, BeginCall(o, t, as) PROVE Good
  <2>1. \A q \in Overlays \ {o, t} : Same(q)
    BY <1>5, <1>b, <1>c, Zenon DEF BeginCall, Same, storage
  <2>2. \A q \in {o, t} : pc'[q] \in {"expand", "temp"} /\ snaps'[q] = <<>>
    BY <1>5, <1>b, <1>f, Zenon DEF BeginCall, InCall
  <2> QED
    BY <1>d, <2>1, <2>2, NothingInstalled DEF InCall
<1>6. ASSUME NEW t \in Overlays, EvalInline(t) PROVE Good
  <2> DEFINE o == parent[t]
  <2>1. o \in Overlays /\ pc[t] = "temp" /\ pc[o] = "expand"
    BY <1>6, <1>a, TempsApart DEF EvalInline
  <2>2. \A q \in Overlays \ {o, t} : Same(q)
    BY <1>6, <1>a, <1>c, SetFrame, ZenonT(40) DEF EvalInline, Same, tree
  <2>3. \A q \in {o, t} : pc'[q] \in {"expand", "temp"} /\ snaps'[q] = <<>>
    BY <1>6, <1>f, <2>1, Zenon DEF EvalInline, InCall
  <2> QED
    BY <1>d, <2>1, <2>2, <2>3, NothingInstalled DEF InCall
<1>7. ASSUME NEW t \in Overlays, EndInline(t) PROVE Good
  <2> DEFINE o == parent[t]
  <2>1. o \in Overlays /\ pc[t] = "temp" /\ pc[o] = "expand" /\ o # t
    BY <1>7, <1>a, TempsApart DEF EndInline
  <2>2. \A q \in Overlays \ {o, t} : Same(q)
    <3>1. \A q \in Overlays \ {o, t} : pc'[q] = pc[q] /\ call'[q] = call[q] /\ at'[q] = at[q]
      BY <1>7, <1>b, <1>c DEF EndInline, Return
    <3>2. \A q \in Overlays \ {o, t} : values'[q] = values[q] /\ owned'[q] = owned[q] /\ inherited'[q] = inherited[q]
      BY <1>7, <1>b, ZenonT(40) DEF EndInline, Release, ReleaseCrediting, Detach
    <3> QED
      BY <1>7, <3>1, <3>2, Zenon DEF EndInline, Same
  <2>3. /\ pc'[t] = "free" /\ pc'[o] \in {"stmts", "redirs"} /\ at'[o] = 1
        /\ snaps'[t] = <<>> /\ snaps'[o] = <<>>
    BY <1>7, <1>b, <1>c, <1>f, <2>1, ZenonT(40) DEF EndInline, InCall
  <2>4. CallKept(t)'
    BY <2>1, <2>3, NothingInstalled DEF InCall
  <2>5. \A q \in Overlays : q = o => CallKept(q)'
    BY <2>1, <2>3, NothingInstalled DEF InCall
  <2> QED
    BY <1>d, <2>2, <2>4, <2>5
<1>8. ASSUME NEW o \in Overlays, EndRedirs(o) PROVE Good
  <2>1. \A q \in Overlays \ {o} : Same(q)
    BY <1>8, <1>b, <1>c DEF EndRedirs, Goto, Return, Same, tree, storage
  <2>2. pc[o] = "redirs" /\ snaps[o] = <<>> /\ snaps'[o] = <<>> /\ at'[o] = 1
    BY <1>8, <1>a DEF EndRedirs, CallKept, InCall
  <2>3. CASE pc'[o] = "stmts"
    BY <1>e, <2>1, <2>2, <2>3, NothingInstalled DEF InCall
  <2>4. CASE pc'[o] # "stmts"
    <3>1. pc'[o] = "install" /\ before'[o] = [env |-> Get(o), owned |-> owned[o]]
      BY <1>8, <1>b, <1>c, <2>4 DEF EndRedirs, Goto
    <3>2. values'[o] = values[o] /\ inherited'[o] = inherited[o] /\ owned'[o] = owned[o]
      BY <1>8 DEF EndRedirs, tree, storage
    <3>3. \A n \in Names : AsBefore(o, n)'
      BY <3>1, <3>2 DEF AsBefore, Get
    <3>4. call'[o] \in Seq(Names \X Lens)
      BY <1>8, <1>b, <1>c, <2>4 DEF EndRedirs, Goto, Return
    <3>5. \A i \in DOMAIN call'[o] : ~(i < at'[o])
      BY <2>2, <3>4
    <3>6. SnapsTrue(o)'
      BY <2>2 DEF SnapsTrue
    <3>7. CallKept(o)'
      BY <2>2, <3>1, <3>3, <3>5, <3>6, Zenon DEF CallKept, InCall
    <3> QED
      BY <1>e, <2>1, <3>7
  <2> QED
    BY <2>3, <2>4
<1>9. ASSUME NEW o \in Overlays, Install(o) PROVE Good
  <2>1. \A q \in Overlays \ {o} : Same(q)
    BY <1>9, <1>a, <1>c, SetFrame, Zenon DEF Install, SnapshotBinding, Same, tree
  <2> QED
    BY <1>9, <1>a, <1>e, <2>1, InstallKeeps
<1>10. ASSUME NEW o \in Overlays, StartCommand(o) PROVE Good
  <2>1. \A q \in Overlays \ {o} : Same(q)
    BY <1>10, <1>b DEF StartCommand, Goto, Same, tree, storage, locals
  <2>2. \A i \in DOMAIN call[o] : i < at[o]
    <3>1. call[o] \in Seq(Names \X Lens) /\ at[o] \in Nat /\ at[o] > Len(call[o])
      BY <1>10, <1>c DEF StartCommand
    <3> QED
      BY <3>1
  <2>3. SnapsTrue(o) /\ AllSeen(o)
    BY <1>10, <1>a, <2>2 DEF StartCommand, CallKept, AllSeen
  <2>4. pc'[o] \in {"restore", "command"} /\ UNCHANGED <<tree, locals>>
    BY <1>10, <1>b DEF StartCommand, Goto
  <2> QED
    BY <1>e, <2>1, <2>3, <2>4, SnapshotsSuffice, Zenon DEF tree, locals
<1>11. ASSUME NEW o \in Overlays, EndCommand(o) \/ CdUndo(o) PROVE Good
  <2>1. \A q \in Overlays \ {o} : Same(q)
    BY <1>11, <1>b, Zenon DEF EndCommand, CdUndo, SetUncapped, Own, Charge, Store, Goto, Same, tree, storage, locals
  <2>2. SnapsTrue(o) /\ AllSeen(o)
    BY <1>11, <1>a, Zenon DEF EndCommand, CdUndo, CallKept
  <2>3. pc'[o] = "restore" /\ UNCHANGED <<tree, locals>>
    BY <1>11, <1>b DEF EndCommand, CdUndo, Goto
  <2> QED
    BY <1>e, <2>1, <2>2, <2>3, SnapshotsSuffice DEF tree, locals
<1>12. ASSUME NEW o \in Overlays, NEW dir \in Lens, CdOldPwd(o, dir) PROVE Good
  <2>1. \A q \in Overlays \ {o} : Same(q)
    BY <1>12, <1>b, <1>c, Zenon DEF CdOldPwd, Own, Charge, Store, Goto, Same, tree, storage
  <2>2. SnapsTrue(o) /\ AllSeen(o)
    BY <1>12, <1>a, Zenon DEF CdOldPwd, CallKept
  <2>3. pc'[o] \in {"restore", "cdPwd"} /\ UNCHANGED <<tree, call, snaps, before>>
    BY <1>12, <1>b DEF CdOldPwd, Goto
  <2>4. prevOLDPWD'[o] = Absent => inherited[o][OLDPWD] = Absent
    BY <1>12, <1>c, StorageAssumption, Zenon DEF CdOldPwd, Get
  <2> QED
    BY <1>e, <2>1, <2>2, <2>3, <2>4, SnapshotsSuffice DEF tree
<1>13. ASSUME NEW o \in Overlays, NEW dir \in Lens, CdPwd(o, dir) PROVE Good
  <2>1. \A q \in Overlays \ {o} : Same(q)
    BY <1>13, <1>b, Zenon DEF CdPwd, Own, Charge, Store, Goto, Same, tree, storage, locals
  <2>2. SnapsTrue(o) /\ AllSeen(o) /\ (prevOLDPWD[o] = Absent => inherited[o][OLDPWD] = Absent)
    BY <1>13, <1>a, Zenon DEF CdPwd, CallKept
  <2>3. pc'[o] \in {"keepPwd", "cdUndo"} /\ UNCHANGED <<tree, locals>>
    BY <1>13, <1>b DEF CdPwd, Goto
  <2> QED
    BY <1>e, <2>1, <2>2, <2>3, SnapshotsSuffice DEF tree, locals
<1>14. ASSUME NEW o \in Overlays, Restore(o) PROVE Good
  <2>1. \A q \in Overlays \ {o} : Same(q)
    BY <1>14, <1>b, <1>c, Zenon DEF Restore, RestoreBinding, Own, Charge, Store, Same, tree, storage
  <2> QED
    BY <1>14, <1>a, <1>e, <2>1, RestoreKeeps
<1>15. ASSUME NEW o \in Overlays, EndCall(o) PROVE Good
  <2>1. \A q \in Overlays \ {o} : Same(q)
    BY <1>15, <1>b, <1>c DEF EndCall, Goto, Return, Same, tree, storage
  <2>2. pc'[o] = "stmts" /\ snaps'[o] = <<>>
    BY <1>15, <1>b, Zenon DEF EndCall, Goto
  <2> QED
    BY <1>e, <2>1, <2>2, NothingInstalled DEF InCall
<1>16. ASSUME UNCHANGED vars PROVE Good
  BY <1>16, <1>d, Zenon DEF vars, Same, tree, storage, locals
<1> HIDE DEF Good
<1>17. Good
  BY <1>1, <1>2, <1>3, <1>4, <1>5, <1>6, <1>7, <1>8, <1>9, <1>10, <1>11, <1>12, <1>13,
     <1>14, <1>15, <1>16 DEF Next
<1> QED
  BY <1>17, <1>a, TempWaitsNext DEF CallsKept, Good

\* A cd that could not set PWD shows the OLDPWD of before when it has undone.
LEMMA UndoInvisible ==
  IInv /\ CallsKept /\ [Next]_vars =>
    [\A o \in Overlays :
       pc[o] = "cdUndo" /\ pc'[o] # "cdUndo" => Get(o)'[OLDPWD] = prevOLDPWD[o]]_vars
<1> SUFFICES ASSUME IInv, CallsKept, Next, NEW o \in Overlays, pc[o] = "cdUndo", pc'[o] # "cdUndo"
             PROVE  Get(o)'[OLDPWD] = prevOLDPWD[o]
  OBVIOUS
<1>a. TypeOK /\ TempWaits /\ CallKept(o) /\ OLDPWD \in Names
  BY StorageAssumption DEF IInv, CallsKept
<1>b. pc \in [Overlays -> PCs] /\ parent \in [Overlays -> Overlays] /\ values \in [Overlays -> Env]
  BY <1>a DEF TypeOK
<1>1. ASSUME NEW p \in Overlays, EndInline(p) PROVE FALSE
  BY <1>1, <1>a, <1>b, TempsApart DEF EndInline
<1>2. CdUndo(o)
  <2>1. ASSUME NEW p \in Overlays, NEW label, pc[p] # "cdUndo", pc' = [pc EXCEPT ![p] = label] PROVE FALSE
    BY <1>b, <2>1
  <2>2. ASSUME NEW p \in Overlays,
               \/ \E c \in Overlays : Subshell(p, c)
               \/ \E l, r \in Overlays : Pipe(p, l, r)
               \/ Finish(p)
               \/ \E t \in Overlays, as \in Assigns : BeginCall(p, t, as)
        PROVE  FALSE
    BY <1>b, <2>2 DEF Subshell, Pipe, Finish, BeginCall, Goto
  <2>3. ASSUME NEW p \in Overlays,
               \/ \E n \in Names, len \in Lens : Assign(p, n, len)
               \/ EvalInline(p) \/ Install(p) \/ Restore(p)
        PROVE  FALSE
    BY <2>3, Zenon DEF Assign, EvalInline, Install, Restore
  <2>4. ASSUME NEW p \in Overlays, EndRedirs(p) \/ StartCommand(p) \/ EndCommand(p) \/ EndCall(p) PROVE FALSE
    BY <2>1, <2>4, Zenon DEF EndRedirs, StartCommand, EndCommand, EndCall, Goto
  <2>5. ASSUME NEW p \in Overlays, NEW dir \in Lens, CdOldPwd(p, dir) \/ CdPwd(p, dir) PROVE FALSE
    BY <2>1, <2>5 DEF CdOldPwd, CdPwd, Goto
  <2>6. ASSUME NEW p \in Overlays, CdUndo(p) PROVE p = o
    BY <1>b, <2>6 DEF CdUndo, Goto
  <2> QED
    BY <1>1, <1>a, <2>2, <2>3, <2>4, <2>5, <2>6, Zenon DEF Next
<1>3. values'[o][OLDPWD] = prevOLDPWD[o] /\ inherited'[o] = inherited[o]
  BY <1>2, <1>a, <1>b, Zenon DEF CdUndo, SetUncapped, Store, Env, tree
<1>4. prevOLDPWD[o] = Absent => inherited[o][OLDPWD] = Absent
  BY <1>a, Zenon DEF CallKept
<1> QED
  BY <1>3, <1>4, <1>a DEF Get

\* Whatever a command assigns and however it ends, its inline assignments are
\* undone, and a failed cd leaves no trace (callExpr's deferred restores,
\* restoreBinding, and setVarRestore in changeDir).
THEOREM AlwaysPutBack == Spec => PutBack
<1>1. Init => CallsKept
  BY SMTT(30) DEF Init, CallsKept, TempWaits, CallKept, SnapsTrue, InCall
<1>2. IInv /\ CallsKept /\ [Next]_vars => CallsKept'
  BY CallsKeptNext
<1>3. IInv /\ CallsKept => TypeOK /\ InlineRestored
  <2> SUFFICES ASSUME IInv, CallsKept PROVE InlineRestored
    BY DEF IInv
  <2> QED
    BY SMTT(30) DEF CallsKept, CallKept, InlineRestored, Seen, AsBefore
<1>4. Spec => []CallsKept
  BY <1>1, <1>2, StorageInvariant, PTL DEF Spec
<1>5. IInv /\ CallsKept /\ [Next]_vars =>
        [\A o \in Overlays :
           pc[o] = "cdUndo" /\ pc'[o] # "cdUndo" => Get(o)'[OLDPWD] = prevOLDPWD[o]]_vars
  BY UndoInvisible
<1> QED
  BY <1>3, <1>4, <1>5, StorageInvariant, PTL DEF Spec, PutBack, FailedCdInvisible

=============================================================================

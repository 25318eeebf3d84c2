----------------------------- MODULE VarStorage -----------------------------
(***************************************************************************)
(* Shell variables and the run-wide budget on their storage                *)
(* (interp/vars.go, and the parts of runner_exec.go, cd_support.go and     *)
(* api.go that create, write and release overlays).                        *)
(*                                                                         *)
(* A run is a tree of overlays: the root, a foreground overlay per (...)   *)
(* or $(...), two background copies per pipeline, and a temporary one      *)
(* while the inline assignments of "X=1 cmd" are evaluated.  The runner of *)
(* an overlay waits while it has children, the two stages of a pipeline    *)
(* run concurrently, and all of them charge what they hold to one budget.  *)
(*                                                                         *)
(* A value is represented by its length: lengths are what is charged.  No  *)
(* command of the shell unsets a variable or makes one local or readonly,  *)
(* so those branches of overlayEnviron.Set have no action here.            *)
(***************************************************************************)
EXTENDS Integers, Sequences, FiniteSets

CONSTANTS
  Overlays,    \* bound: overlays alive at once
  Root,        \* the overlay Reset creates
  Names,       \* variable names
  NameCost,    \* name -> length of the name plus varEntryOverheadBytes
  MaxVarBytes, \* longest value
  MaxCharge,   \* no single charge, for a value or a name, is larger
  Caps,        \* MaxTotalVarsBytes and MaxTotalVarEntryBytes
  MaxAssigns,  \* bound: inline assignments of one command
  HostEnvs,    \* what Env() may provide: lengths, or Absent
  PWD, OLDPWD  \* the two names cd writes

Dims == {"values", "entries"}   \* the two fields of varStorage

Lens == 0..MaxVarBytes

Absent == -1                    \* no entry for a name, or an undeclared one

Env == [Names -> Lens \cup {Absent}]

ASSUME StorageAssumption ==
  /\ IsFiniteSet(Overlays) /\ Root \in Overlays
  /\ IsFiniteSet(Names) /\ PWD \in Names /\ OLDPWD \in Names
  /\ MaxVarBytes \in Nat /\ MaxCharge \in Nat /\ MaxVarBytes <= MaxCharge
  /\ NameCost \in [Names -> 0..MaxCharge]
  /\ Caps \in [Dims -> Nat]
  /\ HostEnvs \subseteq Env
  /\ MaxAssigns \in Nat

VARIABLES
  pc,       \* what the runner of each overlay is doing; "free" if none
  parent,   \* the overlay each overlay was derived from
  inherited,\* what overlayEnviron.parent answers: fixed, the parent waits
  values,   \* overlayEnviron.values
  owned,    \* overlayEnviron.owned
  charged,  \* overlayEnviron.charged
  live,     \* varStorageBudget.live
  exiting,  \* overlays whose runner is exiting after a rejected assignment
  call,     \* the inline assignments of the command being run
  at,       \* the next of them to evaluate or install
  snaps,    \* the bindings to restore when the command ends
  prevOLDPWD,
  before    \* history: what o saw and owned just before they are installed

tree == <<parent, inherited>>
storage == <<owned, charged, live>>
locals == <<call, at, snaps, prevOLDPWD, before>>
vars == <<pc, tree, values, storage, exiting, locals>>

PCs == {"free", "stmts", "temp", "expand", "redirs", "install", "command",
        "cdPwd", "cdUndo", "restore", "keepPwd"}

Cost == [Dims -> 0..MaxCharge]
Assigns == UNION {[1..k -> Names \X Lens] : k \in 0..MaxAssigns}
Snapshot == [name : Names, value : Lens \cup {Absent}, owned : Cost]
View == [env : Env, owned : [Names -> Cost]]

NoEnv == [n \in Names |-> Absent]
NoCost == [d \in Dims |-> 0]
OwnsNothing == [n \in Names |-> NoCost]
NoView == [env |-> NoEnv, owned |-> OwnsNothing]

\* overlayEnviron.Get, for every name.
Get(o) == [n \in Names |-> IF values[o][n] # Absent THEN values[o][n] ELSE inherited[o][n]]

\* The runner of o can step: it is not waiting for a subshell or a pipeline.
Ready(o) == \A c \in Overlays \ {o, Root} : pc[c] # "free" => parent[c] # o

Goto(o, label) == pc' = [pc EXCEPT ![o] = label]

-----------------------------------------------------------------------------
\* varStorageCost of a declared variable.
VarCost(n, len) == [d \in Dims |-> IF d = "values" THEN len ELSE NameCost[n]]

\* The budget after o's storage for n becomes cost.
After(o, n, cost) == [d \in Dims |-> live[d] + (cost[d] - owned[o][n][d])]

\* varStorage.grows and exceedsCaps.
Grows(o, n, cost) == \E d \in Dims : cost[d] > owned[o][n][d]
ExceedsCaps(total) == \E d \in Dims : total[d] > Caps[d]

Rejects(o, n, cost) == Grows(o, n, cost) /\ ExceedsCaps(After(o, n, cost))

Charge(o, n, cost, total) ==
  /\ live' = total
  /\ charged' = [charged EXCEPT ![o] = [d \in Dims |-> @[d] + (cost[d] - owned[o][n][d])]]
  /\ owned' = [owned EXCEPT ![o][n] = cost]

\* Mutant: the shared budget is not told.
OwnPrivately(o, n, cost) == Charge(o, n, cost, live)

\* overlayEnviron.own, once it is admitted.
Own(o, n, cost) == Charge(o, n, cost, After(o, n, cost))

ReleaseCrediting(o, credit) ==
  /\ live' = [d \in Dims |-> live[d] - credit[d]]
  /\ charged' = [charged EXCEPT ![o] = NoCost]
  /\ owned' = [owned EXCEPT ![o] = OwnsNothing]
  /\ values' = [values EXCEPT ![o] = NoEnv]

\* overlayEnviron.release of a finished overlay.
Release(o) == ReleaseCrediting(o, charged[o])

Store(o, n, len) == values' = [values EXCEPT ![o][n] = len]

\* Mutant: the caps are not enforced.
SetUnchecked(o, n, len) ==
  Own(o, n, VarCost(n, len)) /\ Store(o, n, len) /\ UNCHANGED exiting

\* Set, called by setVar: nothing is stored when it rejects, and the script is
\* aborted.
Set(o, n, len) ==
  \/ /\ ~Rejects(o, n, VarCost(n, len))
     /\ Own(o, n, VarCost(n, len))
     /\ Store(o, n, len)
     /\ UNCHANGED exiting
  \/ /\ Rejects(o, n, VarCost(n, len))
     /\ exiting' = exiting \cup {o}
     /\ UNCHANGED <<values, storage>>

\* setUncapped, of a value that may be undeclared.
SetUncapped(o, n, len) ==
  /\ Own(o, n, IF len = Absent THEN NoCost ELSE VarCost(n, len))
  /\ Store(o, n, len)

-----------------------------------------------------------------------------
\* The overlay tree, what each overlay owns, and its command have their types.
TypeOK ==
  /\ pc \in [Overlays -> PCs]
  /\ parent \in [Overlays -> Overlays]
  /\ inherited \in [Overlays -> Env]
  /\ values \in [Overlays -> Env]
  /\ owned \in [Overlays -> [Names -> Cost]]
  /\ charged \in [Overlays -> [Dims -> Nat]]
  /\ live \in [Dims -> Nat]
  /\ exiting \in SUBSET Overlays
  /\ call \in [Overlays -> Seq(Names \X Lens)]
  /\ at \in [Overlays -> Nat \ {0}]
  /\ snaps \in [Overlays -> Seq(Snapshot)]
  /\ prevOLDPWD \in [Overlays -> Lens \cup {Absent}]
  /\ before \in [Overlays -> View]

\* What Env() provides and Reset assigns is not charged (resetAccounting): the
\* root starts with variables it does not own.
Init ==
  /\ pc = [o \in Overlays |-> IF o = Root THEN "stmts" ELSE "free"]
  /\ parent = [o \in Overlays |-> Root]
  /\ \E env \in HostEnvs : inherited = [o \in Overlays |-> IF o = Root THEN env ELSE NoEnv]
  /\ \E dir \in Lens : values = [[o \in Overlays |-> NoEnv] EXCEPT ![Root][PWD] = dir]
  /\ owned = [o \in Overlays |-> OwnsNothing]
  /\ charged = [o \in Overlays |-> NoCost]
  /\ live = NoCost
  /\ exiting = {}
  /\ call = [o \in Overlays |-> <<>>]
  /\ at = [o \in Overlays |-> 1]
  /\ snaps = [o \in Overlays |-> <<>>]
  /\ prevOLDPWD = [o \in Overlays |-> Absent]
  /\ before = [o \in Overlays |-> NoView]

\* setVar for X=value and for the variable of a for loop, and the SetVar of a
\* running read builtin.
Assign(o, n, len) ==
  /\ pc[o] \in {"stmts", "command"}
  /\ Ready(o)
  /\ o \notin exiting
  /\ Set(o, n, len)
  /\ UNCHANGED <<pc, tree, locals>>

\* Runner.subshell(false): (...) and $(...) read through to their parent.
Subshell(o, c) ==
  /\ pc[o] \in {"stmts", "temp", "redirs"}
  /\ Ready(o)
  /\ o \notin exiting
  /\ pc[c] = "free"
  /\ Goto(c, "stmts")
  /\ parent' = [parent EXCEPT ![c] = o]
  /\ inherited' = [inherited EXCEPT ![c] = Get(o)]
  /\ UNCHANGED <<values, storage, exiting, locals>>

\* Both sides of a pipe are subshell(true): copies of what o sees.
Pipe(o, left, right) ==
  /\ pc[o] = "stmts"
  /\ Ready(o)
  /\ o \notin exiting
  /\ left # right /\ pc[left] = "free" /\ pc[right] = "free"
  /\ pc' = [pc EXCEPT ![left] = "stmts", ![right] = "stmts"]
  /\ parent' = [parent EXCEPT ![left] = o, ![right] = o]
  /\ values' = [values EXCEPT ![left] = Get(o), ![right] = Get(o)]
  /\ UNCHANGED <<inherited, storage, exiting, locals>>

Detach(c) ==
  /\ parent' = [parent EXCEPT ![c] = Root]
  /\ inherited' = [inherited EXCEPT ![c] = NoEnv]

\* releaseVarStorage at the end of a subshell or of a stage.
Finish(c) ==
  /\ c # Root
  /\ pc[c] = "stmts"
  /\ Ready(c)
  /\ Release(c)
  /\ Goto(c, "free")
  /\ exiting' = exiting \ {c}
  /\ Detach(c)
  /\ UNCHANGED locals

-----------------------------------------------------------------------------
\* callExpr: the inline assignments of a command are first evaluated in a
\* temporary overlay t.
BeginCall(o, t, assigns) ==
  /\ pc[o] = "stmts"
  /\ Ready(o)
  /\ o \notin exiting
  /\ pc[t] = "free"
  /\ pc' = [pc EXCEPT ![o] = "expand", ![t] = "temp"]
  /\ parent' = [parent EXCEPT ![t] = o]
  /\ call' = [call EXCEPT ![o] = assigns]
  /\ at' = [at EXCEPT ![o] = 1]
  /\ inherited' = [inherited EXCEPT ![t] = Get(o)]
  /\ UNCHANGED <<values, storage, exiting, snaps, prevOLDPWD, before>>

\* One of them is set in the temporary overlay.
EvalInline(t) ==
  LET o == parent[t] IN
  /\ pc[t] = "temp"
  /\ Ready(t)
  /\ t \notin exiting
  /\ at[o] <= Len(call[o])
  /\ Set(t, call[o][at[o]][1], call[o][at[o]][2])
  /\ at' = [at EXCEPT ![o] = @ + 1]
  /\ UNCHANGED <<pc, tree, call, snaps, prevOLDPWD, before>>

\* The command is over for o.
Return(o) == call' = [call EXCEPT ![o] = <<>>]

\* The temporary overlay is released on every exit; a rejected assignment ends
\* the command before its redirections.
EndInline(t) ==
  LET o == parent[t] IN
  /\ pc[t] = "temp"
  /\ Ready(t)
  /\ Release(t)
  /\ \/ /\ t \in exiting
        /\ pc' = [pc EXCEPT ![t] = "free", ![o] = "stmts"]
        /\ exiting' = (exiting \ {t}) \cup {o}
        /\ Return(o)
     \/ /\ t \notin exiting /\ at[o] > Len(call[o])
        /\ pc' = [pc EXCEPT ![t] = "free", ![o] = "redirs"]
        /\ UNCHANGED <<exiting, call>>
  /\ at' = [at EXCEPT ![o] = 1]
  /\ Detach(t)
  /\ UNCHANGED <<snaps, prevOLDPWD, before>>

\* applyRedirects: a redirection that fails ends the command.
EndRedirs(o) ==
  /\ pc[o] = "redirs"
  /\ Ready(o)
  /\ \/ Goto(o, "stmts") /\ Return(o) /\ UNCHANGED before
     \/ /\ Goto(o, "install")
        /\ before' = [before EXCEPT ![o] = [env |-> Get(o), owned |-> owned[o]]]
        /\ UNCHANGED call
  /\ UNCHANGED <<tree, values, storage, exiting, at, snaps, prevOLDPWD>>

Saved(o, n) == [name |-> n, value |-> values[o][n], owned |-> owned[o][n]]
Seen(o, n) == \E i \in DOMAIN snaps[o] : snaps[o][i].name = n

\* snapshotBinding, the first time a name is assigned by this command.
SnapshotBinding(o, n) ==
  snaps' = [snaps EXCEPT ![o] = IF Seen(o, n) THEN @ ELSE Append(@, Saved(o, n))]

\* An inline assignment is installed for the command.  A rejected one does not
\* keep the later ones from being installed.
Install(o) ==
  /\ pc[o] = "install"
  /\ at[o] <= Len(call[o])
  /\ SnapshotBinding(o, call[o][at[o]][1])
  /\ Set(o, call[o][at[o]][1], call[o][at[o]][2])
  /\ at' = [at EXCEPT ![o] = @ + 1]
  /\ UNCHANGED <<pc, tree, call, prevOLDPWD, before>>

\* The command runs unless an assignment was rejected.
StartCommand(o) ==
  /\ pc[o] = "install"
  /\ at[o] > Len(call[o])
  /\ Goto(o, IF o \in exiting THEN "restore" ELSE "command")
  /\ UNCHANGED <<tree, values, storage, exiting, locals>>

EndCommand(o) ==
  /\ pc[o] = "command"
  /\ Goto(o, "restore")
  /\ UNCHANGED <<tree, values, storage, exiting, locals>>

-----------------------------------------------------------------------------
\* changeDir writes OLDPWD, then PWD.  Neither failure exits the shell.
CdOldPwd(o, dir) ==
  /\ pc[o] = "command"
  /\ o \notin exiting
  /\ Get(o)[PWD] > 0 => dir = Get(o)[PWD]
  /\ prevOLDPWD' = [prevOLDPWD EXCEPT ![o] = Get(o)[OLDPWD]]
  /\ \/ /\ ~Rejects(o, OLDPWD, VarCost(OLDPWD, dir))
        /\ Own(o, OLDPWD, VarCost(OLDPWD, dir))
        /\ Store(o, OLDPWD, dir)
        /\ Goto(o, "cdPwd")
     \/ /\ Rejects(o, OLDPWD, VarCost(OLDPWD, dir))
        /\ Goto(o, "restore")
        /\ UNCHANGED <<values, storage>>
  /\ UNCHANGED <<tree, exiting, call, at, snaps, before>>

CdPwd(o, dir) ==
  /\ pc[o] = "cdPwd"
  /\ \/ /\ ~Rejects(o, PWD, VarCost(PWD, dir))
        /\ Own(o, PWD, VarCost(PWD, dir))
        /\ Store(o, PWD, dir)
        /\ Goto(o, "keepPwd")
     \/ /\ Rejects(o, PWD, VarCost(PWD, dir))
        /\ Goto(o, "cdUndo")
        /\ UNCHANGED <<values, storage>>
  /\ UNCHANGED <<tree, exiting, locals>>

\* Mutant: OLDPWD keeps what the failed cd wrote.
CdNoUndo(o) ==
  /\ pc[o] = "cdUndo"
  /\ Goto(o, "restore")
  /\ UNCHANGED <<tree, values, storage, exiting, locals>>

\* setVarRestore of OLDPWD when PWD could not be set.
CdUndo(o) ==
  /\ pc[o] = "cdUndo"
  /\ SetUncapped(o, OLDPWD, prevOLDPWD[o])
  /\ Goto(o, "restore")
  /\ UNCHANGED <<tree, exiting, locals>>

\* callExpr's deferred restores.  A cd that succeeded keeps what it wrote.
Kept(o) == IF pc[o] = "keepPwd" THEN {PWD, OLDPWD} ELSE {}

\* restoreBinding.
RestoreBinding(o, snap) == Own(o, snap.name, snap.owned) /\ Store(o, snap.name, snap.value)

Restore(o) ==
  /\ pc[o] \in {"restore", "keepPwd"}
  /\ snaps[o] # <<>>
  /\ LET snap == Head(snaps[o]) IN
       \/ snap.name \notin Kept(o) /\ RestoreBinding(o, snap)
       \/ snap.name \in Kept(o) /\ UNCHANGED <<values, storage>>
  /\ snaps' = [snaps EXCEPT ![o] = Tail(@)]
  /\ UNCHANGED <<pc, tree, exiting, call, at, prevOLDPWD, before>>

EndCall(o) ==
  /\ pc[o] \in {"restore", "keepPwd"}
  /\ snaps[o] = <<>>
  /\ Goto(o, "stmts")
  /\ Return(o)
  /\ at' = [at EXCEPT ![o] = 1]
  /\ prevOLDPWD' = [prevOLDPWD EXCEPT ![o] = Absent]
  /\ before' = [before EXCEPT ![o] = NoView]
  /\ UNCHANGED <<tree, values, storage, exiting, snaps>>

-----------------------------------------------------------------------------
Next == \E o \in Overlays :
  \/ \E n \in Names, len \in Lens : Assign(o, n, len)
  \/ \E c \in Overlays : Subshell(o, c)
  \/ \E left, right \in Overlays : Pipe(o, left, right)
  \/ Finish(o)
  \/ \E t \in Overlays, assigns \in Assigns : BeginCall(o, t, assigns)
  \/ EvalInline(o) \/ EndInline(o) \/ EndRedirs(o)
  \/ Install(o) \/ StartCommand(o) \/ EndCommand(o)
  \/ \E dir \in Lens : CdOldPwd(o, dir) \/ CdPwd(o, dir)
  \/ CdUndo(o) \/ Restore(o) \/ EndCall(o)

Spec == Init /\ [][Next]_vars

-----------------------------------------------------------------------------
Live == {o \in Overlays : pc[o] # "free"}

\* What the overlays in S are charged if they own ow, one element per byte.
Units(ow, S, d) ==
  {u \in S \X (Names \X (1..MaxCharge)) : u[2][2] <= ow[u[1]][u[2][1]][d]}

\* "live is the sum of the storage each live overlay owns" and "charged is the
\* sum of owned", whatever the stages of a pipeline do concurrently.
Accounting ==
  \A d \in Dims :
    /\ live[d] = Cardinality(Units(owned, Live, d))
    /\ \A o \in Overlays : charged[o][d] = Cardinality(Units(owned, {o}, d))

\* Assignments that would push the run-wide total over a cap are rejected: only
\* putting back what was there before a command or a failed cd may exceed it.
CapEnforced ==
  [][\A d \in Dims :
       live'[d] > Caps[d] =>
         \/ live'[d] <= live[d]
         \/ \E o \in Overlays :
              pc[o] \in {"cdUndo", "restore", "keepPwd"} /\ owned'[o] # owned[o]]_vars

\* Once its bindings are restored, a command leaves every variable that its
\* inline assignments named with the value and the ownership it had before,
\* whatever the command assigned, except for what a successful cd wrote.
InlineRestored ==
  \A o \in Overlays :
    pc[o] \in {"restore", "keepPwd"} /\ snaps[o] = <<>> =>
      \A i \in DOMAIN call[o] :
        LET n == call[o][i][1] IN
        n \notin Kept(o) => /\ Get(o)[n] = before[o].env[n]
                            /\ owned[o][n] = before[o].owned[n]

\* A failed cd leaves no trace in the variables the shell shows: OLDPWD is put
\* back when PWD could not be set.
FailedCdInvisible ==
  [][\A o \in Overlays :
       pc[o] = "cdUndo" /\ pc'[o] # "cdUndo" => Get(o)'[OLDPWD] = prevOLDPWD[o]]_vars

\* What a command or a failed cd changed for a while is put back: inline
\* assignments and OLDPWD, with the ownership they had.
PutBack ==
  [](TypeOK /\ InlineRestored) /\ FailedCdInvisible

=============================================================================

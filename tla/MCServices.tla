----------------------------- MODULE MCServices -----------------------------
(***************************************************************************)
(* The privileged helper, the journal, and damaged journal files: the      *)
(* cases, then the specification that holds them side by side.             *)
(***************************************************************************)

EXTENDS PrivilegedHelper, TLC, Journal

CONSTANTS h1, h2, c1, c2

TwoHelpers == {h1, h2}
TwoClients == {c1, c2}

Cmd(n) == [ns |-> "rshell", name |-> n]
P(comps) == [abs |-> TRUE, comps |-> comps]

\* "/", "/a", "/a:rw", "/a/b", "/a/b/../b:rw", "/a:ro:rw" and the relative "a:rw"
Entries == {P(<<>>), P(<<<<"a">>>>), P(<<<<"a", "rw">>>>), P(<<<<"a">>, <<"b">>, <<"..">>, <<"b", "rw">>>>),
            P(<<<<"a", "ro", "rw">>>>), P(<<<<"", "rw">>>>), [abs |-> FALSE, comps |-> <<<<"a", "rw">>>>]}
Lists == {{a, b} : a, b \in Entries}

Good(k) == [id |-> k, type |-> "ed25519", good |-> TRUE]
NoAgent == [narrows |-> {}]
Services == ("ssh" :> {"start", "stop"}) @@ ("cron" :> {"*"}) @@ ("ntp" :> {NotAString})
Words(ws) == [pipeline |-> FALSE, words |-> ws]
Word(head, sudo, name, child) == [head |-> head, sudo |-> sudo, name |-> name, child |-> child]
Program == Words(<<Word("sudo", TRUE, "find", "cat"), Word("inert", FALSE, "cat", ""), Word("indirect", TRUE, "cat", "")>>)

Task(id) ==
  [id |-> id, parses |-> TRUE, expires |-> TRUE, org |-> 7, runner |-> "r", bundle |-> "rshell",
   action |-> "runRemediationCommand",
   inputs |-> [decodes |-> TRUE, permissions |-> "EscalationAllowed", elevatable |-> {Cmd("find"), Cmd("cat")},
               program |-> Program],
   remote |-> [present |-> TRUE, commands |-> {Cmd("find"), Cmd("cat"), Cmd("ps")}, paths |-> {P(<<<<"a", "rw">>>>)},
               services |-> Services]]
Request(task) ==
  [version |-> 1, keys |-> <<Good("k")>>, agent |-> NoAgent,
   envelope |-> [hash |-> "SHA256", empty |-> FALSE, task |-> task,
                 signatures |-> <<[key |-> "x", type |-> "rsa", good |-> FALSE],
                                  [key |-> "k", type |-> "ed25519", good |-> TRUE]>>]]
Local == [commands |-> {AnyRshell}, paths |-> {P(<<>>), P(<<<<"", "rw">>>>)},
          services |-> ("ssh" :> {"stop"}) @@ ("cron" :> {"start"}), elevatable |-> {Cmd("find")}]
File == [kind |-> "regular", rootOwned |-> TRUE, writable |-> FALSE, parses |-> TRUE, org |-> 7, runner |-> "r",
         director |-> "none", keys |-> <<>>, policy |-> Local]
NoFile == [kind |-> "none"]
Host == {<<>>, <<<<"a">>>>, <<<<"a">>, <<"b">>>>, <<<<"proc">>>>, <<<<"machine-id">>>>}

Agent == [uid |-> 5, gid |-> 6, groups |-> {6, 7}]
Dir == [kind |-> "dir", owner |-> 0, group |-> 7, search |-> {"user", "group"}, writable |-> FALSE, sticky |-> FALSE]
Sticky == [Dir EXCEPT !.group = 0, !.search = {"user", "group", "other"}, !.writable = TRUE, !.sticky = TRUE]

HelperCase(owned, before, file, requests, faults) ==
  [owned |-> owned, before |-> before, helpers |-> IF faults THEN Helpers ELSE {h1}, file |-> file,
   account |-> Agent, dirs |-> <<Dir, Sticky>>, requests |-> requests, host |-> Host, builtins |-> {"find", "cat", "rm"}, remediationOnly |-> {"rm"},
   faults |-> faults]

\* Two helpers, two clients, everything that can go wrong.
Faulty == {HelperCase(TRUE, before, File, (c1 :> Request(Task("t1"))) @@ (c2 :> Request(Task("t2"))), TRUE) :
             before \in {"none", "file", "stale", "foreign"}}
          \cup {HelperCase(FALSE, "none", NoFile, (c1 :> Request(Task("t1"))) @@ (c2 :> Request(Task("t2"))), TRUE)}

\* One undisturbed request for each pair of path lists.
PathCases == {HelperCase(FALSE, "none", [File EXCEPT !.policy.paths = local],
                   (c1 :> Request([Task("t1") EXCEPT !.remote.paths = signed, !.inputs.program = Words(<<>>)])), FALSE) :
                signed, local \in Lists}

\* Requests that differ from a good one in one respect.
Proof(id) == [id |-> id, type |-> "director", good |-> TRUE,
              proof |-> [target |-> "p", org |-> 7, valid |-> TRUE, key |-> Good("k")]]
T == Task("t1")
R == Request(T)
Variants == {[R EXCEPT !.version = 2], [R EXCEPT !.keys = <<>>], [R EXCEPT !.keys = <<Good("k"), Good("l")>>],
             [R EXCEPT !.keys = <<[Good("k") EXCEPT !.good = FALSE]>>], [R EXCEPT !.keys = <<Proof("p")>>],
             [R EXCEPT !.keys = <<Proof("p"), Good("l")>>], [R EXCEPT !.keys = <<Proof("q")>>],
             [R EXCEPT !.envelope.hash = "MD5"], [R EXCEPT !.envelope.empty = TRUE],
             [R EXCEPT !.envelope.signatures = <<>>],
             [R EXCEPT !.envelope.signatures = <<[key |-> "k", type |-> "ed25519", good |-> FALSE]>>],
             [R EXCEPT !.envelope.signatures = <<[key |-> "k", type |-> "rsa", good |-> TRUE]>>],
             [R EXCEPT !.agent = [narrows |-> {"commands", "paths", "services", "elevatable"},
                                  commands |-> {Cmd("cat")}, paths |-> {P(<<<<"a">>, <<"b", "rw">>>>)},
                                  services |-> ("ssh" :> {"*"}), elevatable |-> {Cmd("cat")}]]}
            \cup {Request(t) : t \in
                   {[T EXCEPT !.parses = FALSE], [T EXCEPT !.org = 8], [T EXCEPT !.runner = "s"], [T EXCEPT !.bundle = "x"],
                    [T EXCEPT !.action = "runCommand"], [T EXCEPT !.action = "x"], [T EXCEPT !.inputs.decodes = FALSE],
                    [T EXCEPT !.inputs.permissions = "x"], [T EXCEPT !.remote.present = FALSE],
                    [T EXCEPT !.inputs.program.pipeline = TRUE],
                    [T EXCEPT !.inputs.program = [Words(<<Word("inert", FALSE, "cat", "")>>) EXCEPT !.pipeline = TRUE]],
                    [T EXCEPT !.inputs.program = Words(<<Word("inert", FALSE, "rm", ""), Word("sudo", TRUE, "ps", "")>>)],
                    [T EXCEPT !.remote.commands = @ \cup {Cmd("journalctl"), Cmd("uname"), Cmd("ss"), Cmd("df")}]}}
Files == {File, NoFile, [File EXCEPT !.director = "valid"], [File EXCEPT !.writable = TRUE], [File EXCEPT !.runner = ""],
          [File EXCEPT !.director = "valid", !.keys = <<Good("k")>>], [File EXCEPT !.keys = <<Good("k"), Good("k")>>]}
VariantCases == {HelperCase(TRUE, "none", file, (c1 :> r), FALSE) : file \in Files, r \in Variants}

\* One request to a helper with another account or other directories above its socket.
DirCases == LET C == HelperCase(TRUE, "stale", NoFile, (c1 :> R), FALSE)
            IN  {[C EXCEPT !.account = a] : a \in {[Agent EXCEPT !.uid = 0], [Agent EXCEPT !.groups = {6}],
                                                   [Agent EXCEPT !.groups = {-1}]}}
                \cup {[C EXCEPT !.dirs = <<d, e>>] :
                        d, e \in {Dir, Sticky, [Sticky EXCEPT !.sticky = FALSE], [Dir EXCEPT !.search = {"user"}],
                                  [Dir EXCEPT !.owner = 5, !.search = {"user"}], [Dir EXCEPT !.kind = "link"]}}

AllHelperCases == DirCases \cup Faulty \cup PathCases \cup VariantCases

-----------------------------------------------------------------------------
(* Calls of journalctl on journals of two or three files.                     *)
E(seq, boot, mono, unit) ==
  [seq |-> seq, time |-> 10 + seq, mono |-> mono, boot |-> boot,
   fields |-> IF unit = "kernel" THEN <<<<"_TRANSPORT", "kernel">>, <<"MESSAGE", "m">>>>
              ELSE IF unit = "about a" THEN <<<<"MESSAGE", "m">>, <<"UNIT", "a">>, <<"_PID", "1">>>>
              ELSE IF unit = "claims a" THEN <<<<"UNIT", "a">>, <<"_PID", "7">>>>
              ELSE <<<<"_SYSTEMD_UNIT", unit>>, <<"MESSAGE", "m">>, <<"_COMM", "x">>>>]

F(entries, mtime, id) ==
  [entries |-> entries, linked |-> Len(entries), mtime |-> mtime, blocks |-> 2, fileId |-> id, seqId |-> 1, machine |-> 1,
   nlink |-> 1, archived |-> id # 1, magic |-> "journal", old |-> FALSE]

MCHash ==
  [p \in {<<"_TRANSPORT", "kernel">>, <<"MESSAGE", "m">>, <<"UNIT", "a">>, <<"_PID", "1">>, <<"_PID", "7">>,
          <<"_SYSTEMD_UNIT", "a">>, <<"_SYSTEMD_UNIT", "b">>, <<"_COMM", "x">>, <<"UNIT", "b">>,
          <<"_SYSTEMD_CGROUP", "/init.scope">>, <<"OBJECT_SYSTEMD_UNIT", "a">>, <<"OBJECT_SYSTEMD_UNIT", "b">>,
          <<"COREDUMP_UNIT", "a">>, <<"COREDUMP_UNIT", "b">>, <<"_UID", "0">>, <<"MESSAGE_ID", "coredump">>} |->
     CASE p[1] = "_SYSTEMD_UNIT" -> IF p[2] = "a" THEN 1 ELSE 3 [] p[1] = "MESSAGE" -> 1 [] p[1] = "UNIT" -> 2
       [] p[1] = "_PID" -> 2 [] OTHER -> 4]

Flags(set, units, lines) ==
  [set |-> set, units |-> units, lines |-> lines, since |-> 0, output |-> "short", size |-> 0, age |-> 0, clock |-> TRUE,
   args |-> FALSE]

Disk(files, names) == [dir |-> [k \in names |-> 1 + (CHOOSE i \in 0..2 : i = IF k < 0 THEN 2 ELSE k)], ino |-> files]

Old == F(<<E(1, 1, 5, "a"), E(2, 1, 6, "b"), E(3, 2, 1, "a")>>, 1, 2)
Cur == F(<<E(4, 2, 2, "about a"), E(5, 2, 3, "a")>>, 5, 1)
Two == Disk(<<Cur, Old>>, {0, 1})

JournalCase(flags, disk) ==
  [flags |-> flags, disk |-> disk, appends |-> <<>>, rotations |-> 0, trims |-> 0, cancels |-> FALSE, machine |-> 1,
   sound |-> TRUE, pipe |-> 9, reply |-> [kind |-> "ok", chunks |-> <<[bytes |-> 2, end |-> TRUE, extra |-> 0]>>],
   socket |-> TRUE, directory |-> "real", sticky |-> {},
   allowed |-> {<<"a", "read">>, <<"b", "read">>, <<"systemd-journald.service", "read">>, <<"systemd-journald.service", "clean">>},
   capabilities |-> {"journal", "storage", "rotator", "cleaner"}]

Ask(set, units, lines) == JournalCase(Flags(set, units, lines), Two)
New == <<E(6, 2, 4, "a"), E(7, 3, 1, "a")>>

\* A query while journald appends, rotates and trims.
BusyCases ==
  {[Ask({"unit"} \cup b, <<"a">>, n) EXCEPT !.appends = SubSeq(New, 1, 1), !.trims = 1] : b \in {{}, {"boot"}}, n \in {1, 3}}
  \cup {[Ask({"unit"}, <<"a">>, 2) EXCEPT !.appends = SubSeq(New, 1, k), !.rotations = 1] : k \in 0..1}
  \cup {[Ask({"unit", "boot"}, <<"a">>, 2) EXCEPT !.appends = New]}

\* Queries of a journal that stays as it is.
Reset == [F(<<E(4, 2, 2, "about a"), E(5, 2, 3, "claims a"), E(6, 2, 4, "kernel")>>, 5, 1) EXCEPT !.seqId = 2]
Many == [dir |-> [k \in 0..3 |-> k + 1], ino |-> [i \in 1..4 |-> [Old EXCEPT !.fileId = i]]]
QuietDisks ==
  {Two, Disk(<<Reset, Old>>, {0, 1}), Disk(<<[Cur EXCEPT !.old = TRUE], [Old EXCEPT !.old = TRUE]>>, {0, 1}),
   Disk(<<F(<<>>, 1, 1), Old>>, {0, 1}), Disk(<<F(<<>>, 1, 1)>>, {0}),
   Disk(<<Reset, [F(<<E(1, 1, 5, "a"), E(2, 1, 6, "a")>>, 1, 2) EXCEPT !.seqId = 3]>>, {0, 1}), Many,
   Disk(<<[Cur EXCEPT !.linked = 1], Old>>, {0, 1}), Disk(<<Cur, Old, Old>>, {0, 1, -1})}
QuietCases ==
  {JournalCase(Flags({"unit"} \cup b, u, n), d) : b \in {{}, {"boot"}}, u \in {<<"a">>, <<"b">>, <<"a", "b", "a">>}, n \in {0, 2, 5}, d \in QuietDisks}
  \cup {JournalCase(Flags({"dmesg"}, <<>>, 5), d) : d \in QuietDisks}
  \cup {JournalCase([Flags({"unit", "since"}, <<"a">>, 5) EXCEPT !.since = t], Two) : t \in {0, 13}}
  \cup {[Ask({"unit"}, <<"a">>, 5) EXCEPT !.pipe = 1], [Ask({"unit"}, <<"a">>, 3) EXCEPT !.cancels = TRUE]}

\* Files that are not what they should be.
UnsoundCases ==
  {[JournalCase(Flags({"unit"}, <<"a">>, 3), d) EXCEPT !.sound = FALSE] :
     d \in {Disk(<<Cur, [Old EXCEPT !.fileId = 1]>>, {0, 1}), Disk(<<Cur, [Old EXCEPT !.machine = 2]>>, {0, 1}),
            Disk(<<Cur, [Old EXCEPT !.seqId = 0]>>, {0, 1}), Disk(<<[Cur EXCEPT !.magic = "other"], Old>>, {0, 1}),
            Disk(<<Cur, [Old EXCEPT !.magic = "future"]>>, {0, 1}), Disk(<<[Cur EXCEPT !.entries[1].seq = 0], Old>>, {0, 1})}}

RefusedCases ==
  {Ask({}, <<>>, 1), Ask({"unit", "dmesg"}, <<"a">>, 1), Ask({"unit"}, <<"c">>, 1), Ask({"unit"}, <<"a">>, -1),
   [Ask({"unit"}, <<"a">>, 1) EXCEPT !.flags.args = TRUE], [Ask({"unit"}, <<"a">>, 1) EXCEPT !.capabilities = {}],
   Ask({"disk-usage", "lines"}, <<>>, 1), [Ask({"disk-usage"}, <<>>, 1) EXCEPT !.capabilities = {}],
   Ask({"rotate", "dry-run"}, <<>>, 1), Ask({"dry-run"}, <<>>, 1), Ask({"vacuum-size"}, <<>>, 1), Ask({"vacuum-time"}, <<>>, 1)}

UsageCases == {[JournalCase(Flags({"disk-usage"}, <<>>, 1), Disk(<<Cur, Old, Old>>, {0, 1, -1})) EXCEPT !.trims = t, !.cancels = (t = 0)] : t \in 0..1}

\* Rotation, with every kind of reply.
Chunks(n) == <<[bytes |-> n, end |-> TRUE, extra |-> 0]>>
Replies ==
  {[kind |-> k, chunks |-> Chunks(2)] : k \in {"ok", "late", "error", "stream", "params", "malformed"}}
  \cup {[kind |-> "error", chunks |-> c] : c \in {Chunks(0), Chunks(9), <<[bytes |-> 2, end |-> FALSE, extra |-> 0]>>,
          <<[bytes |-> 2, end |-> FALSE, extra |-> 0], [bytes |-> 1, end |-> TRUE, extra |-> 1]>>}}
Age(flags, size, age) == [flags EXCEPT !.size = size, !.age = age]
RotateCases ==
  {[JournalCase(Age(Flags({"rotate"} \cup v, <<>>, 1), 0, 3), Two) EXCEPT !.reply = r, !.cancels = c] :
     v \in {{}, {"vacuum-time"}}, r \in Replies, c \in BOOLEAN}
  \cup {[Ask({"rotate"}, <<>>, 1) EXCEPT !.socket = FALSE]}

\* Vacuum of three archives, of which the oldest has the last name.
Arch(m) == F(<<E(1, 1, 5, "a")>>, m, 2)
Archives(n) == [dir |-> [k \in -1..3 |-> k + 2],
                ino |-> <<Arch(2), Cur, Arch(4), [Arch(3) EXCEPT !.nlink = n], Arch(1)>>]
VacuumCases ==
  {[JournalCase(Age(Flags(s, <<>>, 1), size, age), Archives(n)) EXCEPT !.trims = t, !.rotations = 1 - t, !.sticky = k, !.cancels = (age = 6)] :
     s \in {{"vacuum-time"}, {"vacuum-time", "vacuum-size"}, {"vacuum-time", "vacuum-size", "dry-run"}},
     size \in {5, 7}, age \in {6, 7, 9}, n \in {1}, t \in 0..1, k \in {{}, {-1}}}
  \cup {[JournalCase(Age(Flags({"vacuum-time"}, <<>>, 1), 0, 5), Archives(2)) EXCEPT !.directory = d] : d \in {"real", "missing", "symlink"}}

AllJournalCases == BusyCases \cup QuietCases \cup UnsoundCases \cup RefusedCases \cup UsageCases \cup RotateCases \cup VacuumCases

-----------------------------------------------------------------------------
(* Every pointer, count and item of a file, set to every offset of the file.  *)
Three == F(<<E(1, 1, 5, "a"), E(2, 1, 6, "about a"), E(3, 2, 1, "a"), E(4,2,2,"claims a"), E(5,2,3,"a")>>, 1, 2)
Pointers(o) == CASE o.type = "data" -> {"next", "entry", "array", "n", "tailArray"} [] o.type = "array" -> {"next"} [] OTHER -> {}
MCDamage ==
  LET objs == ObjectsOf(Three) q == [units |-> {"a"}, kernel |-> FALSE]
      values == DOMAIN objs \cup {0, 1, 2, 999}
  IN {[kind |-> "damage", file |-> Three, query |-> q, damage |-> d] :
       d \in {[at |-> 0, part |-> "next", value |-> 0]}
             \cup UNION {[at : {o}, part : Pointers(objs[o]), value : values] : o \in DOMAIN objs}
             \cup [at : {-1, -2}, part : {"head", "tail"}, value : values]}
     \cup {[kind |-> "damage", file |-> Three, query |-> q, damage |-> [at |-> o, part |-> "items", value |-> [objs[o].items EXCEPT ![i] = v]]] :
            <<o, i, v>> \in {<<o, i, v>> \in {x \in DOMAIN objs : objs[x].type # "data"} \X (1..4) \X values : i <= Len(objs[o].items)}}
\* Literals, a match, literals, a match and literals, cut at several places.
Lits == {<<>>, <<1>>, <<1, 2>>, <<1, 2, 3>>, <<1, 2, 3, 1>>}
MCBlocks ==
  {c \in {[kind |-> "block", seqs |-> <<[lit |-> a, distance |-> d, length |-> n], [lit |-> b, distance |-> e, length |-> m],
           [lit |-> c, distance |-> 0, length |-> 0]>>, limit |-> l] :
     a \in Lits, b \in {<<>>, <<2>>, <<3,1,2,1>>}, c \in {<<3>>, <<1, 2, 3, 3>>}, d \in 1..3, e \in {1, 4}, n \in {2, 4, 5, 7, 8, 11}, m \in {2, 5}, l \in {1, 2, 3, 5, 8, 10}} : c.seqs[1].distance <= Len(c.seqs[1].lit) /\ c.seqs[2].distance <= Len(c.seqs[1].lit) + c.seqs[1].length + Len(c.seqs[2].lit)}

-----------------------------------------------------------------------------
(* The services of the host that rshell talks to or is: the privileged        *)
(* helper, the systemd journal and the journal's file format, each in a part  *)
(* of the state space of its own.                                             *)
VARIABLE part
vars == <<part, helperVars, journalVars, dataVars>>

IdleHelper == [HelperCase(TRUE, "none", NoFile, <<>>, FALSE) EXCEPT !.helpers = {}]
QuietCall == Ask({}, <<>>, 1)
SmallBlock == [kind |-> "block", seqs |-> <<[lit |-> <<1>>, distance |-> 0, length |-> 0]>>, limit |-> 2]

Init ==
  \/ part = "helper" /\ HelperInit /\ jcase = QuietCall /\ JournalStart /\ dcase = SmallBlock /\ dout = [ready |-> FALSE]
  \/ part = "journal" /\ case = IdleHelper /\ HelperStart /\ JournalInit /\ dcase = SmallBlock /\ dout = [ready |-> FALSE]
  \/ part = "data" /\ case = IdleHelper /\ HelperStart /\ jcase = QuietCall /\ JournalStart /\ DataInit

\* The helper may go on waiting for ever; a call of journalctl and a reading may not.
Rest ==
  /\ \/ part = "helper"
     \/ part = "journal" /\ jpc = "done" /\ jd.phase = "idle" /\ jd.asked # "busy"
     \/ part = "data" /\ dout.ready
  /\ UNCHANGED vars

Next ==
  \/ part = "helper" /\ HelperNext /\ UNCHANGED <<part, journalVars, dataVars>>
  \/ part = "journal" /\ JournalNext /\ UNCHANGED <<part, helperVars, dataVars>>
  \/ part = "data" /\ DataNext /\ UNCHANGED <<part, helperVars, journalVars>>
  \/ Rest

Spec == Init /\ [][Next]_vars /\ HelperFairness

=============================================================================

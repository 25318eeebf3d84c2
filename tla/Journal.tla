------------------------------ MODULE Journal -------------------------------
(* journalctl: a bounded query over a snapshot of the journal, the disk       *)
(* usage, the rotation over the control socket and the vacuum, each while     *)
(* journald appends to, rotates and trims the same files.                     *)
EXTENDS JournalFormat

CONSTANTS JournalCases,               \* the calls and the journals they meet
          MaxQueryFiles,       \* files one query may open
          MaxQueryUnits,       \* units one query may name
          MaxQueryEntries,     \* the largest accepted line count
          MaxResultBytes,      \* of the selected fields of one result, in fields
          MaxVarlinkMessage,   \* bytes of one reply of the control socket
          Now                  \* the time of the call; appends happen later

VARIABLES jcase,     \* the call, what is authorised, and the faults to expect
          jdisk,     \* [dir, ino]: names to inodes, inodes to files
          jd,        \* journald: what it is about to do, and what it still may do
          jpc,       \* where the call stands
          jr,        \* the call's own state
          jout       \* what it printed and its exit code

journalVars == <<jcase, jdisk, jd, jpc, jr, jout>>

-----------------------------------------------------------------------------
(* journald and its files. A file is [entries, linked, mtime, blocks, fileId, *)
(* seqId, machine, nlink, archived, magic, old]; the name 0 is the active     *)
(* file, k > 0 an archive, k < 0 an archive of a file found corrupted. Of the *)
(* entries all are in the global index, the first `linked` also in those of   *)
(* their DATA.                                                                *)

PositionOf(s, x) == CHOOSE i \in DOMAIN s : s[i] = x
Occurs(f, p, upto) == SelectSeq([j \in 1..upto |-> j], LAMBDA j : \E i \in DOMAIN f.entries[j].fields : f.entries[j].fields[i] = p)
PayloadsOf(f) == UNION {Range(f.entries[j].fields) : j \in DOMAIN f.entries}
EntryOffset(j) == 20 * j + 6
DataOffset(f, p) == LET j == Occurs(f, p, Len(f.entries))[1] IN 20 * j + PositionOf(f.entries[j].fields, p)

\* Arrays double in size: the k-th holds the items from 2^(k-1) on.
ArraysFor(n) == IF n = 0 THEN 0 ELSE IF n = 1 THEN 1 ELSE IF n <= 3 THEN 2 ELSE 3
ArrayItems(items, k) == [i \in 1..2^(k - 1) |-> LET at == 2^(k - 1) + i - 1 IN IF at <= Len(items) THEN items[at] ELSE 0]
ChainObjects(items, offsets) ==
  [o \in Range(offsets) |->
     LET k == PositionOf(offsets, o)
     IN  [type |-> "array", items |-> ArrayItems(items, k), next |-> IF k < Len(offsets) THEN offsets[k + 1] ELSE 0]]

GlobalArray(k) == 20 * 2^(k - 1) + 7
IndexArray(f, p, k) == LET j == Occurs(f, p, f.linked)[2^(k - 1) + 1] IN 20 * j + 7 + PositionOf(f.entries[j].fields, p)
IndexItems(f, p) == LET at == Occurs(f, p, f.linked) IN [i \in 1..(Len(at) - 1) |-> EntryOffset(at[i + 1])]

BucketOf(p) == (PayloadHash[p] % 2) + 1
Chain(f, b) == SetToSortSeq({DataOffset(f, p) : p \in {q \in PayloadsOf(f) : BucketOf(q) = b}}, <)

ObjectsOf(f) ==
  LET data == [o \in {DataOffset(f, p) : p \in PayloadsOf(f)} |->
        Once(CHOOSE p \in PayloadsOf(f) : DataOffset(f, p) = o, LAMBDA p :
        LET at == Occurs(f, p, f.linked)
            chain == Chain(f, BucketOf(p))
            k == PositionOf(chain, o)
            arrays == ArraysFor(IF at = <<>> THEN 0 ELSE Len(at) - 1)
        IN  [type |-> "data", payload |-> [field |-> p[1], value |-> p[2], long |-> FALSE], hash |-> PayloadHash[p],
             next |-> IF k < Len(chain) THEN chain[k + 1] ELSE 0, n |-> Len(at),
             entry |-> IF at = <<>> THEN 0 ELSE EntryOffset(at[1]),
             array |-> IF arrays = 0 THEN 0 ELSE IndexArray(f, p, 1),
             tailArray |-> IF f.old THEN -1 ELSE IF arrays = 0 THEN 0 ELSE IndexArray(f, p, arrays),
             tailUsed |-> IF f.old THEN -1 ELSE IF arrays = 0 THEN 0 ELSE Len(at) - 2^(arrays - 1)])]
      entries == [o \in {EntryOffset(j) : j \in DOMAIN f.entries} |->
        LET e == f.entries[(o - 6) \div 20]
        IN  [type |-> "entry", seq |-> e.seq, time |-> e.time, mono |-> e.mono, boot |-> e.boot,
             items |-> [i \in DOMAIN e.fields |-> DataOffset(f, e.fields[i])]]]
      global == ChainObjects([j \in DOMAIN f.entries |-> EntryOffset(j)],
                             [k \in 1..ArraysFor(Len(f.entries)) |-> GlobalArray(k)])
      index == [p \in PayloadsOf(f) |-> ChainObjects(IndexItems(f, p),
                             [k \in 1..ArraysFor(Len(IndexItems(f, p))) |-> IndexArray(f, p, k)])]
  IN  FoldSet(LAMBDA p, done : done @@ index[p], data @@ entries @@ global, PayloadsOf(f))

HeaderOf(f) ==
  LET n == Len(f.entries)
  IN  Once(DOMAIN ObjectsOf(f), LAMBDA offsets :
  LET arrays == ArraysFor(n)
  IN  [magic |-> f.magic, fileId |-> f.fileId, seqId |-> f.seqId, machine |-> f.machine, archived |-> f.archived, n |-> n,
       array |-> IF n = 0 THEN 0 ELSE GlobalArray(1),
       tail |-> IF offsets = {} THEN 0 ELSE CHOOSE o \in offsets : \A q \in offsets : q <= o,
       tailArray |-> IF f.old THEN -1 ELSE IF n = 0 THEN 0 ELSE GlobalArray(arrays),
       tailUsed |-> IF f.old THEN -1 ELSE IF n = 0 THEN 0 ELSE n - 2^(arrays - 1) + 1,
       tailEntry |-> IF f.old THEN -1 ELSE IF n = 0 THEN 0 ELSE EntryOffset(n),
       tailSeq |-> IF n = 0 THEN 0 ELSE f.entries[n].seq])

BucketsOf(f) ==
  [b \in 1..2 |-> LET chain == Chain(f, b)
                  IN  IF chain = <<>> THEN [head |-> 0, tail |-> 0] ELSE [head |-> chain[1], tail |-> Last(chain)]]

Live(ino) == jdisk.ino[ino]
\* What the reader sees of a file it opened when the header was `header`.
ViewOf(ino, header) == [header |-> header, buckets |-> BucketsOf(Live(ino)), objects |-> ObjectsOf(Live(ino))]

Active == 0
IsArchived(name) == name # Active
IsJournal(name) == name >= 0
WithName(dir, name, ino) == (name :> ino) @@ dir
Without(dir, name) == [k \in DOMAIN dir \ {name} |-> dir[k]]

(* What a query means, without files and indexes: of the entries that belong  *)
(* to the scope, the newest ones, oldest first. An entry is found once it is  *)
(* in the indexes of its fields.                                              *)
QueryFlags == {"unit", "dmesg", "boot", "lines", "since", "output"}
VacuumFlags == {"vacuum-size", "vacuum-time"}

QueryOf(flags) ==
  [units |-> Range(flags.units), kernel |-> "dmesg" \in flags.set, currentBoot |-> flags.set \cap {"dmesg", "boot"} # {},
   since |-> IF "since" \in flags.set THEN flags.since ELSE 0, max |-> flags.lines]

OpOf(flags) ==
  IF flags.args THEN "refuse"
  ELSE IF "disk-usage" \in flags.set THEN "usage"
  ELSE IF flags.set \cap (VacuumFlags \cup {"rotate", "dry-run"}) # {} THEN "maintain" ELSE "query"

HasFields(e, match) == \A p \in {match.index} \cup match.required : p \in Range(e.fields)

Expected(disk, query) ==
  LET files == {disk.ino[disk.dir[k]] : k \in {n \in DOMAIN disk.dir : IsJournal(n)}}
      all == UNION {Range(f.entries) : f \in files}
      linked == UNION {Range(SubSeq(f.entries, 1, f.linked)) : f \in files}
      boot == IF all = {} THEN 0 ELSE (CHOOSE e \in all : \A o \in all : o.time <= e.time).boot
      chosen == {e \in linked : /\ \E m \in QueryMatches(query) : HasFields(e, m)
                                /\ query.currentBoot => e.boot = boot
                                /\ e.time >= query.since}
      ordered == SetToSortSeq(chosen, LAMBDA x, y : x.time < y.time)
      skip == IF Len(ordered) > query.max THEN Len(ordered) - query.max ELSE 0
  IN  [i \in 1..(Len(ordered) - skip) |-> ordered[skip + i].seq]

-----------------------------------------------------------------------------
\* An append: the entry and the global index first, then the indexes of its fields, and
\* last the modification time.
JournaldPublish ==
  /\ jd.phase = "idle" /\ jd.appends # <<>> /\ jpc # "done"
  /\ Active \in DOMAIN jdisk.dir
  /\ jdisk' = [jdisk EXCEPT !.ino[jdisk.dir[Active]].entries = Append(@, Head(jd.appends))]
  /\ jd' = [jd EXCEPT !.phase = "link", !.appends = Tail(@)]

JournaldLink ==
  /\ jd.phase = "link"
  /\ jdisk' = [jdisk EXCEPT !.ino[jdisk.dir[Active]].linked = Len(jdisk.ino[jdisk.dir[Active]].entries)]
  /\ jd' = [jd EXCEPT !.phase = "touch"]

JournaldTouch ==
  /\ jd.phase = "touch"
  /\ jdisk' = [jdisk EXCEPT !.ino[jdisk.dir[Active]].mtime = Now + 1 + Len(jd.appends)]
  /\ jd' = [jd EXCEPT !.phase = "idle"]

\* A rotation, its own or the one it is asked for: the active file becomes an archive of a
\* new name, then there is a new active file.
JournaldArchive ==
  /\ jd.phase = "idle" /\ Active \in DOMAIN jdisk.dir
  /\ \/ jd.asked = "asked" /\ jcase.reply.kind \in {"ok", "late"} /\ jd' = [jd EXCEPT !.phase = "create", !.asked = "busy"]
     \/ jd.rotations > 0 /\ jpc # "done" /\ jd' = [jd EXCEPT !.phase = "create", !.rotations = @ - 1]
  /\ LET ino == jdisk.dir[Active]
         name == 10 + Len(jdisk.ino)
     IN  jdisk' = [dir |-> WithName(Without(jdisk.dir, Active), name, ino),
                   ino |-> [jdisk.ino EXCEPT ![ino].archived = TRUE]]

JournaldCreate ==
  /\ jd.phase = "create"
  /\ jdisk' = [dir |-> WithName(jdisk.dir, Active, Len(jdisk.ino) + 1),
               ino |-> Append(jdisk.ino, [jdisk.ino[1] EXCEPT !.entries = <<>>, !.linked = 0, !.archived = FALSE,
                                            !.mtime = Now, !.blocks = 1, !.fileId = Len(jdisk.ino) + 1])]
  /\ jd' = [jd EXCEPT !.phase = "idle", !.asked = IF @ = "busy" THEN "rotated" ELSE @]

\* It trims the oldest archive.
JournaldTrim ==
  /\ jd.trims > 0 /\ jpc # "done"
  /\ \E name \in {k \in DOMAIN jdisk.dir : IsArchived(k)} :
       /\ \A k \in DOMAIN jdisk.dir : IsArchived(k) => Live(jdisk.dir[name]).mtime <= Live(jdisk.dir[k]).mtime
       /\ jdisk' = [jdisk EXCEPT !.dir = Without(@, name)]
  /\ jd' = [jd EXCEPT !.trims = @ - 1]

\* The caller's context ends.
Cancel ==
  /\ jcase.cancels /\ ~jr.canceled /\ jpc # "done"
  /\ jr' = [jr EXCEPT !.canceled = TRUE]
  /\ UNCHANGED <<jdisk, jd>>

Journald ==
  /\ JournaldPublish \/ JournaldLink \/ JournaldTouch \/ JournaldArchive \/ JournaldCreate \/ JournaldTrim
  /\ jr' = [jr EXCEPT !.disturbed = TRUE, !.moments = IF OpOf(jcase.flags) = "query" THEN @ \cup {Expected(jdisk', QueryOf(jcase.flags))} ELSE @]

-----------------------------------------------------------------------------
(* The command. flags is [set, units, lines, since, output, size, age, now]:  *)
(* the flags given and the values of those that have one; 0 stands for a      *)
(* value that does not parse.                                                 *)
Given(flag) == flag \in jcase.flags.set
Fail(reason) == jpc' = "done" /\ jout' = [jout EXCEPT !.code = 1, !.error = reason]
\* An error of a call whose context has ended is not reported.
FailQuietly(reason) == Fail(IF jr.canceled THEN "" ELSE reason)
Goto(pc) == jpc' = pc /\ UNCHANGED jout

UniqueUnits(units) == SelectSeq([i \in DOMAIN units |-> IF units[i] \in Range(SubSeq(units, 1, i - 1)) THEN "" ELSE units[i]],
                                LAMBDA u : u # "")

Authorized(operations) == operations \subseteq jcase.allowed

\* The checks of a query, in the order of the code: none reads the journal.
QueryRefused ==
  LET units == UniqueUnits(jcase.flags.units)
  IN  \/ Len(units) > MaxQueryUnits
      \/ Given("dmesg") /\ units # <<>>
      \/ ~Given("dmesg") /\ units = <<>>
      \/ jcase.flags.lines \notin 0..MaxQueryEntries
      \/ jcase.flags.output \notin {"short", "cat"}
      \/ Given("since") /\ jcase.flags.since = 0
      \/ ~Authorized(IF Given("dmesg") THEN {<<"systemd-journald.service", "read">>}
                     ELSE {<<u, "read">> : u \in Range(units)})
      \/ "journal" \notin jcase.capabilities

UsageRefused ==
  \/ jcase.flags.set \cap (QueryFlags \cup VacuumFlags \cup {"rotate", "dry-run"}) # {}
  \/ ~Authorized({<<"systemd-journald.service", "read">>})
  \/ "storage" \notin jcase.capabilities

MaintenanceRefused ==
  LET vacuum == jcase.flags.set \cap VacuumFlags # {}
  IN  \/ jcase.flags.set \cap (QueryFlags \cup {"disk-usage"}) # {}
      \/ Given("dry-run") /\ (Given("rotate") \/ ~vacuum)
      \/ vacuum /\ ~jcase.flags.clock
      \/ Given("vacuum-size") /\ (jcase.flags.size = 0 \/ ~Given("vacuum-time"))
      \/ Given("vacuum-time") /\ jcase.flags.age = 0
      \/ ~Authorized({<<"systemd-journald.service", "clean">>})
      \/ Given("rotate") /\ "rotator" \notin jcase.capabilities
      \/ vacuum /\ "cleaner" \notin jcase.capabilities

\* The size target and the time up to which an archive may be removed.
MaxBytes == IF Given("vacuum-size") THEN jcase.flags.size ELSE 0
Before == Now - jcase.flags.age

Run ==
  /\ jpc = "start"
  /\ CASE OpOf(jcase.flags) = "refuse" -> Fail("arguments")
       [] OpOf(jcase.flags) = "usage" -> IF UsageRefused THEN Fail("refused") ELSE Goto("list")
       [] OpOf(jcase.flags) = "maintain" ->
            IF MaintenanceRefused THEN Fail("refused") ELSE Goto(IF Given("rotate") THEN "dial" ELSE "collect")
       [] OTHER -> IF QueryRefused THEN Fail("refused")
                   ELSE IF jr.canceled THEN FailQuietly("canceled")
                   ELSE IF jcase.flags.lines = 0 THEN jpc' = "done" /\ UNCHANGED jout
                   ELSE Goto("list")
  /\ UNCHANGED <<jdisk, jd, jr>>

-----------------------------------------------------------------------------
(* The query. jr is [canceled, moments, attempt, then, next, listed, paths,   *)
(* i, opening, files, boot, sources, entries, bytes] and, for the vacuum,     *)
(* [cands, removed, done, remaining]. A query is tried twice: once more when  *)
(* the journal changed under it, or looked corrupt because it did.            *)
Fresh == [then |-> "open", next |-> "query", listed |-> <<>>, paths |-> <<>>, i |-> 1, opening |-> 0, files |-> <<>>,
          boot |-> 0, sources |-> <<>>, entries |-> <<>>, total |-> 0]

AttemptFails(kind) ==
  IF jr.attempt = 1 /\ kind \in {"changed", "corrupt"}
  THEN /\ jr' = Fresh @@ [jr EXCEPT !.attempt = 2, !.disturbed = FALSE,
                            !.moments = {Expected(jdisk, QueryOf(jcase.flags))}]
       /\ Goto("list")
  ELSE FailQuietly(kind) /\ UNCHANGED jr

Sorted(names) == SetToSortSeq(names, <)
Usage == OpOf(jcase.flags) = "usage"

\* The names in the directory, and a moment later what each of them is.
JournalFiles ==
  /\ jpc = "list"
  /\ jr' = [jr EXCEPT !.listed = Sorted({k \in DOMAIN jdisk.dir : IsJournal(k) \/ Usage})]
  /\ Goto("inspect")
  /\ UNCHANGED <<jdisk, jd>>

InspectFiles ==
  /\ jpc = "inspect"
  /\ IF ~(Range(jr.listed) \subseteq DOMAIN jdisk.dir)
     THEN IF Usage THEN FailQuietly("gone") /\ UNCHANGED jr ELSE AttemptFails("changed")
     ELSE CASE Usage -> Goto("usage") /\ jr' = [jr EXCEPT !.i = 1]
            [] ~Usage /\ jr.then = "open" ->
                 IF jr.listed = <<>> THEN Fail("no files") /\ UNCHANGED jr
                 ELSE IF Len(jr.listed) > MaxQueryFiles THEN Fail("limit") /\ UNCHANGED jr
                 ELSE Goto("open") /\ jr' = [jr EXCEPT !.paths = jr.listed, !.i = 1]
            [] ~Usage /\ jr.then = "verify" ->
                 IF jr.listed # jr.paths THEN AttemptFails("changed")
                 ELSE Goto("verify") /\ jr' = [jr EXCEPT !.i = 1]
  /\ UNCHANGED <<jdisk, jd>>

OpenSnapshotFile ==
  /\ jpc = "open"
  /\ LET name == jr.paths[jr.i]
     IN  IF name \notin DOMAIN jdisk.dir THEN AttemptFails("changed")
         ELSE Goto("confirm") /\ jr' = [jr EXCEPT !.opening = jdisk.dir[name]]
  /\ UNCHANGED <<jdisk, jd>>

\* The file that was opened is still the one of that name; its header is read and kept.
ConfirmSnapshotFile ==
  /\ jpc = "confirm"
  /\ LET name == jr.paths[jr.i]
         f == Live(jr.opening)
     IN  IF name \notin DOMAIN jdisk.dir THEN AttemptFails("changed")
         ELSE IF jdisk.dir[name] # jr.opening THEN AttemptFails("changed")
         ELSE \E header \in {ReadJournalHeader(ViewOf(jr.opening, HeaderOf(f)))} :
         IF IsBad(header) THEN AttemptFails(header.failed)
         ELSE IF header.machine # jcase.machine \/ header.fileId = 0 \/ header.seqId = 0
                 \/ \E k \in DOMAIN jr.files : jr.files[k].header.fileId = header.fileId THEN AttemptFails("corrupt")
         ELSE LET opened == [jr EXCEPT !.files = Append(@, [name |-> name, ino |-> jr.opening, header |-> header,
                                                            mtime |-> f.mtime, size |-> f.blocks])]
              IN  IF jr.i < Len(jr.paths) THEN Goto("open") /\ jr' = [opened EXCEPT !.i = @ + 1]
                  ELSE Goto("list") /\ jr' = [opened EXCEPT !.then = "verify", !.next = "query"]
  /\ UNCHANGED <<jdisk, jd>>

FileStable(f) ==
  /\ f.name \in DOMAIN jdisk.dir
  /\ jdisk.dir[f.name] = f.ino
  /\ Live(f.ino).mtime = f.mtime /\ Live(f.ino).blocks = f.size
  /\ HeaderOf(Live(f.ino)) = f.header

VerifySnapshotFile ==
  /\ jpc = "verify"
  /\ IF ~FileStable(jr.files[jr.i]) THEN AttemptFails("changed")
     ELSE IF jr.i < Len(jr.files) THEN Goto("verify") /\ jr' = [jr EXCEPT !.i = @ + 1]
     ELSE Goto(jr.next) /\ jr' = [jr EXCEPT !.i = IF jr.next = "yield" THEN Len(jr.entries) ELSE 1]
  /\ UNCHANGED <<jdisk, jd>>

Sign(a, b) == IF a < b THEN -1 ELSE IF a > b THEN 1 ELSE 0
\* Mutant: monotonic times of different boots are compared.
CompareAnyBoot(x, y) ==
  IF x.seqId = y.seqId /\ x.seq # y.seq THEN Sign(x.seq, y.seq)
  ELSE IF x.mono # y.mono THEN Sign(x.mono, y.mono)
  ELSE IF x.time # y.time THEN Sign(x.time, y.time)
  ELSE IF x.fileId # y.fileId THEN Sign(x.fileId, y.fileId) ELSE Sign(x.offset, y.offset)

Compare(x, y) ==
  IF x.seqId = y.seqId /\ x.seq # y.seq THEN Sign(x.seq, y.seq)
  ELSE IF x.boot = y.boot /\ x.mono # y.mono THEN Sign(x.mono, y.mono)
  ELSE IF x.time # y.time THEN Sign(x.time, y.time)
  ELSE IF x.fileId # y.fileId THEN Sign(x.fileId, y.fileId) ELSE Sign(x.offset, y.offset)

SameLocation(x, y) ==
  x.seqId = y.seqId /\ x.seq = y.seq /\ x.boot = y.boot /\ x.time = y.time /\ x.mono = y.mono

\* Of a sequence of entries, the first that no other exceeds as they are compared in turn.
Newest(s) ==
  LET best[i \in 1..Len(s)] == IF i = 1 THEN s[1] ELSE LET b == best[i - 1] IN IF Compare(s[i], b) > 0 THEN s[i] ELSE b
  IN  best[Len(s)]

ViewOfFile(i) == ViewOf(jr.files[i].ino, jr.files[i].header)

NewestJournalBoot ==
  Once([i \in DOMAIN jr.files |-> NewestJournalEntry(ViewOfFile(i))], LAMBDA got :
  LET bad == {i \in DOMAIN got : IsBad(got[i])}
      Located(i) == [seqId |-> jr.files[i].header.seqId, fileId |-> jr.files[i].header.fileId, offset |-> got[i].offset,
                     seq |-> got[i].entry.seq, time |-> got[i].entry.time, mono |-> got[i].entry.mono,
                     boot |-> got[i].entry.boot]
      found == SelectSeq([i \in DOMAIN got |-> i], LAMBDA i : got[i].found)
  IN  IF bad # {} THEN got[Min(bad)]
      ELSE IF found = <<>> THEN Bad("no boot")
      ELSE [boot |-> Newest([k \in DOMAIN found |-> Located(found[k])]).boot])

QuerySnapshot ==
  /\ jpc = "query"
  /\ IF ~QueryOf(jcase.flags).currentBoot THEN Goto("iterate") /\ UNCHANGED jr
     ELSE \E newest \in {NewestJournalBoot} :
              IF IsBad(newest) THEN AttemptFails(newest.failed)
              ELSE Goto("iterate") /\ jr' = [jr EXCEPT !.boot = newest.boot]
  /\ UNCHANGED <<jdisk, jd>>

NewFileIterator ==
  /\ jpc = "iterate"
  /\ \E got \in {QuerySources(ViewOfFile(jr.i), QueryOf(jcase.flags))} :
     LET added == [jr EXCEPT !.sources = Append(@, [file |-> [sources |-> got.sources, scanned |-> 0],
                                                    current |-> <<>>, done |-> FALSE])]
     IN  IF IsBad(got) THEN AttemptFails(got.failed)
         ELSE IF jr.i < Len(jr.files) THEN Goto("iterate") /\ jr' = [added EXCEPT !.i = @ + 1]
         ELSE Goto("load") /\ jr' = [added EXCEPT !.i = 1]
  /\ UNCHANGED <<jdisk, jd>>

\* Every file's newest entry not yet returned.
LoadMergeSource ==
  /\ jpc = "load"
  /\ LET source == jr.sources[jr.i]
         needed == source.current = <<>> /\ ~source.done
     IN \E got \in {IF needed THEN PreviousSelected(ViewOfFile(jr.i), source.file, jr.boot, QueryOf(jcase.flags).since) ELSE source} :
     LET next == IF ~needed THEN source
                 ELSE IF "entry" \in DOMAIN got THEN [file |-> got.file, current |-> <<got.entry>>, done |-> FALSE]
                 ELSE [source EXCEPT !.done = TRUE]
     IN  IF jr.canceled THEN AttemptFails("canceled")
         ELSE IF needed /\ IsBad(got) THEN AttemptFails(got.failed)
         ELSE /\ Goto(IF jr.i < Len(jr.sources) THEN "load" ELSE "select")
              /\ jr' = [jr EXCEPT !.sources[jr.i] = next, !.i = IF @ < Len(jr.sources) THEN @ + 1 ELSE 1]
  /\ UNCHANGED <<jdisk, jd>>

Fields(shown) == Cardinality({f \in DOMAIN shown : shown[f] # ""})

\* The newest of them is the next result, taken from every file that has it.
SelectNewest ==
  /\ jpc = "select"
  /\ LET heads == SelectSeq(jr.sources, LAMBDA s : s.current # <<>>)
         newest == Newest([k \in DOMAIN heads |-> heads[k].current[1]])
         Has(s) == s.current # <<>> /\ SameLocation(s.current[1], newest)
         total == jr.total + Fields(newest.shown)
         finish == [jr EXCEPT !.then = "verify", !.next = "yield"]
     IN  IF heads = <<>> THEN Goto("list") /\ jr' = finish
         ELSE IF \E k \in DOMAIN jr.sources : Has(jr.sources[k]) /\ jr.sources[k].current[1].shown # newest.shown
         THEN AttemptFails("corrupt")
         ELSE IF total > MaxResultBytes THEN AttemptFails("limit")
         ELSE LET full == Len(jr.entries) + 1 >= QueryOf(jcase.flags).max
                  taken == [(IF full THEN finish ELSE jr) EXCEPT !.total = total, !.entries = Append(@, newest),
                              !.sources = [k \in DOMAIN @ |-> IF Has(@[k]) THEN [@[k] EXCEPT !.current = <<>>] ELSE @[k]]]
              IN  Goto(IF full THEN "list" ELSE "load") /\ jr' = taken
  /\ UNCHANGED <<jdisk, jd>>

\* Oldest first; a reader that has gone ends the call without an error.
YieldEntry ==
  /\ jpc = "yield"
  /\ IF jr.i = 0 THEN jpc' = "done" /\ UNCHANGED <<jr, jout>>
     ELSE IF jr.canceled THEN FailQuietly("canceled") /\ UNCHANGED jr
     ELSE IF Len(jout.lines) >= jcase.pipe THEN jpc' = "done" /\ UNCHANGED <<jr, jout>>
     ELSE /\ jout' = [jout EXCEPT !.lines = Append(@, jr.entries[jr.i].seq)]
          /\ jr' = [jr EXCEPT !.i = @ - 1]
          /\ jpc' = jpc
  /\ UNCHANGED <<jdisk, jd>>

-----------------------------------------------------------------------------
\* The disk usage: the blocks of every file, each as it is found.
JournalDiskUsage ==
  /\ jpc = "usage"
  /\ IF jr.i > Len(jr.listed) THEN jpc' = "done" /\ jout' = [jout EXCEPT !.usage = jr.total] /\ UNCHANGED jr
     ELSE IF jr.canceled THEN FailQuietly("canceled") /\ UNCHANGED jr
     ELSE LET name == jr.listed[jr.i]
          IN  IF name \notin DOMAIN jdisk.dir THEN FailQuietly("gone") /\ UNCHANGED jr
              ELSE Goto("usage") /\ jr' = [jr EXCEPT !.i = @ + 1, !.total = @ + Live(jdisk.dir[name]).blocks]
  /\ UNCHANGED <<jdisk, jd>>

-----------------------------------------------------------------------------
(* The rotation: one request over the control socket and one reply, [kind,    *)
(* chunks]; a chunk is [bytes, end, extra]: bytes before its terminator, if   *)
(* it has one, and bytes after it. A reply of kind "late" comes after the     *)
(* deadline.                                                                  *)
ReadVarlinkMessage(chunks) ==
  LET upto[k \in 0..Len(chunks)] ==
        IF k = 0 THEN [more |-> TRUE, bytes |-> 0, ok |-> FALSE]
        ELSE LET here == upto[k - 1]
                 c == chunks[k]
                 bytes == here.bytes + c.bytes
             IN  IF ~here.more THEN here
                 ELSE IF bytes > MaxVarlinkMessage THEN [more |-> FALSE, bytes |-> bytes, ok |-> FALSE]
                 ELSE [more |-> ~c.end, bytes |-> bytes, ok |-> c.end /\ c.extra = 0 /\ bytes > 0]
  IN  upto[Len(chunks)].ok

\* Only an empty object is a success: not an error, a stream or other parameters.
RotationAccepted(reply) == ReadVarlinkMessage(reply.chunks) /\ reply.kind \in {"ok", "late"}

DialJournalControl ==
  /\ jpc = "dial"
  /\ IF jcase.socket THEN Goto("reply") /\ jd' = [jd EXCEPT !.asked = "asked"]
     ELSE FailQuietly("no socket") /\ UNCHANGED jd
  /\ UNCHANGED <<jdisk, jr>>

AfterRotation ==
  /\ jout' = [jout EXCEPT !.rotated = TRUE]
  /\ jpc' = IF jcase.flags.set \cap VacuumFlags # {} THEN "collect" ELSE "done"

RotateJournal ==
  /\ jpc = "reply"
  /\ \/ jr.canceled /\ FailQuietly("canceled")
     \/ jcase.reply.kind = "late" /\ FailQuietly("timed out")
     \/ /\ jd.asked = IF jcase.reply.kind \in {"ok", "late"} THEN "rotated" ELSE "asked"
        /\ IF RotationAccepted(jcase.reply) THEN AfterRotation ELSE FailQuietly("rejected")
  /\ UNCHANGED <<jdisk, jd, jr>>

-----------------------------------------------------------------------------
(* The vacuum. A candidate is [name, ino, mtime, blocks].                     *)
CollectCandidates ==
  /\ jpc = "collect"
  /\ CASE jcase.directory = "missing" -> Goto("check") /\ UNCHANGED jr
       [] jcase.directory = "symlink" -> FailQuietly("not a directory") /\ UNCHANGED jr
       [] OTHER -> Goto("stat") /\ jr' = [jr EXCEPT !.listed = Sorted(DOMAIN jdisk.dir), !.i = 1]
  /\ UNCHANGED <<jdisk, jd>>

Older(x, y) == x.mtime < y.mtime \/ (x.mtime = y.mtime /\ x.name < y.name)

StatCandidate ==
  /\ jpc = "stat"
  /\ IF jr.i > Len(jr.listed)
     THEN Goto("check") /\ jr' = [jr EXCEPT !.i = 1, !.cands = SortSeq(@, Older)]
     ELSE LET name == jr.listed[jr.i]
              f == Live(jdisk.dir[name])
          IN  IF name \notin DOMAIN jdisk.dir THEN FailQuietly("gone") /\ UNCHANGED jr
              ELSE /\ Goto("stat")
                   /\ jr' = [jr EXCEPT !.i = @ + 1, !.remaining = @ + f.blocks,
                              !.cands = IF IsArchived(name) /\ f.nlink = 1
                                        THEN Append(@, [name |-> name, ino |-> jdisk.dir[name], mtime |-> f.mtime,
                                                        blocks |-> f.blocks])
                                        ELSE @]
  /\ UNCHANGED <<jdisk, jd>>

\* Mutant: a removed archive is counted, but not subtracted.
CountedOnly(r, c) == [r EXCEPT !.i = @ + 1, !.done = Append(@, c)]

Counted(r, c) == [r EXCEPT !.i = @ + 1, !.done = Append(@, c),
                           !.remaining = IF @ < c.blocks THEN 0 ELSE @ - c.blocks]

\* Oldest first, until one is too new or the target is reached.
VacuumNext ==
  /\ jpc = "check"
  /\ IF jr.i > Len(jr.cands) THEN jpc' = "finish" /\ UNCHANGED jout
     ELSE IF jr.canceled THEN FailQuietly("canceled")
     ELSE IF jr.cands[jr.i].mtime > Before \/ (MaxBytes > 0 /\ jr.remaining <= MaxBytes) THEN Goto("finish")
     ELSE Goto("revalidate")
  /\ UNCHANGED <<jdisk, jd, jr>>

Unchanged(c) ==
  /\ c.name \in DOMAIN jdisk.dir
  /\ jdisk.dir[c.name] = c.ino
  /\ LET f == Live(c.ino) IN f.mtime = c.mtime /\ f.blocks = c.blocks /\ f.nlink = 1

RevalidateCandidate ==
  /\ jpc = "revalidate"
  /\ LET c == jr.cands[jr.i]
     IN  IF ~Unchanged(c) THEN FailQuietly("changed") /\ UNCHANGED jr
         ELSE IF Given("dry-run") THEN Goto("check") /\ jr' = Counted(jr, c)
         ELSE Goto("remove") /\ UNCHANGED jr
  /\ UNCHANGED <<jdisk, jd>>

RemoveCandidate ==
  /\ jpc = "remove"
  /\ LET c == jr.cands[jr.i]
     IN  IF c.name \notin DOMAIN jdisk.dir \/ c.name \in jcase.sticky
         THEN FailQuietly("not removed") /\ UNCHANGED <<jr, jdisk>>
         ELSE /\ Goto("check")
              /\ jdisk' = [jdisk EXCEPT !.dir = Without(@, c.name)]
              /\ jr' = [Counted(jr, c) EXCEPT !.removed = @ \cup {c}]
  /\ UNCHANGED jd

VacuumDone ==
  /\ jpc = "finish"
  /\ jpc' = "done"
  /\ jout' = [jout EXCEPT !.vacuumed = TRUE]
  /\ UNCHANGED <<jdisk, jd, jr>>

-----------------------------------------------------------------------------
JournalStart ==
  /\ jdisk = jcase.disk
  /\ jd = [phase |-> "idle", appends |-> jcase.appends, rotations |-> jcase.rotations, trims |-> jcase.trims, asked |-> "no"]
  /\ jpc = "start"
  /\ jr = Fresh @@ [canceled |-> FALSE, attempt |-> 1, disturbed |-> FALSE,
                    moments |-> {Expected(jcase.disk, QueryOf(jcase.flags))},
                    cands |-> <<>>, removed |-> {}, done |-> <<>>, remaining |-> 0]
  /\ jout = [lines |-> <<>>, code |-> 0, error |-> "", usage |-> 0, rotated |-> FALSE, vacuumed |-> FALSE]

JournalInit == jcase \in JournalCases /\ JournalStart

Query == \/ JournalFiles \/ InspectFiles \/ OpenSnapshotFile \/ ConfirmSnapshotFile \/ VerifySnapshotFile
         \/ QuerySnapshot \/ NewFileIterator \/ LoadMergeSource \/ SelectNewest \/ YieldEntry
Maintain == \/ DialJournalControl \/ RotateJournal \/ CollectCandidates \/ StatCandidate \/ VacuumNext
            \/ RevalidateCandidate \/ RemoveCandidate \/ VacuumDone

JournalNext ==
  /\ \/ Run \/ Query \/ JournalDiskUsage \/ Maintain
     \/ Cancel /\ UNCHANGED <<jpc, jout>>
     \/ Journald /\ UNCHANGED <<jpc, jout>>
  /\ UNCHANGED jcase

-----------------------------------------------------------------------------
\* Names lead to files, no more entries are indexed than written, and the call is at a
\* known step with positions inside what it walks.
JournalTypeOK ==
  /\ Range(jdisk.dir) \subseteq DOMAIN jdisk.ino
  /\ \A f \in Range(jdisk.ino) : f.linked \in 0..Len(f.entries) /\ Len(f.entries) - f.linked <= 1
  /\ jd.phase \in {"idle", "link", "touch", "create"} /\ jd.asked \in {"no", "asked", "busy", "rotated"}
  /\ jpc \in {"start", "list", "inspect", "open", "confirm", "verify", "query", "iterate", "load", "select", "yield",
              "usage", "dial", "reply", "collect", "stat", "check", "revalidate", "remove", "finish", "done"}
  /\ jr.attempt \in 1..2 /\ jout.code \in 0..1
  /\ jpc = "yield" => jr.i \in 0..Len(jr.entries)
  /\ jpc \in {"revalidate", "remove"} => jr.i \in DOMAIN jr.cands

\* A successful query prints the newest entries of its scope, oldest first, as the journal
\* had them at one moment of the attempt, however journald appends, rotates and trims
\* meanwhile and however the entries are spread over the files (queryJournalEntries).
ReadIsSnapshot ==
  (jpc = "done" /\ OpOf(jcase.flags) = "query" /\ jout.code = 0 /\ jcase.flags.lines > 0) =>
     \E m \in jr.moments : IF Len(jout.lines) < jcase.pipe THEN jout.lines = m ELSE IsPrefix(jout.lines, m)

\* A journal whose files are sound is called corrupt or changed only when journald did
\* something during the second attempt as well: an append in progress that was there
\* before the attempt began is read without complaint.
NoFalseAlarm ==
  (jcase.sound /\ jout.error \in {"changed", "corrupt"}) => jr.disturbed

Sum(sizes, over) == FoldSet(LAMBDA k, done : done + sizes[k], 0, over)
LiveBlocks == Sum([k \in DOMAIN jdisk.dir |-> Live(jdisk.dir[k]).blocks], DOMAIN jdisk.dir)

\* What the vacuum removes is an archive, old enough, of which no older one that may be
\* removed is left, and is removed only while the journal really is over the target: not
\* the active file, and not more than asked when journald trims at the same time.
VacuumSafe ==
  [][\A k \in DOMAIN jdisk.dir \ DOMAIN jdisk'.dir : (jpc = "remove" /\ k \notin DOMAIN jdisk'.dir /\ jd' = jd) =>
       /\ IsArchived(k) /\ Live(jdisk.dir[k]).mtime <= Before /\ ~Given("dry-run")
       /\ MaxBytes > 0 => LiveBlocks > MaxBytes
       /\ \A n \in DOMAIN jdisk.dir : (IsArchived(n) /\ Live(jdisk.dir[n]).nlink = 1) =>
            Live(jdisk.dir[k]).mtime <= Live(jdisk.dir[n]).mtime]_journalVars

\* A vacuum that reports success left no archive it had seen and was asked to remove: each
\* one left is too new, or the target was reached first.
VacuumComplete ==
  (jout.vacuumed /\ ~Given("dry-run")) =>
     \A c \in Range(jr.cands) :
       c.name \in DOMAIN jdisk.dir => c.mtime > Before \/ (MaxBytes > 0 /\ jr.remaining <= MaxBytes)

\* A rotation is announced, and the vacuum after it started, only once journald has
\* rotated for this request (callJournalRotateVarlink).
RotationTrue ==
  (jout.rotated \/ (Given("rotate") /\ jpc \in {"collect", "stat", "check", "finish"})) => jd.asked = "rotated"

-----------------------------------------------------------------------------
(* Two readings of journal files that do not depend on their being sound: a   *)
(* whole file after one of its pointers or counts was damaged, and the prefix *)
(* of an LZ4 block that is decoded only as far as the field limit.            *)
CONSTANTS DamageCases,     \* [file, damage, query]; damage is [at, part, value], or at = 0
          BlockCases,      \* [seqs, limit]
          NibbleMax,       \* 15: the length continues in the next bytes
          ByteMax,         \* 255: and in the one after
          MinMatch         \* 4

VARIABLES dcase, dout
dataVars == <<dcase, dout>>

-----------------------------------------------------------------------------
\* One object of the file with one of its references or counts changed.
Damaged(view, d) ==
  IF d.at = 0 THEN view
  ELSE IF d.at > 0 THEN [view EXCEPT !.objects[d.at][d.part] = d.value]
  ELSE [view EXCEPT !.buckets[-d.at][d.part] = d.value]

DamagedView ==
  Damaged([header |-> HeaderOf(dcase.file), buckets |-> BucketsOf(dcase.file), objects |-> ObjectsOf(dcase.file)], dcase.damage)

\* The file is opened for the query; then its entries are read one by one, the newest first.
OpenFile ==
  /\ dcase.kind = "damage" /\ dout = [ready |-> FALSE]
  /\ \E sources \in {QuerySources(DamagedView, dcase.query)} :
      dout' = IF IsBad(sources) THEN [ready |-> TRUE, result |-> sources]
              ELSE [ready |-> FALSE, file |-> [sources |-> sources.sources, scanned |-> 0], read |-> <<>>]

ReadEntry ==
  /\ ~dout.ready /\ "file" \in DOMAIN dout
  /\ \E got \in {PreviousSelected(DamagedView, dout.file, 0, 0)} :
      dout' = IF IsBad(got) THEN [ready |-> TRUE, result |-> got]
              ELSE IF "done" \in DOMAIN got THEN [ready |-> TRUE, result |-> [done |-> TRUE, read |-> dout.read]]
              ELSE [dout EXCEPT !.file = got.file, !.read = Append(@, got.entry.offset)]

\* Every entry that is returned belongs to the scope by what the file itself says of it, each
\* once and newest first, whatever pointer or count is wrong: damage leads to an error or to
\* fewer entries, not to a foreign or repeated entry and not to an endless walk.
DamageIsContained ==
  (dcase.kind = "damage" /\ dout.ready) =>
    Once(DamagedView, LAMBDA view :
    LET Payloads(o) == {<<view.objects[i].payload.field, view.objects[i].payload.value>> : i \in Range(view.objects[o].items)}
        read == dout.result.read
    IN  \/ IsBad(dout.result)
        \/ /\ "done" \in DOMAIN dout.result
           /\ \A i \in DOMAIN read : \E m \in QueryMatches(dcase.query) : {m.index} \cup m.required \subseteq Payloads(read[i])
           /\ \A i \in 1..(Len(read) - 1) : read[i] > read[i + 1]
           /\ dcase.damage.at = 0 =>
                Len(read) = Cardinality({j \in 1..dcase.file.linked : \E m \in QueryMatches(dcase.query) : HasFields(dcase.file.entries[j], m)}))

-----------------------------------------------------------------------------
(* LZ4. A block is a sequence of tokens, each with literals and, except for   *)
(* the last, a match: a distance back and a length. Lengths that fill their   *)
(* half of the token continue in bytes of their own. A source is [at, ok].    *)
High(token) == token \div (NibbleMax + 1)
Low(token) == token % (NibbleMax + 1)

\* The length from base on, [length, at, complete], or FALSE in ok when the bytes end or it
\* exceeds the maximum. needed < 0: the whole length is read.
RECURSIVE LengthFrom(_, _, _, _)
LengthFrom(block, here, maximum, needed) ==
  IF ~here.ok \/ here.complete \/ here.enough THEN here
  ELSE IF here.at > Len(block) \/ block[here.at] > maximum - here.length THEN [here EXCEPT !.ok = FALSE]
  ELSE \* one more byte
       LET complete == block[here.at] # ByteMax
           length == here.length + block[here.at]
       IN  LengthFrom(block, [here EXCEPT !.length = length, !.at = @ + 1, !.complete = complete,
                                          !.enough = ~complete /\ needed >= 0 /\ length + MinMatch >= needed], maximum, needed)
ReadLength(block, from, base, maximum, needed) ==
  LengthFrom(block, [length |-> base, at |-> from, complete |-> base # NibbleMax, ok |-> base <= maximum, enough |-> FALSE], maximum, needed)

\* length bytes that repeat those at a distance, which may overlap what they produce.
Repeat(out, distance, length) ==
  out \o [i \in 1..length |-> out[Len(out) - distance + 1 + ((i - 1) % distance)]]

LZ4Failed == [failed |-> "lz4"]
Prefix(out, limit) == [bytes |-> SubSeq(out, 1, limit), truncated |-> TRUE]

\* One sequence of the block: [out, at] to go on, or the outcome.
DecodeSequence(block, size, limit, here) ==
  LET truncated == size > limit
      room == (IF truncated THEN limit + 1 ELSE size) - Len(here.out)
      token == block[here.at]
  IN  Once(ReadLength(block, here.at + 1, High(token), size - Len(here.out), -1), LAMBDA lit :
  LET litRead == IF lit.length < room THEN lit.length ELSE room
      out == here.out \o SubSeq(block, lit.at, lit.at + litRead - 1)
      after == lit.at + litRead
      distance == block[after]
      left == size - Len(out)
      match == ReadLength(block, after + 1, Low(token), left - MinMatch, IF truncated THEN room - litRead ELSE -1)
      length == match.length + MinMatch
      matchRead == IF length < room - litRead THEN length ELSE room - litRead
      grown == Repeat(out, distance, matchRead)
  IN  IF ~lit.ok THEN LZ4Failed
      ELSE IF after - 1 > Len(block) THEN LZ4Failed
      ELSE IF litRead < lit.length \/ (truncated /\ litRead = room) THEN Prefix(out, limit)
      ELSE IF after > Len(block) THEN (IF Len(out) = size THEN [bytes |-> out, truncated |-> FALSE] ELSE LZ4Failed)
      ELSE IF distance = 0 \/ distance > Len(out) THEN LZ4Failed
      ELSE IF left < MinMatch THEN LZ4Failed
      ELSE IF ~match.ok THEN LZ4Failed
      ELSE IF ~match.complete \/ matchRead < length \/ (truncated /\ Len(grown) = limit + 1) THEN Prefix(grown, limit)
      ELSE IF Len(grown) = size THEN (IF match.at <= Len(block) THEN LZ4Failed ELSE [bytes |-> grown, truncated |-> FALSE])
      ELSE [out |-> grown, at |-> match.at])

\* The blocks of the cases, from the sequences [lit, distance, length] they are made of
\* (the last has distance 0), and the bytes these stand for.
LengthBytes(n) ==
  IF n < NibbleMax THEN <<>> ELSE [i \in 1..((n - NibbleMax) \div ByteMax) |-> ByteMax] \o <<(n - NibbleMax) % ByteMax>>
Half(n) == IF n < NibbleMax THEN n ELSE NibbleMax
Encode(seqs) ==
  FoldLeft(LAMBDA out, s : out \o <<Half(Len(s.lit)) * (NibbleMax + 1) + (IF s.distance = 0 THEN 0 ELSE Half(s.length - MinMatch))>>
                               \o LengthBytes(Len(s.lit)) \o s.lit
                               \o (IF s.distance = 0 THEN <<>> ELSE <<s.distance>> \o LengthBytes(s.length - MinMatch)),
           <<>>, seqs)
Meaning(seqs) ==
  LET Byte(out, d) == Append(out, out[Len(out) + 1 - d])
  IN  FoldLeft(LAMBDA out, s : FoldLeft(LAMBDA o, i : Byte(o, s.distance), out \o s.lit,
                                        [i \in 1..(IF s.distance = 0 THEN 0 ELSE s.length) |-> i]),
               <<>>, seqs)

DecodeLZ4Prefix ==
  LET block == Encode(dcase.seqs)
      here == IF "out" \in DOMAIN dout THEN dout ELSE [out |-> <<>>, at |-> 1]
      next == IF here.at > Len(block) THEN LZ4Failed
              ELSE DecodeSequence(block, Len(Meaning(dcase.seqs)), dcase.limit, here)
  IN  /\ dcase.kind = "block" /\ ~dout.ready
      /\ dout' = IF "out" \in DOMAIN next THEN [ready |-> FALSE] @@ next ELSE [ready |-> TRUE, result |-> next]

\* What is decoded of a block is the beginning of the bytes it stands for, and is marked as
\* cut exactly if there is more: matches that overlap, lengths that continue and a limit in
\* the middle of either do not change it (decodeJournalLZ4Prefix).
PrefixIsBeginning ==
  (dcase.kind = "block" /\ dout.ready) =>
    LET whole == Meaning(dcase.seqs)
    IN  dout.result = [bytes |-> SubSeq(whole, 1, IF Len(whole) < dcase.limit THEN Len(whole) ELSE dcase.limit),
                       truncated |-> Len(whole) > dcase.limit]

-----------------------------------------------------------------------------
DataInit == dcase \in DamageCases \cup BlockCases /\ dout = [ready |-> FALSE]

DataNext == (OpenFile \/ ReadEntry \/ DecodeLZ4Prefix) /\ UNCHANGED dcase

\* A query gives the newest entries of its scope as the journal had them at one
\* moment, and complains of a sound journal only if journald was at work in
\* both attempts.
QueryTrue ==
  /\ JournalTypeOK
  /\ ReadIsSnapshot
  /\ NoFalseAlarm

\* Files that are damaged, or decoded only in part, give a beginning of what
\* they hold: never a foreign or repeated entry, never an endless walk.
DamageContained ==
  /\ DamageIsContained
  /\ PrefixIsBeginning

\* A vacuum removes archives only, oldest first, while the journal is over the
\* target, follows a rotation that really happened, and reports success only
\* when it is through.
VacuumTrue ==
  [](VacuumComplete /\ RotationTrue) /\ VacuumSafe

=============================================================================

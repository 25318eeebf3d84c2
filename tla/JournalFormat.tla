---------------------------- MODULE JournalFormat ----------------------------
(* Reading a systemd journal file: the lookup of a DATA object, the walk of   *)
(* its index of entries from the newest to the oldest, and what is read of an *)
(* entry. The file is untrusted: every pointer may lead anywhere.             *)
(*                                                                            *)
(* A view is [header, buckets, objects]: the header as it was when the file   *)
(* was opened, and the live contents, where objects maps the offsets at which *)
(* an object starts to records:                                               *)
(*   data   [type, payload, hash, next, entry, array, n, tailArray, tailUsed] *)
(*   entry  [type, seq, time, mono, boot, items]                              *)
(*   array  [type, next, items]                                               *)
(* Offset 0 stands for "none"; an offset at which no object starts is one     *)
(* that is misaligned, in the header or behind the arena. A payload is        *)
(* [field, value, long]: of a long one only a prefix is read. Fields that a   *)
(* layout does not have (tailArray, tailEntry) are -1. Entry items have no    *)
(* hash of their own, as in the compact layout.                               *)
EXTENDS Integers, Sequences, FiniteSets, SequencesExt, Values

CONSTANTS MaxEntryArrays,      \* objects in one ENTRY_ARRAY chain
          MaxHashChain,        \* objects in one hash bucket
          MaxEntryFields,      \* items of one entry
          MaxCandidates,       \* entries one query examines in one file
          PayloadHash          \* the hash of each <<field, value>>

Bad(kind) == [failed |-> kind]
Corrupt == Bad("corrupt")
Limit == Bad("limit")
IsBad(x) == "failed" \in DOMAIN x

\* What the reader takes for the start of an object: nothing behind the tail object
\* that the header named when the file was opened.
IsObjectOffset(view, offset) ==
  offset \in DOMAIN view.objects /\ (view.header.tail # 0 => offset <= view.header.tail)
ValidOffset(view, offset) == offset = 0 \/ IsObjectOffset(view, offset)

TailPairOK(view, array, tailArray, tailUsed) ==
  tailArray < 0 \/ (/\ (tailArray = 0) <=> (tailUsed = 0)
                    /\ tailArray # 0 => IsObjectOffset(view, tailArray) /\ array # 0 /\ array <= tailArray)

ReadJournalHeader(view) ==
  LET h == view.header
  IN  IF h.magic = "other" THEN Corrupt
      ELSE IF h.magic = "future" THEN Bad("unsupported")
      ELSE IF /\ TailPairOK(view, h.array, h.tailArray, h.tailUsed)
              /\ ValidOffset(view, h.tail) /\ ValidOffset(view, h.array)
              /\ h.tailEntry < 0 \/ ValidOffset(view, h.tailEntry)
      THEN h ELSE Corrupt

ObjectAt(view, offset, type) ==
  IF ~IsObjectOffset(view, offset) THEN Corrupt
  ELSE IF view.objects[offset].type # type THEN Corrupt
  ELSE view.objects[offset]

DataObjectAt(view, offset) ==
  Once(ObjectAt(view, offset, "data"), LAMBDA data :
      IF IsBad(data) THEN data
      ELSE IF /\ ValidOffset(view, data.next) /\ ValidOffset(view, data.entry) /\ ValidOffset(view, data.array)
              /\ TailPairOK(view, data.array, data.tailArray, data.tailUsed)
      THEN data ELSE Corrupt)

EntryObjectAt(view, offset) ==
  LET entry == ObjectAt(view, offset, "entry")
  IN  IF IsBad(entry) THEN entry
      ELSE IF entry.items = <<>> THEN Corrupt
      ELSE IF Len(entry.items) > MaxEntryFields THEN Limit
      ELSE IF \E i \in DOMAIN entry.items : ~IsObjectOffset(view, entry.items[i]) THEN Corrupt
      ELSE entry

EntryArrayAt(view, offset) ==
  LET array == ObjectAt(view, offset, "array")
  IN  IF IsBad(array) THEN array
      ELSE IF array.items = <<>> \/ ~ValidOffset(view, array.next) THEN Corrupt
      ELSE array

\* One item of an array that was found in order when the walk was prepared.
EntryArrayItem(view, ref) ==
  LET offset == view.objects[ref.array].items[ref.index]
  IN  IF IsObjectOffset(view, offset) THEN [offset |-> offset] ELSE Corrupt

-----------------------------------------------------------------------------
\* The object with this payload: [found, offset], or what is wrong with the bucket.
RECURSIVE SearchChain(_, _, _, _, _)
SearchChain(view, bucket, wanted, at, seen) ==
  IF Cardinality(seen) = MaxHashChain THEN Limit
  ELSE IF at \in seen THEN Corrupt
  ELSE Once(DataObjectAt(view, at), LAMBDA data :
       IF IsBad(data) THEN data
       ELSE IF (data.hash % Len(view.buckets)) + 1 # bucket THEN Corrupt
       ELSE IF data.hash = wanted.hash /\ data.payload = wanted.payload THEN [found |-> TRUE, offset |-> at]
       ELSE IF at = view.buckets[bucket].tail THEN (IF data.next # 0 THEN Corrupt ELSE [found |-> FALSE, offset |-> 0])
       ELSE IF data.next = 0 THEN Corrupt
       ELSE SearchChain(view, bucket, wanted, data.next, seen \cup {at}))

FindDataObject(view, payload, hash) ==
  LET bucket == (hash % Len(view.buckets)) + 1
      ends == view.buckets[bucket]
      Missing == [found |-> FALSE, offset |-> 0]
  IN  IF Len(view.buckets) = 0 THEN Missing
      ELSE IF (ends.head = 0) # (ends.tail = 0) THEN Corrupt
      ELSE IF ends.head = 0 THEN Missing
      ELSE IF ~ValidOffset(view, ends.head) \/ ~ValidOffset(view, ends.tail) THEN Corrupt
      ELSE SearchChain(view, bucket, [payload |-> payload, hash |-> hash], ends.head, {})

\* The items of a chain of arrays that holds count of them: their references, newest last.
RECURSIVE WalkFrom(_, _, _, _, _)
WalkFrom(view, at, seen, left, refs) ==
  IF Cardinality(seen) = MaxEntryArrays THEN Limit
  ELSE IF at \in seen THEN Corrupt
  ELSE Once(EntryArrayAt(view, at), LAMBDA array :
       IF IsBad(array) THEN array
       ELSE LET used == IF Len(array.items) > left THEN left ELSE Len(array.items)
                all == refs \o [i \in 1..used |-> [array |-> at, index |-> i]]
            IN  IF left = used THEN IF array.next # 0 THEN Corrupt ELSE [refs |-> all, last |-> at, used |-> used]
                ELSE IF array.next = 0 THEN Corrupt
                ELSE WalkFrom(view, array.next, seen \cup {at}, left - used, all))
WalkArrays(view, first, count) == WalkFrom(view, first, {}, count, <<>>)

TailMatches(chain, tailArray, tailUsed) ==
  tailArray < 0 \/ (chain.last = tailArray /\ chain.used = tailUsed)

\* An iterator is [refs, inline, last]: array items still to come, the inline offset still
\* to come or 0, and the offset returned last.
EntryOffsetsForData(view, data) ==
  Once(WalkArrays(view, data.array, data.n - 1), LAMBDA chain :
      IF data.n = 0
      THEN IF data.entry # 0 \/ data.array # 0 \/ data.tailArray > 0 THEN Corrupt
           ELSE [refs |-> <<>>, inline |-> 0, last |-> 0]
      ELSE IF data.entry = 0 \/ data.n > view.header.n THEN Corrupt
      ELSE IF data.n = 1
      THEN IF data.array # 0 THEN Corrupt ELSE [refs |-> <<>>, inline |-> data.entry, last |-> 0]
      ELSE IF data.array = 0 THEN Corrupt
      ELSE IF IsBad(chain) THEN chain
      ELSE IF ~TailMatches(chain, data.tailArray, data.tailUsed) THEN Corrupt
      ELSE [refs |-> chain.refs, inline |-> data.entry, last |-> 0])

\* Mutant: offsets need not descend.
PreviousUnordered(view, it) ==
  LET item == EntryArrayItem(view, Last(it.refs))
      offset == IF it.refs = <<>> THEN it.inline ELSE item.offset
  IN  IF it.refs = <<>> /\ it.inline = 0 THEN [done |-> TRUE]
      ELSE IF it.refs # <<>> /\ IsBad(item) THEN item
      ELSE [offset |-> offset,
            it |-> IF it.refs # <<>> THEN [it EXCEPT !.refs = Front(@), !.last = offset]
                   ELSE [it EXCEPT !.inline = 0, !.last = offset]]

\* The next older offset: [offset, it], [done], or an error if the order is wrong.
Previous(view, it) ==
  LET item == EntryArrayItem(view, Last(it.refs))
      offset == IF it.refs = <<>> THEN it.inline ELSE item.offset
  IN  IF it.refs = <<>> /\ it.inline = 0 THEN [done |-> TRUE]
      ELSE IF it.refs # <<>> /\ IsBad(item) THEN item
      ELSE IF it.last # 0 /\ offset >= it.last THEN Corrupt
      ELSE [offset |-> offset,
            it |-> IF it.refs # <<>> THEN [it EXCEPT !.refs = Front(@), !.last = offset]
                   ELSE [it EXCEPT !.inline = 0, !.last = offset]]

\* The global index of all entries, and the newest of them.
GlobalEntryOffsets(view) ==
  LET chain == WalkArrays(view, view.header.array, view.header.n)
  IN  IF view.header.n = 0 THEN [refs |-> <<>>, inline |-> 0, last |-> 0]
      ELSE IF view.header.array = 0 THEN Corrupt
      ELSE IF IsBad(chain) THEN chain
      ELSE IF ~TailMatches(chain, view.header.tailArray, view.header.tailUsed) THEN Corrupt
      ELSE [refs |-> chain.refs, inline |-> 0, last |-> 0]

\* Older files do not record the offset of their last entry (header.tailEntry = -1).
NewestJournalEntry(view) ==
  Once(GlobalEntryOffsets(view), LAMBDA global :
  LET step == Previous(view, global)
      offset == IF view.header.tailEntry >= 0 THEN view.header.tailEntry ELSE step.offset
      entry == EntryObjectAt(view, offset)
  IN  IF view.header.n = 0 THEN [found |-> FALSE]
      ELSE IF view.header.tailEntry = 0 THEN Corrupt
      ELSE IF view.header.tailEntry < 0 /\ IsBad(global) THEN global
      ELSE IF view.header.tailEntry < 0 /\ IsBad(step) THEN step
      ELSE IF IsBad(entry) THEN entry
      ELSE IF entry.seq = 0 \/ entry.time = 0 \/ entry.boot = 0 THEN Corrupt
      ELSE IF view.header.tailSeq \notin {0, entry.seq} THEN Corrupt
      ELSE [found |-> TRUE, offset |-> offset, entry |-> entry])

-----------------------------------------------------------------------------
SelectedFields == {"_HOSTNAME", "SYSLOG_IDENTIFIER", "_COMM", "_PID", "MESSAGE"}

\* The value of one field as it is shown: a long one is a prefix, and its hash unchecked.
SelectedDataField(view, offset) ==
  LET data == DataObjectAt(view, offset)
  IN  IF IsBad(data) THEN data
      ELSE IF data.payload.field = "" THEN Corrupt
      ELSE IF data.payload.field \notin SelectedFields THEN [skip |-> TRUE]
      ELSE IF ~data.payload.long /\ data.hash # PayloadHash[<<data.payload.field, data.payload.value>>] THEN Corrupt
      ELSE [field |-> data.payload.field, value |-> data.payload.value]

\* The first DATA object of a field counts; the command name stands in for an identifier.
MaterializeEntry(view, entry) ==
  Once([i \in DOMAIN entry.items |-> SelectedDataField(view, entry.items[i])], LAMBDA got :
  LET bad == {i \in DOMAIN got : IsBad(got[i]) \/ \E k \in 1..(i - 1) : entry.items[k] = entry.items[i]}
      first == CHOOSE i \in bad : \A k \in bad : i <= k
      Of(f) == LET at == {i \in DOMAIN got : "field" \in DOMAIN got[i]}
                   with == {i \in at : got[i].field = f}
               IN  IF with = {} THEN "" ELSE got[CHOOSE i \in with : \A k \in with : i <= k].value
      syslog == Of("SYSLOG_IDENTIFIER")
  IN  IF bad # {} THEN (IF IsBad(got[first]) THEN got[first] ELSE Corrupt)
      ELSE [host |-> Of("_HOSTNAME"), identifier |-> IF syslog = "" THEN Of("_COMM") ELSE syslog,
            pid |-> Of("_PID"), message |-> Of("MESSAGE")])

ContainsData(entry, offset) == \E i \in DOMAIN entry.items : entry.items[i] = offset

-----------------------------------------------------------------------------
(* One query of one file. A source is [it, index, required, current, done]:   *)
(* the index it walks, the DATA it belongs to, those an entry must reference  *)
(* as well, and the entry it stands at (0: none loaded).                      *)

\* Older managers log as process 1, newer ones from init.scope.
UnitMatches(unit) ==
  {[index |-> <<"_SYSTEMD_UNIT", unit>>, required |-> {}],
   [index |-> <<"UNIT", unit>>, required |-> {<<"_PID", "1">>}],
   [index |-> <<"UNIT", unit>>, required |-> {<<"_SYSTEMD_CGROUP", "/init.scope">>}],
   [index |-> <<"OBJECT_SYSTEMD_UNIT", unit>>, required |-> {<<"_UID", "0">>}],
   [index |-> <<"COREDUMP_UNIT", unit>>, required |-> {<<"_UID", "0">>, <<"MESSAGE_ID", "coredump">>}]}
  \cup (IF unit = "user.slice" THEN {[index |-> <<"_SYSTEMD_SLICE", unit>>, required |-> {}]} ELSE {})

QueryMatches(query) ==
  IF query.kernel THEN {[index |-> <<"_TRANSPORT", "kernel">>, required |-> {}]}
  ELSE UNION {UnitMatches(u) : u \in query.units}

Lookup(view, p) == FindDataObject(view, [field |-> p[1], value |-> p[2], long |-> FALSE], PayloadHash[p])

\* The sources of the matches whose payloads all occur in the file.
QuerySources(view, query) ==
  LET Find(p) == Lookup(view, p)
      payloads == UNION {{m.index} \cup m.required : m \in QueryMatches(query)}
      errors == {p \in payloads : IsBad(Find(p))}
      usable == IF errors # {} THEN {}
                ELSE {m \in QueryMatches(query) : \A p \in {m.index} \cup m.required : Find(p).found}
      Iterator(m) == EntryOffsetsForData(view, DataObjectAt(view, Find(m.index).offset))
      broken == {m \in usable : IsBad(Iterator(m))}
      ordered == SetToSeq(usable)
  IN  IF errors # {} THEN Find(CHOOSE p \in errors : TRUE)
      ELSE IF broken # {} THEN Iterator(CHOOSE m \in broken : TRUE)
      ELSE [sources |-> [i \in DOMAIN ordered |->
              [it |-> Iterator(ordered[i]), index |-> Find(ordered[i].index).offset,
               required |-> {Find(p).offset : p \in ordered[i].required}, current |-> 0, done |-> FALSE]]]

\* Load a source: walk on to the next entry that references what it must.
RECURSIVE LoadNext(_, _, _)
LoadNext(view, source, scanned) ==
  Once(Previous(view, source.it), LAMBDA step :
  LET entry == EntryObjectAt(view, step.offset)
      moved == [source EXCEPT !.it = step.it]
  IN  IF IsBad(step) THEN step
      ELSE IF "done" \in DOMAIN step THEN [source |-> [source EXCEPT !.done = TRUE], scanned |-> scanned]
      ELSE IF scanned >= MaxCandidates THEN Limit
      ELSE IF IsBad(entry) THEN entry
      ELSE IF ~ContainsData(entry, source.index) THEN Corrupt
      ELSE IF \A r \in source.required : ContainsData(entry, r)
      THEN [source |-> [moved EXCEPT !.current = step.offset], scanned |-> scanned + 1]
      ELSE LoadNext(view, moved, scanned + 1))
LoadSource(view, source, scanned) ==
  IF source.current # 0 \/ source.done THEN [source |-> source, scanned |-> scanned] ELSE LoadNext(view, source, scanned)

\* All sources loaded, the newest candidate taken from every source that stands at it:
\* [file, offset] with offset 0 at the end. A file iterator is [sources, scanned].
RECURSIVE LoadAll(_, _, _)
LoadAll(view, file, i) ==
  IF i > Len(file.sources) THEN file
  ELSE Once(LoadSource(view, file.sources[i], file.scanned), LAMBDA got :
       IF IsBad(got) THEN got ELSE LoadAll(view, [sources |-> [file.sources EXCEPT ![i] = got.source], scanned |-> got.scanned], i + 1))

PreviousCandidate(view, file) ==
  Once(LoadAll(view, file, 1), LAMBDA loaded :
  LET n == Len(file.sources)
      newest == LET all == {loaded.sources[i].current : i \in 1..n}
                IN  IF all = {} THEN 0 ELSE CHOOSE o \in all : \A p \in all : p <= o
  IN  IF IsBad(loaded) THEN loaded
      ELSE [offset |-> newest,
            file |-> [loaded EXCEPT !.sources = [i \in 1..n |->
                        IF @[i].current = newest THEN [@[i] EXCEPT !.current = 0] ELSE @[i]]]])

\* The next older entry of the file that the query selects: [entry, file], [done], or an error.
RECURSIVE PreviousSelected(_, _, _, _)
PreviousSelected(view, file, boot, since) ==
  Once(PreviousCandidate(view, file), LAMBDA got :
  LET entry == EntryObjectAt(view, got.offset)
      shown == MaterializeEntry(view, entry)
  IN  IF IsBad(got) THEN got
      ELSE IF got.offset = 0 THEN [done |-> TRUE]
      ELSE IF boot # 0 /\ entry.boot # boot THEN [done |-> TRUE]
      ELSE IF entry.time < since THEN PreviousSelected(view, got.file, boot, since)
      ELSE IF entry.seq = 0 \/ entry.boot = 0 \/ entry.time = 0 THEN Corrupt
      ELSE IF IsBad(shown) THEN shown
      ELSE [file |-> got.file,
            entry |-> [seqId |-> view.header.seqId, fileId |-> view.header.fileId, offset |-> got.offset,
                       seq |-> entry.seq, time |-> entry.time, mono |-> entry.mono, boot |-> entry.boot,
                       shown |-> shown]])
=============================================================================

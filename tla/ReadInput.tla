----------------------------- MODULE ReadInput ------------------------------
(***************************************************************************)
(* The builtin read, called several times on one standard input, as in     *)
(* "while read line".  Nothing may be read ahead, since the next call      *)
(* starts where this one stopped; and a call may be ended by -t or by the  *)
(* cancellation of the run while it is blocked.  Where the descriptor      *)
(* supports deadlines a watchdog interrupts the blocked read; elsewhere    *)
(* a goroutine reads one byte per request and is left behind.              *)
(*                                                                         *)
(* Bytes: "a" and "." stand for themselves, "n" is a newline, "0" a NUL,   *)
(* "b" a backslash, "L" and "C" the two bytes of a character.              *)
(***************************************************************************)
EXTENDS Call, SequencesExt, FiniteSetsExt

CONSTANTS MaxReadBytes   \* what one call consumes at most, and one byte more

(***************************************************************************)
(* The record: readInput's loop, one byte at a time.                       *)
(***************************************************************************)
NoRecord == [buf |-> <<>>, runes |-> 0, mark |-> 0, esc |-> FALSE, end |-> "no"]

\* utf8.RuneIsFull of the bytes that are not counted yet
RuneIsFull(pending) == pending[1] # "L" \/ Len(pending) >= 2

\* tryAppendByte and maybeRuneComplete
Append1(rec, b) ==
  IF Len(rec.buf) + 1 > MaxReadBytes THEN [rec EXCEPT !.end = "large", !.esc = FALSE]
  ELSE LET buf == Append(rec.buf, b)
           whole == b \notin {"L", "C"} \/ RuneIsFull(SubSeq(buf, rec.mark + 1, Len(buf)))
       IN [buf |-> buf, esc |-> FALSE, end |-> "no", runes |-> rec.runes + (IF whole THEN 1 ELSE 0),
           mark |-> IF whole THEN Len(buf) ELSE rec.mark]

TakeByte(opt, rec, b) ==
  IF rec.esc THEN IF b \in {"n", "0"} THEN [rec EXCEPT !.esc = FALSE] ELSE Append1(rec, b)
  ELSE IF ~opt.fixed /\ b = opt.delim THEN [rec EXCEPT !.end = "whole"]
  ELSE IF b = "0" THEN rec
  ELSE IF ~opt.raw /\ b = "b" THEN [rec EXCEPT !.esc = TRUE]
  ELSE Append1(rec, b)

\* the limit of -n and -N is tested before a byte is asked for
AtLimit(opt, rec) == opt.limit >= 0 /\ rec.runes >= opt.limit

(***************************************************************************)
(* The calls.  call.reads holds the options of each: raw, delim, limit     *)
(* (-1: none), fixed (-N) and wait, which is "none", "poll" (-t 0) or      *)
(* "time" (a positive -t).  call.stdin is a "pipe", whose reads can be     *)
(* given a deadline, or a "reader", which may return its last byte         *)
(* together with the end of the input; with call.early all of call.data is *)
(* there from the start.                                                   *)
(***************************************************************************)
Opt == call.reads[run.k]
Cancellable == call.cancellable \/ Opt.wait = "time"
KernelCancel == call.stdin = "pipe" /\ Cancellable
NeedsGoroutinePoll == Cancellable /\ ~KernelCancel

\* What the other end did: run.written bytes of call.data are there, and it
\* may have closed; run.next of them were read.
ByteReady == run.next < run.written
AtEof == run.closed /\ run.next = run.written

\* The context of the call.  run.due: the time of -t is over.
CtxErr == IF run.cancelled THEN "cancelled" ELSE IF run.expired THEN "deadline" ELSE "no"
DeadlinePassed == run.deadline = "past" \/ (run.deadline = "set" /\ run.due)

Fresh(k) ==
  [k |-> k, rec |-> NoRecord, taken |-> <<>>, due |-> FALSE, expired |-> FALSE, dog |-> "none", prod |-> "none", offer |-> 0, saved |-> FALSE]
ReadInit ==
  run = Fresh(1) @@ [pc |-> "start", next |-> 0, written |-> IF call.early THEN Len(call.data) ELSE 0, closed |-> call.early, cancelled |-> FALSE, deadline |-> "none", leaked |-> 0, out |-> <<>>]

\* A poll looks at the descriptor only.
PollAvailable == IF call.stdin = "pipe" /\ (ByteReady \/ AtEof) THEN "ready" ELSE "notready"

\* run up to the loop of readInput
StartRead ==
  /\ run.pc = "start"
  /\ run' = IF Opt.wait = "poll" THEN [run EXCEPT !.pc = "stop", !.rec.end = PollAvailable]
            ELSE [run EXCEPT !.pc = "loop", !.dog = IF KernelCancel THEN "watching" ELSE "none",
                             !.deadline = IF KernelCancel THEN IF Opt.wait = "time" THEN "set" ELSE "none" ELSE run.deadline,
                             !.prod = IF NeedsGoroutinePoll THEN "idle" ELSE "none"]

\* readInput returns: stop is closed, and a producer inside Read is left there
Return(end, rec) ==
  [run EXCEPT !.pc = "stop", !.rec = [rec EXCEPT !.end = end], !.prod = "none", !.offer = 0,
              !.leaked = run.leaked + (IF run.prod = "reading" THEN 1 ELSE 0)]

\* a byte reaches the loop: at is its place in the input
Receive(at) ==
  LET rec == TakeByte(Opt, run.rec, call.data[at])
      r == [run EXCEPT !.rec = rec, !.taken = Append(run.taken, at), !.next = IF at > run.next THEN at ELSE run.next, !.prod = IF run.prod = "none" THEN "none" ELSE "idle", !.offer = 0]
  IN IF rec.end = "no" THEN r ELSE [r EXCEPT !.pc = "stop", !.prod = "none"]

InLoop == run.pc = "loop" /\ ~AtLimit(Opt, run.rec)
OverConsumed == Len(run.taken) > MaxReadBytes

LoopEnds ==
  /\ run.pc = "loop"
  /\ \/ AtLimit(Opt, run.rec) /\ run' = Return("whole", run.rec)
     \/ InLoop /\ OverConsumed /\ run' = Return("large", run.rec)

\* The direct path.  A read that is ready to return data and whose deadline
\* has passed fails with the deadline.
ReadDirect ==
  /\ InLoop /\ ~OverConsumed /\ ~NeedsGoroutinePoll
  /\ \/ CtxErr # "no" /\ run' = Return(CtxErr, run.rec)
     \/ DeadlinePassed /\ run' = Return("deadline", run.rec)
     \/ ~DeadlinePassed /\ ByteReady /\ run' = Receive(run.next + 1)
     \/ ~DeadlinePassed /\ AtEof /\ run' = Return("eof", run.rec)

\* The request-response path: the loop asks, the producer reads one byte and
\* offers it.
Ask ==
  /\ InLoop /\ ~OverConsumed /\ NeedsGoroutinePoll /\ run.prod = "idle"
  /\ run' = [run EXCEPT !.prod = IF run.saved THEN "eof" ELSE "reading"]

\* Mutant: the producer reads into a buffer of two bytes and hands on the first.
ProduceAhead ==
  /\ run.prod = "reading"
  /\ \/ ByteReady /\ run' = [run EXCEPT !.prod = "offer", !.offer = run.next + 1, !.next = IF run.next + 2 <= run.written THEN run.next + 2 ELSE run.next + 1]
     \/ AtEof /\ run' = [run EXCEPT !.prod = "eof"]
Produce ==
  /\ run.prod = "reading"
  /\ \/ ByteReady /\ \E last \in {FALSE, run.closed /\ run.next + 1 = run.written} :
          run' = [run EXCEPT !.prod = "offer", !.offer = run.next + 1, !.next = run.next + 1, !.saved = last]
     \/ AtEof /\ run' = [run EXCEPT !.prod = "eof"]

Answer ==
  /\ run.pc = "loop"
  /\ \/ run.prod = "offer" /\ run' = Receive(run.offer)
     \/ run.prod = "eof" /\ run' = Return("eof", run.rec)

GiveUpWaiting ==
  /\ InLoop /\ ~OverConsumed /\ NeedsGoroutinePoll /\ CtxErr # "no"
  /\ run' = Return(CtxErr, run.rec)

\* A producer that was left behind returns from its Read: the byte is lost.
LeakedReturns ==
  /\ run.leaked > 0 /\ run.pc # "done" /\ (ByteReady \/ AtEof)
  /\ run' = [run EXCEPT !.leaked = run.leaked - 1, !.next = IF ByteReady THEN run.next + 1 ELSE run.next]

\* The watchdog mirrors the end of the context to the descriptor.
Watchdog ==
  /\ run.dog = "watching"
  /\ \/ CtxErr # "no" /\ run' = [run EXCEPT !.dog = "over", !.deadline = "past"]
     \/ run.pc = "stop" /\ run' = [run EXCEPT !.dog = "over"]

\* the status of a call; only a record, an end of input and a timeout assign
Status(end) == CASE end \in {"whole", "ready"} -> 0 [] end = "deadline" -> 142 [] OTHER -> 1
Report == [k |-> run.k, taken |-> run.taken, value |-> run.rec.buf, end |-> run.rec.end, due |-> run.due, gone |-> NeedsGoroutinePoll]

\* The deferred end of the call: wait for the watchdog, clear the deadline.
\* The runner starts nothing after the run was cancelled.
FinishRead ==
  /\ run.pc = "stop" /\ run.dog \in {"none", "over"}
  /\ LET r == [run EXCEPT !.deadline = IF run.dog = "over" THEN "none" ELSE run.deadline, !.out = Append(run.out, Report)] IN
     run' = IF run.cancelled \/ run.k = Len(call.reads) THEN [r EXCEPT !.pc = "done"] ELSE Fresh(run.k + 1) @@ [r EXCEPT !.pc = "start"]

\* The other end, the clock and whoever cancels the run.
Arrive == run.pc # "done" /\ ~run.closed /\ run.written < Len(call.data) /\ run' = [run EXCEPT !.written = run.written + 1]
StdinCloses == run.pc # "done" /\ ~run.closed /\ run.written = Len(call.data) /\ run' = [run EXCEPT !.closed = TRUE]
TimePasses == run.pc = "loop" /\ Opt.wait = "time" /\ ~run.due /\ run' = [run EXCEPT !.due = TRUE]
ContextExpires == run.pc \in {"loop", "stop"} /\ run.due /\ ~run.expired /\ run' = [run EXCEPT !.expired = TRUE]
CancelRead == run.pc = "loop" /\ call.cancellable /\ ~run.cancelled /\ run' = [run EXCEPT !.cancelled = TRUE]

ReadStep ==
  /\ call.tool = "read"
  /\ \/ StartRead \/ LoopEnds \/ ReadDirect \/ Ask \/ Produce \/ Answer \/ GiveUpWaiting \/ LeakedReturns \/ Watchdog \/ FinishRead
     \/ Arrive \/ StdinCloses \/ TimePasses \/ ContextExpires \/ CancelRead

(***************************************************************************)
(* What a record is, without the loop.                                     *)
(***************************************************************************)
Bytes(at) == [i \in DOMAIN at |-> call.data[at[i]]]
EscapedByte(opt, t, i) == ~opt.raw /\ \E k \in 1 .. Len(t) : /\ k % 2 = 1 /\ i > k /\ \A m \in (i - k) .. (i - 1) : t[m] = "b"
                                                        /\ (i - k = 1 \/ t[i - k - 1] # "b")
KeptByte(opt, t, i) == t[i] # "0" /\ ~(t[i] = "n" /\ EscapedByte(opt, t, i)) /\ ~(~opt.raw /\ t[i] = "b" /\ ~EscapedByte(opt, t, i))
RecordOf(opt, t) == LET at == SetToSortSeq({i \in DOMAIN t : KeptByte(opt, t, i)}, <) IN [i \in DOMAIN at |-> t[at[i]]]
DelimReached(opt, t) == ~opt.fixed /\ t # <<>> /\ t[Len(t)] = opt.delim /\ ~EscapedByte(opt, t, Len(t))
CharsFull(opt, t) == opt.limit >= 0 /\ Len(SelectSeq(RecordOf(opt, t), LAMBDA b : b # "L")) >= opt.limit
Whole(opt, t) == DelimReached(opt, t) \/ CharsFull(opt, t)

(***************************************************************************)
(* The value of every call is what the bytes it consumed mean, and it      *)
(* consumed no byte more than it needed: the first of its bytes that are a *)
(* whole record are all of them (readInput, read.go).  A backslash, a NUL, *)
(* an escaped delimiter and a character of two bytes may stand anywhere.   *)
(***************************************************************************)
RecordIsMeant ==
  call.tool = "read" =>
    \A i \in DOMAIN run.out :
      LET o == run.out[i]  opt == call.reads[o.k]  t == Bytes(o.taken)
          body == IF DelimReached(opt, t) THEN Front(t) ELSE t IN
      opt.wait # "poll" => /\ o.end # "large" => o.value = RecordOf(opt, body)
                           /\ o.end = "whole" => Whole(opt, t)
                           /\ \A n \in 0 .. Len(t) - 1 : ~Whole(opt, SubSeq(t, 1, n))

AllTaken == FlattenSeq([i \in DOMAIN run.out |-> run.out[i].taken]) \o (IF run.pc = "done" THEN <<>> ELSE run.taken)
(***************************************************************************)
(* The calls share the input: each gets its bytes in order, and no byte is *)
(* lost between them, except one for every call that was given up while a  *)
(* producer it could not interrupt was reading ("AT MOST ONE byte is       *)
(* lost", the comment on the fallback in readInput).                       *)
(***************************************************************************)
NothingReadAhead ==
  call.tool = "read" =>
    /\ \A i, k \in DOMAIN AllTaken : i < k => AllTaken[i] < AllTaken[k]
    /\ LET missing == (1 .. run.next) \ (Range(AllTaken) \cup {run.offer})
           givenUp == {i \in DOMAIN run.out : run.out[i].gone /\ run.out[i].end \in {"deadline", "cancelled"}}
           now == run.pc = "stop" /\ NeedsGoroutinePoll /\ run.rec.end \in {"deadline", "cancelled"}
       IN Cardinality(missing) <= Cardinality(givenUp) + (IF now THEN 1 ELSE 0)

(***************************************************************************)
(* A call reports a timeout only if its own time was over, or the run was  *)
(* cancelled: the deadline one call left on the shared descriptor never    *)
(* ends the next (the deferred stop, wait and SetReadDeadline of run).     *)
(***************************************************************************)
TimeoutIsOwn ==
  call.tool = "read" => \A i \in DOMAIN run.out : Status(run.out[i].end) = 142 => run.out[i].due \/ run.cancelled

(***************************************************************************)
(* A call is refused for its size only when it consumed more than          *)
(* MaxReadBytes, and consumes at most one byte more: a record of exactly   *)
(* that many bytes still sees its delimiter (readByte, tryAppendByte).     *)
(***************************************************************************)
SizeRefusalNeeded ==
  call.tool = "read" => \A i \in DOMAIN run.out : /\ Len(run.out[i].taken) <= MaxReadBytes + 1
                                                  /\ run.out[i].end = "large" => Len(run.out[i].taken) > MaxReadBytes

-----------------------------------------------------------------------------
(***************************************************************************)
(* The fields read cuts its record into, one for each variable.  A text is *)
(* a sequence of "a", " ", ":" and ","; IFS is a set of the last three.    *)
(***************************************************************************)
White == {" "}
TrimLeft(s, set) == LET at == {i \in DOMAIN s : s[i] \notin set} IN IF at = {} THEN <<>> ELSE SubSeq(s, Min(at), Len(s))
TrimRight(s, set) == LET at == {i \in DOMAIN s : s[i] \notin set} IN IF at = {} THEN <<>> ELSE SubSeq(s, 1, Max(at))

\* the text before the first separator
FirstField(s, ifs) == LET at == {i \in DOMAIN s : s[i] \in ifs} IN IF at = {} THEN s ELSE SubSeq(s, 1, Min(at) - 1)

\* one separator is consumed: white space, at most one other, white space
AfterSeparator(s, ifs) ==
  LET t == TrimLeft(s, ifs \cap White) IN
  IF t # <<>> /\ t[1] \in ifs \ White THEN TrimLeft(Tail(t), ifs \cap White) ELSE t

\* a lone separator at the end of the last field is dropped
LastField(s, ifs) ==
  LET t == TrimRight(s, ifs \cap White)
      candidate == TrimRight(Front(t), ifs \cap White) IN
  IF t # <<>> /\ t[Len(t)] \in ifs \ White /\ \A i \in DOMAIN candidate : candidate[i] \notin ifs THEN candidate ELSE t

\* the fields so far and the rest of the text
NextField(acc, ifs) ==
  IF acc.rest = <<>> THEN acc
  ELSE LET f == FirstField(acc.rest, ifs) IN [fields |-> Append(acc.fields, f), rest |-> AfterSeparator(SubSeq(acc.rest, Len(f) + 1, Len(acc.rest)), ifs)]

SplitIFS(s, ifs, n) ==
  LET acc == FoldLeft(LAMBDA a, i : NextField(a, ifs), [fields |-> <<>>, rest |-> TrimLeft(s, ifs \cap White)], [i \in 1 .. n - 1 |-> i])
      fields == Append(acc.fields, LastField(acc.rest, ifs))
  IN fields \o [i \in 1 .. n - Len(fields) |-> <<>>]

(***************************************************************************)
(* The fields by their places: a word is a longest run of other            *)
(* characters, and a separator that is not white space ends the word       *)
(* before it, or else an empty field.                                      *)
(***************************************************************************)
BeginsWord(s, ifs, i) == s[i] \notin ifs /\ (i = 1 \/ s[i - 1] \in ifs)
EndsWord(s, ifs, i) == LET before == {k \in 1 .. i - 1 : s[k] \notin ifs \cap White} IN before # {} /\ s[Max(before)] \notin ifs
FieldStarts(s, ifs) == SetToSortSeq({i \in DOMAIN s : BeginsWord(s, ifs, i) \/ (s[i] \in ifs \ White /\ ~EndsWord(s, ifs, i))}, <)
ReadFieldAt(s, ifs, i) == FirstField(SubSeq(s, i, Len(s)), ifs)

(***************************************************************************)
(* The n variables of a read get the fields of the record, empty ones if   *)
(* there are fewer; if there are more, the last variable gets the text     *)
(* from the n-th field on, without the white space at its end (splitIFS:   *)
(* white space coalesces, other separators do not, and one at the end      *)
(* makes no field of its own).                                             *)
(***************************************************************************)
FieldsAgree ==
  call.tool = "readsplit" =>
    LET at == FieldStarts(call.text, call.ifs)
        n == call.n
        field(i) == IF i > Len(at) THEN <<>>
                    ELSE IF i = n /\ Len(at) > n THEN TrimRight(SubSeq(call.text, at[n], Len(call.text)), call.ifs \cap White)
                    ELSE ReadFieldAt(call.text, call.ifs, at[i])
    IN SplitIFS(call.text, call.ifs, n) = [i \in 1 .. n |-> field(i)]

\* read takes from the shared input just the record it returns, whatever is
\* interrupted, its timeout and its limit strike only where they should, and
\* the record is cut into the fields IFS says.
ReadTrue ==
  /\ RecordIsMeant
  /\ NothingReadAhead
  /\ TimeoutIsOwn
  /\ SizeRefusalNeeded
  /\ FieldsAgree

=============================================================================

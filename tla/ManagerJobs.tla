---------------------------- MODULE ManagerJobs -----------------------------
(***************************************************************************)
(* systemctl start/stop/reload/restart and enable/disable: the builtin     *)
(* (builtins/systemctl/systemctl.go), the policy it asks                   *)
(* (interp/system_services.go), and the client of the systemd manager      *)
(* (internal/systemd/manager_protocol.go, manager_signal.go,               *)
(* manager_linux.go).  The manager and the bus are external: the manager   *)
(* may refuse a request, answer it wrongly, late or never, and a job may   *)
(* end before the reply that announces it.                                 *)
(***************************************************************************)
EXTENDS Naturals, Sequences

CONSTANTS
  Units,          \* unit names
  MaxSignalQueue, \* maxManagerSignalQueue
  MaxSignalsRead, \* maxManagerSignalsRead
  MaxOperands,    \* MaxSystemServiceOperands
  MaxOthers       \* bound: jobs of other clients that end meanwhile

ASSUME ManagerAssumption ==
  MaxSignalQueue \in Nat \ {0} /\ MaxSignalsRead \in Nat \ {0} /\ MaxOperands \in Nat /\ MaxOthers \in Nat

VARIABLES
  verb,     \* "job", or "files" for enable and disable
  operands, \* the units named, without duplicates
  grants,   \* the units the policy grants the action for
  pc,       \* what the client does
  k,        \* the operand it is at
  expected, \* the job it waits for
  examined, \* signals read in this wait
  queue,    \* the channel of signals
  overflow, \* the overflow channel is closed
  ctx,      \* the context is done
  report,   \* what the command reports
  conn,     \* "none", "up" or "closed"
  sent,     \* the request the manager has not answered
  wire,     \* messages from the manager, in order
  answer,   \* the reply the client has received
  listening,\* the manager sends this client JobRemoved signals
  jobs,     \* jobs of this client: unit and result
  files,    \* "old", "changed" or "loaded": the unit files
  others    \* signals about the jobs of other clients

request == <<verb, operands, grants>>
channel == <<queue, overflow>>
bus == <<conn, sent, wire, answer, listening>>
manager == <<jobs, files, others>>
client == <<pc, k, expected, examined, report>>
vars == <<request, channel, bus, manager, client, ctx>>

None == [kind |-> "none", job |-> 0]
NoReport == [kind |-> "none", done |-> 0]
Running == "running"
Good == {"done"}   \* and "skipped", which the client treats alike

\* validateUnits removes duplicates.
Operands ==
  {us \in UNION {[1..n -> Units] : n \in 1..MaxOperands} : \A i, j \in DOMAIN us : us[i] = us[j] => i = j}

Init ==
  /\ verb \in {"job", "files"}
  /\ operands \in Operands
  /\ grants \in SUBSET Units
  /\ pc = "authorize" /\ k = 1 /\ expected = 0 /\ examined = 0
  /\ queue = <<>> /\ overflow = FALSE
  /\ ctx = FALSE /\ report = NoReport
  /\ conn = "none" /\ sent = None /\ wire = <<>> /\ answer = None /\ listening = FALSE
  /\ jobs = <<>> /\ files = "old" /\ others = 0

-----------------------------------------------------------------------------
Close == conn' = (IF conn = "up" THEN "closed" ELSE conn) /\ wire' = <<>>

\* The command ends; withManagerBus closes the connection.
End(kind, done) ==
  /\ pc' = "end"
  /\ report' = [kind |-> kind, done |-> done]
  /\ Close
  /\ UNCHANGED <<k, expected, examined, channel, sent, answer, listening>>

\* systemdGrants.authorize: every operand has to be granted.
Authorize(us) == \A i \in DOMAIN us : us[i] \in grants

\* The builtin asks the policy before it uses the manager; then withManagerBus
\* connects, which includes the check of the machine ID.
OpenBus ==
  /\ pc = "authorize"
  /\ \/ ~Authorize(operands) /\ End("denied", 0)
     \/ Authorize(operands) /\ End("failed", 0)
     \/ /\ Authorize(operands) /\ ~ctx
        /\ conn' = "up" /\ pc' = IF verb = "job" THEN "subscribe" ELSE "change"
        /\ UNCHANGED <<k, expected, examined, channel, report, sent, wire, answer, listening>>
  /\ UNCHANGED <<request, manager, ctx>>

\* managerBus.call
Call(kind, job, next) ==
  /\ sent' = [kind |-> kind, job |-> job]
  /\ pc' = next
  /\ answer' = None
  /\ UNCHANGED <<request, channel, conn, wire, listening, manager, k, expected, examined, report, ctx>>

\* The calls in their order: AddMatch and Subscribe are one request here.
Subscribe == pc = "subscribe" /\ Call("subscribe", 0, "subscribing")
StartJob == pc = "job" /\ Call("job", k, "starting")
ChangeFiles == pc = "change" /\ Call("change", 0, "changing")
Reload == pc = "reload" /\ Call("reload", 0, "reloading")

\* A call is over: with a reply, with an error the manager sent, or with an
\* error of the bus or the context.
Replied == answer.kind = "reply"
Refused == answer.kind = "error"
Lost == ctx \/ (conn = "closed" /\ answer = None)
Garbled == answer.kind = "garbled"

Proceed(next) ==
  /\ pc' = next
  /\ UNCHANGED <<k, report, bus, channel>>

Subscribed ==
  /\ pc = "subscribing"
  /\ \/ (Refused \/ Lost \/ Garbled) /\ End("failed", 0)
     \/ Replied /\ Proceed("job") /\ UNCHANGED <<expected, examined>>
  /\ UNCHANGED <<request, manager, ctx>>

\* Mutant: an error of the bus is reported like a refusal.
DeliveryFailed == End("failed", k - 1)

\* managerJobDeliveryUncertain
DeliveryUncertain == End("mayHaveAccepted", k - 1)

\* runSystemServiceJobsWithBus, after the call for one unit.
JobStarted ==
  /\ pc = "starting"
  /\ \/ Refused /\ End("failed", k - 1)
     \/ Lost /\ DeliveryUncertain
     \/ Garbled /\ End("accepted", k - 1)
     \/ Replied /\ Proceed("wait") /\ expected' = answer.job /\ examined' = 0
  /\ UNCHANGED <<request, manager, ctx>>

\* waitSystemdJob, the first three cases of its select.
WaitCancelled == ctx

\* Mutant: nobody looks at the overflow channel.
OverflowIgnored == FALSE

Overflowed == overflow

GiveUpWaiting ==
  /\ pc = "wait"
  /\ \/ Overflowed
     \/ WaitCancelled
     \/ conn = "closed" /\ queue = <<>>
     \/ examined = MaxSignalsRead
  /\ End("accepted", k - 1)
  /\ UNCHANGED <<request, manager, ctx>>

\* One signal is read.
ReadSignal ==
  LET signal == Head(queue) IN
  /\ pc = "wait" /\ queue # <<>> /\ ~Overflowed /\ examined < MaxSignalsRead
  /\ \/ /\ signal.kind = "garbled" \/ (signal.job = expected /\ signal.kind \notin Good)
        /\ End("accepted", k - 1)
     \/ /\ signal.kind # "garbled" /\ signal.job # expected
        /\ queue' = Tail(queue) /\ examined' = examined + 1
        /\ UNCHANGED <<pc, k, expected, report, bus, overflow>>
     \/ /\ signal.kind \in Good /\ signal.job = expected
        /\ queue' = Tail(queue)
        /\ IF k = Len(operands)
           THEN /\ pc' = "end" /\ report' = [kind |-> "ok", done |-> k] /\ Close
                /\ UNCHANGED <<k, sent, answer, listening>>
           ELSE pc' = "job" /\ k' = k + 1 /\ UNCHANGED <<report, bus>>
        /\ UNCHANGED <<expected, examined, overflow>>
  /\ UNCHANGED <<request, manager, ctx>>

\* enableSystemServicesWithBus and disableSystemServicesWithBus.
FilesChanged ==
  /\ pc = "changing"
  /\ \/ (Refused \/ Lost) /\ End("maybeChanged", 0)
     \/ Garbled /\ End("changed", 0)
     \/ Replied /\ Proceed("reload") /\ UNCHANGED <<expected, examined>>
  /\ UNCHANGED <<request, manager, ctx>>

Reloaded ==
  /\ pc = "reloading"
  /\ \/ (Refused \/ Lost \/ Garbled) /\ End("changed", 0)
     \/ Replied /\ End("ok", 0)
  /\ UNCHANGED <<request, manager, ctx>>

Client ==
  \/ OpenBus \/ Subscribe \/ StartJob \/ ChangeFiles \/ Reload
  \/ Subscribed \/ JobStarted \/ GiveUpWaiting \/ ReadSignal \/ FilesChanged \/ Reloaded

\* The caller cancels, or managerOperationTimeout passes.
Timeout ==
  /\ pc # "end" /\ ~ctx /\ ctx' = TRUE
  /\ UNCHANGED <<request, channel, bus, manager, client>>

-----------------------------------------------------------------------------
\* The receiving goroutine takes the next message off the connection.
Enqueue(signal, room) ==
  IF Len(queue) < room THEN queue' = Append(queue, signal) /\ UNCHANGED overflow
                       ELSE overflow' = TRUE /\ UNCHANGED queue

\* boundedManagerSignalHandler.DeliverSignal
DeliverSignal(signal) == Enqueue(signal, MaxSignalQueue)

Receive ==
  /\ conn = "up" /\ wire # <<>>
  /\ wire' = Tail(wire)
  /\ LET m == Head(wire) IN
       IF m.signal THEN DeliverSignal([kind |-> m.kind, job |-> m.job]) /\ UNCHANGED answer
                   ELSE answer' = [kind |-> m.kind, job |-> m.job] /\ UNCHANGED channel
  /\ UNCHANGED <<request, conn, sent, listening, manager, client, ctx>>

\* The connection breaks: the handler closes the channel (Terminate).
Break ==
  /\ conn = "up" /\ Close
  /\ UNCHANGED <<request, channel, sent, answer, listening, manager, client, ctx>>

\* Signals are sent only to a client that has subscribed.
Send(signal, kind, job) ==
  wire' = IF conn = "up" /\ (signal => listening)
          THEN Append(wire, [signal |-> signal, kind |-> kind, job |-> job])
          ELSE wire

\* The manager carries a request out, and replies to it later.
Accept ==
  /\ sent.kind \in {"subscribe", "job", "change", "reload"}
  /\ sent' = [kind |-> "replying", job |-> IF sent.kind = "job" THEN Len(jobs) + 1 ELSE 0]
  /\ listening' = (listening \/ sent.kind = "subscribe")
  /\ jobs' = IF sent.kind = "job" THEN Append(jobs, [unit |-> operands[sent.job], result |-> Running]) ELSE jobs
  /\ files' = CASE sent.kind = "change" -> "changed" [] sent.kind = "reload" -> "loaded" [] OTHER -> files
  /\ UNCHANGED <<request, channel, conn, wire, answer, others, client, ctx>>

Reply(kind) ==
  /\ sent.kind = "replying"
  /\ Send(FALSE, kind, sent.job)
  /\ sent' = None
  /\ UNCHANGED <<request, channel, conn, answer, listening, manager, client, ctx>>

Refuse ==
  /\ sent.kind \in {"subscribe", "job", "change", "reload"}
  /\ Send(FALSE, "error", 0)
  /\ sent' = None
  /\ UNCHANGED <<request, channel, conn, answer, listening, manager, client, ctx>>

FinishJob(j, result) ==
  /\ jobs[j].result = Running
  /\ jobs' = [jobs EXCEPT ![j].result = result]
  /\ Send(TRUE, result, j)
  /\ UNCHANGED <<request, channel, conn, sent, answer, listening, files, others, client, ctx>>

OtherJob(kind) ==
  /\ listening /\ conn = "up" /\ others < MaxOthers
  /\ others' = others + 1
  /\ Send(TRUE, kind, 0)
  /\ UNCHANGED <<request, channel, conn, sent, answer, listening, jobs, files, client, ctx>>

Manager ==
  \/ Accept \/ Refuse \/ Reply("reply") \/ Reply("garbled")
  \/ \E j \in DOMAIN jobs, result \in {"done", "failed"} : FinishJob(j, result)

Next == Client \/ Timeout \/ Receive \/ Break \/ Manager \/ \E kind \in {"done", "garbled"} : OtherJob(kind)

\* The client and the goroutine that receives are scheduled.
Spec == Init /\ [][Next]_vars /\ WF_vars(Client) /\ WF_vars(Receive)

-----------------------------------------------------------------------------
\* Client, bus and manager: known steps, a bounded queue, jobs of known units.
TypeOK ==
  /\ pc \in {"authorize", "subscribe", "subscribing", "job", "starting", "wait", "change", "changing",
            "reload", "reloading", "end"}
  /\ k \in 1..Len(operands) /\ expected \in 0..Len(jobs) /\ examined \in 0..MaxSignalsRead
  /\ Len(queue) <= MaxSignalQueue
  /\ \A i \in DOMAIN queue : queue[i].kind \in {"done", "failed", "garbled"} /\ queue[i].job \in 0..Len(jobs)
  /\ overflow \in BOOLEAN /\ ctx \in BOOLEAN /\ listening \in BOOLEAN
  /\ conn \in {"none", "up", "closed"} /\ files \in {"old", "changed", "loaded"}
  /\ others \in 0..MaxOthers

HasJob(u, results) == \E j \in DOMAIN jobs : jobs[j].unit = u /\ jobs[j].result \in results
Unsure == {"mayHaveAccepted", "accepted"}

\* What the command reports is true, also when the manager acts on it after the
\* command has ended: the units it calls completed are, a unit may have a job
\* although it is not completed only if the report says so, and unit files have
\* changed exactly if the report says so or leaves it open.
ReportTrue ==
  pc = "end" =>
    /\ \A i \in 1..report.done : HasJob(operands[i], Good)
    /\ report.kind = "ok" /\ verb = "job" => report.done = Len(operands)
    /\ report.kind = "accepted" => HasJob(operands[report.done + 1], {Running, "done", "failed"})
    /\ \A j \in DOMAIN jobs :
         \/ \E i \in 1..report.done : jobs[j].unit = operands[i]
         \/ report.kind \in Unsure /\ jobs[j].unit = operands[report.done + 1]
    /\ files # "old" => report.kind \in {"maybeChanged", "changed", "ok"}
    /\ report.kind = "changed" => files # "old"
    /\ report.kind = "ok" /\ verb = "files" => files = "loaded"

\* Policy is all or nothing: if one of the operands is not granted, nothing is
\* asked of the manager for the others either.
AllOrNothing ==
  (\E i \in DOMAIN operands : operands[i] \notin grants) =>
    jobs = <<>> /\ files = "old" /\ conn = "none"

\* If the manager answers, the command ends without the help of its timeout: no
\* result is waited for that was dropped or sent before the client listened.
AnsweredEnds == WF_vars(Manager) => <>(pc = "end")

\* If the timeout fires, the command ends whatever the manager does.
TimeoutEnds == WF_vars(Timeout) => <>(pc = "end")

\* What was asked of the manager is what policy grants in full, and the report
\* on it is true.
OutcomeTrue ==
  /\ TypeOK
  /\ ReportTrue
  /\ AllOrNothing

\* The command ends if the manager answers, and if it does not, by its timeout.
CommandEnds ==
  AnsweredEnds /\ TimeoutEnds

=============================================================================

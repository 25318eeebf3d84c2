-------------------------- MODULE PrivilegedHelper --------------------------
(* What the privileged helper lets one request do: the checks of Verify, the *)
(* narrowing of the signed policy by the Agent's and the local one, and the  *)
(* Landlock rules the worker builds from the outcome.                        *)
(*                                                                           *)
(* A path is [abs, comps]; a component is <<name>> followed by the access    *)
(* suffixes (":ro", ":rw") the text of the component ends in, because the    *)
(* code tells a suffix from a name only by where it stands.                  *)
EXTENDS Integers, Sequences, FiniteSets, SequencesExt

\* path.Clean of a rooted path: empty and "." components vanish, ".." takes one back.
Clean(comps) ==
  LET upto[i \in 0..Len(comps)] ==
        IF i = 0 THEN <<>>
        ELSE LET done == upto[i - 1]
             IN  IF comps[i] \in {<<"">>, <<".">>} THEN done
                 ELSE IF comps[i] # <<"..">> THEN Append(done, comps[i])
                 ELSE IF done = <<>> THEN done ELSE Front(done)
  IN  upto[Len(comps)]

HasSuffix(comps) == comps # <<>> /\ Len(Last(comps)) > 1

\* The text comps \o ":" \o mode; "/" gets an unnamed component to carry it.
WithSuffix(comps, mode) ==
  IF comps = <<>> THEN <<<<"", mode>>>>
  ELSE Append(Front(comps), Append(Last(comps), mode))

\* Exactly one terminal suffix is taken off.
ParsePolicy(v) ==
  IF HasSuffix(v.comps)
  THEN [value |-> Clean(Append(Front(v.comps), Front(Last(v.comps)))),
        readWrite |-> Last(Last(v.comps)) = "rw", abs |-> v.abs]
  ELSE [value |-> Clean(v.comps), readWrite |-> FALSE, abs |-> v.abs]

ContainsPath(root, candidate) == IsPrefix(root, candidate)

\* Lists of which only the members matter are sets.

\* The grant two overlapping entries have in common, as a set of at most one.
Narrower(req, cfg) ==
  LET Text(p) == IF req.readWrite /\ cfg.readWrite THEN WithSuffix(p, "rw")
                 ELSE IF HasSuffix(p) THEN WithSuffix(p, "ro") ELSE p
      Grant(p) == {[abs |-> TRUE, comps |-> Text(p)]}
  IN  IF ~req.abs \/ ~cfg.abs THEN {}
      ELSE IF ContainsPath(cfg.value, req.value) THEN Grant(req.value)
      ELSE IF ContainsPath(req.value, cfg.value) THEN Grant(cfg.value) ELSE {}

\* A directory is listed once, read-write if one of its entries is; the rest stays.
MergeGrants(values) ==
  {v \in values : v.abs => \A w \in values : w.abs /\ ParsePolicy(w).value = ParsePolicy(v).value =>
                             (ParsePolicy(w).readWrite => ParsePolicy(v).readWrite)}

IntersectPaths(requested, configured) ==
  MergeGrants(UNION {Narrower(ParsePolicy(r), ParsePolicy(c)) : r \in requested, c \in configured})

NormalizeEffectivePaths(values) == MergeGrants(values)

IntersectExact(requested, configured) == requested \cap configured

\* Commands are [ns, name]; AnyRshell is the configured entry "rshell:*".
AnyRshell == [ns |-> "rshell", name |-> "*"]

IntersectCommands(requested, configured) ==
  IF AnyRshell \in configured THEN {c \in requested : c.ns = "rshell" /\ c.name # ""}
  ELSE IntersectExact(requested, configured)

NotAString == "an item of another kind"

\* A systemServices value may hold items that are not strings; they are left out.
SignedSystemServices(services) ==
  LET actions == [s \in DOMAIN services |-> services[s] \ {NotAString}]
  IN  [s \in {t \in DOMAIN services : actions[t] # {}} |-> actions[s]]

IntersectSystemServiceActions(requested, configured) ==
  IF "*" \in configured THEN requested
  ELSE IF "*" \in requested THEN configured
  ELSE IntersectExact(requested, configured)

IntersectSystemServices(requested, configured) ==
  LET both == DOMAIN requested \cap DOMAIN configured
      actions == [s \in both |-> IntersectSystemServiceActions(requested[s], configured[s])]
  IN  [s \in {t \in both : actions[t] # {}} |-> actions[s]]

-----------------------------------------------------------------------------
(* Credentials. A key is [id, type, good]: good says that its material        *)
(* decodes to a key of its type. keys maps the identifiers of the decoded     *)
(* keys to their types. An operator that can fail returns Failed.             *)
Failed == [failed |-> TRUE]

AddCredentialKey(keys, raw, replace) ==
  IF \/ raw.id = ""
     \/ raw.id \in DOMAIN keys /\ ~replace
     \/ ~raw.good
     \/ raw.type \notin {"rsa", "ed25519"}
  THEN Failed
  ELSE [i \in DOMAIN keys \cup {raw.id} |-> IF i = raw.id THEN raw.type ELSE keys[i]]

\* No policy file, or an empty one, is no credential; file is what was read from it.
LoadCredential(file) ==
  LET AddOne(keys, raw) == IF keys = Failed THEN Failed ELSE AddCredentialKey(keys, raw, FALSE)
      keys == FoldLeft(AddOne, <<>>, file.keys)
  IN  IF \/ file.kind # "regular" \/ ~file.rootOwned \/ file.writable \/ ~file.parses
         \/ (file.org > 0) # (file.runner # "")
         \/ file.director = "invalid"
         \/ keys = Failed
      THEN Failed
      ELSE [org |-> file.org, runner |-> file.runner, keys |-> keys, policy |-> file.policy,
            director |-> file.director, trustBackendPolicy |-> FALSE]

NewRequestCredential(keys) ==
  LET IsBare(k) == k.type # "director"
      bare == SelectSeq(keys, IsBare)
      decoded == AddCredentialKey(<<>>, bare[1], FALSE)
  IN  IF Len(bare) # 1 THEN Failed
      ELSE IF decoded = Failed THEN Failed
      ELSE [org |-> 0, runner |-> "", keys |-> decoded, policy |-> Failed,
            director |-> "none", trustBackendPolicy |-> TRUE]

\* What the Director repository proves is external: proof.valid is its verdict on the
\* proof, and proof.key the key inside the authenticated target.
WithDirectorProof(cred, material) ==
  IF \/ material.type # "director"
     \/ cred.director = "none"
     \/ material.id = "" \/ material.id # material.proof.target
     \/ material.proof.org # cred.org
     \/ ~material.proof.valid
  THEN Failed
  ELSE LET keys == AddCredentialKey(cred.keys, material.proof.key, TRUE)
       IN  IF keys = Failed THEN Failed ELSE [cred EXCEPT !.keys = keys]

WithSocketVerificationKeys(cred, keys) ==
  LET IsDirector(k) == k.type = "director"
      director == SelectSeq(keys, IsDirector)
      request == NewRequestCredential(keys)
  IN  IF cred.director = "none"
      THEN IF request = Failed THEN Failed ELSE [cred EXCEPT !.keys = request.keys]
      ELSE IF Len(director) = 1 THEN WithDirectorProof(cred, director[1])
      ELSE IF Len(keys) = 1 THEN WithDirectorProof(cred, keys[1])
      ELSE Failed

\* The credential one request is verified with (Server.handle).
RequestCredential(cred, request) ==
  IF cred = Failed THEN NewRequestCredential(request.keys)
  ELSE IF request.keys # <<>> THEN WithSocketVerificationKeys(cred, request.keys)
  ELSE cred

\* The first signature by a known key decides.
VerifyEnvelope(cred, envelope) ==
  LET IsKnown(s) == s.key \in DOMAIN cred.keys
      known == SelectSeq(envelope.signatures, IsKnown)
  IN  /\ envelope.hash = "SHA256"
      /\ ~envelope.empty
      /\ known # <<>>
      /\ cred.keys[known[1].key] = known[1].type
      /\ known[1].good

-----------------------------------------------------------------------------
(* The account the helper serves as, and the directories above its socket,    *)
(* the nearest first. Identifiers are numbers; -1 is text that is none.       *)
ParseAccountCredentials(account) ==
  IF account.uid <= 0 \/ account.gid < 0 \/ \E g \in account.groups : g < 0 THEN Failed
  ELSE [uid |-> account.uid, groups |-> {account.gid} \cup account.groups]

\* A directory is [kind, owner, group, search, writable, sticky].
RequireTrustedAncestors(dirs) ==
  \A i \in DOMAIN dirs :
    /\ dirs[i].kind = "dir" /\ dirs[i].owner = 0
    /\ dirs[i].writable => i > 1 /\ dirs[i].sticky

RequireTraversable(dirs, account) ==
  \A i \in DOMAIN dirs :
    LET class == IF dirs[i].owner = account.uid THEN "user"
                 ELSE IF dirs[i].group \in account.groups THEN "group" ELSE "other"
    IN  class \in dirs[i].search

-----------------------------------------------------------------------------
(* A request is [version, keys, envelope, agent]. The task inside the         *)
(* envelope carries what the backend signed. agent.narrows names the fields   *)
(* of the Agent's policy that are set; the others leave their axis alone.     *)
ProtocolVersion == 1

NarrowByAgent(policy, agent) ==
  [commands |-> IF "commands" \in agent.narrows
                THEN IntersectCommands(policy.commands, agent.commands) ELSE policy.commands,
   paths |-> IF "paths" \in agent.narrows
             THEN IntersectPaths(policy.paths, agent.paths) ELSE policy.paths,
   services |-> IF "services" \in agent.narrows
                THEN IntersectSystemServices(policy.services, agent.services) ELSE policy.services,
   elevatable |-> IF "elevatable" \in agent.narrows
                  THEN IntersectExact(policy.elevatable, agent.elevatable) ELSE policy.elevatable]

NarrowByLocal(policy, local) ==
  [commands |-> IntersectCommands(policy.commands, local.commands),
   paths |-> IntersectPaths(policy.paths, local.paths),
   services |-> IntersectSystemServices(policy.services, local.services),
   elevatable |-> IntersectExact(policy.elevatable, local.elevatable)]

SignedPolicy(task) ==
  [commands |-> task.remote.commands, paths |-> task.remote.paths,
   services |-> SignedSystemServices(task.remote.services), elevatable |-> task.inputs.elevatable]

EffectivePolicy(cred, request) ==
  LET signed == SignedPolicy(request.envelope.task)
      agreed == NarrowByAgent(signed, request.agent)
      local == IF cred.trustBackendPolicy THEN agreed ELSE NarrowByLocal(agreed, cred.policy)
  IN  [local EXCEPT !.paths = NormalizeEffectivePaths(@)]

\* Every required input is there, a string that is not empty, or a list of such.
InputsDecode(inputs) == inputs.decodes

\* The command Verify hands to the worker, or Failed.
Verify(cred, request, expired) ==
  LET task == request.envelope.task
  IN  IF /\ request.version = ProtocolVersion
         /\ VerifyEnvelope(cred, request.envelope)
         /\ task.parses
         /\ ~expired
         /\ cred.trustBackendPolicy \/ cred.org <= 0 \/ task.org = cred.org
         /\ cred.trustBackendPolicy \/ cred.runner = "" \/ task.runner = cred.runner
         /\ task.bundle = "rshell"
         /\ task.action \in {"runCommand", "runRemediationCommand"}
         /\ InputsDecode(task.inputs)
         /\ task.inputs.permissions = "EscalationAllowed"
         /\ task.remote.present
      THEN [task |-> task.id, program |-> task.inputs.program,
            mode |-> IF task.action = "runCommand" THEN "readonly" ELSE "remediation",
            policy |-> EffectivePolicy(cred, request)]
      ELSE Failed

-----------------------------------------------------------------------------
(* The Landlock rules of the worker. A rule is [path, access]; the kernel     *)
(* adds up the rules of every directory above a file.                         *)
ReadAccess == {"readFile", "readDir"}

ReadWriteAccess == ReadAccess \cup {"writeFile", "truncate", "makeReg"}

DevNull == <<<<"dev">>, <<"null">>>>

ActionGranted(services, unit, actions) ==
  \E s \in DOMAIN services : /\ unit \in {"", s}
                             /\ services[s] \cap (actions \cup {"*"}) # {}

\* Fixed host paths the allowed builtins read by themselves: [path, remove, optional].
TrustedPathsForCommands(commands) ==
  LET Allowed(b) == [ns |-> "rshell", name |-> b] \in commands
      Dir(p, names) == [path |-> <<<<p>>>> \o names, kind |-> "dir", remove |-> FALSE, optional |-> FALSE]
      File(names) == [Dir("proc", names) EXCEPT !.kind = "file"]
  IN  (IF Allowed("ps") THEN {Dir("proc", <<>>)}
       ELSE IF Allowed("ss") \/ Allowed("ip") THEN {Dir("proc", <<<<"net">>>>)} ELSE {})
      \cup (IF Allowed("df") THEN {File(<<<<"mountinfo">>>>)} ELSE {})
      \cup (IF Allowed("uname") THEN {File(<<<<"kernel">>>>), [File(<<<<"arch">>>>) EXCEPT !.optional = TRUE]} ELSE {})

ManagerActions == {"read", "start", "stop", "reload", "restart", "enable", "disable"}

TrustedPathsForPolicy(command) ==
  LET services == command.policy.services
      Allowed(b) == [ns |-> "rshell", name |-> b] \in command.policy.commands
      remediation == command.mode = "remediation"
      journalRead == Allowed("journalctl") /\ ActionGranted(services, "", {"read"})
      journalClean == /\ Allowed("journalctl") /\ remediation
                      /\ ActionGranted(services, "systemd-journald.service", {"clean"})
      managerAccess == Allowed("systemctl") /\ remediation /\ ActionGranted(services, "", ManagerActions)
      machineId == [path |-> <<<<"machine-id">>>>, kind |-> "file", remove |-> FALSE, optional |-> FALSE]
      journal == [path |-> <<<<"journal">>>>, kind |-> "dir", remove |-> journalClean, optional |-> TRUE]
  IN  TrustedPathsForCommands(command.policy.commands)
      \cup (IF journalRead \/ journalClean \/ managerAccess THEN {machineId} ELSE {})
      \cup (IF journalRead \/ journalClean THEN {journal} ELSE {})

TrustedAccess(t) ==
  (IF t.kind = "file" THEN {"readFile"} ELSE ReadAccess) \cup (IF t.remove THEN {"removeFile"} ELSE {})

ParseAllowedPath(v, forceReadOnly) ==
  LET p == ParsePolicy(v) IN [path |-> p.value, rw |-> p.readWrite /\ ~forceReadOnly]

\* A read-only directory at or below a read-write one cannot be expressed: rules add up.
RejectWideningOverlaps(rules) ==
  \E parent, child \in rules : parent.rw /\ ~child.rw /\ ContainsPath(parent.path, child.path)

\* host: the directories and files that exist and can be opened without a symlink.
OpenRules(command, host) ==
  LET force == command.mode = "readonly"
      paths == command.policy.paths
      allowed == {ParseAllowedPath(v, force) : v \in paths}
      trusted == TrustedPathsForPolicy(command)
  IN  IF \/ \E v \in paths : ~v.abs
         \/ \E r \in allowed : r.path \notin host
         \/ RejectWideningOverlaps(allowed)
         \/ \E t \in trusted : t.path \notin host /\ ~t.optional
      THEN Failed
      ELSE [rules |-> {[path |-> r.path, access |-> IF r.rw THEN ReadWriteAccess ELSE ReadAccess] : r \in allowed}
                      \cup {[path |-> t.path, access |-> TrustedAccess(t)] : t \in {u \in trusted : u.path \in host}}
                      \cup {[path |-> DevNull, access |-> {"readFile", "writeFile"}]}]

KernelAllows(rules, path, right) == \E r \in rules : ContainsPath(r.path, path) /\ right \in r.access

\* A pipeline and a word that may be sudo do not go together in a signed program.
RejectElevatedPipelines(program) == program.pipeline /\ \E i \in DOMAIN program.words : program.words[i].head # "inert"

-----------------------------------------------------------------------------
(* The privileged helper: processes that want to serve one socket path, the  *)
(* clients of the socket, and the one-shot worker that runs a verified       *)
(* program, with helpers that die at any moment and start again.             *)
CONSTANTS Helpers,     \* helper processes that may run on the path
          Clients,     \* clients that connect, once each
          MaxStarts,   \* how often one helper is started
          HelperCases        \* the environments the model starts from

Nobody == "nobody"

(* A case is a record of                                                     *)
(*   owned            --socket: the helper creates its socket; else systemd  *)
(*   account, dirs    the --user, and the directories above the socket       *)
(*   before           what is at the path: "none", "file", "stale", "foreign"*)
(*   helpers          the helpers that are started                           *)
(*   file             the policy file; its kind is "none" if there is none   *)
(*   requests         the request of each client that connects               *)
(*   host             the paths Landlock can open                            *)
(*   builtins, remediationOnly   the registered commands                     *)
(*   faults           whether processes die, calls fail and clients give up  *)
VARIABLES case,
          phase,      \* per helper: how far it has come
          starts,     \* per helper: how often it was started
          cred,       \* per helper: its loaded policy
          lock,       \* who holds the lock file
          node,       \* what is at the socket path: [kind, by, owner]
          backlog,    \* connections waiting at the listening socket
          conn,       \* per helper: the connection it handles
          client,     \* per client: [st, answer]
          expired,    \* tasks whose expiration time has passed
          verified,   \* per helper: the command Verify returned
          worker,     \* per helper: [st, euid, boxed, left, orphan]
          ran         \* what ran: set of [task, name, euid]

helperVars == <<case, phase, starts, cred, lock, node, backlog, conn, client, expired,
                verified, worker, ran>>

socketVars == <<lock, node, backlog>>

taskVars == <<conn, verified, worker, ran>>

NoWorker == [st |-> "none", euid |-> "user", boxed |-> FALSE, left |-> <<>>, result |-> "none"]

NothingThere == [kind |-> "none", by |-> Nobody, owner |-> "root"]

Closed == {"answered", "refused", "reset", "gaveUp"}

Serving == {"accepting", "reading", "verifying", "working", "replying"}

\* A connection attempt reaches a process that still holds the listening socket.
Listening == \/ node.kind = "socket" /\ node.by = "foreign"
             \/ node.kind = "socket" /\ node.by = "systemd"
             \/ /\ node.kind = "socket" /\ node.by \in Helpers
                /\ phase[node.by] \in {"bound", "ready"} \cup Serving

HelperStart ==
  /\ phase = [h \in Helpers |-> "off"]
  /\ starts = [h \in Helpers |-> 0]
  /\ cred = [h \in Helpers |-> Failed]
  /\ lock = Nobody
  /\ node = IF ~case.owned THEN [kind |-> "socket", by |-> "systemd", owner |-> "user"]
            ELSE IF case.before = "none" THEN NothingThere
            ELSE IF case.before = "file" THEN [kind |-> "file", by |-> Nobody, owner |-> "root"]
            ELSE IF case.before = "stale" THEN [kind |-> "socket", by |-> Nobody, owner |-> "user"]
            ELSE [kind |-> "socket", by |-> "foreign", owner |-> "root"]
  /\ backlog = <<>>
  /\ conn = [h \in Helpers |-> Nobody]
  /\ client = [c \in Clients |-> [st |-> "idle", answer |-> "none"]]
  /\ expired = FALSE
  /\ verified = [h \in Helpers |-> Failed]
  /\ worker = [h \in Helpers |-> NoWorker]
  /\ ran = {}

HelperInit == case \in HelperCases /\ HelperStart

Enter(h, p) == phase' = [phase EXCEPT ![h] = p]

\* The last start of a helper is the one that survives: a bound on the model.
MayFail(h) == case.faults /\ starts[h] < MaxStarts

Quit(h) == Enter(h, "off") /\ lock' = IF lock = h THEN Nobody ELSE lock

-----------------------------------------------------------------------------
(* Starting up.                                                              *)

\* Flags, policy file, account and the way to the socket. systemd starts its service for a connection;
\* a helper with its own socket is kept running by its supervisor.
Start(h) ==
  /\ phase[h] = "off" /\ h \in case.helpers /\ starts[h] < MaxStarts
  /\ ~case.owned => backlog # <<>> /\ \A g \in Helpers : phase[g] = "off"
  /\ starts' = [starts EXCEPT ![h] = @ + 1]
  /\ LET loaded == LoadCredential(case.file)
         account == ParseAccountCredentials(case.account)
         refused == \/ case.file.kind # "none" /\ loaded = Failed
                    \/ account = Failed
         blocked == case.owned /\ ~(RequireTrustedAncestors(case.dirs) /\ RequireTraversable(case.dirs, account))
     IN  IF refused \/ (~refused /\ blocked)
         THEN Enter(h, "off") /\ UNCHANGED cred
         ELSE /\ Enter(h, IF case.owned THEN "starting" ELSE "ready")
              /\ cred' = [cred EXCEPT ![h] = IF case.file.kind = "none" THEN Failed ELSE loaded]
  /\ UNCHANGED <<case, socketVars, client, expired, taskVars>>

\* Mutant: the lock is not exclusive.
TakeLockShared(h) ==
  /\ phase[h] = "starting" /\ Enter(h, "locked") /\ lock' = h
  /\ UNCHANGED <<case, starts, cred, node, backlog, client, expired, taskVars>>

TakeLock(h) ==
  /\ phase[h] = "starting"
  /\ IF lock = Nobody THEN Enter(h, "locked") /\ lock' = h
     ELSE Enter(h, "off") /\ UNCHANGED lock
  /\ UNCHANGED <<case, starts, cred, node, backlog, client, expired, taskVars>>

\* Lstat of the path: only a socket is looked at further.
InspectSocket(h) ==
  /\ phase[h] = "locked"
  /\ \/ node.kind = "none" /\ Enter(h, "clear") /\ UNCHANGED lock
     \/ node.kind = "file" /\ Quit(h)
     \/ node.kind = "socket" /\ Enter(h, "dialing") /\ UNCHANGED lock
  /\ UNCHANGED <<case, starts, cred, node, backlog, client, expired, taskVars>>

\* Only a refused connection shows that a socket is stale.
DialSocket(h) ==
  /\ phase[h] = "dialing"
  /\ IF node.kind = "socket" /\ ~Listening THEN Enter(h, "removing") /\ UNCHANGED lock ELSE Quit(h)
  /\ UNCHANGED <<case, starts, cred, node, backlog, client, expired, taskVars>>

RemoveSocket(h) ==
  /\ phase[h] = "removing"
  /\ node' = NothingThere
  /\ IF node.kind = "none" THEN Quit(h) ELSE Enter(h, "clear") /\ UNCHANGED lock
  /\ UNCHANGED <<case, starts, cred, backlog, client, expired, taskVars>>

Bind(h) ==
  /\ phase[h] = "clear"
  /\ IF node.kind # "none" THEN Quit(h) /\ UNCHANGED <<node, backlog>>
     ELSE /\ Enter(h, "bound") /\ UNCHANGED lock
          /\ node' = [kind |-> "socket", by |-> h, owner |-> "root"] /\ backlog' = <<>>
  /\ UNCHANGED <<case, starts, cred, client, expired, taskVars>>

\* The socket is handed to --user; if that fails the listener unlinks it again.
HandOver(h) ==
  /\ phase[h] = "bound"
  /\ \/ /\ Enter(h, "ready") /\ node' = [node EXCEPT !.owner = "user"] /\ UNCHANGED lock
     \/ /\ MayFail(h) /\ Quit(h) /\ node' = NothingThere
  /\ UNCHANGED <<case, starts, cred, backlog, client, expired, taskVars>>

\* Connections that die with the process of h: the one it handles, and those waiting at a
\* socket only it held open.
Lost(h) == {conn[h]} \cup (IF node.by = h THEN Range(backlog) ELSE {})

HangUp(gone) ==
  client' = [c \in Clients |-> IF c \in gone /\ client[c].st \notin Closed
                               THEN [client[c] EXCEPT !.st = "reset"] ELSE client[c]]

\* setgroups, setresgid and seteuid, each confirmed; the socket stays behind on failure.
DropPrivileges(h) ==
  /\ phase[h] = "ready"
  /\ \/ Enter(h, "accepting") /\ UNCHANGED <<lock, backlog, client>>
     \/ /\ MayFail(h) /\ Quit(h) /\ HangUp(Lost(h))
        /\ backlog' = IF node.by = h THEN <<>> ELSE backlog
  /\ UNCHANGED <<case, starts, cred, node, expired, taskVars>>

-----------------------------------------------------------------------------
(* The client: dial, write the request at once, wait for the answer, all      *)
(* under one deadline.                                                        *)

Connect(c) ==
  /\ c \in DOMAIN case.requests /\ client[c].st = "idle" /\ Listening /\ node.by # "foreign" /\ node.owner = "user"
  /\ client' = [client EXCEPT ![c].st = "connected"]
  /\ backlog' = Append(backlog, c)
  /\ UNCHANGED <<case, phase, starts, cred, lock, node, expired, taskVars>>

SendRequest(c) ==
  /\ client[c].st = "connected"
  /\ client' = [client EXCEPT ![c].st = "sent"]
  /\ UNCHANGED <<case, phase, starts, cred, socketVars, expired, taskVars>>

\* The deadline of the connection; the helper goes on with what it has read.
GiveUp(c) ==
  /\ case.faults /\ client[c].st \in {"connected", "sent"}
  /\ client' = [client EXCEPT ![c].st = "gaveUp"]
  /\ UNCHANGED <<case, phase, starts, cred, socketVars, expired, taskVars>>

\* Time passes: the tasks of this case are past their expiration.
Expire ==
  /\ case.faults /\ ~expired /\ expired' = TRUE
  /\ UNCHANGED <<case, phase, starts, cred, socketVars, client, taskVars>>

-----------------------------------------------------------------------------
(* Serving: one connection after the other.                                   *)

Accept(h) ==
  /\ phase[h] = "accepting" /\ backlog # <<>>
  /\ Enter(h, "reading")
  /\ conn' = [conn EXCEPT ![h] = Head(backlog)] /\ backlog' = Tail(backlog)
  /\ UNCHANGED <<case, starts, cred, lock, node, client, expired, verified, worker, ran>>

\* Without a connection for --idle-timeout the activated service ends; the timer may
\* fire although a connection is just coming in.
IdleTimeout(h) ==
  /\ phase[h] = "accepting" /\ ~case.owned /\ starts[h] < MaxStarts
  /\ Enter(h, "off")
  /\ UNCHANGED <<case, starts, cred, socketVars, client, expired, taskVars>>

\* The connection is closed with answer a, which a client that is gone never sees.
Respond(h, a) ==
  /\ Enter(h, "accepting")
  /\ conn' = [conn EXCEPT ![h] = Nobody]
  /\ verified' = [verified EXCEPT ![h] = Failed]
  /\ client' = IF client[conn[h]].st = "sent" THEN [client EXCEPT ![conn[h]] = a] ELSE client

Refusal == [st |-> "refused", answer |-> "none"]

\* Mutant: a closed connection is not noticed.
ReadRequestWaiting(h) ==
  /\ phase[h] = "reading" /\ client[conn[h]].st = "sent" /\ Enter(h, "verifying")
  /\ UNCHANGED <<case, starts, cred, socketVars, expired, worker, ran, conn, client, verified>>

\* readMessage waits for the request, or for the connection to be closed.
ReadRequest(h) ==
  /\ phase[h] = "reading"
  /\ \/ /\ client[conn[h]].st = "sent" /\ Enter(h, "verifying")
        /\ UNCHANGED <<conn, client, verified>>
     \/ client[conn[h]].st = "gaveUp" /\ Respond(h, Refusal)
  /\ UNCHANGED <<case, starts, cred, socketVars, expired, worker, ran>>

VerifyRequest(h) ==
  LET request == case.requests[conn[h]]
      used == RequestCredential(cred[h], request)
      command == Verify(used, request, expired /\ request.envelope.task.expires)
  IN  /\ phase[h] = "verifying"
      /\ IF used = Failed THEN Respond(h, Refusal)
         ELSE IF command = Failed THEN Respond(h, Refusal)
         ELSE /\ Enter(h, "working") /\ verified' = [verified EXCEPT ![h] = command]
              /\ UNCHANGED <<conn, client>>
      /\ UNCHANGED <<case, starts, cred, socketVars, expired, worker, ran>>

\* Execute starts a worker process; it is killed when its parent dies.
StartWorker(h) ==
  /\ phase[h] = "working" /\ worker[h].st = "none"
  /\ \/ worker' = [worker EXCEPT ![h] = [NoWorker EXCEPT !.st = "parsing"]]
     \/ case.faults /\ worker' = [worker EXCEPT ![h] = [NoWorker EXCEPT !.st = "gone", !.result = "error"]]
  /\ UNCHANGED <<case, phase, starts, cred, socketVars, client, expired, conn, verified, ran>>

\* The worker's answer, or that it died without one.
FinishTask(h) ==
  /\ phase[h] = "working" /\ worker[h].st = "gone"
  /\ Respond(h, IF worker[h].result = "error" THEN Refusal
                ELSE [st |-> "answered", answer |-> verified[h].task])
  /\ worker' = [worker EXCEPT ![h] = NoWorker]
  /\ UNCHANGED <<case, starts, cred, socketVars, expired, ran>>

\* The kernel closes everything the dead helper held and kills its worker (Pdeathsig).
Crash(h) ==
  /\ MayFail(h) /\ phase[h] # "off"
  /\ Quit(h)
  /\ HangUp(Lost(h))
  /\ backlog' = IF node.by = h THEN <<>> ELSE backlog
  /\ conn' = [conn EXCEPT ![h] = Nobody]
  /\ verified' = [verified EXCEPT ![h] = Failed]
  /\ worker' = [worker EXCEPT ![h] = NoWorker]
  /\ UNCHANGED <<case, starts, cred, node, expired, ran>>

-----------------------------------------------------------------------------
(* The worker. Its effective user is the unprivileged one, except inside a    *)
(* window of elevate: the set-up, and each command marked with sudo.          *)

Working(h, w) ==
  /\ worker' = [worker EXCEPT ![h] = w]
  /\ UNCHANGED <<case, phase, starts, cred, socketVars, client, expired, conn, verified>>

Ended(w, result) == [w EXCEPT !.st = "gone", !.result = result]

\* Parse, refuse pipelines next to sudo, and open the first window.
OpenSetup(h) ==
  /\ worker[h].st = "parsing"
  /\ IF RejectElevatedPipelines(verified[h].program)
     THEN Working(h, Ended(worker[h], "error"))
     ELSE Working(h, [worker[h] EXCEPT !.st = "setup", !.euid = "root"])
  /\ UNCHANGED ran

\* Landlock, then seccomp, then the interpreter; the window closes in any case, and a
\* worker that cannot close it panics.
FinishSetup(h) ==
  LET boxed == OpenRules(verified[h], case.host) # Failed
  IN  /\ worker[h].st = "setup"
      /\ \/ Working(h, IF boxed THEN [worker[h] EXCEPT !.st = "running", !.euid = "user", !.boxed = TRUE,
                                                     !.left = verified[h].program.words]
                       ELSE Ended([worker[h] EXCEPT !.euid = "user"], "error"))
         \/ case.faults /\ Working(h, Ended(worker[h], "error"))
      /\ UNCHANGED ran

\* The gates of Runner.call for one command, and for the command it spawns.
Granted(h, name, elevated) ==
  LET policy == verified[h].policy
      named == [ns |-> "rshell", name |-> name]
  IN  /\ named \in policy.commands
      /\ elevated => named \in policy.elevatable /\ ~verified[h].program.pipeline
      /\ name \in case.builtins
      /\ name \in case.remediationOnly => verified[h].mode = "remediation"

Spawned(h, w) == {n \in {w.child} \ {""} : Granted(h, n, w.sudo)}

Dispatch(h) ==
  LET w == Head(worker[h].left)
      open == w.sudo /\ Granted(h, w.name, w.sudo)
      euid == IF open THEN "root" ELSE worker[h].euid
      names == IF Granted(h, w.name, w.sudo) THEN {w.name} \cup Spawned(h, w) ELSE {}
  IN  /\ worker[h].st = "running" /\ worker[h].left # <<>>
      /\ ran' = ran \cup {[task |-> verified[h].task, name |-> n, euid |-> euid, sudo |-> w.sudo,
                           boxed |-> worker[h].boxed] : n \in names}
      /\ Working(h, [worker[h] EXCEPT !.left = Tail(@), !.euid = euid,
                                      !.st = IF open THEN "window" ELSE "running"])

\* Mutant: that the privilege could not be given back is ignored.
CloseWindowUnchecked(h) ==
  /\ worker[h].st = "window"
  /\ \/ Working(h, [worker[h] EXCEPT !.st = "running", !.euid = "user"])
     \/ case.faults /\ Working(h, [worker[h] EXCEPT !.st = "running"])
  /\ UNCHANGED ran

\* A worker that cannot give the privilege back panics.
CloseWindow(h) ==
  /\ worker[h].st = "window"
  /\ \/ Working(h, [worker[h] EXCEPT !.st = "running", !.euid = "user"])
     \/ case.faults /\ Working(h, Ended(worker[h], "error"))
  /\ UNCHANGED ran

FinishProgram(h) ==
  /\ worker[h].st = "running" /\ worker[h].left = <<>>
  /\ Working(h, Ended(worker[h], "result"))
  /\ UNCHANGED ran

HelperNext ==
  \/ \E h \in Helpers : \/ Start(h) \/ TakeLock(h) \/ InspectSocket(h) \/ DialSocket(h)
                        \/ RemoveSocket(h) \/ Bind(h) \/ HandOver(h) \/ DropPrivileges(h)
                        \/ Accept(h) \/ IdleTimeout(h) \/ ReadRequest(h) \/ VerifyRequest(h)
                        \/ StartWorker(h) \/ FinishTask(h) \/ Crash(h) \/ OpenSetup(h)
                        \/ FinishSetup(h) \/ Dispatch(h) \/ CloseWindow(h) \/ FinishProgram(h)
  \/ \E c \in Clients : Connect(c) \/ SendRequest(c) \/ GiveUp(c)
  \/ Expire

\* The kernel, the supervisor that restarts a helper and every step of a helper or a
\* worker go on; a client writes its request or runs into its deadline.
HelperFairness ==
  /\ \A h \in Helpers :
       /\ WF_helperVars(Start(h)) /\ WF_helperVars(TakeLock(h)) /\ WF_helperVars(InspectSocket(h))
       /\ WF_helperVars(DialSocket(h)) /\ WF_helperVars(RemoveSocket(h)) /\ WF_helperVars(Bind(h))
       /\ WF_helperVars(HandOver(h)) /\ WF_helperVars(DropPrivileges(h)) /\ WF_helperVars(ReadRequest(h))
       /\ WF_helperVars(VerifyRequest(h)) /\ WF_helperVars(StartWorker(h)) /\ WF_helperVars(FinishTask(h))
       /\ WF_helperVars(OpenSetup(h)) /\ WF_helperVars(FinishSetup(h)) /\ WF_helperVars(Dispatch(h))
       /\ WF_helperVars(CloseWindow(h)) /\ WF_helperVars(FinishProgram(h)) /\ WF_helperVars(Accept(h))
  /\ \A c \in Clients : WF_helperVars(SendRequest(c))

-----------------------------------------------------------------------------
\* Helpers, lock, socket and backlog have their types, and a helper has a connection exactly
\* while it serves one.
HelperTypeOK ==
  /\ phase \in [Helpers -> {"off", "starting", "locked", "dialing", "removing", "clear", "bound", "ready"}
                           \cup Serving]
  /\ starts \in [Helpers -> 0..MaxStarts]
  /\ lock \in Helpers \cup {Nobody}
  /\ node.kind \in {"none", "file", "socket"} /\ node.owner \in {"root", "user"}
  /\ backlog \in Seq(Clients) /\ conn \in [Helpers -> Clients \cup {Nobody}]
  /\ \A h \in Helpers : conn[h] # Nobody <=> phase[h] \in Serving \ {"accepting"}

\* createListener and its lock: while a helper serves a socket it created, the path leads
\* to that socket, handed over to the service user, and the helper holds the lock. No other
\* helper that starts, dies or restarts in between takes the path away from it.
SocketKept ==
  \A h \in Helpers : case.owned /\ phase[h] \in {"ready"} \cup Serving =>
                       lock = h /\ node = [kind |-> "socket", by |-> h, owner |-> "user"]

\* The policy lists as the kernel and the interpreter read them: additive grants.
Grants(paths, p, write) ==
  \E v \in paths : LET g == ParsePolicy(v)
                   IN  g.abs /\ ContainsPath(g.value, p) /\ (write => g.readWrite)

ServiceGrants(services, s, a) == s \in DOMAIN services /\ services[s] \cap {a, "*"} # {}

Layers(h) ==
  LET request == case.requests[conn[h]]
      used == RequestCredential(cred[h], request)
  IN  [paths |-> {request.envelope.task.remote.paths}
                 \cup (IF "paths" \in request.agent.narrows THEN {request.agent.paths} ELSE {})
                 \cup (IF used.trustBackendPolicy THEN {} ELSE {used.policy.paths}),
       services |-> {request.envelope.task.remote.services}
                    \cup (IF "services" \in request.agent.narrows THEN {request.agent.services} ELSE {})
                    \cup (IF used.trustBackendPolicy THEN {} ELSE {used.policy.services})]

Probes == UNION {{<<<<a>>>>, <<<<a>>, <<b>>>>, <<<<a, "rw">>>>, <<<<a, "ro">>, <<b>>>>} : a, b \in {"a", "b"}}
          \cup {<<>>}

\* Verify, intersectPaths and intersectSystemServices: what the worker is given is exactly
\* what the signed task, the Agent and the local policy all grant, for reading and for
\* writing, however the lists spell and repeat their entries; and the Landlock rules let
\* through exactly that, without the writes in read-only mode.
GrantsExact ==
  \A h \in Helpers : verified[h] # Failed =>
    LET policy == verified[h].policy
        box == OpenRules(verified[h], case.host)
    IN  /\ \A p \in Probes, write \in BOOLEAN :
             Grants(policy.paths, p, write) <=> \A l \in Layers(h).paths : Grants(l, p, write)
        /\ \A s \in {"ssh", "cron"}, a \in {"start", "stop"} :
             ServiceGrants(policy.services, s, a) <=> \A l \in Layers(h).services : ServiceGrants(l, s, a)
        /\ box # Failed => \A p \in Probes :
             /\ KernelAllows(box.rules, p, "readFile") <=> Grants(policy.paths, p, FALSE)
             /\ KernelAllows(box.rules, p, "writeFile") <=>
                  verified[h].mode = "remediation" /\ Grants(policy.paths, p, TRUE)

\* workerElevator.elevate and the gates of Runner.call: a command ran as root only in the
\* window of a sudo of its own program, inside the sandbox, and only if the signed list, the
\* Agent's and the local one all let it be elevated; the same for a command that find or
\* xargs starts inside the window. Everything else ran as the service user.
RootIsGranted ==
  \A r \in ran :
    /\ r.boxed
    /\ r.euid = "root" =>
         /\ r.sudo
         /\ \E c \in DOMAIN case.requests :
              LET request == case.requests[c]
                  named == [ns |-> "rshell", name |-> r.name]
              IN  /\ request.envelope.task.id = r.task
                  /\ named \in request.envelope.task.inputs.elevatable
                  /\ "elevatable" \in request.agent.narrows => named \in request.agent.elevatable
                  /\ case.file.kind = "none" \/ named \in case.file.policy.elevatable

\* Server.handle: a client is answered with the outcome of its own task, and nothing ran
\* for a task whose deciding signature is bad or that names another organisation.
AnswersMatch ==
  /\ \A c \in DOMAIN case.requests : client[c].st = "answered" =>
       client[c].answer = case.requests[c].envelope.task.id
  /\ \A r \in ran : \E c \in DOMAIN case.requests :
       LET request == case.requests[c]
       IN  /\ request.envelope.task.id = r.task
           /\ \E s \in Range(request.envelope.signatures) : s.good
           /\ case.file.kind = "none" \/ case.file.org \in {0, request.envelope.task.org}

\* One connection at a time: a request that was written is answered, refused or reset, or
\* its client gives up, although helpers die, time out when idle and start again, and
\* although another client holds the helper before it.
EveryRequestEnds ==
  \A c \in Clients : client[c].st = "sent" ~> client[c].st \in Closed

\* A client is answered for its own task, which ran with exactly what the
\* signed task, the Agent and the local policy all grant, as root only where
\* all three elevate it.
RequestTrue ==
  /\ HelperTypeOK
  /\ GrantsExact
  /\ RootIsGranted
  /\ AnswersMatch

=============================================================================

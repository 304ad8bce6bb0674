------------------------------ MODULE Registry ------------------------------
(***************************************************************************)
(* Who and where an event comes from.  Machine and repository ids are kept *)
(* in identity files (contracts/identity.py, outbox/identity.py) that are  *)
(* minted again after a wipe; emitters and drain workers hold copies of    *)
(* them (outbox/emit.py, outbox/drain.py); the central registry            *)
(* (services/api/store.py) reconciles what they register.                  *)
(*                                                                         *)
(* One host with several checkouts.  Ids count mints, 0 is "none".  How    *)
(* lines of an outbox reach the server is the subject of Outbox: here an   *)
(* outbox is the set of events not yet settled.                            *)
(***************************************************************************)
EXTENDS Integers, FiniteSets

CONSTANTS
  Roots,             \* checkout paths
  Drains,            \* drain worker processes
  MachineKeys,       \* whether per-machine API keys are issued
  WipeWhileRunning,  \* whether .agent-os may go while a process holds its ids
  MaxMachines,       \* bound: machine ids minted
  MaxRepos,          \* bound: repository ids minted
  MaxEvents,         \* bound: events emitted
  MaxStarts,         \* bound: drain processes started
  MaxFailures        \* bound: requests that fail, or whose answer is lost

ASSUME RegistryAssumption ==
  /\ MachineKeys \in BOOLEAN /\ WipeWhileRunning \in BOOLEAN
  /\ MaxMachines \in Nat /\ MaxRepos \in Nat /\ MaxEvents \in Nat
  /\ MaxStarts \in Nat /\ MaxFailures \in Nat

VARIABLES
  machineFile,   \* machine_id in ~/.agent-os/identity.json
  repoFile,      \* repository_id in <root>/.agent-os/identity.json
  minted,        \* ids minted so far: machines, repositories
  apiKey,        \* the key in the environment: Admin, or the machine it is bound to
  cache,         \* _ids_cache of an MCP server: its checkout and the ids
  outbox,        \* events of a checkout not yet settled
  drain,         \* the drain workers
  handlers,      \* register_repository requests between their SELECT and INSERT
  machines,      \* registry.machines
  repos,         \* registry.repositories: machine_id and repo_root by repository_id
  sessions,      \* registry.agent_sessions of the drain runs
  log,           \* ops.events: number, origin and stored repository_id
  rejected,      \* events rejected by machine binding
  emitted, starts, failures

files    == <<machineFile, repoFile, minted>>
host     == <<files, apiKey, cache>>
registry == <<machines, repos, sessions>>
ingested == <<log, rejected>>
vars == <<machineFile, repoFile, minted, apiKey, cache, outbox, drain, handlers,
          machines, repos, sessions, log, rejected, emitted, starts, failures>>

None == 0
Admin == 0
Machines == 1 .. MaxMachines
Repos == 1 .. MaxRepos
NoRow == [machine |-> None]
NoServer == [machine |-> None]
Down == [pc |-> "down"]

Init ==
  /\ machineFile = None
  /\ repoFile = [c \in Roots |-> None]
  /\ minted = [machines |-> 0, repos |-> 0]
  /\ apiKey = Admin
  /\ cache = NoServer
  /\ outbox = [c \in Roots |-> {}]
  /\ drain = [d \in Drains |-> Down]
  /\ handlers = {}
  /\ machines = {}
  /\ repos = [r \in Repos |-> NoRow]
  /\ sessions = [n \in 1 .. MaxStarts |-> NoRow]
  /\ log = {} /\ rejected = {}
  /\ emitted = 0 /\ starts = 0 /\ failures = 0

(***************************************************************************)
(* The identity files.                                                     *)
(***************************************************************************)
(* The ids bootstrap_identity leaves in the files of checkout c: those found
   there, or new ones.  _ensure_identity claims a file atomically, so
   concurrent callers agree on its id. *)
Identity(c) ==
  [machine |-> IF machineFile = None THEN minted.machines + 1 ELSE machineFile,
   repo    |-> IF repoFile[c] = None THEN minted.repos + 1 ELSE repoFile[c]]

bootstrap_identity(c) ==
  LET ids == Identity(c)
  IN  /\ ids.machine \in Machines /\ ids.repo \in Repos
      /\ machineFile' = ids.machine
      /\ repoFile' = [repoFile EXCEPT ![c] = ids.repo]
      /\ minted' = [machines |-> IF machineFile = None THEN ids.machine ELSE minted.machines,
                    repos    |-> IF repoFile[c] = None THEN ids.repo ELSE minted.repos]

(* ~/.agent-os is deleted. *)
WipeMachine ==
  /\ machineFile # None /\ minted.machines < MaxMachines
  /\ machineFile' = None
  /\ UNCHANGED <<repoFile, minted, apiKey, cache, outbox, drain, handlers, registry,
                 ingested, emitted, starts, failures>>

IdsHeld(c) ==
  \/ cache # NoServer /\ cache.root = c
  \/ \E d \in Drains : drain[d].pc # "down" /\ drain[d].root = c

(* <root>/.agent-os is deleted (git clean -fdx), the outbox in it too. *)
WipeRepo(c) ==
  /\ repoFile[c] # None /\ minted.repos < MaxRepos
  /\ WipeWhileRunning \/ ~IdsHeld(c)
  /\ repoFile' = [repoFile EXCEPT ![c] = None]
  /\ outbox' = [outbox EXCEPT ![c] = {}]
  /\ UNCHANGED <<machineFile, minted, apiKey, cache, drain, handlers, registry,
                 ingested, emitted, starts, failures>>

(* The operator puts a key issued for this machine, which must be registered,
   into the environment, or the admin key back. *)
ChangeKey ==
  /\ MachineKeys
  /\ apiKey' \in ({Admin} \cup ({machineFile} \cap machines)) \ {apiKey}
  /\ UNCHANGED <<files, cache, outbox, drain, handlers, registry, ingested,
                 emitted, starts, failures>>

(***************************************************************************)
(* Emitters.                                                               *)
(***************************************************************************)
emit_event(c, ids) ==
  /\ emitted < MaxEvents
  /\ emitted' = emitted + 1
  /\ outbox' = [outbox EXCEPT ![c] = @ \cup
       {[n |-> emitted + 1, machine |-> ids.machine, repo |-> ids.repo]}]
  /\ UNCHANGED <<apiKey, drain, handlers, registry, ingested, starts, failures>>

(* A lifecycle hook: a process of its own, with the ids of the files. *)
EmitHook(c) ==
  /\ bootstrap_identity(c)
  /\ emit_event(c, Identity(c))
  /\ UNCHANGED cache

(* The MCP server: the ids it found when it started. *)
EmitServer ==
  /\ cache # NoServer
  /\ emit_event(cache.root, cache)
  /\ UNCHANGED <<files, cache>>

StartServer(c) ==
  /\ cache = NoServer
  /\ bootstrap_identity(c)
  /\ cache' = [root |-> c, machine |-> Identity(c).machine, repo |-> Identity(c).repo]
  /\ UNCHANGED <<apiKey, outbox, drain, handlers, registry, ingested, emitted, starts, failures>>

StopServer ==
  /\ cache # NoServer
  /\ cache' = NoServer
  /\ UNCHANGED <<files, apiKey, outbox, drain, handlers, registry, ingested,
                 emitted, starts, failures>>

(***************************************************************************)
(* Registration: machine, then repository, then session.  Whatever fails,  *)
(* the worker starts over with the machine.                                *)
(***************************************************************************)
(* _load_identity: the ids and the session of this run. *)
StartDrain(d, c) ==
  /\ drain[d].pc = "down" /\ starts < MaxStarts
  /\ bootstrap_identity(c)
  /\ starts' = starts + 1
  /\ drain' = [drain EXCEPT ![d] =
       [pc |-> "machine", root |-> c, key |-> apiKey, session |-> starts + 1,
        machine |-> Identity(c).machine, local |-> Identity(c).repo, canonical |-> None]]
  /\ UNCHANGED <<apiKey, cache, outbox, handlers, registry, ingested, emitted, failures>>

StartOver(d) == [drain[d] EXCEPT !.pc = "machine"]

(* The answer moves worker d on to state w, or is lost. *)
Answered(d, w) ==
  \/ drain' = [drain EXCEPT ![d] = w] /\ UNCHANGED failures
  \/ /\ failures < MaxFailures
     /\ failures' = failures + 1
     /\ drain' = [drain EXCEPT ![d] = StartOver(d)]

(* A request of worker d that never reaches the server, or a handler it no
   longer waits for. *)
RequestFails(d) ==
  /\ drain[d].pc \notin {"down", "machine"}
  /\ failures < MaxFailures
  /\ failures' = failures + 1
  /\ drain' = [drain EXCEPT ![d] = StartOver(d)]
  /\ UNCHANGED <<host, outbox, handlers, registry, ingested, emitted, starts>>

(* upsert_machine.  A key bound to another machine is refused and the worker
   stays where it is. *)
RegisterMachine(d) ==
  /\ drain[d].pc = "machine"
  /\ drain[d].key \in {Admin, drain[d].machine}
  /\ machines' = machines \cup {drain[d].machine}
  /\ Answered(d, [drain[d] EXCEPT !.pc = "repo"])
  /\ UNCHANGED <<host, outbox, handlers, repos, sessions, ingested, emitted, starts>>

(* Mutant of NaturalKey: the path is not part of the key. *)
MachineOnlyKey(m, c) == {r \in Repos : repos[r] # NoRow /\ repos[r].machine = m}

(* _find_repo_by_natural_key. *)
NaturalKey(m, c) == {r \in Repos : repos[r] # NoRow /\ repos[r] = [machine |-> m, root |-> c]}

(* The ownership guard: the row is another machine's. *)
Foreign(key, r) == key # Admin /\ repos[r] # NoRow /\ repos[r].machine # key

(* upsert_repository up to the natural-key lookup: refused, found, or on to
   the INSERT. *)
LookupRepository(d) ==
  LET w == drain[d]
      found == NaturalKey(w.machine, w.root)
  IN  /\ w.pc = "repo"
      /\ \/ /\ Foreign(w.key, w.local)
            /\ drain' = [drain EXCEPT ![d] = StartOver(d)]
            /\ UNCHANGED <<handlers, failures>>
         \/ /\ ~Foreign(w.key, w.local)
            /\ \E r \in found : Answered(d, [w EXCEPT !.pc = "session", !.canonical = r])
            /\ UNCHANGED handlers
         \/ /\ ~Foreign(w.key, w.local)
            /\ found = {}
            /\ handlers' = handlers \cup {[by |-> d, session |-> w.session, repo |-> w.local,
                                           machine |-> w.machine, root |-> w.root]}
            /\ drain' = [drain EXCEPT ![d].pc = "insert"]
            /\ UNCHANGED failures
      /\ UNCHANGED <<host, outbox, registry, ingested, emitted, starts>>

(* Mutant of Repointed: a taken repository_id stays an error. *)
NotRepointed(h) == {}

(* _update_repo_machine: the id is known under a machine id since re-minted;
   its row is moved to the machine that registers it now. *)
Repointed(h) == {[repos EXCEPT ![h.repo] = [machine |-> h.machine, root |-> h.root]]}

(* The worker still waiting for handler h. *)
Waiting(h) ==
  {d \in Drains : d = h.by /\ drain[d].pc = "insert" /\ drain[d].session = h.session}

Reply(h, r) ==
  IF Waiting(h) = {}
  THEN UNCHANGED <<drain, failures>>
  ELSE Answered(h.by, [drain[h.by] EXCEPT !.pc = "session", !.canonical = r])

(* upsert_repository from the INSERT on: it lands, or the natural key has
   been taken meanwhile, or only the id is taken. *)
InsertRepository ==
  \E h \in handlers :
    /\ handlers' = handlers \ {h}
    /\ \/ /\ repos[h.repo] = NoRow /\ NaturalKey(h.machine, h.root) = {}
          /\ repos' = [repos EXCEPT ![h.repo] = [machine |-> h.machine, root |-> h.root]]
          /\ Reply(h, h.repo)
       \/ /\ \E r \in NaturalKey(h.machine, h.root) : Reply(h, r)
          /\ UNCHANGED repos
       \/ /\ repos[h.repo] # NoRow /\ NaturalKey(h.machine, h.root) = {}
          /\ repos' \in Repointed(h)
          /\ Reply(h, h.repo)
    /\ UNCHANGED <<host, outbox, machines, sessions, ingested, emitted, starts>>

(* upsert_session. *)
RegisterSession(d) ==
  LET w == drain[d]
  IN  /\ w.pc = "session"
      /\ sessions' = [sessions EXCEPT ![w.session] =
                        [machine |-> w.machine, repo |-> w.canonical]]
      /\ Answered(d, [w EXCEPT !.pc = "up"])
      /\ UNCHANGED <<host, outbox, handlers, machines, repos, ingested, emitted, starts>>

(***************************************************************************)
(* Draining.                                                               *)
(***************************************************************************)
(* Mutant of OutgoingRepository: the event goes out as it was written. *)
RawRepository(w, e) == e.repo

(* _outgoing_event: the worker's own id is replaced by the canonical one. *)
OutgoingRepository(w, e) == IF e.repo = w.local THEN w.canonical ELSE e.repo

(* ingest_batch on one event: rejected when it is not of the key's machine,
   stored unless its id is known. *)
Ingest(w, e) ==
  \/ /\ w.key \notin {Admin, e.machine}
     /\ rejected' = rejected \cup {e.n}
     /\ UNCHANGED log
  \/ /\ w.key \in {Admin, e.machine}
     /\ log' = IF \E x \in log : x.n = e.n THEN log
               ELSE log \cup {[n |-> e.n, root |-> w.root, repo |-> OutgoingRepository(w, e)]}
     /\ UNCHANGED rejected

DrainEvent(d) ==
  /\ drain[d].pc = "up"
  /\ \E e \in outbox[drain[d].root] :
       /\ Ingest(drain[d], e)
       /\ \/ /\ outbox' = [outbox EXCEPT ![drain[d].root] = @ \ {e}]
             /\ UNCHANGED <<drain, failures>>
          \/ /\ failures < MaxFailures
             /\ failures' = failures + 1
             /\ drain' = [drain EXCEPT ![d] = StartOver(d)]
             /\ UNCHANGED outbox
  /\ UNCHANGED <<host, handlers, registry, emitted, starts>>

(* The process ends; a request it has made is still served. *)
StopDrain(d) ==
  /\ drain[d].pc # "down"
  /\ drain' = [drain EXCEPT ![d] = Down]
  /\ UNCHANGED <<host, outbox, handlers, registry, ingested, emitted, starts, failures>>

Register(d) == RegisterMachine(d) \/ LookupRepository(d) \/ RegisterSession(d)

Next ==
  \/ WipeMachine
  \/ ChangeKey
  \/ \E c \in Roots :
       \/ WipeRepo(c)
       \/ EmitHook(c)
       \/ StartServer(c)
  \/ EmitServer
  \/ StopServer
  \/ \E d \in Drains, c \in Roots : StartDrain(d, c)
  \/ \E d \in Drains :
       \/ RequestFails(d)
       \/ RegisterMachine(d)
       \/ LookupRepository(d)
       \/ RegisterSession(d)
       \/ DrainEvent(d)
       \/ StopDrain(d)
  \/ InsertRepository

Spec == Init /\ [][Next]_vars

(* run_forever retries until it is registered; a handler runs to its end. *)
FairSpec ==
  /\ Spec
  /\ \A d \in Drains : WF_vars(Register(d))
  /\ WF_vars(InsertRepository)

(***************************************************************************)
(* Properties.                                                             *)
(***************************************************************************)
Ids == [machine : Machines, repo : Repos]
Row == [machine : Machines, root : Roots]
Worker ==
  [pc : {"machine", "repo", "insert", "session", "up"}, root : Roots,
   key : {Admin} \cup Machines, session : 1 .. MaxStarts,
   machine : Machines, local : Repos, canonical : {None} \cup Repos]
Handler == [by : Drains, session : 1 .. MaxStarts, repo : Repos,
            machine : Machines, root : Roots]

(* The shape of the files, the workers and the tables of the registry; no id
   is in use that was not minted. *)
TypeOK ==
  /\ minted \in [machines : 0 .. MaxMachines, repos : 0 .. MaxRepos]
  /\ machineFile \in 0 .. minted.machines
  /\ repoFile \in [Roots -> 0 .. minted.repos]
  /\ apiKey \in {Admin} \cup Machines
  /\ cache \in {NoServer} \cup [root : Roots, machine : Machines, repo : Repos]
  /\ outbox \in [Roots -> SUBSET [n : 1 .. MaxEvents, machine : Machines, repo : Repos]]
  /\ drain \in [Drains -> {Down} \cup Worker]
  /\ handlers \subseteq Handler
  /\ machines \subseteq Machines
  /\ repos \in [Repos -> {NoRow} \cup Row]
  /\ sessions \in [1 .. MaxStarts -> {NoRow} \cup Ids]
  /\ log \subseteq [n : 1 .. MaxEvents, root : Roots, repo : Repos]
  /\ rejected \subseteq 1 .. MaxEvents
  /\ emitted \in 0 .. MaxEvents /\ starts \in 0 .. MaxStarts
  /\ failures \in 0 .. MaxFailures

(* A worker that takes itself for registered is: its machine is known, the id
   it rewrites events to is a repository of its own checkout, and its session
   names both -- also after the row was moved to a re-minted machine
   (_register_once, upsert_repository). *)
RegisteredIsKnown ==
  \A d \in Drains : drain[d].pc = "up" =>
    /\ drain[d].machine \in machines
    /\ repos[drain[d].canonical] # NoRow
    /\ repos[drain[d].canonical].root = drain[d].root
    /\ sessions[drain[d].session] =
         [machine |-> drain[d].machine, repo |-> drain[d].canonical]

(* No event is orphaned or filed under another checkout: the repository_id it
   is stored with has a row in the registry, and that row is the checkout the
   event was emitted in (_outgoing_event). *)
EventsUnderTheirCheckout ==
  \A x \in log : repos[x.repo] # NoRow /\ repos[x.repo].root = x.root

(* With the admin key no wipe of an identity file locks a worker out: it
   registers in the end, unless it is stopped (the re-mint register loop of
   upsert_repository). *)
Registers ==
  \A d \in Drains :
    (drain[d].pc # "down" /\ drain[d].key = Admin) ~> (drain[d].pc \in {"up", "down"})
=============================================================================

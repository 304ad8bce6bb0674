--------------------------- MODULE RegistryProofs ---------------------------
(***************************************************************************)
(* Proofs about module Registry, for any number of checkouts, workers, ids *)
(* and failures.                                                           *)
(***************************************************************************)
EXTENDS Registry, TLAPS

Alive(d) == drain[d].pc # "down"

(* Repository id r is used for checkout c: in its file, by a row, by a
   request, by a worker. *)
At(r, c) ==
  \/ repoFile[c] = r
  \/ repos[r] # NoRow /\ repos[r].root = c
  \/ \E h \in handlers : h.repo = r /\ h.root = c
  \/ \E d \in Drains : Alive(d) /\ drain[d].local = r /\ drain[d].root = c

(* An id belongs to one checkout, and the next one to be minted to none. *)
HomeOK ==
  \A r \in Repos, c \in Roots : At(r, c) =>
    r <= minted.repos /\ \A b \in Roots : At(r, b) => b = c

(* What each step of _register_once leaves behind. *)
WorkerOK(d) ==
  /\ drain[d].session <= starts
  /\ drain[d].pc # "machine" => drain[d].machine \in machines
  /\ drain[d].pc \in {"session", "up"} =>
       /\ drain[d].canonical \in Repos
       /\ repos[drain[d].canonical] # NoRow
       /\ repos[drain[d].canonical].root = drain[d].root
  /\ drain[d].pc = "up" =>
       sessions[drain[d].session] = [machine |-> drain[d].machine, repo |-> drain[d].canonical]

WorkersOK == \A d \in Drains : Alive(d) => WorkerOK(d)

(* Every run of a worker has a session of its own. *)
SessionsOK ==
  \A d, x \in Drains : Alive(d) /\ Alive(x) /\ drain[d].session = drain[x].session => d = x

(* A handler works for the run that made the request. *)
HandlersOK ==
  \A h \in handlers :
    /\ h.session <= starts
    /\ Alive(h.by) /\ drain[h.by].session = h.session => drain[h.by].root = h.root

(* While no checkout loses its id under a running process, every copy of the
   id is the one in the file. *)
CopiesOK ==
  /\ \A d \in Drains : Alive(d) => drain[d].local = repoFile[drain[d].root]
  /\ cache # NoServer => cache.repo = repoFile[cache.root]
  /\ \A c \in Roots : \A e \in outbox[c] : e.repo = repoFile[c]

Inv == HomeOK /\ WorkersOK /\ SessionsOK /\ HandlersOK

-----------------------------------------------------------------------------
(* A living worker is a worker record. *)
LEMMA Living ==
  ASSUME TypeOK, NEW d \in Drains, drain[d].pc # "down"
  PROVE  drain[d] \in Worker
BY DEF TypeOK, Down

(* What bootstrap_identity leaves in the files is well typed. *)
LEMMA BootstrapType ==
  ASSUME TypeOK, NEW c \in Roots, bootstrap_identity(c)
  PROVE  /\ minted' \in [machines : 0 .. MaxMachines, repos : 0 .. MaxRepos]
         /\ machineFile' \in 0 .. minted'.machines
         /\ repoFile' \in [Roots -> 0 .. minted'.repos]
         /\ Identity(c) \in Ids
         /\ repoFile'[c] = Identity(c).repo
BY RegistryAssumption DEF TypeOK, bootstrap_identity, Identity, Ids, Machines, Repos, None

(* A worker that starts over differs in its place only. *)
LEMMA StartOverType ==
  ASSUME NEW d \in Drains, drain[d] \in Worker
  PROVE  /\ StartOver(d) \in Worker
         /\ StartOver(d).pc = "machine"
         /\ StartOver(d).root = drain[d].root /\ StartOver(d).local = drain[d].local
         /\ StartOver(d).session = drain[d].session
BY DEF StartOver, Worker

(* An answer leaves well-typed workers. *)
LEMMA AnsweredType ==
  ASSUME TypeOK, NEW d \in Drains, drain[d] \in Worker, NEW w \in Worker, Answered(d, w)
  PROVE  /\ drain' \in [Drains -> {Down} \cup Worker]
         /\ failures' \in 0 .. MaxFailures
         /\ \A x \in Drains : x # d => drain'[x] = drain[x]
         /\ drain'[d] \in {w, StartOver(d)}
<1>1. drain \in [Drains -> {Down} \cup Worker] /\ failures \in 0 .. MaxFailures
  BY DEF TypeOK
<1>2. StartOver(d) \in Worker
  BY StartOverType
<1>3. QED
  BY <1>1, <1>2, RegistryAssumption DEF Answered

(* What no step of registration or draining changes of a worker. *)
SameRun(v, w) ==
  v.root = w.root /\ v.local = w.local /\ v.session = w.session /\ v.machine = w.machine

(* No worker starts or stops. *)
Kept ==
  \A x \in Drains : (Alive(x)' <=> Alive(x)) /\ (Alive(x) => SameRun(drain'[x], drain[x]))

(* Moving on, or starting over, is the same run. *)
LEMMA AnsweredKeeps ==
  ASSUME TypeOK, NEW d \in Drains, drain[d] \in Worker, NEW w \in Worker,
         SameRun(w, drain[d]), Answered(d, w)
  PROVE  Kept
<1>1. /\ \A x \in Drains : x # d => drain'[x] = drain[x]
      /\ drain'[d] \in {w, StartOver(d)}
  BY AnsweredType
<1>2. StartOver(d) \in Worker /\ SameRun(StartOver(d), drain[d])
  BY DEF StartOver, SameRun, Worker
<1>3. SameRun(drain'[d], drain[d]) /\ drain'[d] \in Worker
  BY <1>1, <1>2
<1>4. drain[d].pc # "down" /\ drain'[d].pc # "down"
  BY <1>3 DEF Worker
<1>5. QED
  BY <1>1, <1>3, <1>4 DEF Kept, Alive, SameRun

(* The worker that registers its machine, looks its repository up, or
   registers its session. *)
LEMMA NextPlace ==
  ASSUME NEW v \in Worker,
         NEW p \in {"machine", "repo", "insert", "session", "up"},
         NEW r \in {None} \cup Repos
  PROVE  /\ [v EXCEPT !.pc = p] \in Worker
         /\ [v EXCEPT !.pc = p].pc = p
         /\ [v EXCEPT !.pc = p].canonical = v.canonical
         /\ [v EXCEPT !.pc = p].key = v.key
         /\ SameRun([v EXCEPT !.pc = p], v)
         /\ [v EXCEPT !.pc = p, !.canonical = r] \in Worker
         /\ [v EXCEPT !.pc = p, !.canonical = r].pc = p
         /\ [v EXCEPT !.pc = p, !.canonical = r].canonical = r
         /\ SameRun([v EXCEPT !.pc = p, !.canonical = r], v)
BY DEF Worker, SameRun

-----------------------------------------------------------------------------
(* The reply to a handler's request, if anybody waits for it. *)
LEMMA ReplyKeeps ==
  ASSUME TypeOK, NEW h \in handlers, NEW r \in Repos, Reply(h, r)
  PROVE  /\ drain' \in [Drains -> {Down} \cup Worker]
         /\ failures' \in 0 .. MaxFailures
         /\ Kept
         /\ \/ UNCHANGED drain
            \/ /\ drain[h.by] \in Worker /\ Alive(h.by)
               /\ drain[h.by].pc = "insert" /\ drain[h.by].session = h.session
               /\ \A x \in Drains : x # h.by => drain'[x] = drain[x]
               /\ drain'[h.by] \in {[drain[h.by] EXCEPT !.pc = "session", !.canonical = r],
                                    StartOver(h.by)}
<1>1. h.by \in Drains
  BY DEF TypeOK, Handler
<1>2. CASE Waiting(h) = {}
  <2>1. UNCHANGED <<drain, failures>>
    BY <1>2 DEF Reply
  <2>2. QED
    BY <2>1 DEF TypeOK, Kept, Alive, SameRun
<1>3. CASE Waiting(h) # {}
  <2>1. drain[h.by].pc = "insert" /\ drain[h.by].session = h.session
    BY <1>3 DEF Waiting
  <2>2. drain[h.by] \in Worker
    BY <1>1, <2>1, Living
  <2> DEFINE w == [drain[h.by] EXCEPT !.pc = "session", !.canonical = r]
  <2>3. w \in Worker /\ SameRun(w, drain[h.by])
    BY <2>2, NextPlace
  <2>4. Answered(h.by, w)
    BY <1>3 DEF Reply
  <2> HIDE DEF w
  <2>5. Kept
    BY <1>1, <2>2, <2>3, <2>4, AnsweredKeeps
  <2>6. /\ drain' \in [Drains -> {Down} \cup Worker]
        /\ failures' \in 0 .. MaxFailures
        /\ \A x \in Drains : x # h.by => drain'[x] = drain[x]
        /\ drain'[h.by] \in {w, StartOver(h.by)}
    BY <1>1, <2>2, <2>3, <2>4, AnsweredType
  <2>7. QED
    BY <2>1, <2>2, <2>5, <2>6 DEF w, Alive
<1>4. QED
  BY <1>2, <1>3

(* The lookup refuses, finds the row of the natural key, or hands over to a
   handler that will insert one. *)
LookupEffect(d) ==
  /\ drain' \in [Drains -> {Down} \cup Worker]
  /\ failures' \in 0 .. MaxFailures
  /\ handlers' \subseteq Handler
  /\ Kept
  /\ \A x \in Drains : x # d => drain'[x] = drain[x]
  /\ \/ drain'[d].pc \in {"machine", "insert"}
     \/ /\ drain'[d].pc = "session"
        /\ drain'[d].canonical \in NaturalKey(drain[d].machine, drain[d].root)
  /\ \A h \in handlers' : h \in handlers \/
       (h.by = d /\ h.session = drain[d].session /\ h.repo = drain[d].local
                 /\ h.root = drain[d].root)

(* Every way through the lookup has that effect. *)
LEMMA LookupSteps ==
  ASSUME TypeOK, NEW d \in Drains, LookupRepository(d)
  PROVE  drain[d] \in Worker /\ drain[d].pc = "repo" /\ LookupEffect(d)
<1> DEFINE w == drain[d]
           hd == [by |-> d, session |-> w.session, repo |-> w.local,
                  machine |-> w.machine, root |-> w.root]
<1>1. w \in Worker /\ w.pc = "repo"
  BY Living DEF LookupRepository
<1>2. /\ drain \in [Drains -> {Down} \cup Worker]
      /\ failures \in 0 .. MaxFailures
      /\ handlers \subseteq Handler
  BY DEF TypeOK
<1>3. hd \in Handler /\ hd.by = d /\ hd.session = w.session /\ hd.repo = w.local /\ hd.root = w.root
  BY <1>1 DEF Worker, Handler
<1>4. CASE drain' = [drain EXCEPT ![d] = StartOver(d)] /\ UNCHANGED <<handlers, failures>>
  <2>1. StartOver(d) \in Worker /\ SameRun(StartOver(d), w) /\ StartOver(d).pc = "machine"
    BY <1>1 DEF StartOver, SameRun, Worker
  <2>2. Kept
    BY <1>1, <1>2, <1>4, <2>1 DEF Kept, Alive, SameRun
  <2>3. QED
    BY <1>1, <1>2, <1>4, <2>1, <2>2 DEF LookupEffect
<1>5. ASSUME NEW r \in NaturalKey(w.machine, w.root), UNCHANGED handlers,
             Answered(d, [w EXCEPT !.pc = "session", !.canonical = r])
      PROVE  LookupEffect(d)
  <2> DEFINE v == [w EXCEPT !.pc = "session", !.canonical = r]
  <2>1. r \in Repos
    BY DEF NaturalKey
  <2>2. v \in Worker /\ SameRun(v, w) /\ v.pc = "session" /\ v.canonical = r
    BY <1>1, <2>1 DEF Worker, SameRun
  <2>3. Answered(d, v)
    BY <1>5
  <2> HIDE DEF v
  <2>4. /\ drain' \in [Drains -> {Down} \cup Worker]
        /\ failures' \in 0 .. MaxFailures
        /\ \A x \in Drains : x # d => drain'[x] = drain[x]
        /\ drain'[d] \in {v, StartOver(d)}
    BY <1>1, <2>2, <2>3, AnsweredType
  <2>5. Kept
    BY <1>1, <2>2, <2>3, AnsweredKeeps
  <2>6. StartOver(d).pc = "machine"
    BY <1>1, StartOverType
  <2>7. QED
    BY <1>2, <1>5, <2>2, <2>4, <2>5, <2>6 DEF LookupEffect
<1>6. CASE /\ handlers' = handlers \cup {hd}
           /\ drain' = [drain EXCEPT ![d].pc = "insert"]
           /\ UNCHANGED failures
  <2> DEFINE v == [w EXCEPT !.pc = "insert"]
  <2>1. v \in Worker /\ SameRun(v, w) /\ v.pc = "insert"
    BY <1>1, NextPlace
  <2>2. drain' = [drain EXCEPT ![d] = v]
    BY <1>2, <1>6
  <2> HIDE DEF v, hd
  <2>3. Kept
    BY <1>1, <1>2, <2>1, <2>2 DEF Kept, Alive, SameRun
  <2>4. QED
    BY <1>1, <1>2, <1>3, <1>6, <2>1, <2>2, <2>3 DEF LookupEffect
<1>7. QED
  BY <1>1, <1>4, <1>5, <1>6 DEF LookupRepository

(* A handler leaves a row of its natural key, under its own id or another, and
   tells the worker that still waits. *)
HandlerRow(h) == [machine |-> h.machine, root |-> h.root]

InsertEffect(h) ==
  /\ handlers' = handlers \ {h}
  /\ drain' \in [Drains -> {Down} \cup Worker]
  /\ failures' \in 0 .. MaxFailures
  /\ Kept
  /\ repos' \in [Repos -> {NoRow} \cup Row]
  /\ \A r \in Repos : repos'[r] = repos[r] \/ (r = h.repo /\ repos'[r] = HandlerRow(h))
  /\ \A x \in Drains :
       \/ drain'[x] = drain[x]
       \/ /\ x = h.by /\ Alive(x)
          /\ drain[x].pc = "insert" /\ drain[x].session = h.session
          /\ \/ drain'[x].pc = "machine"
             \/ /\ drain'[x].pc = "session"
                /\ drain'[x].canonical \in Repos
                /\ repos'[drain'[x].canonical] = HandlerRow(h)

(* So has every outcome of the INSERT. *)
LEMMA InsertSteps ==
  ASSUME TypeOK, InsertRepository
  PROVE  \E h \in handlers : InsertEffect(h)
<1>1. PICK h \in handlers :
        /\ handlers' = handlers \ {h}
        /\ \/ /\ repos[h.repo] = NoRow /\ NaturalKey(h.machine, h.root) = {}
              /\ repos' = [repos EXCEPT ![h.repo] = [machine |-> h.machine, root |-> h.root]]
              /\ Reply(h, h.repo)
           \/ /\ \E r \in NaturalKey(h.machine, h.root) : Reply(h, r)
              /\ UNCHANGED repos
           \/ /\ repos[h.repo] # NoRow /\ NaturalKey(h.machine, h.root) = {}
              /\ repos' \in Repointed(h)
              /\ Reply(h, h.repo)
  BY DEF InsertRepository
<1>2. h \in Handler /\ HandlerRow(h) \in Row
  BY DEF TypeOK, Handler, Row, HandlerRow
<1>3. repos \in [Repos -> {NoRow} \cup Row]
  BY DEF TypeOK
<1>4. PICK r \in Repos :
        /\ Reply(h, r) /\ repos'[r] = HandlerRow(h)
        /\ repos' \in [Repos -> {NoRow} \cup Row]
        /\ \A q \in Repos : repos'[q] = repos[q] \/ (q = h.repo /\ repos'[q] = HandlerRow(h))
  <2>1. CASE repos' = [repos EXCEPT ![h.repo] = HandlerRow(h)] /\ Reply(h, h.repo)
    BY <1>2, <1>3, <2>1 DEF Handler
  <2>2. ASSUME NEW r \in NaturalKey(h.machine, h.root), Reply(h, r), UNCHANGED repos
        PROVE  \E q \in Repos : q = r /\ repos'[q] = HandlerRow(h)
    BY <2>2 DEF NaturalKey, HandlerRow
  <2>3. QED
    BY <1>1, <1>3, <2>1, <2>2 DEF Repointed, HandlerRow
<1>5. /\ drain' \in [Drains -> {Down} \cup Worker]
      /\ failures' \in 0 .. MaxFailures
      /\ Kept
      /\ \/ UNCHANGED drain
         \/ /\ drain[h.by] \in Worker /\ Alive(h.by)
            /\ drain[h.by].pc = "insert" /\ drain[h.by].session = h.session
            /\ \A x \in Drains : x # h.by => drain'[x] = drain[x]
            /\ drain'[h.by] \in {[drain[h.by] EXCEPT !.pc = "session", !.canonical = r],
                                 StartOver(h.by)}
  BY <1>4, ReplyKeeps
<1>6. ASSUME NEW x \in Drains, drain'[x] # drain[x]
      PROVE  /\ x = h.by /\ Alive(x)
             /\ drain[x].pc = "insert" /\ drain[x].session = h.session
             /\ \/ drain'[x].pc = "machine"
                \/ drain'[x].pc = "session" /\ drain'[x].canonical = r
  <2>1. /\ x = h.by /\ Alive(x) /\ drain[x] \in Worker
        /\ drain[x].pc = "insert" /\ drain[x].session = h.session
        /\ drain'[x] \in {[drain[x] EXCEPT !.pc = "session", !.canonical = r], StartOver(x)}
    BY <1>5, <1>6
  <2>2. QED
    BY <2>1 DEF Worker, StartOver
<1>7. InsertEffect(h)
  BY <1>1, <1>4, <1>5, <1>6 DEF InsertEffect
<1>8. QED
  BY <1>7

(* Every step keeps the types. *)
LEMMA TypeStep ==
  ASSUME TypeOK, WorkersOK, [Next]_vars
  PROVE  TypeOK'
<1> USE RegistryAssumption
<1>1. CASE UNCHANGED vars
  BY <1>1 DEF vars, TypeOK
<1>2. CASE WipeMachine
  BY <1>2 DEF WipeMachine, TypeOK, registry, ingested, None
<1>3. CASE ChangeKey
  BY <1>3 DEF ChangeKey, TypeOK, files, registry, ingested
<1>4. ASSUME NEW c \in Roots, WipeRepo(c)  PROVE TypeOK'
  BY <1>4 DEF WipeRepo, TypeOK, registry, ingested, None
<1>5. ASSUME NEW c \in Roots, EmitHook(c)  PROVE TypeOK'
  <2> DEFINE e == [n |-> emitted + 1, machine |-> Identity(c).machine, repo |-> Identity(c).repo]
  <2>1. Identity(c) \in Ids
    BY <1>5, BootstrapType DEF EmitHook
  <2>2. emitted' \in 0 .. MaxEvents /\ e \in [n : 1 .. MaxEvents, machine : Machines, repo : Repos]
    BY <1>5, <2>1 DEF EmitHook, emit_event, TypeOK, Ids
  <2>3. outbox' = [outbox EXCEPT ![c] = @ \cup {e}]
    BY <1>5 DEF EmitHook, emit_event
  <2> HIDE DEF e
  <2>4. outbox' \in [Roots -> SUBSET [n : 1 .. MaxEvents, machine : Machines, repo : Repos]]
    BY <2>2, <2>3 DEF TypeOK
  <2>5. QED
    BY <1>5, <2>2, <2>4, BootstrapType DEF EmitHook, emit_event, TypeOK, registry, ingested
<1>6. ASSUME NEW c \in Roots, StartServer(c)  PROVE TypeOK'
  <2>1. Identity(c) \in Ids
    BY <1>6, BootstrapType DEF StartServer
  <2>2. cache' \in [root : Roots, machine : Machines, repo : Repos]
    BY <1>6, <2>1 DEF StartServer, Ids
  <2>3. QED
    BY <1>6, <2>2, BootstrapType DEF StartServer, TypeOK, registry, ingested
<1>7. CASE EmitServer
  <2> DEFINE e == [n |-> emitted + 1, machine |-> cache.machine, repo |-> cache.repo]
  <2>1. cache \in [root : Roots, machine : Machines, repo : Repos]
    BY <1>7 DEF EmitServer, TypeOK
  <2>2. emitted' \in 0 .. MaxEvents /\ e \in [n : 1 .. MaxEvents, machine : Machines, repo : Repos]
    BY <1>7, <2>1 DEF EmitServer, emit_event, TypeOK
  <2>3. outbox' = [outbox EXCEPT ![cache.root] = @ \cup {e}]
    BY <1>7 DEF EmitServer, emit_event
  <2> HIDE DEF e
  <2>4. outbox' \in [Roots -> SUBSET [n : 1 .. MaxEvents, machine : Machines, repo : Repos]]
    BY <2>1, <2>2, <2>3 DEF TypeOK
  <2>5. QED
    BY <1>7, <2>2, <2>4 DEF EmitServer, emit_event, TypeOK, files, registry, ingested
<1>8. CASE StopServer
  BY <1>8 DEF StopServer, TypeOK, files, registry, ingested
<1>9. ASSUME NEW d \in Drains, NEW c \in Roots, StartDrain(d, c)  PROVE TypeOK'
  <2> DEFINE w == [pc |-> "machine", root |-> c, key |-> apiKey, session |-> starts + 1,
                   machine |-> Identity(c).machine, local |-> Identity(c).repo,
                   canonical |-> None]
  <2>1. Identity(c) \in Ids
    BY <1>9, BootstrapType DEF StartDrain
  <2>2. starts' \in 0 .. MaxStarts /\ w \in Worker
    BY <1>9, <2>1 DEF StartDrain, TypeOK, Ids, Worker
  <2>3. drain' = [drain EXCEPT ![d] = w]
    BY <1>9 DEF StartDrain
  <2> HIDE DEF w
  <2>4. drain' \in [Drains -> {Down} \cup Worker]
    BY <2>2, <2>3 DEF TypeOK
  <2>5. QED
    BY <1>9, <2>2, <2>4, BootstrapType DEF StartDrain, TypeOK, registry, ingested
<1>10. ASSUME NEW d \in Drains, RequestFails(d)  PROVE TypeOK'
  <2>1. StartOver(d) \in Worker
    BY <1>10, Living, StartOverType DEF RequestFails
  <2>2. QED
    BY <1>10, <2>1 DEF RequestFails, TypeOK, host, files, registry, ingested
<1>11. ASSUME NEW d \in Drains, RegisterMachine(d)  PROVE TypeOK'
  <2>1. drain[d] \in Worker
    BY <1>11, Living DEF RegisterMachine
  <2>2. machines' \subseteq Machines
    BY <1>11, <2>1 DEF RegisterMachine, TypeOK, Worker
  <2>3. [drain[d] EXCEPT !.pc = "repo"] \in Worker
    BY <2>1, NextPlace
  <2>4. drain' \in [Drains -> {Down} \cup Worker] /\ failures' \in 0 .. MaxFailures
    BY <1>11, <2>1, <2>3, AnsweredType DEF RegisterMachine
  <2>5. QED
    BY <1>11, <2>2, <2>4 DEF RegisterMachine, TypeOK, host, files, ingested
<1>12. ASSUME NEW d \in Drains, LookupRepository(d)  PROVE TypeOK'
  <2>1. drain[d] \in Worker
    BY <1>12, Living DEF LookupRepository
  <2>2. /\ drain' \in [Drains -> {Down} \cup Worker] /\ failures' \in 0 .. MaxFailures
        /\ handlers' \subseteq Handler
    BY <1>12, LookupSteps DEF LookupEffect
  <2>3. QED
    BY <1>12, <2>2 DEF LookupRepository, TypeOK, host, files, registry, ingested
<1>13. ASSUME NEW d \in Drains, RegisterSession(d)  PROVE TypeOK'
  <2>1. drain[d] \in Worker
    BY <1>13, Living DEF RegisterSession
  <2>2. drain[d].canonical \in Repos
    BY <1>13 DEF RegisterSession, WorkersOK, WorkerOK, Alive
  <2>3. sessions' \in [1 .. MaxStarts -> {NoRow} \cup Ids]
    BY <1>13, <2>1, <2>2 DEF RegisterSession, TypeOK, Worker, Ids
  <2>4. [drain[d] EXCEPT !.pc = "up"] \in Worker
    BY <2>1, NextPlace
  <2>5. drain' \in [Drains -> {Down} \cup Worker] /\ failures' \in 0 .. MaxFailures
    BY <1>13, <2>1, <2>4, AnsweredType DEF RegisterSession
  <2>6. QED
    BY <1>13, <2>3, <2>5 DEF RegisterSession, TypeOK, host, files, ingested
<1>14. ASSUME NEW d \in Drains, DrainEvent(d)  PROVE TypeOK'
  <2>1. drain[d] \in Worker /\ drain[d].canonical \in Repos
    BY <1>14, Living DEF DrainEvent, WorkersOK, WorkerOK, Alive
  <2>2. PICK e \in outbox[drain[d].root] :
          /\ Ingest(drain[d], e)
          /\ \/ /\ outbox' = [outbox EXCEPT ![drain[d].root] = @ \ {e}]
                /\ UNCHANGED <<drain, failures>>
             \/ /\ failures < MaxFailures
                /\ failures' = failures + 1
                /\ drain' = [drain EXCEPT ![d] = StartOver(d)]
                /\ UNCHANGED outbox
    BY <1>14 DEF DrainEvent
  <2>3. e \in [n : 1 .. MaxEvents, machine : Machines, repo : Repos]
    BY <2>1 DEF TypeOK, Worker
  <2>4. OutgoingRepository(drain[d], e) \in Repos
    BY <2>1, <2>3 DEF OutgoingRepository
  <2>5. /\ log' \subseteq [n : 1 .. MaxEvents, root : Roots, repo : Repos]
        /\ rejected' \subseteq 1 .. MaxEvents
    <3> DEFINE x == [n |-> e.n, root |-> drain[d].root, repo |-> OutgoingRepository(drain[d], e)]
    <3>1. x \in [n : 1 .. MaxEvents, root : Roots, repo : Repos]
      BY <2>1, <2>3, <2>4 DEF Worker
    <3>2. log' = log \/ log' = log \cup {x}
      BY <2>2 DEF Ingest
    <3>3. rejected' = rejected \/ rejected' = rejected \cup {e.n}
      BY <2>2 DEF Ingest
    <3> HIDE DEF x
    <3>4. QED
      BY <2>3, <3>1, <3>2, <3>3 DEF TypeOK
  <2>6. StartOver(d) \in Worker
    BY <2>1, StartOverType
  <2>7. /\ outbox' \in [Roots -> SUBSET [n : 1 .. MaxEvents, machine : Machines, repo : Repos]]
        /\ drain' \in [Drains -> {Down} \cup Worker] /\ failures' \in 0 .. MaxFailures
    <3>1. CASE outbox' = [outbox EXCEPT ![drain[d].root] = @ \ {e}] /\ UNCHANGED <<drain, failures>>
      BY <3>1 DEF TypeOK
    <3>2. CASE /\ failures < MaxFailures /\ failures' = failures + 1
               /\ drain' = [drain EXCEPT ![d] = StartOver(d)]
               /\ UNCHANGED outbox
      BY <2>6, <3>2 DEF TypeOK
    <3>3. QED
      BY <2>2, <3>1, <3>2
  <2>8. QED
    BY <1>14, <2>5, <2>7 DEF DrainEvent, TypeOK, host, files, registry
<1>15. ASSUME NEW d \in Drains, StopDrain(d)  PROVE TypeOK'
  BY <1>15 DEF StopDrain, TypeOK, host, files, registry, ingested
<1>16. CASE InsertRepository
  <2>1. PICK h \in handlers : InsertEffect(h)
    BY <1>16, InsertSteps
  <2>2. QED
    BY <1>16, <2>1 DEF InsertEffect, InsertRepository, TypeOK, host, files, ingested
<1>17. QED
  BY <1>1, <1>2, <1>3, <1>4, <1>5, <1>6, <1>7, <1>8, <1>9, <1>10, <1>11, <1>12, <1>13,
     <1>14, <1>15, <1>16 DEF Next

-----------------------------------------------------------------------------
(* What the steps of registration and draining have in common: no run starts
   or ends and no file changes; a row is written by a handler, a handler is
   started by a worker. *)
Served ==
  /\ UNCHANGED <<repoFile, minted, starts>>
  /\ Kept
  /\ machines \subseteq machines'
  /\ \A r \in Repos : repos'[r] = repos[r] \/
       (repos'[r] # NoRow /\ \E h \in handlers : h.repo = r /\ h.root = repos'[r].root)
  /\ \A h \in handlers' : h \in handlers \/
       (Alive(h.by) /\ h.by \in Drains /\ h.session = drain[h.by].session
          /\ h.repo = drain[h.by].local /\ h.root = drain[h.by].root)

(* A row, once written, stays a row of its checkout, whatever machine it is
   re-pointed to. *)
RowsStay ==
  \A r \in Repos : repos[r] # NoRow => repos'[r] # NoRow /\ repos'[r].root = repos[r].root

(* Every use of an id after such a step was one before. *)
LEMMA ServedHome ==
  ASSUME TypeOK, HomeOK, Served
  PROVE  HomeOK' /\ RowsStay
<1>1. ASSUME NEW r \in Repos, NEW c \in Roots, At(r, c)'
      PROVE  At(r, c)
  <2>1. CASE repoFile'[c] = r
    BY <2>1 DEF Served, At
  <2>2. CASE repos'[r] # NoRow /\ repos'[r].root = c
    BY <2>2 DEF Served, At
  <2>3. ASSUME NEW h \in handlers', h.repo = r, h.root = c
        PROVE  At(r, c)
    BY <2>3 DEF Served, At
  <2>4. ASSUME NEW d \in Drains, Alive(d)', drain'[d].local = r, drain'[d].root = c
        PROVE  At(r, c)
    BY <2>4 DEF Served, At, Kept, SameRun
  <2>5. QED
    BY <1>1, <2>1, <2>2, <2>3, <2>4 DEF At
<1>2. minted' = minted
  BY DEF Served
<1>3. HomeOK'
  BY <1>1, <1>2 DEF HomeOK
<1>4. ASSUME NEW r \in Repos, repos[r] # NoRow
      PROVE  repos'[r] # NoRow /\ repos'[r].root = repos[r].root
  <2>1. CASE repos'[r] = repos[r]
    BY <1>4, <2>1
  <2>2. ASSUME repos'[r] # NoRow,
               NEW h \in handlers, h.repo = r, h.root = repos'[r].root
        PROVE  repos'[r] # NoRow /\ repos'[r].root = repos[r].root
    <3>1. h.root \in Roots /\ repos[r].root \in Roots
      BY <1>4 DEF TypeOK, Handler, Row
    <3>2. At(r, h.root) /\ At(r, repos[r].root)
      BY <1>4, <2>2 DEF At
    <3>3. QED
      BY <2>2, <3>1, <3>2 DEF HomeOK
  <2>3. QED
    BY <2>1, <2>2 DEF Served
<1>5. QED
  BY <1>3, <1>4 DEF RowsStay

(* The runs keep their sessions and their handlers. *)
LEMMA ServedRuns ==
  ASSUME TypeOK, WorkersOK, SessionsOK, HandlersOK, Served
  PROVE  SessionsOK' /\ HandlersOK'
<1>1. SessionsOK'
  BY DEF Served, Kept, SameRun, SessionsOK
<1>2. ASSUME NEW h \in handlers', h \in handlers
      PROVE  /\ h.session <= starts
             /\ Alive(h.by)' /\ drain'[h.by].session = h.session => drain'[h.by].root = h.root
  BY <1>2 DEF Served, Kept, SameRun, HandlersOK, TypeOK, Handler
<1>3. ASSUME NEW h \in handlers', h \notin handlers
      PROVE  /\ h.session <= starts
             /\ Alive(h.by)' /\ drain'[h.by].session = h.session => drain'[h.by].root = h.root
  BY <1>3 DEF Served, Kept, SameRun, WorkersOK, WorkerOK
<1>4. starts' = starts
  BY DEF Served
<1>5. HandlersOK'
  BY <1>2, <1>3, <1>4 DEF HandlersOK
<1>6. QED
  BY <1>1, <1>5

(* A worker that does not move keeps what it has, and one that starts over
   claims nothing. *)
LEMMA ServedStill ==
  ASSUME TypeOK, WorkersOK, Served, RowsStay, NEW d \in Drains, Alive(d)',
         \/ drain'[d] = drain[d] /\ sessions'[drain[d].session] = sessions[drain[d].session]
         \/ drain'[d].pc = "machine"
  PROVE  WorkerOK(d)'
<1>1. Alive(d) /\ drain'[d].session = drain[d].session /\ WorkerOK(d)
  BY DEF Served, Kept, SameRun, WorkersOK
<1>2. starts' = starts /\ machines \subseteq machines'
  BY DEF Served
<1>3. CASE drain'[d] = drain[d] /\ sessions'[drain[d].session] = sessions[drain[d].session]
  BY <1>1, <1>2, <1>3 DEF WorkerOK, RowsStay
<1>4. CASE drain'[d].pc = "machine"
  BY <1>1, <1>2, <1>4 DEF WorkerOK
<1>5. QED
  BY <1>3, <1>4

-----------------------------------------------------------------------------
(* The steps of registration and draining, one by one. *)
InvStep == Inv' /\ RowsStay

(* A worker whose request fails starts over. *)
LEMMA RequestFailsStep ==
  ASSUME TypeOK, Inv, NEW d \in Drains, RequestFails(d)
  PROVE  InvStep
<1>1. drain[d] \in Worker
  BY Living DEF RequestFails
<1>2. StartOver(d) \in Worker /\ SameRun(StartOver(d), drain[d]) /\ StartOver(d).pc = "machine"
  BY <1>1 DEF StartOver, SameRun, Worker
<1>3. /\ \A x \in Drains : x # d => drain'[x] = drain[x]
      /\ drain'[d] = StartOver(d)
  BY <1>2 DEF RequestFails, TypeOK
<1>4. Kept
  BY <1>2, <1>3 DEF Kept, Alive, SameRun, RequestFails
<1>5. Served
  BY <1>4 DEF Served, RequestFails, host, files, registry
<1>6. HomeOK' /\ RowsStay /\ SessionsOK' /\ HandlersOK'
  BY <1>5, ServedHome, ServedRuns DEF Inv
<1>7. WorkersOK'
  BY <1>2, <1>3, <1>5, <1>6, ServedStill DEF Inv, WorkersOK, RequestFails, registry
<1>8. QED
  BY <1>6, <1>7 DEF Inv, InvStep

(* The machine is known from here on. *)
LEMMA RegisterMachineStep ==
  ASSUME TypeOK, Inv, NEW d \in Drains, RegisterMachine(d)
  PROVE  InvStep
<1> DEFINE w == [drain[d] EXCEPT !.pc = "repo"]
<1>1. drain[d] \in Worker
  BY Living DEF RegisterMachine
<1>2. w \in Worker /\ SameRun(w, drain[d]) /\ w.pc = "repo"
  BY <1>1 DEF Worker, SameRun
<1>3. Answered(d, w)
  BY DEF RegisterMachine
<1> HIDE DEF w
<1>4. /\ \A x \in Drains : x # d => drain'[x] = drain[x]
      /\ drain'[d] \in {w, StartOver(d)}
  BY <1>1, <1>2, <1>3, AnsweredType
<1>5. Kept
  BY <1>1, <1>2, <1>3, AnsweredKeeps
<1>6. Served
  BY <1>5 DEF Served, RegisterMachine, host, files
<1>7. HomeOK' /\ RowsStay /\ SessionsOK' /\ HandlersOK'
  BY <1>6, ServedHome, ServedRuns DEF Inv
<1>8. ASSUME NEW x \in Drains, Alive(x)'  PROVE WorkerOK(x)'
  <2>1. CASE x # d
    BY <1>4, <1>6, <1>7, <1>8, <2>1, ServedStill DEF Inv, RegisterMachine
  <2>2. CASE x = d /\ drain'[d] = StartOver(d)
    BY <1>1, <1>6, <1>7, <1>8, <2>2, ServedStill, StartOverType DEF Inv
  <2>3. CASE x = d /\ drain'[d] = w
    BY <1>1, <1>2, <2>3 DEF Inv, WorkersOK, WorkerOK, Alive, SameRun, RegisterMachine
  <2>4. QED
    BY <1>4, <2>1, <2>2, <2>3
<1>9. QED
  BY <1>7, <1>8 DEF Inv, InvStep, WorkersOK

(* A row that is found is one of the worker's checkout. *)
LEMMA LookupRepositoryStep ==
  ASSUME TypeOK, Inv, NEW d \in Drains, LookupRepository(d)
  PROVE  InvStep
<1>1. drain[d] \in Worker /\ drain[d].pc = "repo" /\ LookupEffect(d)
  BY LookupSteps
<1>2. UNCHANGED <<repoFile, minted, machines, repos, sessions, starts>>
  BY DEF LookupRepository, host, files, registry
<1>3. Served
  BY <1>1, <1>2 DEF Served, LookupEffect, Alive
<1>4. HomeOK' /\ RowsStay /\ SessionsOK' /\ HandlersOK'
  BY <1>3, ServedHome, ServedRuns DEF Inv
<1>5. ASSUME NEW x \in Drains, Alive(x)'  PROVE WorkerOK(x)'
  <2>1. CASE x # d
    BY <1>1, <1>2, <1>3, <1>4, <1>5, <2>1, ServedStill DEF Inv, LookupEffect
  <2>2. CASE x = d /\ drain'[d].pc = "machine"
    BY <1>3, <1>4, <1>5, <2>2, ServedStill DEF Inv
  <2>3. WorkerOK(d) /\ SameRun(drain'[d], drain[d])
    BY <1>1 DEF Inv, WorkersOK, Alive, LookupEffect, Kept
  <2>4. CASE x = d /\ drain'[d].pc = "insert"
    BY <1>1, <1>2, <2>3, <2>4 DEF WorkerOK, SameRun
  <2>5. CASE /\ x = d /\ drain'[d].pc = "session"
             /\ drain'[d].canonical \in NaturalKey(drain[d].machine, drain[d].root)
    BY <1>1, <1>2, <2>3, <2>5 DEF WorkerOK, SameRun, NaturalKey
  <2>6. QED
    BY <1>1, <2>1, <2>2, <2>4, <2>5 DEF LookupEffect
<1>6. QED
  BY <1>4, <1>5 DEF Inv, InvStep, WorkersOK

(* So is a row that is inserted or re-pointed, for a worker that still waits. *)
LEMMA InsertRepositoryStep ==
  ASSUME TypeOK, Inv, InsertRepository
  PROVE  InvStep
<1>1. PICK h \in handlers : InsertEffect(h)
  BY InsertSteps
<1>2. UNCHANGED <<repoFile, minted, machines, sessions, starts>>
  BY DEF InsertRepository, host, files
<1>3. h \in Handler /\ HandlerRow(h) # NoRow /\ HandlerRow(h).root = h.root
  BY DEF TypeOK, Handler, HandlerRow, NoRow, Machines, None
<1>4. Served
  BY <1>1, <1>2, <1>3 DEF Served, InsertEffect
<1>5. HomeOK' /\ RowsStay /\ SessionsOK' /\ HandlersOK'
  BY <1>4, ServedHome, ServedRuns DEF Inv
<1>6. ASSUME NEW x \in Drains, Alive(x)'  PROVE WorkerOK(x)'
  <2>1. CASE drain'[x] = drain[x] \/ drain'[x].pc = "machine"
    BY <1>2, <1>4, <1>5, <1>6, <2>1, ServedStill DEF Inv
  <2>2. CASE /\ x = h.by /\ Alive(x)
             /\ drain[x].pc = "insert" /\ drain[x].session = h.session
             /\ drain'[x].pc = "session"
             /\ drain'[x].canonical \in Repos
             /\ repos'[drain'[x].canonical] = HandlerRow(h)
    <3>1. drain[x].root = h.root
      BY <2>2 DEF Inv, HandlersOK
    <3>2. WorkerOK(x) /\ SameRun(drain'[x], drain[x])
      BY <1>1, <2>2 DEF Inv, WorkersOK, InsertEffect, Kept
    <3>3. QED
      BY <1>2, <1>3, <2>2, <3>1, <3>2 DEF WorkerOK, SameRun
  <2>3. QED
    BY <1>1, <2>1, <2>2 DEF InsertEffect
<1>7. QED
  BY <1>5, <1>6 DEF Inv, InvStep, WorkersOK

(* A session is written by its own run only. *)
LEMMA RegisterSessionStep ==
  ASSUME TypeOK, Inv, NEW d \in Drains, RegisterSession(d)
  PROVE  InvStep
<1> DEFINE w == [drain[d] EXCEPT !.pc = "up"]
<1>1. drain[d] \in Worker /\ Alive(d)
  BY Living DEF RegisterSession, Alive
<1>2. /\ w \in Worker /\ SameRun(w, drain[d]) /\ w.pc = "up"
      /\ w.canonical = drain[d].canonical
  BY <1>1 DEF Worker, SameRun
<1>3. Answered(d, w)
  BY DEF RegisterSession
<1> HIDE DEF w
<1>4. /\ \A x \in Drains : x # d => drain'[x] = drain[x]
      /\ drain'[d] \in {w, StartOver(d)}
  BY <1>1, <1>2, <1>3, AnsweredType
<1>5. Kept
  BY <1>1, <1>2, <1>3, AnsweredKeeps
<1>6. Served
  BY <1>5 DEF Served, RegisterSession, host, files
<1>7. HomeOK' /\ RowsStay /\ SessionsOK' /\ HandlersOK'
  BY <1>6, ServedHome, ServedRuns DEF Inv
<1>8. ASSUME NEW x \in Drains, Alive(x)'  PROVE WorkerOK(x)'
  <2>1. CASE x # d
    <3>1. Alive(x) /\ drain[x].session # drain[d].session
      BY <1>1, <1>4, <1>8, <2>1 DEF Inv, SessionsOK, Alive
    <3>2. sessions'[drain[x].session] = sessions[drain[x].session]
      BY <3>1, Living DEF RegisterSession, TypeOK, Alive, Worker
    <3>3. QED
      BY <1>4, <1>6, <1>7, <1>8, <2>1, <3>2, ServedStill DEF Inv
  <2>2. CASE x = d /\ drain'[d] = StartOver(d)
    BY <1>1, <1>6, <1>7, <1>8, <2>2, ServedStill, StartOverType DEF Inv
  <2>3. CASE x = d /\ drain'[d] = w
    <3>1. WorkerOK(d) /\ UNCHANGED <<machines, repos, starts>>
      BY <1>1 DEF Inv, WorkersOK, RegisterSession
    <3>2. sessions'[drain[d].session] = [machine |-> drain[d].machine, repo |-> drain[d].canonical]
      BY <1>1 DEF RegisterSession, TypeOK, Worker
    <3>3. QED
      BY <1>2, <2>3, <3>1, <3>2 DEF WorkerOK, SameRun, RegisterSession
  <2>4. QED
    BY <1>4, <2>1, <2>2, <2>3
<1>9. QED
  BY <1>7, <1>8 DEF Inv, InvStep, WorkersOK

(* Draining leaves the registry alone. *)
LEMMA DrainEventStep ==
  ASSUME TypeOK, Inv, NEW d \in Drains, DrainEvent(d)
  PROVE  InvStep
<1>1. drain[d] \in Worker /\ drain[d].pc = "up"
  BY Living DEF DrainEvent
<1>2. StartOver(d) \in Worker /\ SameRun(StartOver(d), drain[d]) /\ StartOver(d).pc = "machine"
  BY <1>1 DEF StartOver, SameRun, Worker
<1>3. /\ \A x \in Drains : x # d => drain'[x] = drain[x]
      /\ drain'[d] \in {drain[d], StartOver(d)}
  BY DEF DrainEvent, TypeOK
<1>4. Kept
  BY <1>1, <1>2, <1>3 DEF Kept, Alive, SameRun
<1>5. Served
  BY <1>4 DEF Served, DrainEvent, host, files, registry
<1>6. HomeOK' /\ RowsStay /\ SessionsOK' /\ HandlersOK'
  BY <1>5, ServedHome, ServedRuns DEF Inv
<1>7. WorkersOK'
  BY <1>2, <1>3, <1>5, <1>6, ServedStill DEF Inv, WorkersOK, DrainEvent, registry
<1>8. QED
  BY <1>6, <1>7 DEF Inv, InvStep

-----------------------------------------------------------------------------
(* The steps of the files and the emitters. *)

(* The id bootstrap_identity leaves in a file was there, or is new. *)
LEMMA BootstrapHome ==
  ASSUME TypeOK, HomeOK, NEW c \in Roots, bootstrap_identity(c),
         \A r \in Repos, b \in Roots : At(r, b)' => At(r, b) \/ (b = c /\ r = Identity(c).repo)
  PROVE  HomeOK'
<1>1. Identity(c).repo \in Repos /\ minted.repos \in Nat
  BY BootstrapType DEF Ids, TypeOK
<1>2. CASE repoFile[c] = None
  <2>1. Identity(c).repo = minted.repos + 1 /\ minted'.repos = minted.repos + 1
    BY <1>2 DEF Identity, bootstrap_identity
  <2>2. \A b \in Roots : ~At(Identity(c).repo, b)
    BY <1>1, <2>1 DEF HomeOK
  <2>3. QED
    BY <1>1, <2>1, <2>2 DEF HomeOK, Repos
<1>3. CASE repoFile[c] # None
  <2>1. Identity(c).repo = repoFile[c] /\ minted'.repos = minted.repos
    BY <1>3 DEF Identity, bootstrap_identity
  <2>2. At(Identity(c).repo, c)
    BY <2>1 DEF At
  <2>3. QED
    BY <1>1, <2>1, <2>2 DEF HomeOK
<1>4. QED
  BY <1>2, <1>3

(* Files may change, or the ids in them: nothing else does. *)
LEMMA FileStep ==
  ASSUME TypeOK, Inv, UNCHANGED <<drain, handlers, machines, repos, sessions, starts>>,
         \/ \A c \in Roots : repoFile'[c] \in {repoFile[c], None} /\ minted' = minted
         \/ \E c \in Roots : bootstrap_identity(c)
  PROVE  InvStep
<1>1. WorkersOK' /\ SessionsOK' /\ HandlersOK' /\ RowsStay
  BY DEF Inv, WorkersOK, WorkerOK, SessionsOK, HandlersOK, RowsStay, Alive
<1>2. CASE \A c \in Roots : repoFile'[c] \in {repoFile[c], None} /\ minted' = minted
  <2>1. \A r \in Repos, c \in Roots : At(r, c)' => At(r, c)
    BY <1>2 DEF At, Alive, Repos, None
  <2>2. HomeOK'
    BY <1>2, <2>1 DEF Inv, HomeOK
  <2>3. QED
    BY <1>1, <2>2 DEF Inv, InvStep
<1>3. ASSUME NEW c \in Roots, bootstrap_identity(c)  PROVE InvStep
  <2>1. repoFile' = [repoFile EXCEPT ![c] = Identity(c).repo] /\ repoFile \in [Roots -> 0 .. minted.repos]
    BY <1>3 DEF bootstrap_identity, TypeOK
  <2>2. \A r \in Repos, b \in Roots : At(r, b)' => At(r, b) \/ (b = c /\ r = Identity(c).repo)
    BY <2>1 DEF At, Alive
  <2>3. HomeOK'
    BY <1>3, <2>2, BootstrapHome DEF Inv
  <2>4. QED
    BY <1>1, <2>3 DEF Inv, InvStep
<1>4. QED
  BY <1>2, <1>3

(* A run starts with a session of its own and the id of its checkout. *)
LEMMA StartDrainStep ==
  ASSUME TypeOK, Inv, NEW d \in Drains, NEW c \in Roots, StartDrain(d, c)
  PROVE  InvStep
<1> DEFINE w == [pc |-> "machine", root |-> c, key |-> apiKey, session |-> starts + 1,
                 machine |-> Identity(c).machine, local |-> Identity(c).repo,
                 canonical |-> None]
<1>1. drain' = [drain EXCEPT ![d] = w] /\ ~Alive(d)
  BY DEF StartDrain, Alive
<1>2. w.pc = "machine" /\ w.session = starts + 1 /\ w.root = c /\ w.local = Identity(c).repo
  OBVIOUS
<1> HIDE DEF w
<1>3. /\ drain'[d] = w /\ Alive(d)'
      /\ \A x \in Drains : x # d => drain'[x] = drain[x] /\ (Alive(x)' <=> Alive(x))
  BY <1>1, <1>2 DEF TypeOK, Alive
<1>4. /\ bootstrap_identity(c) /\ starts' = starts + 1 /\ starts \in Nat
      /\ UNCHANGED <<handlers, machines, repos, sessions>>
      /\ repoFile' = [repoFile EXCEPT ![c] = Identity(c).repo]
      /\ repoFile \in [Roots -> 0 .. minted.repos]
  BY DEF StartDrain, registry, bootstrap_identity, TypeOK
<1>5. \A x \in Drains : Alive(x) => drain[x].session \in Nat /\ drain[x].session <= starts
  <2>1. \A x \in Drains : Alive(x) => drain[x] \in Worker /\ drain[x].session <= starts
    BY Living DEF Alive, Inv, WorkersOK, WorkerOK
  <2>2. QED
    BY <2>1 DEF Worker
<1>6. HomeOK'
  <2>1. \A r \in Repos, b \in Roots : At(r, b)' => At(r, b) \/ (b = c /\ r = Identity(c).repo)
    BY <1>2, <1>3, <1>4 DEF At
  <2>2. QED
    BY <1>4, <2>1, BootstrapHome DEF Inv
<1>7. SessionsOK'
  BY <1>2, <1>3, <1>4, <1>5 DEF Inv, SessionsOK
<1>8. HandlersOK'
  <2>1. \A h \in handlers : h.session \in Nat /\ h.session <= starts /\ h.by \in Drains
    BY DEF TypeOK, Handler, Inv, HandlersOK
  <2>2. QED
    BY <1>2, <1>3, <1>4, <2>1 DEF Inv, HandlersOK
<1>9. WorkersOK'
  <2>1. WorkerOK(d)'
    BY <1>2, <1>3, <1>4 DEF WorkerOK
  <2>2. ASSUME NEW x \in Drains, x # d, Alive(x)'  PROVE WorkerOK(x)'
    <3>1. Alive(x) /\ drain'[x] = drain[x] /\ WorkerOK(x)
      BY <1>3, <2>2 DEF Inv, WorkersOK
    <3>2. drain[x].session <= starts + 1
      BY <1>4, <1>5, <3>1
    <3>3. QED
      BY <1>4, <3>1, <3>2 DEF WorkerOK
  <2>3. QED
    BY <2>1, <2>2 DEF WorkersOK
<1>10. QED
  BY <1>4, <1>6, <1>7, <1>8, <1>9 DEF Inv, InvStep, RowsStay

(* A worker that ends claims nothing more. *)
LEMMA StopDrainStep ==
  ASSUME TypeOK, Inv, NEW d \in Drains, StopDrain(d)
  PROVE  InvStep
<1>1. /\ ~Alive(d)'
      /\ \A x \in Drains : x # d => drain'[x] = drain[x] /\ (Alive(x)' <=> Alive(x))
  BY DEF StopDrain, TypeOK, Alive, Down
<1>2. UNCHANGED <<repoFile, minted, handlers, machines, repos, sessions, starts>>
  BY DEF StopDrain, host, files, registry
<1>3. HomeOK'
  <2>1. \A r \in Repos, c \in Roots : At(r, c)' => At(r, c)
    BY <1>1, <1>2 DEF At
  <2>2. QED
    BY <1>2, <2>1 DEF Inv, HomeOK
<1>4. WorkersOK'
  BY <1>1, <1>2 DEF Inv, WorkersOK, WorkerOK
<1>5. SessionsOK'
  BY <1>1 DEF Inv, SessionsOK
<1>6. HandlersOK'
  BY <1>1, <1>2 DEF Inv, HandlersOK, TypeOK, Handler
<1>7. QED
  BY <1>2, <1>3, <1>4, <1>5, <1>6 DEF Inv, InvStep, RowsStay

(* Every step keeps the invariant, and the rows. *)
LEMMA InvariantStep ==
  ASSUME TypeOK, Inv, [Next]_vars
  PROVE  InvStep
<1>1. CASE UNCHANGED vars
  BY <1>1, FileStep DEF vars
<1>2. CASE WipeMachine
  BY <1>2, FileStep DEF WipeMachine, registry
<1>3. CASE ChangeKey
  BY <1>3, FileStep DEF ChangeKey, files, registry
<1>4. ASSUME NEW c \in Roots, WipeRepo(c)  PROVE InvStep
  BY <1>4, FileStep DEF WipeRepo, registry, TypeOK
<1>5. ASSUME NEW c \in Roots, EmitHook(c)  PROVE InvStep
  BY <1>5, FileStep DEF EmitHook, emit_event, registry
<1>6. ASSUME NEW c \in Roots, StartServer(c)  PROVE InvStep
  BY <1>6, FileStep DEF StartServer, registry
<1>7. CASE EmitServer
  BY <1>7, FileStep DEF EmitServer, emit_event, files, registry
<1>8. CASE StopServer
  BY <1>8, FileStep DEF StopServer, files, registry
<1>9. QED
  BY <1>1, <1>2, <1>3, <1>4, <1>5, <1>6, <1>7, <1>8, StartDrainStep, RequestFailsStep,
     RegisterMachineStep, LookupRepositoryStep, RegisterSessionStep, DrainEventStep,
     StopDrainStep, InsertRepositoryStep DEF Next

(* At first no id is in use and no worker runs. *)
LEMMA InvariantInit ==
  ASSUME Init
  PROVE  TypeOK /\ Inv
<1>1. TypeOK
  BY RegistryAssumption DEF Init, TypeOK, Admin, None
<1>2. \A d \in Drains : ~Alive(d)
  BY DEF Init, Alive, Down
<1>3. \A r \in Repos, c \in Roots : ~At(r, c)
  BY <1>2 DEF Init, At, Repos, None
<1>4. QED
  BY <1>1, <1>2, <1>3 DEF Init, Inv, HomeOK, WorkersOK, SessionsOK, HandlersOK

-----------------------------------------------------------------------------
(* While a checkout keeps its id as long as a process holds a copy of it, the
   copies are right. *)

(* bootstrap_identity changes no id that anybody holds. *)
LEMMA BootstrapCopies ==
  ASSUME TypeOK, CopiesOK, NEW c \in Roots, bootstrap_identity(c)
  PROVE  /\ \A d \in Drains : Alive(d) => drain[d].local = repoFile'[drain[d].root]
         /\ cache # NoServer => cache.repo = repoFile'[cache.root]
         /\ \A b \in Roots : \A e \in outbox[b] : e.repo = repoFile'[b]
<1>1. \A b \in Roots : repoFile[b] # None => repoFile'[b] = repoFile[b]
  BY DEF bootstrap_identity, Identity, TypeOK
<1>2. \A d \in Drains : Alive(d) => drain[d].root \in Roots /\ drain[d].local # None
  BY Living DEF Alive, Worker, Repos, None
<1>3. cache # NoServer => cache.root \in Roots /\ cache.repo # None
  BY DEF TypeOK, Repos, None
<1>4. \A b \in Roots : \A e \in outbox[b] : e.repo # None
  BY DEF TypeOK, Repos, None
<1>5. QED
  BY <1>1, <1>2, <1>3, <1>4 DEF CopiesOK

(* A step of registration or draining changes no copy; draining empties
   outboxes. *)
LEMMA ServedCopies ==
  ASSUME TypeOK, CopiesOK, Kept, UNCHANGED <<repoFile, cache>>,
         \A c \in Roots : outbox'[c] \subseteq outbox[c]
  PROVE  CopiesOK'
BY DEF CopiesOK, Kept, SameRun

(* Every step keeps the copies right. *)
LEMMA CopiesStep ==
  ASSUME TypeOK, Inv, CopiesOK, ~WipeWhileRunning, [Next]_vars
  PROVE  CopiesOK'
<1>1. CASE UNCHANGED vars
  BY <1>1 DEF vars, CopiesOK, Alive
<1>2. CASE WipeMachine
  BY <1>2 DEF WipeMachine, CopiesOK, Alive
<1>3. CASE ChangeKey
  BY <1>3 DEF ChangeKey, files, CopiesOK, Alive
<1>4. ASSUME NEW c \in Roots, WipeRepo(c)  PROVE CopiesOK'
  <2>1. /\ UNCHANGED <<drain, cache>> /\ ~IdsHeld(c)
        /\ repoFile' = [repoFile EXCEPT ![c] = None]
        /\ outbox' = [outbox EXCEPT ![c] = {}]
        /\ repoFile \in [Roots -> 0 .. minted.repos] /\ DOMAIN outbox = Roots
    BY <1>4 DEF WipeRepo, TypeOK
  <2>2. \A d \in Drains : Alive(d) => drain[d].root \in Roots /\ drain[d].root # c
    BY <2>1, Living DEF IdsHeld, Alive, Worker
  <2>3. cache # NoServer => cache.root \in Roots /\ cache.root # c
    BY <2>1 DEF IdsHeld, TypeOK
  <2>4. \A b \in Roots : b # c => repoFile'[b] = repoFile[b] /\ outbox'[b] = outbox[b]
    BY <2>1
  <2>5. outbox'[c] = {}
    BY <2>1
  <2>6. QED
    BY <2>1, <2>2, <2>3, <2>4, <2>5 DEF CopiesOK, Alive
<1>5. ASSUME NEW c \in Roots, EmitHook(c)  PROVE CopiesOK'
  <2>1. /\ bootstrap_identity(c) /\ UNCHANGED <<drain, cache>>
        /\ repoFile'[c] = Identity(c).repo
    BY <1>5, BootstrapType DEF EmitHook, emit_event
  <2>2. \A b \in Roots : \A e \in outbox'[b] :
          e \in outbox[b] \/ (b = c /\ e.repo = Identity(c).repo)
    BY <1>5 DEF EmitHook, emit_event, TypeOK
  <2>3. QED
    BY <2>1, <2>2, BootstrapCopies DEF CopiesOK, Alive
<1>6. ASSUME NEW c \in Roots, StartServer(c)  PROVE CopiesOK'
  <2>1. /\ bootstrap_identity(c) /\ UNCHANGED <<drain, outbox>>
        /\ repoFile'[c] = Identity(c).repo
        /\ cache'.root = c /\ cache'.repo = Identity(c).repo
    BY <1>6, BootstrapType DEF StartServer
  <2>2. QED
    BY <2>1, BootstrapCopies DEF CopiesOK, Alive
<1>7. CASE EmitServer
  <2>1. UNCHANGED <<drain, cache, repoFile>> /\ cache # NoServer
    BY <1>7 DEF EmitServer, emit_event, files
  <2>2. \A b \in Roots : \A e \in outbox'[b] :
          e \in outbox[b] \/ (b = cache.root /\ e.repo = cache.repo)
    BY <1>7 DEF EmitServer, emit_event, TypeOK
  <2>3. QED
    BY <2>1, <2>2 DEF CopiesOK, Alive
<1>8. CASE StopServer
  BY <1>8 DEF StopServer, files, CopiesOK, Alive
<1>9. ASSUME NEW d \in Drains, NEW c \in Roots, StartDrain(d, c)  PROVE CopiesOK'
  <2>1. /\ bootstrap_identity(c) /\ UNCHANGED <<cache, outbox>>
        /\ repoFile'[c] = Identity(c).repo
        /\ drain'[d].root = c /\ drain'[d].local = Identity(c).repo
        /\ \A x \in Drains : x # d => drain'[x] = drain[x]
    BY <1>9, BootstrapType DEF StartDrain, TypeOK
  <2>2. QED
    BY <2>1, BootstrapCopies DEF CopiesOK, Alive
<1>10. ASSUME NEW d \in Drains, RequestFails(d)  PROVE CopiesOK'
  <2>1. drain[d] \in Worker
    BY <1>10, Living DEF RequestFails
  <2>2. StartOver(d) \in Worker /\ SameRun(StartOver(d), drain[d]) /\ StartOver(d).pc = "machine"
    BY <2>1 DEF StartOver, SameRun, Worker
  <2>3. Kept
    BY <1>10, <2>2 DEF Kept, Alive, SameRun, RequestFails, TypeOK
  <2>4. QED
    BY <1>10, <2>3, ServedCopies DEF RequestFails, host, files
<1>11. ASSUME NEW d \in Drains, RegisterMachine(d)  PROVE CopiesOK'
  <2>1. drain[d] \in Worker
    BY <1>11, Living DEF RegisterMachine
  <2>2. [drain[d] EXCEPT !.pc = "repo"] \in Worker /\ SameRun([drain[d] EXCEPT !.pc = "repo"], drain[d])
    BY <2>1 DEF Worker, SameRun
  <2>3. Kept
    BY <1>11, <2>1, <2>2, AnsweredKeeps DEF RegisterMachine
  <2>4. QED
    BY <1>11, <2>3, ServedCopies DEF RegisterMachine, host, files
<1>12. ASSUME NEW d \in Drains, LookupRepository(d)  PROVE CopiesOK'
  BY <1>12, LookupSteps, ServedCopies DEF LookupRepository, LookupEffect, host, files
<1>13. ASSUME NEW d \in Drains, RegisterSession(d)  PROVE CopiesOK'
  <2>1. drain[d] \in Worker
    BY <1>13, Living DEF RegisterSession
  <2>2. [drain[d] EXCEPT !.pc = "up"] \in Worker /\ SameRun([drain[d] EXCEPT !.pc = "up"], drain[d])
    BY <2>1 DEF Worker, SameRun
  <2>3. Kept
    BY <1>13, <2>1, <2>2, AnsweredKeeps DEF RegisterSession
  <2>4. QED
    BY <1>13, <2>3, ServedCopies DEF RegisterSession, host, files
<1>14. ASSUME NEW d \in Drains, DrainEvent(d)  PROVE CopiesOK'
  <2>1. drain[d] \in Worker
    BY <1>14, Living DEF DrainEvent
  <2>2. StartOver(d) \in Worker /\ SameRun(StartOver(d), drain[d])
    BY <2>1 DEF StartOver, SameRun, Worker
  <2>3. /\ \A x \in Drains : x # d => drain'[x] = drain[x]
        /\ drain'[d] \in {drain[d], StartOver(d)}
        /\ \/ outbox' = outbox
           \/ \E e \in outbox[drain[d].root] : outbox' = [outbox EXCEPT ![drain[d].root] = @ \ {e}]
    BY <1>14 DEF DrainEvent, TypeOK
  <2>4. drain[d].pc # "down" /\ StartOver(d).pc # "down"
    BY <2>1, <2>2 DEF Worker
  <2>5. Kept
    BY <2>2, <2>3, <2>4 DEF Kept, Alive, SameRun
  <2>6. \A c \in Roots : outbox'[c] \subseteq outbox[c]
    BY <2>3 DEF TypeOK
  <2>7. QED
    BY <1>14, <2>5, <2>6, ServedCopies DEF DrainEvent, host, files
<1>15. ASSUME NEW d \in Drains, StopDrain(d)  PROVE CopiesOK'
  <2>1. ~Alive(d)' /\ \A x \in Drains : x # d => drain'[x] = drain[x]
    BY <1>15 DEF StopDrain, TypeOK, Alive, Down
  <2>2. QED
    BY <1>15, <2>1 DEF StopDrain, host, files, CopiesOK, Alive
<1>16. CASE InsertRepository
  BY <1>16, InsertSteps, ServedCopies DEF InsertRepository, InsertEffect, host, files
<1>17. QED
  BY <1>1, <1>2, <1>3, <1>4, <1>5, <1>6, <1>7, <1>8, <1>9, <1>10, <1>11, <1>12, <1>13,
     <1>14, <1>15, <1>16 DEF Next

(* An event is stored by a registered worker, under the canonical id of the
   checkout it was emitted in; its row stays. *)
LEMMA EventsStep ==
  ASSUME TypeOK, Inv, CopiesOK, EventsUnderTheirCheckout, RowsStay, [Next]_vars
  PROVE  EventsUnderTheirCheckout'
<1>1. log \subseteq [n : 1 .. MaxEvents, root : Roots, repo : Repos]
  BY DEF TypeOK
<1>2. CASE log' = log
  BY <1>1, <1>2 DEF EventsUnderTheirCheckout, RowsStay
<1>3. ASSUME NEW d \in Drains, DrainEvent(d)  PROVE EventsUnderTheirCheckout'
  <2>1. PICK e \in outbox[drain[d].root] : Ingest(drain[d], e)
    BY <1>3 DEF DrainEvent
  <2>2. drain[d] \in Worker /\ WorkerOK(d) /\ drain[d].pc = "up"
    BY <1>3, Living DEF DrainEvent, Inv, WorkersOK, Alive
  <2>3. e.repo = drain[d].local
    BY <2>2 DEF CopiesOK, Alive, Worker
  <2>4. OutgoingRepository(drain[d], e) = drain[d].canonical
    BY <2>3 DEF OutgoingRepository
  <2>5. /\ drain[d].canonical \in Repos /\ repos[drain[d].canonical] # NoRow
        /\ repos[drain[d].canonical].root = drain[d].root
    BY <2>2 DEF WorkerOK
  <2>6. \A x \in log' : x \in log \/
          x = [n |-> e.n, root |-> drain[d].root, repo |-> OutgoingRepository(drain[d], e)]
    BY <2>1 DEF Ingest
  <2>7. \A x \in log' : x \in log \/ (x.root = drain[d].root /\ x.repo = drain[d].canonical)
    BY <2>4, <2>6
  <2>8. QED
    BY <1>1, <2>5, <2>7 DEF EventsUnderTheirCheckout, RowsStay
<1>4. log' = log \/ \E d \in Drains : DrainEvent(d)
  BY DEF Next, vars, WipeMachine, ChangeKey, WipeRepo, EmitHook, EmitServer, emit_event,
     StartServer, StopServer, StartDrain, RequestFails, RegisterMachine, LookupRepository,
     RegisterSession, StopDrain, InsertRepository, ingested
<1>5. QED
  BY <1>2, <1>3, <1>4

-----------------------------------------------------------------------------
(* Type correctness of the files, the workers and the registry. *)
THEOREM RegistryTypeCorrect == Spec => []TypeOK
<1>1. Init => TypeOK /\ Inv
  BY InvariantInit
<1>2. TypeOK /\ Inv /\ [Next]_vars => (TypeOK /\ Inv)'
  BY TypeStep, InvariantStep DEF Inv, InvStep
<1>3. QED
  BY <1>1, <1>2, PTL DEF Spec

(* A worker that takes itself for registered is (_register_once,
   upsert_repository), with any wipes, re-pointed rows and racing handlers. *)
THEOREM RegisteredWorkersAreKnown == Spec => []RegisteredIsKnown
<1>1. Init => TypeOK /\ Inv
  BY InvariantInit
<1>2. TypeOK /\ Inv /\ [Next]_vars => (TypeOK /\ Inv)'
  BY TypeStep, InvariantStep DEF Inv, InvStep
<1>3. Inv => RegisteredIsKnown
  BY DEF Inv, WorkersOK, WorkerOK, Alive, RegisteredIsKnown
<1>4. QED
  BY <1>1, <1>2, <1>3, PTL DEF Spec

(* When no checkout loses its id under a running process, every stored event
   is filed under the checkout it was emitted in (_outgoing_event). *)
THEOREM EventsStayWithTheirCheckout ==
  ASSUME WipeWhileRunning = FALSE
  PROVE  Spec => []EventsUnderTheirCheckout
<1>1. Init => TypeOK /\ Inv /\ CopiesOK /\ EventsUnderTheirCheckout
  BY InvariantInit DEF Init, CopiesOK, EventsUnderTheirCheckout, Alive, Down
<1>2. TypeOK /\ Inv /\ CopiesOK /\ EventsUnderTheirCheckout /\ [Next]_vars
      => (TypeOK /\ Inv /\ CopiesOK /\ EventsUnderTheirCheckout)'
  BY TypeStep, InvariantStep, CopiesStep, EventsStep DEF Inv, InvStep
<1>3. QED
  BY <1>1, <1>2, PTL DEF Spec
=============================================================================

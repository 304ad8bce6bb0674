----------------------------- MODULE Companions -----------------------------
(***************************************************************************)
(* The two companion processes an MCP server starts (mcp/server.py): the   *)
(* graph UI on a TCP port (mcp/graph_server.py) and the outbox drain       *)
(* (mcp/sync_server.py).  Several servers run for one repository and share *)
(* an owner file per port and one pidfile.  The operating system's part is *)
(* a process table with pids that are used again, zombies that stay until  *)
(* their parent polls them, ports, and the signal a child gets when its    *)
(* parent dies.                                                            *)
(***************************************************************************)
EXTENDS Integers, FiniteSets

CONSTANTS
  Servers,     \* MCP server processes
  Pids,        \* pids of all other processes
  Ports,       \* the configured port, 1, and the ones above it
  None

ASSUME CompanionsAssumption == 1 \in Ports /\ Ports \subseteq Nat \ {0} /\ None \notin Pids \cup Servers

VARIABLES
  mode,        \* which companion this installation starts, is the port pinned
  up,          \* servers that are running
  at,          \* what a server is doing about a companion
  drain,       \* sync_process
  root,        \* _sync_repo_root is set
  flask,       \* flask_process
  owned,       \* _owned_port
  proc,        \* the process table
  pidfile,     \* drain.pid: the pid and whether the file has expired
  owner,       \* graph_server-<port>.owner.json
  overlap,     \* history: an event after which two drains are possible
  retired,     \* history: servers whose drain ended cleanly
  harm,        \* history: a process was terminated that was not a wedged graph server
  excused      \* history: a recorded pid was used again, or the port changed hands

server == <<up, at, drain, root, flask, owned>>
files == <<pidfile, owner>>
history == <<overlap, retired, harm, excused>>
vars == <<mode, server, proc, files, history>>

Free == [kind |-> "free", parent |-> None, port |-> 0, sick |-> FALSE]
Ready == [todo |-> "ready", port |-> 0]

Init ==
  /\ mode \in {"sync", "graph", "pinned graph"}
  /\ up = [s \in Servers |-> FALSE]
  /\ at = [s \in Servers |-> Ready]
  /\ drain = [s \in Servers |-> None]
  /\ root = [s \in Servers |-> FALSE]
  /\ flask = [s \in Servers |-> None]
  /\ owned = [s \in Servers |-> 0]
  /\ proc = [p \in Pids |-> Free]
  /\ pidfile = [pid |-> None, expired |-> FALSE]
  /\ owner = [n \in Ports |-> None]
  /\ overlap = FALSE /\ retired = {} /\ harm = FALSE /\ excused = FALSE

Alive(p) == p # None /\ proc[p].kind # "free"
Live(p) == Alive(p) /\ proc[p].kind \notin {"crashed", "ended"}
Drains == {p \in Pids : proc[p].kind = "drain"}
Holder(n) == IF \E p \in Pids : proc[p].port = n THEN CHOOSE p \in Pids : proc[p].port = n ELSE None

Pinned == mode = "pinned graph"
(* The first port above the configured one that can be bound.              *)
FindFreePort ==
  LET free == {n \in Ports \ {1} : Holder(n) = None}
  IN IF free = {} THEN 0 ELSE CHOOSE n \in free : \A k \in free : n <= k

Doing(s, what) == at' = [at EXCEPT ![s].todo = what]

(* ensure_agent_os, called once when a server starts.                      *)
StartServer(s) ==
  /\ ~up[s]
  /\ up' = [up EXCEPT ![s] = TRUE]
  /\ Doing(s, IF mode = "sync" THEN "look for drain" ELSE "look at port")
  /\ UNCHANGED <<mode, drain, root, flask, owned, proc, files, history>>

-----------------------------------------------------------------------------
(* The drain *)

AnotherDrainRunning(s) ==
  /\ pidfile.pid # None /\ pidfile.pid # drain[s]
  /\ ~pidfile.expired
  /\ Alive(pidfile.pid)

(* start_sync_worker up to the pidfile check; a zombie passes for alive.   *)
LookForDrain(s) ==
  /\ at[s].todo = "look for drain"
  /\ Doing(s, IF AnotherDrainRunning(s) THEN "ready" ELSE "spawn drain")
  /\ overlap' = (overlap \/ (~AnotherDrainRunning(s) /\ \E t \in Servers \ {s} : at[t].todo = "spawn drain"))
  /\ UNCHANGED <<mode, up, drain, root, flask, owned, proc, files, retired, harm, excused>>

RecordedPidKept(p) == IF pidfile.pid = None THEN [pid |-> p, expired |-> FALSE] ELSE pidfile
RecordedPid(p) == [pid |-> p, expired |-> FALSE]

SpawnDrain(s) ==
  /\ at[s].todo = "spawn drain"
  /\ \E p \in Pids :
       /\ proc[p].kind = "free"
       /\ proc' = [proc EXCEPT ![p] = [Free EXCEPT !.kind = "drain", !.parent = s]]
       /\ drain' = [drain EXCEPT ![s] = p]
       /\ pidfile' = RecordedPid(p)
  /\ root' = [root EXCEPT ![s] = TRUE]
  /\ Doing(s, "ready")
  /\ UNCHANGED <<mode, up, flask, owned, owner, history>>

SpawnDrainFails(s) ==
  /\ at[s].todo = "spawn drain"
  /\ Doing(s, "ready")
  /\ UNCHANGED <<mode, up, drain, root, flask, owned, proc, files, history>>

(* Removing the pidfile takes away whatever it says, and a live drain of   *)
(* another server is then no longer known.                                 *)
RemovesOthers(s) == pidfile.pid \in Drains /\ pidfile.pid # drain[s]
RemovePidfile == pidfile' = [pid |-> None, expired |-> FALSE]

(* check_sync_worker_health: poll reaps an ended child.  One that ended    *)
(* cleanly is not started again.                                           *)
Respawn(p) == proc[p].kind = "crashed"

CheckSyncWorkerHealth(s) ==
  /\ up[s] /\ at[s].todo = "ready" /\ root[s] /\ drain[s] # None /\ ~Live(drain[s])
  /\ proc' = [proc EXCEPT ![drain[s]] = Free]
  /\ drain' = [drain EXCEPT ![s] = None]
  /\ IF Respawn(drain[s])
     THEN /\ Doing(s, "look for drain")
          /\ UNCHANGED <<pidfile, overlap>>
     ELSE /\ RemovePidfile
          /\ overlap' = (overlap \/ RemovesOthers(s))
          /\ UNCHANGED at
  /\ retired' = IF proc[drain[s]].kind = "ended" THEN retired \cup {s} ELSE retired
  /\ UNCHANGED <<mode, up, root, flask, owned, owner, harm, excused>>

(* A drain that runs stops by itself: with code 0 when it is misconfigured *)
(* or disabled, or it crashes.                                             *)
DrainExits(p) ==
  /\ p \in Drains
  /\ \E how \in {"crashed", "ended"} : proc' = [proc EXCEPT ![p].kind = how]
  /\ UNCHANGED <<mode, server, files, history>>

(* The pidfile's mtime is that of the spawn; twelve hours go by.           *)
PidfileExpires ==
  /\ pidfile.pid # None /\ ~pidfile.expired
  /\ pidfile' = [pidfile EXCEPT !.expired = TRUE]
  /\ overlap' = (overlap \/ pidfile.pid \in Drains)
  /\ UNCHANGED <<mode, server, proc, owner, retired, harm, excused>>

-----------------------------------------------------------------------------
(* The graph server *)

Healthy(n) == Holder(n) # None /\ proc[Holder(n)].kind = "graph" /\ ~proc[Holder(n)].sick

(* start_graph_server: nothing listens on the port, or /health is probed;  *)
(* a healthy server is used as it is.                                      *)
LookAtPort(s) ==
  /\ at[s].todo = "look at port"
  /\ at' = [at EXCEPT ![s] =
       IF Holder(1) = None THEN [todo |-> "spawn graph", port |-> 1]
       ELSE IF Healthy(1) THEN Ready
       ELSE [todo |-> "resolve", port |-> 1]]
  /\ UNCHANGED <<mode, up, drain, root, flask, owned, proc, files, history>>

(* _owned_stale_pid: the recorded pid, if that process is alive.           *)
HolderOfPort == Holder(1)
OwnedStalePid == IF Alive(owner[1]) THEN owner[1] ELSE None

(* SIGTERM ends p; its parent, if that is a server, has yet to poll it.    *)
Terminate(p) ==
  /\ proc' = [proc EXCEPT ![p] = IF @.kind = "foreign" THEN Free ELSE [@ EXCEPT !.kind = "crashed", !.port = 0]]
  /\ harm' = (harm \/ proc[p].kind = "foreign" \/ (proc[p].kind = "graph" /\ proc[p].port # 0 /\ ~proc[p].sick))

RecordedOwner(n, p) == [owner EXCEPT ![n] = p]
ClearOwnerFile(n) == owner' = [owner EXCEPT ![n] = None]

(* The recorded process is told to terminate and the port is free in time. *)
ReclaimPort(s) ==
  LET p == OwnedStalePid
  IN /\ at[s].todo = "resolve" /\ p # None
     /\ \A q \in Pids \ {p} : proc[q].port # 1
     /\ Terminate(p)
     /\ ClearOwnerFile(1)
     /\ at' = [at EXCEPT ![s] = [todo |-> "spawn graph", port |-> 1]]
     /\ UNCHANGED <<mode, up, drain, root, flask, owned, pidfile, overlap, retired, excused>>

(* Or nobody is recorded, or it was told and the port is still held by     *)
(* somebody: another port unless the port is pinned.                       *)
Relocate(s) ==
  LET p == OwnedStalePid
  IN /\ at[s].todo = "resolve"
     /\ \/ p = None /\ UNCHANGED <<proc, harm>>
        \/ p # None /\ (\E q \in Pids \ {p} : proc[q].port = 1) /\ Terminate(p)
     /\ at' = [at EXCEPT ![s] =
          IF Pinned \/ FindFreePort = 0 THEN Ready ELSE [todo |-> "spawn graph", port |-> FindFreePort]]
     /\ UNCHANGED <<mode, up, drain, root, flask, owned, files, overlap, retired, excused>>

SpawnGraphServer(s) ==
  /\ at[s].todo = "spawn graph"
  /\ \E p \in Pids :
       /\ proc[p].kind = "free"
       /\ proc' = [proc EXCEPT ![p] = [Free EXCEPT !.kind = "graph", !.parent = s]]
       /\ flask' = [flask EXCEPT ![s] = p]
       /\ owner' = RecordedOwner(at[s].port, p)
       /\ excused' = (excused \/ \E n \in Ports \ {at[s].port} : owner[n] = p)
  /\ owned' = [owned EXCEPT ![s] = at[s].port]
  /\ at' = [at EXCEPT ![s] = Ready]
  /\ UNCHANGED <<mode, up, drain, root, pidfile, overlap, retired, harm>>

SpawnGraphServerFails(s) ==
  /\ at[s].todo = "spawn graph"
  /\ at' = [at EXCEPT ![s] = Ready]
  /\ UNCHANGED <<mode, up, drain, root, flask, owned, proc, files, history>>

(* The child binds its port, or exits because somebody else holds it.      *)
BindPort(p) ==
  /\ proc[p].kind = "graph" /\ proc[p].port = 0
  /\ LET n == owned[proc[p].parent]
     IN /\ proc' = [proc EXCEPT ![p] = IF Holder(n) = None THEN [@ EXCEPT !.port = n] ELSE [@ EXCEPT !.kind = "crashed"]]
        /\ excused' = (excused \/ (Holder(n) = None /\ n = 1 /\ \E s \in Servers : at[s].todo = "resolve"))
  /\ UNCHANGED <<mode, server, files, overlap, retired, harm>>

(* It hangs or it crashes.                                                 *)
GraphServerFails(p) ==
  /\ proc[p].kind = "graph" /\ proc[p].port # 0
  /\ proc' \in {[proc EXCEPT ![p].sick = TRUE], [proc EXCEPT ![p].kind = "crashed", ![p].port = 0]}
  /\ UNCHANGED <<mode, server, files, history>>

(* _check_graph_server_health                                              *)
Exited(s) == flask[s] # None /\ ~Live(flask[s])

CheckGraphServerHealth(s) ==
  /\ up[s] /\ at[s].todo = "ready" /\ Exited(s)
  /\ proc' = [proc EXCEPT ![flask[s]] = IF Live(flask[s]) THEN @ ELSE Free]
  /\ flask' = [flask EXCEPT ![s] = None]
  /\ Doing(s, "look at port")
  /\ UNCHANGED <<mode, up, drain, root, owned, files, history>>

-----------------------------------------------------------------------------
(* Servers and foreign processes come and go *)

(* Each child is terminated and waited for.  The owner file of the port    *)
(* this server last used and, if it ever had a drain, the pidfile go too,  *)
(* whoever they are about by now.                                          *)
ShutdownFlask(s) ==
  /\ IF owned[s] # 0 THEN ClearOwnerFile(owned[s]) ELSE UNCHANGED owner
  /\ flask' = [flask EXCEPT ![s] = None]
  /\ owned' = [owned EXCEPT ![s] = 0]

ShutdownSyncWorker(s) ==
  /\ IF root[s] THEN RemovePidfile ELSE UNCHANGED pidfile
  /\ overlap' = (overlap \/ (root[s] /\ RemovesOthers(s)))
  /\ drain' = [drain EXCEPT ![s] = None]
  /\ root' = [root EXCEPT ![s] = FALSE]

(* shutdown_db, at exit                                                    *)
Shutdown(s) ==
  /\ up[s] /\ at[s].todo = "ready"
  /\ ShutdownFlask(s) /\ ShutdownSyncWorker(s)
  /\ proc' = [p \in Pids |-> IF p \in {drain[s], flask[s]} THEN Free ELSE proc[p]]
  /\ up' = [up EXCEPT ![s] = FALSE]
  /\ retired' = retired \ {s}
  /\ UNCHANGED <<mode, at, harm, excused>>

(* The server is killed; the kernel signals its children, files stay.      *)
ChildrenSpared(s) == proc
ChildrenKilled(s) == [p \in Pids |-> IF proc[p].parent = s THEN Free ELSE proc[p]]

Killed(s) ==
  /\ up[s]
  /\ proc' = ChildrenKilled(s)
  /\ up' = [up EXCEPT ![s] = FALSE] /\ at' = [at EXCEPT ![s] = Ready]
  /\ drain' = [drain EXCEPT ![s] = None] /\ flask' = [flask EXCEPT ![s] = None]
  /\ root' = [root EXCEPT ![s] = FALSE] /\ owned' = [owned EXCEPT ![s] = 0]
  /\ retired' = retired \ {s}
  /\ UNCHANGED <<mode, files, overlap, harm, excused>>

(* A program of the user's starts, perhaps on the port, and gets a pid     *)
(* that may still be on record; it ends.                                   *)
ForeignStarts(p) ==
  /\ proc[p].kind = "free" /\ \A q \in Pids : proc[q].kind # "foreign"
  /\ \E n \in {0} \cup {n \in Ports : Holder(n) = None} :
       proc' = [proc EXCEPT ![p] = [Free EXCEPT !.kind = "foreign", !.port = n]]
  /\ excused' = (excused \/ \E n \in Ports : owner[n] = p)
  /\ UNCHANGED <<mode, server, files, overlap, retired, harm>>

ForeignEnds(p) ==
  /\ proc[p].kind = "foreign"
  /\ proc' = [proc EXCEPT ![p] = Free]
  /\ UNCHANGED <<mode, server, files, history>>

Next ==
  \/ \E s \in Servers :
       \/ StartServer(s) \/ Shutdown(s) \/ Killed(s)
       \/ LookForDrain(s) \/ SpawnDrain(s) \/ SpawnDrainFails(s) \/ CheckSyncWorkerHealth(s)
       \/ LookAtPort(s) \/ ReclaimPort(s) \/ Relocate(s) \/ SpawnGraphServer(s)
       \/ SpawnGraphServerFails(s) \/ CheckGraphServerHealth(s)
  \/ \E p \in Pids : DrainExits(p) \/ BindPort(p) \/ GraphServerFails(p) \/ ForeignStarts(p) \/ ForeignEnds(p)
  \/ PidfileExpires

Spec == Init /\ [][Next]_vars

-----------------------------------------------------------------------------
(* Properties *)

(* The variables have their types; in particular a server that is down has *)
(* no child and a port is held by one process.                             *)
TypeOK ==
  /\ mode \in {"sync", "graph", "pinned graph"}
  /\ up \in [Servers -> BOOLEAN] /\ root \in [Servers -> BOOLEAN]
  /\ at \in [Servers -> [todo : {"ready", "look for drain", "spawn drain", "look at port", "resolve", "spawn graph"},
                          port : {0} \cup Ports]]
  /\ drain \in [Servers -> Pids \cup {None}] /\ flask \in [Servers -> Pids \cup {None}]
  /\ owned \in [Servers -> {0} \cup Ports]
  /\ proc \in [Pids -> [kind : {"free", "drain", "graph", "crashed", "ended", "foreign"},
                        parent : Servers \cup {None}, port : {0} \cup Ports, sick : BOOLEAN]]
  /\ pidfile \in [pid : Pids \cup {None}, expired : BOOLEAN]
  /\ owner \in [Ports -> Pids \cup {None}]
  /\ overlap \in BOOLEAN /\ retired \subseteq Servers /\ harm \in BOOLEAN /\ excused \in BOOLEAN
  /\ \A s \in Servers : ~up[s] => drain[s] = None /\ flask[s] = None
  /\ \A p, q \in Pids : proc[p].port # 0 /\ proc[p].port = proc[q].port => p = q

(* No companion outlives its server, however the server ended              *)
(* (_make_pdeathsig_preexec, the job object and the exit handler together),*)
(* and the server that is up still holds the handle of every one it        *)
(* started: none is lost when a child is replaced.                         *)
NoOrphan ==
  \A p \in Pids : proc[p].kind \in {"drain", "graph"} =>
    LET s == proc[p].parent IN up[s] /\ p \in {drain[s], flask[s]}

(* A drain that stopped on purpose (exit code 0) is never started again by *)
(* the server that had it, so a bad configuration is no crash loop.        *)
CleanExitStays == \A s \in retired : drain[s] = None /\ at[s].todo = "ready"

(* The companions of a server are accounted for: none is lost, shared or   *)
(* started again against its will.                                         *)
ChildrenAccounted == TypeOK /\ NoOrphan /\ CleanExitStays

(* Two drains work on one outbox only after one of the three events that   *)
(* defeat the pidfile: two servers checked it before either wrote it, a    *)
(* server removed the file of another one's drain, or a live drain's file  *)
(* grew older than _PIDFILE_STALE_SECONDS.  A crash, a respawn, a recycled *)
(* pid and a killed server never lead to it by themselves.                 *)
SoleDrain == Cardinality(Drains) > 1 => overlap

(* Recovering the port terminates nothing but a graph server that has      *)
(* stopped answering, unless the recorded pid was meanwhile used again or  *)
(* the port changed hands between the probe and the signal.                *)
TerminatesOnlyWedged == harm => excused
=============================================================================

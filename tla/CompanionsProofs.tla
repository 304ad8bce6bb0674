-------------------------- MODULE CompanionsProofs --------------------------
(***************************************************************************)
(* Proofs about module Companions, for any number of servers, processes    *)
(* and ports: every companion is accounted for, two drains run only after  *)
(* one of the events that defeat the pidfile, and port recovery terminates *)
(* nothing but a graph server that has stopped answering.                  *)
(***************************************************************************)
EXTENDS Companions, FiniteSetTheorems, WellFoundedInduction, TLAPS

AtDrain == {"look for drain", "spawn drain"}
AtGraph == {"look at port", "resolve", "spawn graph"}
Stages == {"ready"} \cup AtDrain \cup AtGraph
Kinds == {"free", "drain", "graph", "crashed", "ended", "foreign"}
ProcType == [kind : Kinds, parent : Servers \cup {None}, port : {0} \cup Ports, sick : BOOLEAN]

ServerTypes ==
  /\ up \in [Servers -> BOOLEAN] /\ root \in [Servers -> BOOLEAN]
  /\ at \in [Servers -> [todo : Stages, port : {0} \cup Ports]]
  /\ drain \in [Servers -> Pids \cup {None}] /\ flask \in [Servers -> Pids \cup {None}]
  /\ owned \in [Servers -> {0} \cup Ports]

SharedTypes ==
  /\ mode \in {"sync", "graph", "pinned graph"}
  /\ pidfile \in [pid : Pids \cup {None}, expired : BOOLEAN]
  /\ owner \in [Ports -> Pids \cup {None}]
  /\ overlap \in BOOLEAN /\ retired \subseteq Servers /\ harm \in BOOLEAN /\ excused \in BOOLEAN

Types == ServerTypes /\ SharedTypes /\ proc \in [Pids -> ProcType]

PortsHeldOnce == \A p, q \in Pids : proc[p].port # 0 /\ proc[p].port = proc[q].port => p = q

(* An installation starts one kind of companion.                           *)
OneKind ==
  /\ mode = "sync" => \A s \in Servers : flask[s] = None /\ at[s].todo \notin AtGraph
  /\ mode # "sync" => \A s \in Servers : drain[s] = None /\ at[s].todo \notin AtDrain

(* A server with something to do about a companion is up and has none.     *)
Vacant ==
  \A s \in Servers :
    /\ ~up[s] => at[s].todo = "ready" /\ drain[s] = None /\ flask[s] = None
    /\ at[s].todo \in AtDrain => drain[s] = None
    /\ at[s].todo \in AtGraph => flask[s] = None

(* A handle is about a child of the server that holds it, and a companion  *)
(* is known to its parent.                                                 *)
Handles ==
  /\ \A s \in Servers :
       /\ drain[s] # None => proc[drain[s]].parent = s /\ proc[drain[s]].kind \in {"drain", "crashed", "ended"}
       /\ flask[s] # None => proc[flask[s]].parent = s /\ proc[flask[s]].kind \in {"graph", "crashed", "ended"}
  /\ \A p \in Pids :
       /\ proc[p].kind = "drain" => proc[p].parent \in Servers /\ drain[proc[p].parent] = p
       /\ proc[p].kind = "graph" => proc[p].parent \in Servers /\ flask[proc[p].parent] = p

Retirement == \A s \in retired : up[s] /\ drain[s] = None /\ at[s].todo = "ready" /\ mode = "sync"

(* Until the pidfile is defeated it names every drain, and a server that   *)
(* is about to start one is alone.                                         *)
Named ==
  ~overlap =>
    /\ \A p \in Drains : pidfile.pid = p /\ ~pidfile.expired
    /\ \A s, t \in Servers : at[s].todo = "spawn drain" /\ at[t].todo = "spawn drain" => s = t
    /\ \A s \in Servers : at[s].todo = "spawn drain" => Drains = {}

(* Unless a pid was used again, the owner file of the configured port      *)
(* names a graph server of that port, a dead process or a child; and while *)
(* a server resolves a conflict, no healthy one listens there.             *)
Recorded ==
  ~excused =>
    /\ ~harm
    /\ owner[1] # None =>
         /\ proc[owner[1]].kind # "foreign"
         /\ proc[owner[1]].kind = "graph" => proc[owner[1]].port \in {0, 1} /\ owned[proc[owner[1]].parent] = 1
    /\ \A s \in Servers : at[s].todo = "resolve" =>
         \A p \in Pids : proc[p].kind = "graph" /\ proc[p].port = 1 => proc[p].sick

Inv == Types /\ PortsHeldOnce /\ OneKind /\ Vacant /\ Handles /\ Retirement /\ Named /\ Recorded

-----------------------------------------------------------------------------
(* Ports and records                                                       *)

LEMMA HolderFound ==
  ASSUME NEW n
  PROVE  /\ Holder(n) = None => \A p \in Pids : proc[p].port # n
         /\ Holder(n) # None => Holder(n) \in Pids /\ proc[Holder(n)].port = n
BY CompanionsAssumption DEF Holder

LEMMA LeastNat ==
  ASSUME NEW S \in SUBSET Nat, S # {}
  PROVE  \E k \in S : \A j \in S : k <= j
<1>1. PICK k \in S : \A j \in S : ~(<<j, k>> \in OpToRel(<, Nat))
  BY NatLessThanWellFounded, WFMin
<1>2. \A j \in S : ~(j < k)
  BY <1>1 DEF OpToRel
<1> QED
  BY <1>2

LEMMA FreePort == FindFreePort \in {0} \cup Ports
<1> DEFINE free == {n \in Ports \ {1} : Holder(n) = None}
<1>1. free \subseteq Nat /\ free \subseteq Ports
  BY CompanionsAssumption
<1>2. free # {} => \E n \in free : \A k \in free : n <= k
  <2> HIDE DEF free
  <2> QED
    BY <1>1, LeastNat
<1> QED
  BY <1>1, <1>2 DEF FindFreePort

(* The record of one server, or of one process, is replaced by another.    *)
LEMMA StagePut ==
  ASSUME ServerTypes, NEW s \in Servers, NEW what \in Stages
  PROVE  [at EXCEPT ![s].todo = what] \in [Servers -> [todo : Stages, port : {0} \cup Ports]]
BY DEF ServerTypes

LEMMA ProcPut ==
  ASSUME proc \in [Pids -> ProcType], NEW p \in Pids, NEW x \in ProcType
  PROVE  [proc EXCEPT ![p] = x] \in [Pids -> ProcType]
OBVIOUS

LEMMA Records ==
  /\ Free \in ProcType /\ Ready \in [todo : Stages, port : {0} \cup Ports]
  /\ \A s \in Servers : /\ [Free EXCEPT !.kind = "drain", !.parent = s] \in ProcType
                         /\ [Free EXCEPT !.kind = "graph", !.parent = s] \in ProcType
  /\ \A n \in {0} \cup Ports : [Free EXCEPT !.kind = "foreign", !.port = n] \in ProcType
  /\ \A x \in ProcType, n \in {0} \cup Ports, k \in Kinds :
       /\ [x EXCEPT !.kind = k] \in ProcType /\ [x EXCEPT !.port = n] \in ProcType
       /\ [x EXCEPT !.kind = k, !.port = n] \in ProcType /\ [x EXCEPT !.sick = TRUE] \in ProcType
<1>1. Free \in ProcType
  BY DEF Free, ProcType, Kinds
<1>2. Ready \in [todo : Stages, port : {0} \cup Ports]
  BY DEF Ready, Stages
<1>3. ASSUME NEW s \in Servers
      PROVE  /\ [Free EXCEPT !.kind = "drain", !.parent = s] \in ProcType
             /\ [Free EXCEPT !.kind = "graph", !.parent = s] \in ProcType
  BY DEF Free, ProcType, Kinds
<1>4. ASSUME NEW n \in {0} \cup Ports PROVE [Free EXCEPT !.kind = "foreign", !.port = n] \in ProcType
  BY DEF Free, ProcType, Kinds
<1>5. ASSUME NEW x \in ProcType, NEW n \in {0} \cup Ports, NEW k \in Kinds
      PROVE  /\ [x EXCEPT !.kind = k] \in ProcType /\ [x EXCEPT !.port = n] \in ProcType
             /\ [x EXCEPT !.kind = k, !.port = n] \in ProcType /\ [x EXCEPT !.sick = TRUE] \in ProcType
  BY DEF ProcType
<1> QED
  BY <1>1, <1>2, <1>3, <1>4, <1>5

-----------------------------------------------------------------------------
(* Types                                                                   *)

LEMMA TypesInit == Init => Types
<1> SUFFICES ASSUME Init PROVE Types
  OBVIOUS
<1>1. ServerTypes
  BY Records DEF Init, ServerTypes
<1>2. SharedTypes
  BY DEF Init, SharedTypes
<1>3. proc \in [Pids -> ProcType]
  BY Records DEF Init
<1> QED
  BY <1>1, <1>2, <1>3 DEF Types

LEMMA TypesStep ==
  ASSUME Types, Handles, [Next]_vars
  PROVE  Types'
<1>0. ServerTypes /\ SharedTypes /\ proc \in [Pids -> ProcType]
  BY DEF Types
<1>1. \A s \in Servers : at[s].port \in {0} \cup Ports
  BY <1>0 DEF ServerTypes
<1>2. \A s \in Servers, what \in Stages : [at EXCEPT ![s].todo = what] \in [Servers -> [todo : Stages, port : {0} \cup Ports]]
  BY <1>0, StagePut
<1>3. \A what \in {"ready", "look for drain", "spawn drain", "look at port"} : what \in Stages
  BY DEF Stages, AtDrain, AtGraph
<1>4. \A n \in {0} \cup Ports : \A what \in {"spawn graph", "resolve"} : [todo |-> what, port |-> n] \in [todo : Stages, port : {0} \cup Ports]
  BY DEF Stages, AtGraph
<1>5. \A s \in Servers, x \in [todo : Stages, port : {0} \cup Ports] :
        [at EXCEPT ![s] = x] \in [Servers -> [todo : Stages, port : {0} \cup Ports]]
  BY <1>0 DEF ServerTypes
<1>6. \A p \in Pids, x \in ProcType : [proc EXCEPT ![p] = x] \in [Pids -> ProcType]
  BY <1>0, ProcPut
<1>7. \A p \in Pids : proc[p] \in ProcType
  BY <1>0
<1>8. 1 \in Ports
  BY CompanionsAssumption
<1>9. Kinds = {"free", "drain", "graph", "crashed", "ended", "foreign"}
  BY DEF Kinds
<1>10. ASSUME NEW s \in Servers, StartServer(s) PROVE Types'
  <2>1. at' \in [Servers -> [todo : Stages, port : {0} \cup Ports]]
    BY <1>2, <1>3, <1>10 DEF StartServer, Doing
  <2>2. up' \in [Servers -> BOOLEAN]
    BY <1>0, <1>10 DEF StartServer, ServerTypes
  <2> QED
    BY <1>0, <1>10, <2>1, <2>2 DEF StartServer, Types, ServerTypes, SharedTypes, files, history
<1>11. ASSUME NEW s \in Servers, Shutdown(s) PROVE Types'
  <2>1. proc' \in [Pids -> ProcType]
    BY <1>7, <1>11, Records DEF Shutdown
  <2>2. ServerTypes'
    BY <1>0, <1>11 DEF Shutdown, ShutdownFlask, ShutdownSyncWorker, ServerTypes
  <2>3. owner' \in [Ports -> Pids \cup {None}]
    BY <1>0, <1>11 DEF Shutdown, ShutdownFlask, ClearOwnerFile, SharedTypes
  <2>4. pidfile' \in [pid : Pids \cup {None}, expired : BOOLEAN]
    <3>1. pidfile' = [pid |-> None, expired |-> FALSE] \/ pidfile' = pidfile
      BY <1>11 DEF Shutdown, ShutdownSyncWorker, RemovePidfile
    <3>2. [pid |-> None, expired |-> FALSE] \in [pid : Pids \cup {None}, expired : BOOLEAN]
      OBVIOUS
    <3>3. pidfile \in [pid : Pids \cup {None}, expired : BOOLEAN]
      BY <1>0 DEF SharedTypes
    <3> QED
      BY <3>1, <3>2, <3>3, Zenon
  <2>5. overlap' \in BOOLEAN
    BY <1>11 DEF Shutdown, ShutdownSyncWorker
  <2> QED
    BY <1>0, <1>11, <2>1, <2>2, <2>3, <2>4, <2>5 DEF Shutdown, Types, SharedTypes
<1>12. ASSUME NEW s \in Servers, Killed(s) PROVE Types'
  <2>1. proc' \in [Pids -> ProcType]
    BY <1>7, <1>12, Records DEF Killed, ChildrenKilled
  <2>2. at' \in [Servers -> [todo : Stages, port : {0} \cup Ports]]
    BY <1>5, <1>12, Records DEF Killed
  <2>3. ServerTypes'
    BY <1>0, <1>12, <2>2 DEF Killed, ServerTypes
  <2> QED
    BY <1>0, <1>12, <2>1, <2>3 DEF Killed, Types, SharedTypes, files
<1>13. ASSUME NEW s \in Servers, LookForDrain(s) PROVE Types'
  <2>1. at' \in [Servers -> [todo : Stages, port : {0} \cup Ports]]
    BY <1>2, <1>3, <1>13 DEF LookForDrain, Doing
  <2>2. overlap' \in BOOLEAN
    BY <1>0, <1>13 DEF LookForDrain, SharedTypes
  <2> QED
    BY <1>0, <1>13, <2>1, <2>2 DEF LookForDrain, Types, ServerTypes, SharedTypes, files
<1>14. ASSUME NEW s \in Servers, SpawnDrain(s) PROVE Types'
  <2>0. PICK p \in Pids :
          /\ proc' = [proc EXCEPT ![p] = [Free EXCEPT !.kind = "drain", !.parent = s]]
          /\ drain' = [drain EXCEPT ![s] = p]
          /\ pidfile' = RecordedPid(p)
    BY <1>14 DEF SpawnDrain
  <2>1. at' \in [Servers -> [todo : Stages, port : {0} \cup Ports]]
    BY <1>2, <1>3, <1>14 DEF SpawnDrain, Doing
  <2>2. proc' \in [Pids -> ProcType]
    BY <1>6, <2>0, Records
  <2>3. drain' \in [Servers -> Pids \cup {None}] /\ root' \in [Servers -> BOOLEAN]
    BY <1>0, <1>14, <2>0 DEF ServerTypes, SpawnDrain
  <2> QED
    BY <1>0, <1>14, <2>0, <2>1, <2>2, <2>3 DEF SpawnDrain, Types, ServerTypes, SharedTypes, RecordedPid, history
<1>15. ASSUME NEW s \in Servers, SpawnDrainFails(s) \/ SpawnGraphServerFails(s) PROVE Types'
  <2>1. at' \in [Servers -> [todo : Stages, port : {0} \cup Ports]]
    <3>1. CASE SpawnDrainFails(s)
      BY <1>2, <1>3, <3>1 DEF SpawnDrainFails, Doing
    <3>2. CASE SpawnGraphServerFails(s)
      BY <1>5, <3>2, Records DEF SpawnGraphServerFails
    <3> QED
      BY <1>15, <3>1, <3>2
  <2> QED
    BY <1>0, <1>15, <2>1 DEF SpawnDrainFails, SpawnGraphServerFails, Types, ServerTypes, SharedTypes, files, history
<1>16. ASSUME NEW s \in Servers, CheckSyncWorkerHealth(s) PROVE Types'
  <2>1. at' \in [Servers -> [todo : Stages, port : {0} \cup Ports]]
    <3>1. CASE Respawn(drain[s])
      <4>1. at' = [at EXCEPT ![s].todo = "look for drain"]
        BY <1>16, <3>1 DEF CheckSyncWorkerHealth, Doing
      <4> QED
        BY <1>2, <1>3, <4>1
    <3>2. CASE ~Respawn(drain[s])
      BY <1>0, <1>16, <3>2 DEF CheckSyncWorkerHealth, ServerTypes
    <3> QED
      BY <3>1, <3>2
  <2>2. drain[s] \in Pids
    BY <1>0, <1>16 DEF CheckSyncWorkerHealth, ServerTypes
  <2>3. proc' \in [Pids -> ProcType]
    BY <1>6, <1>16, <2>2, Records DEF CheckSyncWorkerHealth
  <2>4. ServerTypes'
    BY <1>0, <1>16, <2>1 DEF CheckSyncWorkerHealth, ServerTypes
  <2>5. pidfile' \in [pid : Pids \cup {None}, expired : BOOLEAN]
    <3>1. pidfile' = [pid |-> None, expired |-> FALSE] \/ pidfile' = pidfile
      BY <1>16 DEF CheckSyncWorkerHealth, RemovePidfile
    <3>2. [pid |-> None, expired |-> FALSE] \in [pid : Pids \cup {None}, expired : BOOLEAN]
      OBVIOUS
    <3>3. pidfile \in [pid : Pids \cup {None}, expired : BOOLEAN]
      BY <1>0 DEF SharedTypes
    <3> QED
      BY <3>1, <3>2, <3>3, Zenon
  <2>6. overlap' \in BOOLEAN
    BY <1>0, <1>16 DEF CheckSyncWorkerHealth, SharedTypes
  <2>7. retired' \subseteq Servers
    BY <1>0, <1>16 DEF CheckSyncWorkerHealth, SharedTypes
  <2> QED
    BY <1>0, <1>16, <2>3, <2>4, <2>5, <2>6, <2>7 DEF CheckSyncWorkerHealth, Types, SharedTypes
<1>17. ASSUME NEW s \in Servers, LookAtPort(s) PROVE Types'
  <2>1. at' \in [Servers -> [todo : Stages, port : {0} \cup Ports]]
    BY <1>4, <1>5, <1>8, <1>17, Records DEF LookAtPort
  <2> QED
    BY <1>0, <1>17, <2>1 DEF LookAtPort, Types, ServerTypes, SharedTypes, files, history
<1>18. ASSUME NEW p, p = OwnedStalePid, p # None, Terminate(p) PROVE proc' \in [Pids -> ProcType] /\ harm' \in BOOLEAN
  <2>1. p \in Pids
    BY <1>0, <1>8, <1>18 DEF OwnedStalePid, SharedTypes
  <2>2. (IF proc[p].kind = "foreign" THEN Free ELSE [proc[p] EXCEPT !.kind = "crashed", !.port = 0]) \in ProcType
    BY <1>7, <1>9, <2>1, Records
  <2>3. proc' = [proc EXCEPT ![p] = IF proc[p].kind = "foreign" THEN Free ELSE [proc[p] EXCEPT !.kind = "crashed", !.port = 0]]
    BY <1>18, <2>1 DEF Terminate
  <2>4. proc' \in [Pids -> ProcType]
    BY <1>6, <2>1, <2>2, <2>3
  <2>5. harm' \in BOOLEAN
    <3>1. harm' = (harm \/ proc[p].kind = "foreign" \/ (proc[p].kind = "graph" /\ proc[p].port # 0 /\ ~proc[p].sick))
      BY <1>18 DEF Terminate
    <3> QED
      BY <3>1, Zenon
  <2> QED
    BY <2>4, <2>5
<1>19. ASSUME NEW s \in Servers, ReclaimPort(s) PROVE Types'
  <2>1. at' \in [Servers -> [todo : Stages, port : {0} \cup Ports]]
    BY <1>4, <1>5, <1>8, <1>19 DEF ReclaimPort
  <2>2. proc' \in [Pids -> ProcType] /\ harm' \in BOOLEAN
    BY <1>18, <1>19 DEF ReclaimPort
  <2> QED
    BY <1>0, <1>19, <2>1, <2>2 DEF ReclaimPort, ClearOwnerFile, Types, ServerTypes, SharedTypes
<1>20. ASSUME NEW s \in Servers, Relocate(s) PROVE Types'
  <2>1. at' \in [Servers -> [todo : Stages, port : {0} \cup Ports]]
    BY <1>4, <1>5, <1>20, FreePort, Records DEF Relocate
  <2>2. proc' \in [Pids -> ProcType] /\ harm' \in BOOLEAN
    BY <1>0, <1>18, <1>20 DEF Relocate, SharedTypes
  <2> QED
    BY <1>0, <1>20, <2>1, <2>2 DEF Relocate, Types, ServerTypes, SharedTypes, files
<1>21. ASSUME NEW s \in Servers, SpawnGraphServer(s) PROVE Types'
  <2>0. PICK p \in Pids :
          /\ proc' = [proc EXCEPT ![p] = [Free EXCEPT !.kind = "graph", !.parent = s]]
          /\ flask' = [flask EXCEPT ![s] = p]
          /\ owner' = RecordedOwner(at[s].port, p)
          /\ excused' = (excused \/ \E n \in Ports \ {at[s].port} : owner[n] = p)
    BY <1>21 DEF SpawnGraphServer
  <2>1. at' \in [Servers -> [todo : Stages, port : {0} \cup Ports]]
    BY <1>5, <1>21, Records DEF SpawnGraphServer
  <2>2. proc' \in [Pids -> ProcType]
    BY <1>6, <2>0, Records
  <2>3. flask' \in [Servers -> Pids \cup {None}] /\ owned' \in [Servers -> {0} \cup Ports]
    BY <1>0, <1>1, <1>21, <2>0 DEF ServerTypes, SpawnGraphServer
  <2>4. owner' \in [Ports -> Pids \cup {None}] /\ excused' \in BOOLEAN
    BY <1>0, <2>0 DEF SharedTypes, RecordedOwner
  <2> QED
    BY <1>0, <1>21, <2>1, <2>2, <2>3, <2>4 DEF SpawnGraphServer, Types, ServerTypes, SharedTypes
<1>22. ASSUME NEW s \in Servers, CheckGraphServerHealth(s) PROVE Types'
  <2>1. at' \in [Servers -> [todo : Stages, port : {0} \cup Ports]]
    BY <1>2, <1>3, <1>22 DEF CheckGraphServerHealth, Doing
  <2>2. flask[s] \in Pids /\ proc' = [proc EXCEPT ![flask[s]] = Free]
    BY <1>0, <1>22 DEF CheckGraphServerHealth, Exited, ServerTypes
  <2>3. proc' \in [Pids -> ProcType]
    BY <1>6, <2>2, Records
  <2> QED
    BY <1>0, <1>22, <2>1, <2>3 DEF CheckGraphServerHealth, Types, ServerTypes, SharedTypes, files, history
<1>23. ASSUME NEW p \in Pids, DrainExits(p) \/ GraphServerFails(p) \/ ForeignEnds(p) PROVE Types'
  <2>1. proc' \in [Pids -> ProcType]
    <3>1. CASE DrainExits(p)
      <4>1. PICK how \in {"crashed", "ended"} : proc' = [proc EXCEPT ![p] = [proc[p] EXCEPT !.kind = how]]
        BY <3>1 DEF DrainExits
      <4>2. [proc[p] EXCEPT !.kind = how] \in ProcType
        BY <1>7, <1>9, Records
      <4> QED
        BY <1>6, <4>1, <4>2
    <3>2. CASE GraphServerFails(p)
      <4>1. \/ proc' = [proc EXCEPT ![p] = [proc[p] EXCEPT !.sick = TRUE]]
            \/ proc' = [proc EXCEPT ![p] = [proc[p] EXCEPT !.kind = "crashed", !.port = 0]]
        BY <1>0, <3>2 DEF GraphServerFails
      <4>2. [proc[p] EXCEPT !.sick = TRUE] \in ProcType /\ [proc[p] EXCEPT !.kind = "crashed", !.port = 0] \in ProcType
        BY <1>7, <1>9, Records
      <4> QED
        BY <1>6, <4>1, <4>2
    <3>3. CASE ForeignEnds(p)
      BY <1>6, <3>3, Records DEF ForeignEnds
    <3> QED
      BY <1>23, <3>1, <3>2, <3>3
  <2> QED
    BY <1>0, <1>23, <2>1 DEF DrainExits, GraphServerFails, ForeignEnds, Types, ServerTypes, SharedTypes, server, files, history
<1>24. ASSUME NEW p \in Pids, BindPort(p) PROVE Types'
  <2>0. owned[proc[p].parent] \in {0} \cup Ports
    BY <1>0, <1>24 DEF BindPort, Handles, ServerTypes
  <2>1. proc' \in [Pids -> ProcType]
    BY <1>6, <1>7, <1>9, <1>24, <2>0, Records DEF BindPort
  <2>2. excused' \in BOOLEAN
    BY <1>0, <1>24 DEF BindPort, SharedTypes
  <2> QED
    BY <1>0, <1>24, <2>1, <2>2 DEF BindPort, Types, ServerTypes, SharedTypes, server, files
<1>25. ASSUME NEW p \in Pids, ForeignStarts(p) PROVE Types'
  <2>1. proc' \in [Pids -> ProcType]
    <3>1. PICK n \in {0} \cup {m \in Ports : Holder(m) = None} :
            proc' = [proc EXCEPT ![p] = [Free EXCEPT !.kind = "foreign", !.port = n]]
      BY <1>25 DEF ForeignStarts
    <3>2. [Free EXCEPT !.kind = "foreign", !.port = n] \in ProcType
      BY Records
    <3> QED
      BY <1>6, <3>1, <3>2
  <2>2. excused' \in BOOLEAN
    BY <1>0, <1>25 DEF ForeignStarts, SharedTypes
  <2> QED
    BY <1>0, <1>25, <2>1, <2>2 DEF ForeignStarts, Types, ServerTypes, SharedTypes, server, files
<1>26. CASE PidfileExpires
  BY <1>0, <1>26 DEF PidfileExpires, Types, ServerTypes, SharedTypes, server
<1>27. CASE UNCHANGED vars
  BY <1>0, <1>27 DEF vars, Types, ServerTypes, SharedTypes, server, files, history
<1> QED
  BY <1>10, <1>11, <1>12, <1>13, <1>14, <1>15, <1>16, <1>17, <1>19, <1>20, <1>21, <1>22, <1>23, <1>24, <1>25, <1>26, <1>27 DEF Next

-----------------------------------------------------------------------------
(* What a step does to the process table                                   *)

LEMMA FreeFields == Free.kind = "free" /\ Free.parent = None /\ Free.port = 0 /\ Free.sick = FALSE
BY DEF Free

(* A server that goes, or reaps a child, takes its own children only.      *)
Reaps(s) ==
  \A p \in Pids : proc'[p] = proc[p] \/ (proc'[p] = Free /\ proc[p].parent = s)

LEMMA Leaving ==
  ASSUME Types, Handles, NEW s \in Servers, Shutdown(s) \/ Killed(s)
  PROVE  /\ Reaps(s)
         /\ \A p \in Pids : proc[p].parent = s /\ proc[p].kind \in {"drain", "graph"} => proc'[p] = Free
<1>1. CASE Shutdown(s)
  <2>1. \A p \in Pids : proc'[p] = IF p \in {drain[s], flask[s]} THEN Free ELSE proc[p]
    BY <1>1 DEF Shutdown
  <2>2. \A p \in Pids : p \in {drain[s], flask[s]} => proc[p].parent = s
    BY CompanionsAssumption DEF Handles
  <2>3. \A p \in Pids : proc[p].parent = s /\ proc[p].kind \in {"drain", "graph"} => p \in {drain[s], flask[s]}
    BY DEF Handles
  <2> QED
    BY <2>1, <2>2, <2>3 DEF Reaps
<1>2. CASE Killed(s)
  BY <1>2 DEF Killed, ChildrenKilled, Reaps
<1> QED
  BY <1>1, <1>2

LEMMA Reaping ==
  ASSUME Types, Handles, NEW s \in Servers
  PROVE  /\ CheckSyncWorkerHealth(s) =>
              /\ Reaps(s) /\ drain[s] \in Pids /\ proc'[drain[s]] = Free /\ proc[drain[s]].kind \in {"crashed", "ended"}
              /\ \A p \in Pids : p # drain[s] => proc'[p] = proc[p]
         /\ CheckGraphServerHealth(s) =>
              /\ Reaps(s) /\ flask[s] \in Pids /\ proc'[flask[s]] = Free /\ proc[flask[s]].kind \in {"crashed", "ended"}
              /\ \A p \in Pids : p # flask[s] => proc'[p] = proc[p]
<1>1. ASSUME CheckSyncWorkerHealth(s)
      PROVE  /\ Reaps(s) /\ drain[s] \in Pids /\ proc'[drain[s]] = Free /\ proc[drain[s]].kind \in {"crashed", "ended"}
             /\ \A p \in Pids : p # drain[s] => proc'[p] = proc[p]
  <2>1. drain[s] # None /\ ~Live(drain[s]) /\ proc' = [proc EXCEPT ![drain[s]] = Free]
    BY <1>1 DEF CheckSyncWorkerHealth
  <2>2. drain[s] \in Pids /\ proc[drain[s]].parent = s /\ proc[drain[s]].kind \in {"drain", "crashed", "ended"}
    BY <2>1 DEF Types, ServerTypes, Handles
  <2> QED
    BY <2>1, <2>2 DEF Types, Live, Alive, Reaps
<1>2. ASSUME CheckGraphServerHealth(s)
      PROVE  /\ Reaps(s) /\ flask[s] \in Pids /\ proc'[flask[s]] = Free /\ proc[flask[s]].kind \in {"crashed", "ended"}
             /\ \A p \in Pids : p # flask[s] => proc'[p] = proc[p]
  <2>1. flask[s] # None /\ ~Live(flask[s]) /\ proc' = [proc EXCEPT ![flask[s]] = Free]
    BY <1>2 DEF CheckGraphServerHealth, Exited
  <2>2. flask[s] \in Pids /\ proc[flask[s]].parent = s /\ proc[flask[s]].kind \in {"graph", "crashed", "ended"}
    BY <2>1 DEF Types, ServerTypes, Handles
  <2> QED
    BY <2>1, <2>2 DEF Types, Live, Alive, Reaps
<1> QED
  BY <1>1, <1>2

(* Of the process told to terminate a zombie stays, unless it was not a    *)
(* child of a server.                                                      *)
LEMMA Terminated ==
  ASSUME Types, NEW s \in Servers, ReclaimPort(s) \/ (Relocate(s) /\ OwnedStalePid # None)
  PROVE  LET p == owner[1] IN
         /\ at[s].todo = "resolve" /\ p \in Pids /\ p = OwnedStalePid /\ p # None
         /\ \A q \in Pids : q # p => proc'[q] = proc[q]
         /\ proc'[p].port = 0
         /\ proc[p].kind = "foreign" => proc'[p] = Free
         /\ proc[p].kind # "foreign" => proc'[p].kind = "crashed" /\ proc'[p].parent = proc[p].parent
         /\ harm' = (harm \/ proc[p].kind = "foreign" \/ (proc[p].kind = "graph" /\ proc[p].port # 0 /\ ~proc[p].sick))
<1> DEFINE p == owner[1]
<1>1. at[s].todo = "resolve" /\ OwnedStalePid # None /\ Terminate(OwnedStalePid)
  BY DEF ReclaimPort, Relocate
<1>2. OwnedStalePid = p /\ p # None
  BY <1>1 DEF OwnedStalePid
<1>3. p \in Pids
  BY <1>2, CompanionsAssumption DEF Types, SharedTypes
<1>4. proc[p] \in ProcType /\ proc \in [Pids -> ProcType]
  BY <1>3 DEF Types
<1>5. /\ proc' = [proc EXCEPT ![p] = IF proc[p].kind = "foreign" THEN Free ELSE [proc[p] EXCEPT !.kind = "crashed", !.port = 0]]
      /\ harm' = (harm \/ proc[p].kind = "foreign" \/ (proc[p].kind = "graph" /\ proc[p].port # 0 /\ ~proc[p].sick))
  BY <1>1, <1>2, <1>4 DEF Terminate
<1> HIDE DEF p
<1>6. proc'[p] = IF proc[p].kind = "foreign" THEN Free ELSE [proc[p] EXCEPT !.kind = "crashed", !.port = 0]
  BY <1>3, <1>4, <1>5
<1>7. \A q \in Pids : q # p => proc'[q] = proc[q]
  BY <1>4, <1>5
<1>8. proc[p].kind = "foreign" => proc'[p] = Free
  BY <1>6
<1>9. proc[p].kind # "foreign" => proc'[p].kind = "crashed" /\ proc'[p].port = 0 /\ proc'[p].parent = proc[p].parent
  BY <1>4, <1>6 DEF ProcType
<1> QED
  BY <1>1, <1>2, <1>3, <1>5, <1>7, <1>8, <1>9, FreeFields DEF p

LEMMA Spawned ==
  ASSUME Types, NEW s \in Servers
  PROVE  /\ SpawnDrain(s) => \E p \in Pids :
              /\ proc[p].kind = "free" /\ \A q \in Pids : q # p => proc'[q] = proc[q]
              /\ proc'[p].kind = "drain" /\ proc'[p].parent = s /\ proc'[p].port = 0
              /\ drain'[s] = p /\ \A t \in Servers : t # s => drain'[t] = drain[t]
              /\ pidfile' = [pid |-> p, expired |-> FALSE]
         /\ SpawnGraphServer(s) => \E p \in Pids :
              /\ proc[p].kind = "free" /\ \A q \in Pids : q # p => proc'[q] = proc[q]
              /\ proc'[p].kind = "graph" /\ proc'[p].parent = s /\ proc'[p].port = 0
              /\ flask'[s] = p /\ \A t \in Servers : t # s => flask'[t] = flask[t]
              /\ owner' = [owner EXCEPT ![at[s].port] = p]
              /\ excused' = (excused \/ \E n \in Ports \ {at[s].port} : owner[n] = p)
<1>1. ASSUME SpawnDrain(s)
      PROVE  \E p \in Pids :
              /\ proc[p].kind = "free" /\ \A q \in Pids : q # p => proc'[q] = proc[q]
              /\ proc'[p].kind = "drain" /\ proc'[p].parent = s /\ proc'[p].port = 0
              /\ drain'[s] = p /\ \A t \in Servers : t # s => drain'[t] = drain[t]
              /\ pidfile' = [pid |-> p, expired |-> FALSE]
  <2>1. PICK p \in Pids :
          /\ proc[p].kind = "free"
          /\ proc' = [proc EXCEPT ![p] = [Free EXCEPT !.kind = "drain", !.parent = s]]
          /\ drain' = [drain EXCEPT ![s] = p] /\ pidfile' = RecordedPid(p)
    BY <1>1 DEF SpawnDrain
  <2>2. /\ proc'[p].kind = "drain" /\ proc'[p].parent = s /\ proc'[p].port = 0
        /\ \A q \in Pids : q # p => proc'[q] = proc[q]
    BY <2>1 DEF Types, Free
  <2>3. drain'[s] = p /\ \A t \in Servers : t # s => drain'[t] = drain[t]
    BY <2>1 DEF Types, ServerTypes
  <2> QED
    BY <2>1, <2>2, <2>3 DEF RecordedPid
<1>2. ASSUME SpawnGraphServer(s)
      PROVE  \E p \in Pids :
              /\ proc[p].kind = "free" /\ \A q \in Pids : q # p => proc'[q] = proc[q]
              /\ proc'[p].kind = "graph" /\ proc'[p].parent = s /\ proc'[p].port = 0
              /\ flask'[s] = p /\ \A t \in Servers : t # s => flask'[t] = flask[t]
              /\ owner' = [owner EXCEPT ![at[s].port] = p]
              /\ excused' = (excused \/ \E n \in Ports \ {at[s].port} : owner[n] = p)
  <2>1. PICK p \in Pids :
          /\ proc[p].kind = "free"
          /\ proc' = [proc EXCEPT ![p] = [Free EXCEPT !.kind = "graph", !.parent = s]]
          /\ flask' = [flask EXCEPT ![s] = p] /\ owner' = RecordedOwner(at[s].port, p)
          /\ excused' = (excused \/ \E n \in Ports \ {at[s].port} : owner[n] = p)
    BY <1>2 DEF SpawnGraphServer
  <2>2. /\ proc'[p].kind = "graph" /\ proc'[p].parent = s /\ proc'[p].port = 0
        /\ \A q \in Pids : q # p => proc'[q] = proc[q]
    BY <2>1 DEF Types, Free
  <2>3. flask'[s] = p /\ \A t \in Servers : t # s => flask'[t] = flask[t]
    BY <2>1 DEF Types, ServerTypes
  <2> QED
    BY <2>1, <2>2, <2>3 DEF RecordedOwner
<1> QED
  BY <1>1, <1>2

(* What a process does by itself.                                          *)
LEMMA Alone ==
  ASSUME Types, NEW p \in Pids, DrainExits(p) \/ BindPort(p) \/ GraphServerFails(p) \/ ForeignStarts(p) \/ ForeignEnds(p)
  PROVE  /\ \A q \in Pids : q # p => proc'[q] = proc[q]
         /\ DrainExits(p) => /\ proc[p].kind = "drain" /\ proc'[p].kind \in {"crashed", "ended"}
                             /\ proc'[p].parent = proc[p].parent /\ proc'[p].port = proc[p].port
         /\ BindPort(p) => /\ proc[p].kind = "graph" /\ proc'[p].kind \in {"graph", "crashed"}
                           /\ proc'[p].parent = proc[p].parent
                           /\ proc'[p].kind = "graph" => proc'[p].port = owned[proc[p].parent] /\ Holder(owned[proc[p].parent]) = None
                           /\ proc'[p].kind = "crashed" => proc'[p].port = 0
         /\ GraphServerFails(p) => /\ proc[p].kind = "graph" /\ proc[p].port # 0 /\ proc'[p].parent = proc[p].parent
                                   /\ \/ proc'[p].kind = "graph" /\ proc'[p].port = proc[p].port /\ proc'[p].sick
                                      \/ proc'[p].kind = "crashed" /\ proc'[p].port = 0
         /\ ForeignStarts(p) => /\ proc[p].kind = "free" /\ proc'[p].kind = "foreign"
                                /\ proc'[p].port = 0 \/ Holder(proc'[p].port) = None
         /\ ForeignEnds(p) => proc[p].kind = "foreign" /\ proc'[p] = Free
<1>0. proc[p] \in ProcType /\ proc \in [Pids -> ProcType]
  BY DEF Types
<1>1. CASE DrainExits(p)
  <2>1. PICK how \in {"crashed", "ended"} : proc' = [proc EXCEPT ![p] = [proc[p] EXCEPT !.kind = how]]
    BY <1>1 DEF DrainExits
  <2>2. proc'[p] = [proc[p] EXCEPT !.kind = how] /\ \A q \in Pids : q # p => proc'[q] = proc[q]
    BY <1>0, <2>1
  <2>3. proc'[p].kind = how /\ proc'[p].parent = proc[p].parent /\ proc'[p].port = proc[p].port
    BY <1>0, <2>2 DEF ProcType
  <2>4. ~BindPort(p) /\ ~GraphServerFails(p) /\ ~ForeignStarts(p) /\ ~ForeignEnds(p) /\ proc[p].kind = "drain"
    BY <1>1 DEF DrainExits, Drains, BindPort, GraphServerFails, ForeignStarts, ForeignEnds
  <2> QED
    BY <2>1, <2>2, <2>3, <2>4
<1>2. CASE BindPort(p)
  <2>1. proc' = [proc EXCEPT ![p] = IF Holder(owned[proc[p].parent]) = None
                                    THEN [proc[p] EXCEPT !.port = owned[proc[p].parent]] ELSE [proc[p] EXCEPT !.kind = "crashed"]]
    BY <1>2 DEF BindPort
  <2>2. /\ proc'[p] = IF Holder(owned[proc[p].parent]) = None
                      THEN [proc[p] EXCEPT !.port = owned[proc[p].parent]] ELSE [proc[p] EXCEPT !.kind = "crashed"]
        /\ \A q \in Pids : q # p => proc'[q] = proc[q]
    BY <1>0, <2>1
  <2>3. proc[p].kind = "graph" /\ proc[p].port = 0
    BY <1>2 DEF BindPort
  <2>4. proc'[p].parent = proc[p].parent
    BY <1>0, <2>2 DEF ProcType
  <2>5. CASE Holder(owned[proc[p].parent]) = None
    BY <1>0, <2>2, <2>3, <2>4, <2>5 DEF ProcType, DrainExits, Drains, GraphServerFails, ForeignStarts, ForeignEnds
  <2>6. CASE Holder(owned[proc[p].parent]) # None
    BY <1>0, <2>2, <2>3, <2>4, <2>6 DEF ProcType, DrainExits, Drains, GraphServerFails, ForeignStarts, ForeignEnds
  <2> QED
    BY <2>5, <2>6
<1>3. CASE GraphServerFails(p)
  <2>1. \/ proc' = [proc EXCEPT ![p] = [proc[p] EXCEPT !.sick = TRUE]]
        \/ proc' = [proc EXCEPT ![p] = [proc[p] EXCEPT !.kind = "crashed", !.port = 0]]
    BY <1>0, <1>3 DEF GraphServerFails
  <2>2. /\ \A q \in Pids : q # p => proc'[q] = proc[q]
        /\ proc'[p] = [proc[p] EXCEPT !.sick = TRUE] \/ proc'[p] = [proc[p] EXCEPT !.kind = "crashed", !.port = 0]
    BY <1>0, <2>1
  <2>3. proc[p].kind = "graph" /\ proc[p].port # 0
    BY <1>3 DEF GraphServerFails
  <2> QED
    BY <1>0, <2>2, <2>3 DEF ProcType, DrainExits, Drains, BindPort, ForeignStarts, ForeignEnds
<1>4. CASE ForeignStarts(p)
  <2>1. PICK n \in {0} \cup {m \in Ports : Holder(m) = None} :
          proc' = [proc EXCEPT ![p] = [Free EXCEPT !.kind = "foreign", !.port = n]]
    BY <1>4 DEF ForeignStarts
  <2>2. proc'[p] = [Free EXCEPT !.kind = "foreign", !.port = n] /\ \A q \in Pids : q # p => proc'[q] = proc[q]
    BY <1>0, <2>1
  <2>3. proc'[p].kind = "foreign" /\ proc'[p].port = n
    BY <2>2 DEF Free
  <2>4. proc[p].kind = "free"
    BY <1>4 DEF ForeignStarts
  <2> QED
    BY <2>1, <2>2, <2>3, <2>4 DEF DrainExits, Drains, BindPort, GraphServerFails, ForeignEnds
<1>5. CASE ForeignEnds(p)
  BY <1>0, <1>5 DEF DrainExits, Drains, BindPort, GraphServerFails, ForeignStarts, ForeignEnds
<1> QED
  BY <1>1, <1>2, <1>3, <1>4, <1>5

-----------------------------------------------------------------------------
(* What a step does to the servers                                         *)

Others(s) ==
  /\ mode' = mode
  /\ \A t \in Servers : t # s =>
       up'[t] = up[t] /\ at'[t] = at[t] /\ drain'[t] = drain[t] /\ flask'[t] = flask[t] /\ owned'[t] = owned[t]

LEMMA Acts ==
  ASSUME Types, NEW s \in Servers
  PROVE  /\ StartServer(s) =>
              /\ Others(s) /\ ~up[s] /\ up'[s]
              /\ at'[s].todo = (IF mode = "sync" THEN "look for drain" ELSE "look at port")
              /\ UNCHANGED <<proc, drain, flask, owned>>
         /\ Shutdown(s) =>
              /\ Others(s) /\ ~up'[s] /\ at' = at /\ at[s].todo = "ready" /\ drain'[s] = None /\ flask'[s] = None
              /\ owned'[s] = 0
         /\ Killed(s) =>
              /\ Others(s) /\ ~up'[s] /\ at'[s].todo = "ready" /\ drain'[s] = None /\ flask'[s] = None /\ owned'[s] = 0
         /\ LookForDrain(s) =>
              /\ Others(s) /\ at[s].todo = "look for drain"
              /\ at'[s].todo = (IF AnotherDrainRunning(s) THEN "ready" ELSE "spawn drain")
              /\ UNCHANGED <<proc, up, drain, flask, owned>>
         /\ SpawnDrain(s) =>
              /\ Others(s) /\ at[s].todo = "spawn drain" /\ at'[s].todo = "ready" /\ UNCHANGED <<up, flask, owned>>
         /\ SpawnDrainFails(s) =>
              /\ Others(s) /\ at[s].todo = "spawn drain" /\ at'[s].todo = "ready"
              /\ UNCHANGED <<proc, up, drain, flask, owned>>
         /\ CheckSyncWorkerHealth(s) =>
              /\ Others(s) /\ up[s] /\ at[s].todo = "ready" /\ drain[s] # None /\ drain'[s] = None
              /\ at'[s].todo = (IF Respawn(drain[s]) THEN "look for drain" ELSE "ready")
              /\ UNCHANGED <<up, flask, owned>>
         /\ LookAtPort(s) =>
              /\ Others(s) /\ at[s].todo = "look at port" /\ at'[s].todo \in {"ready", "resolve", "spawn graph"}
              /\ (at'[s].todo = "resolve" => Holder(1) # None /\ ~Healthy(1))
              /\ UNCHANGED <<proc, up, drain, flask, owned>>
         /\ ReclaimPort(s) =>
              /\ Others(s) /\ at[s].todo = "resolve" /\ at'[s].todo = "spawn graph"
              /\ UNCHANGED <<up, drain, flask, owned>>
         /\ Relocate(s) =>
              /\ Others(s) /\ at[s].todo = "resolve" /\ at'[s].todo \in {"ready", "spawn graph"}
              /\ UNCHANGED <<up, drain, flask, owned>>
         /\ SpawnGraphServer(s) =>
              /\ Others(s) /\ at[s].todo = "spawn graph" /\ at'[s].todo = "ready" /\ owned'[s] = at[s].port
              /\ UNCHANGED <<up, drain>>
         /\ SpawnGraphServerFails(s) =>
              /\ Others(s) /\ at[s].todo = "spawn graph" /\ at'[s].todo = "ready"
              /\ UNCHANGED <<proc, up, drain, flask, owned>>
         /\ CheckGraphServerHealth(s) =>
              /\ Others(s) /\ up[s] /\ at[s].todo = "ready" /\ flask[s] # None /\ flask'[s] = None
              /\ at'[s].todo = "look at port" /\ UNCHANGED <<up, drain, owned>>
<1>1. ASSUME StartServer(s)
      PROVE  /\ Others(s) /\ ~up[s] /\ up'[s]
             /\ at'[s].todo = (IF mode = "sync" THEN "look for drain" ELSE "look at port")
             /\ UNCHANGED <<proc, drain, flask, owned>>
  BY <1>1 DEF StartServer, Doing, Others, Types, ServerTypes
<1>2. ASSUME Shutdown(s)
      PROVE  /\ Others(s) /\ ~up'[s] /\ at' = at /\ at[s].todo = "ready" /\ drain'[s] = None /\ flask'[s] = None
             /\ owned'[s] = 0
  BY <1>2 DEF Shutdown, ShutdownFlask, ShutdownSyncWorker, Others, Types, ServerTypes
<1>3. ASSUME Killed(s)
      PROVE  /\ Others(s) /\ ~up'[s] /\ at'[s].todo = "ready" /\ drain'[s] = None /\ flask'[s] = None /\ owned'[s] = 0
  BY <1>3 DEF Killed, Ready, Others, Types, ServerTypes
<1>4. ASSUME LookForDrain(s)
      PROVE  /\ Others(s) /\ at[s].todo = "look for drain"
             /\ at'[s].todo = (IF AnotherDrainRunning(s) THEN "ready" ELSE "spawn drain")
             /\ UNCHANGED <<proc, up, drain, flask, owned>>
  BY <1>4 DEF LookForDrain, Doing, Others, Types, ServerTypes
<1>5. ASSUME SpawnDrain(s)
      PROVE  /\ Others(s) /\ at[s].todo = "spawn drain" /\ at'[s].todo = "ready" /\ UNCHANGED <<up, flask, owned>>
  <2>1. \A t \in Servers : t # s => drain'[t] = drain[t]
    BY <1>5, Spawned
  <2>2. at[s].todo = "spawn drain" /\ Doing(s, "ready") /\ UNCHANGED <<mode, up, flask, owned>>
    BY <1>5 DEF SpawnDrain
  <2> QED
    BY <2>1, <2>2 DEF Doing, Others, Types, ServerTypes
<1>6. ASSUME SpawnDrainFails(s)
      PROVE  /\ Others(s) /\ at[s].todo = "spawn drain" /\ at'[s].todo = "ready"
             /\ UNCHANGED <<proc, up, drain, flask, owned>>
  BY <1>6 DEF SpawnDrainFails, Doing, Others, Types, ServerTypes
<1>7. ASSUME CheckSyncWorkerHealth(s)
      PROVE  /\ Others(s) /\ up[s] /\ at[s].todo = "ready" /\ drain[s] # None /\ drain'[s] = None
             /\ at'[s].todo = (IF Respawn(drain[s]) THEN "look for drain" ELSE "ready")
             /\ UNCHANGED <<up, flask, owned>>
  <2>1. CASE Respawn(drain[s])
    <3>1. Doing(s, "look for drain") /\ drain' = [drain EXCEPT ![s] = None] /\ UNCHANGED <<mode, up, flask, owned>>
      BY <1>7, <2>1 DEF CheckSyncWorkerHealth
    <3>2. up[s] /\ at[s].todo = "ready" /\ drain[s] # None
      BY <1>7 DEF CheckSyncWorkerHealth
    <3> QED
      BY <2>1, <3>1, <3>2 DEF Doing, Others, Types, ServerTypes
  <2>2. CASE ~Respawn(drain[s])
    BY <1>7, <2>2 DEF CheckSyncWorkerHealth, Others, Types, ServerTypes
  <2> QED
    BY <2>1, <2>2
<1>8. ASSUME LookAtPort(s)
      PROVE  /\ Others(s) /\ at[s].todo = "look at port" /\ at'[s].todo \in {"ready", "resolve", "spawn graph"}
             /\ (at'[s].todo = "resolve" => Holder(1) # None /\ ~Healthy(1))
             /\ UNCHANGED <<proc, up, drain, flask, owned>>
  BY <1>8 DEF LookAtPort, Ready, Others, Types, ServerTypes
<1>9. ASSUME ReclaimPort(s)
      PROVE  /\ Others(s) /\ at[s].todo = "resolve" /\ at'[s].todo = "spawn graph"
             /\ UNCHANGED <<up, drain, flask, owned>>
  BY <1>9 DEF ReclaimPort, Others, Types, ServerTypes
<1>10. ASSUME Relocate(s)
      PROVE  /\ Others(s) /\ at[s].todo = "resolve" /\ at'[s].todo \in {"ready", "spawn graph"}
             /\ UNCHANGED <<up, drain, flask, owned>>
  BY <1>10 DEF Relocate, Ready, Others, Types, ServerTypes
<1>11. ASSUME SpawnGraphServer(s)
      PROVE  /\ Others(s) /\ at[s].todo = "spawn graph" /\ at'[s].todo = "ready" /\ owned'[s] = at[s].port
             /\ UNCHANGED <<up, drain>>
  BY <1>11 DEF SpawnGraphServer, Ready, Others, Types, ServerTypes
<1>12. ASSUME SpawnGraphServerFails(s)
      PROVE  /\ Others(s) /\ at[s].todo = "spawn graph" /\ at'[s].todo = "ready"
             /\ UNCHANGED <<proc, up, drain, flask, owned>>
  BY <1>12 DEF SpawnGraphServerFails, Ready, Others, Types, ServerTypes
<1>13. ASSUME CheckGraphServerHealth(s)
      PROVE  /\ Others(s) /\ up[s] /\ at[s].todo = "ready" /\ flask[s] # None /\ flask'[s] = None
             /\ at'[s].todo = "look at port" /\ UNCHANGED <<up, drain, owned>>
  BY <1>13 DEF CheckGraphServerHealth, Doing, Exited, Others, Types, ServerTypes
<1> QED
  BY <1>1, <1>2, <1>3, <1>4, <1>5, <1>6, <1>7, <1>8, <1>9, <1>10, <1>11, <1>12, <1>13

-----------------------------------------------------------------------------
(* The steps of the inductive invariant                                    *)

LEMMA PortsStep == Types /\ Handles /\ PortsHeldOnce /\ [Next]_vars => PortsHeldOnce'
<1> SUFFICES ASSUME Types, Handles, PortsHeldOnce, [Next]_vars PROVE PortsHeldOnce'
  OBVIOUS
<1>1. ASSUME \A p \in Pids : proc'[p].port \in {0, proc[p].port} PROVE PortsHeldOnce'
  BY <1>1 DEF PortsHeldOnce
<1>2. ASSUME NEW p \in Pids, \A q \in Pids : q # p => proc'[q] = proc[q], proc'[p].port = 0 \/ Holder(proc'[p].port) = None
      PROVE  PortsHeldOnce'
  BY <1>2, HolderFound DEF PortsHeldOnce
<1>3. UNCHANGED proc => PortsHeldOnce'
  BY DEF PortsHeldOnce
<1>4. ASSUME NEW s \in Servers, Reaps(s) PROVE PortsHeldOnce'
  BY <1>1, <1>4, FreeFields DEF Reaps
<1>5. ASSUME NEW s \in Servers, ReclaimPort(s) \/ Relocate(s) PROVE PortsHeldOnce'
  <2>1. CASE OwnedStalePid = None
    BY <1>3, <1>5, <2>1 DEF ReclaimPort, Relocate
  <2>2. CASE OwnedStalePid # None
    BY <1>2, <1>5, <2>2, Terminated
  <2> QED
    BY <2>1, <2>2
<1>6. ASSUME NEW s \in Servers, SpawnDrain(s) \/ SpawnGraphServer(s) PROVE PortsHeldOnce'
  BY <1>2, <1>6, Spawned
<1>7. ASSUME NEW p \in Pids, DrainExits(p) PROVE PortsHeldOnce'
  <2>1. \A q \in Pids : proc'[q].port = proc[q].port
    BY <1>7, Alone
  <2> QED
    BY <1>1, <2>1
<1>8. ASSUME NEW p \in Pids, GraphServerFails(p) PROVE PortsHeldOnce'
  <2>1. \A q \in Pids : proc'[q].port \in {0, proc[q].port}
    BY <1>8, Alone
  <2> QED
    BY <1>1, <2>1
<1>9. ASSUME NEW p \in Pids, BindPort(p) \/ ForeignStarts(p) \/ ForeignEnds(p) PROVE PortsHeldOnce'
  <2>1. \A q \in Pids : q # p => proc'[q] = proc[q]
    BY <1>9, Alone
  <2>2. proc'[p].port = 0 \/ Holder(proc'[p].port) = None
    BY <1>9, Alone, FreeFields
  <2> QED
    BY <1>2, <2>1, <2>2
<1>10. CASE PidfileExpires \/ UNCHANGED vars
  BY <1>3, <1>10 DEF PidfileExpires, vars
<1> QED
  BY <1>3, <1>4, <1>5, <1>6, <1>7, <1>8, <1>9, <1>10, Acts, Leaving, Reaping DEF Next

LEMMA KindStep == Types /\ OneKind /\ [Next]_vars => OneKind'
<1> SUFFICES ASSUME Types, OneKind, [Next]_vars PROVE OneKind'
  OBVIOUS
<1>1. ASSUME NEW s \in Servers, Others(s),
             mode = "sync" => flask'[s] = None /\ at'[s].todo \notin AtGraph,
             mode # "sync" => drain'[s] = None /\ at'[s].todo \notin AtDrain
      PROVE  OneKind'
  BY <1>1 DEF OneKind, Others
<1>2. ASSUME UNCHANGED <<mode, drain, flask, at>> PROVE OneKind'
  BY <1>2 DEF OneKind
<1>3. \A p \in Pids : DrainExits(p) \/ BindPort(p) \/ GraphServerFails(p) \/ ForeignStarts(p) \/ ForeignEnds(p)
        => UNCHANGED <<mode, drain, flask, at>>
  BY DEF DrainExits, BindPort, GraphServerFails, ForeignStarts, ForeignEnds, server
<1>4. PidfileExpires \/ UNCHANGED vars => UNCHANGED <<mode, drain, flask, at>>
  BY DEF PidfileExpires, vars, server
<1>5. ASSUME NEW s \in Servers, StartServer(s) \/ Shutdown(s) \/ Killed(s) PROVE OneKind'
  BY <1>1, <1>5, Acts DEF OneKind, AtDrain, AtGraph
<1>6. ASSUME NEW s \in Servers, LookForDrain(s) \/ SpawnDrain(s) \/ SpawnDrainFails(s) \/ CheckSyncWorkerHealth(s) PROVE OneKind'
  BY <1>1, <1>6, Acts DEF OneKind, AtDrain, AtGraph
<1>7. ASSUME NEW s \in Servers, LookAtPort(s) \/ ReclaimPort(s) \/ Relocate(s) PROVE OneKind'
  BY <1>1, <1>7, Acts DEF OneKind, AtDrain, AtGraph
<1>8. ASSUME NEW s \in Servers, SpawnGraphServer(s) \/ SpawnGraphServerFails(s) \/ CheckGraphServerHealth(s) PROVE OneKind'
  BY <1>1, <1>8, Acts DEF OneKind, AtDrain, AtGraph
<1> QED
  BY <1>2, <1>3, <1>4, <1>5, <1>6, <1>7, <1>8 DEF Next

LEMMA VacantStep == Types /\ Vacant /\ [Next]_vars => Vacant'
<1> SUFFICES ASSUME Types, Vacant, [Next]_vars PROVE Vacant'
  OBVIOUS
<1>1. ASSUME NEW s \in Servers, Others(s),
             ~up'[s] => at'[s].todo = "ready" /\ drain'[s] = None /\ flask'[s] = None,
             at'[s].todo \in AtDrain => drain'[s] = None,
             at'[s].todo \in AtGraph => flask'[s] = None
      PROVE  Vacant'
  BY <1>1 DEF Vacant, Others
<1>2. ASSUME UNCHANGED <<up, drain, flask, at>> PROVE Vacant'
  BY <1>2 DEF Vacant
<1>3. \A p \in Pids : DrainExits(p) \/ BindPort(p) \/ GraphServerFails(p) \/ ForeignStarts(p) \/ ForeignEnds(p)
        => UNCHANGED <<up, drain, flask, at>>
  BY DEF DrainExits, BindPort, GraphServerFails, ForeignStarts, ForeignEnds, server
<1>4. PidfileExpires \/ UNCHANGED vars => UNCHANGED <<up, drain, flask, at>>
  BY DEF PidfileExpires, vars, server
<1>5. ASSUME NEW s \in Servers, StartServer(s) \/ Shutdown(s) \/ Killed(s) PROVE Vacant'
  BY <1>1, <1>5, Acts DEF Vacant, AtDrain, AtGraph
<1>6. ASSUME NEW s \in Servers, LookForDrain(s) \/ SpawnDrain(s) \/ SpawnDrainFails(s) \/ CheckSyncWorkerHealth(s) PROVE Vacant'
  BY <1>1, <1>6, Acts DEF Vacant, AtDrain, AtGraph
<1>7. ASSUME NEW s \in Servers, LookAtPort(s) \/ ReclaimPort(s) \/ Relocate(s) PROVE Vacant'
  BY <1>1, <1>7, Acts DEF Vacant, AtDrain, AtGraph
<1>8. ASSUME NEW s \in Servers, SpawnGraphServer(s) \/ SpawnGraphServerFails(s) \/ CheckGraphServerHealth(s) PROVE Vacant'
  BY <1>1, <1>8, Acts DEF Vacant, AtDrain, AtGraph
<1> QED
  BY <1>2, <1>3, <1>4, <1>5, <1>6, <1>7, <1>8 DEF Next

LEMMA HandlesStep == Types /\ OneKind /\ Vacant /\ Handles /\ [Next]_vars => Handles'
<1> SUFFICES ASSUME Types, OneKind, Vacant, Handles, [Next]_vars PROVE Handles'
  OBVIOUS
<1>0. \A s \in Servers : drain[s] \in Pids \cup {None} /\ flask[s] \in Pids \cup {None}
  BY DEF Types, ServerTypes
<1>1. ASSUME UNCHANGED <<proc, drain, flask>> PROVE Handles'
  BY <1>1 DEF Handles
<1>2. ASSUME NEW s \in Servers, Shutdown(s) \/ Killed(s) PROVE Handles'
  <2>1. drain'[s] = None /\ flask'[s] = None /\ Others(s)
    BY <1>2, Acts
  <2>2. Reaps(s) /\ \A p \in Pids : proc[p].parent = s /\ proc[p].kind \in {"drain", "graph"} => proc'[p] = Free
    BY <1>2, Leaving
  <2>3. \A p \in Pids : proc'[p].kind \in {"drain", "graph"} => proc'[p] = proc[p] /\ proc[p].parent # s
    BY <2>2, FreeFields DEF Reaps
  <2>4. \A p \in Pids : proc[p].parent # s => proc'[p] = proc[p]
    BY <2>2 DEF Reaps
  <2> QED
    BY <1>0, <2>1, <2>3, <2>4 DEF Handles, Others
<1>3. ASSUME NEW s \in Servers, CheckSyncWorkerHealth(s) PROVE Handles'
  <2>1. drain'[s] = None /\ Others(s) /\ drain[s] # None /\ UNCHANGED flask
    BY <1>3, Acts
  <2>2. flask[s] = None
    BY <2>1 DEF OneKind
  <2>3. /\ drain[s] \in Pids /\ proc'[drain[s]] = Free /\ proc[drain[s]].kind \in {"crashed", "ended"}
        /\ \A p \in Pids : p # drain[s] => proc'[p] = proc[p]
    BY <1>3, Reaping
  <2>4. \A t \in Servers : t # s => drain[t] # drain[s] /\ flask[t] # drain[s]
    BY <2>1 DEF Handles
  <2>5. \A p \in Pids : proc'[p].kind \in {"drain", "graph"} => p # drain[s]
    BY <2>3, FreeFields
  <2> QED
    BY <1>0, <2>1, <2>2, <2>3, <2>4, <2>5 DEF Handles, Others
<1>4. ASSUME NEW s \in Servers, CheckGraphServerHealth(s) PROVE Handles'
  <2>1. flask'[s] = None /\ Others(s) /\ flask[s] # None /\ UNCHANGED drain
    BY <1>4, Acts
  <2>2. drain[s] = None
    BY <2>1 DEF OneKind
  <2>3. /\ flask[s] \in Pids /\ proc'[flask[s]] = Free /\ proc[flask[s]].kind \in {"crashed", "ended"}
        /\ \A p \in Pids : p # flask[s] => proc'[p] = proc[p]
    BY <1>4, Reaping
  <2>4. \A t \in Servers : t # s => drain[t] # flask[s] /\ flask[t] # flask[s]
    BY <2>1 DEF Handles
  <2>5. \A p \in Pids : proc'[p].kind \in {"drain", "graph"} => p # flask[s]
    BY <2>3, FreeFields
  <2> QED
    BY <1>0, <2>1, <2>2, <2>3, <2>4, <2>5 DEF Handles, Others
<1>5. ASSUME NEW s \in Servers, ReclaimPort(s) \/ Relocate(s) PROVE Handles'
  <2>1. UNCHANGED <<drain, flask>>
    BY <1>5, Acts
  <2>2. CASE OwnedStalePid = None
    BY <1>1, <1>5, <2>1, <2>2 DEF ReclaimPort, Relocate
  <2>3. CASE OwnedStalePid # None
    <3> DEFINE p == owner[1]
    <3>1. /\ p \in Pids /\ \A q \in Pids : q # p => proc'[q] = proc[q]
          /\ proc[p].kind = "foreign" => proc'[p].kind = "free"
          /\ proc[p].kind # "foreign" => proc'[p].kind = "crashed" /\ proc'[p].parent = proc[p].parent
      BY <1>5, <2>3, Terminated, FreeFields
    <3> HIDE DEF p
    <3> QED
      BY <1>0, <2>1, <3>1 DEF Handles
  <2> QED
    BY <2>2, <2>3
<1>6. ASSUME NEW s \in Servers, SpawnDrain(s) PROVE Handles'
  <2>1. PICK p \in Pids :
          /\ proc[p].kind = "free" /\ \A q \in Pids : q # p => proc'[q] = proc[q]
          /\ proc'[p].kind = "drain" /\ proc'[p].parent = s
          /\ drain'[s] = p /\ \A t \in Servers : t # s => drain'[t] = drain[t]
    BY <1>6, Spawned
  <2>2. UNCHANGED flask /\ drain[s] = None
    BY <1>6, Acts DEF Vacant, AtDrain
  <2>3. None \notin Pids /\ \A t \in Servers : drain[t] # p /\ flask[t] # p
    BY <2>1, CompanionsAssumption DEF Handles
  <2>4. \A t \in Servers :
          /\ drain'[t] # None => proc'[drain'[t]].parent = t /\ proc'[drain'[t]].kind \in {"drain", "crashed", "ended"}
          /\ flask'[t] # None => proc'[flask'[t]].parent = t /\ proc'[flask'[t]].kind \in {"graph", "crashed", "ended"}
    BY <1>0, <2>1, <2>2, <2>3 DEF Handles
  <2>5. ASSUME NEW q \in Pids
        PROVE  /\ proc'[q].kind = "drain" => proc'[q].parent \in Servers /\ drain'[proc'[q].parent] = q
               /\ proc'[q].kind = "graph" => proc'[q].parent \in Servers /\ flask'[proc'[q].parent] = q
    BY <2>1, <2>2, <2>3 DEF Handles
  <2> QED
    BY <2>4, <2>5 DEF Handles
<1>7. ASSUME NEW s \in Servers, SpawnGraphServer(s) PROVE Handles'
  <2>1. PICK p \in Pids :
          /\ proc[p].kind = "free" /\ \A q \in Pids : q # p => proc'[q] = proc[q]
          /\ proc'[p].kind = "graph" /\ proc'[p].parent = s
          /\ flask'[s] = p /\ \A t \in Servers : t # s => flask'[t] = flask[t]
    BY <1>7, Spawned
  <2>2. UNCHANGED drain /\ flask[s] = None
    BY <1>7, Acts DEF Vacant, AtGraph
  <2>3. None \notin Pids /\ \A t \in Servers : drain[t] # p /\ flask[t] # p
    BY <2>1, CompanionsAssumption DEF Handles
  <2>4. \A t \in Servers :
          /\ drain'[t] # None => proc'[drain'[t]].parent = t /\ proc'[drain'[t]].kind \in {"drain", "crashed", "ended"}
          /\ flask'[t] # None => proc'[flask'[t]].parent = t /\ proc'[flask'[t]].kind \in {"graph", "crashed", "ended"}
    BY <1>0, <2>1, <2>2, <2>3 DEF Handles
  <2>5. ASSUME NEW q \in Pids
        PROVE  /\ proc'[q].kind = "drain" => proc'[q].parent \in Servers /\ drain'[proc'[q].parent] = q
               /\ proc'[q].kind = "graph" => proc'[q].parent \in Servers /\ flask'[proc'[q].parent] = q
    BY <2>1, <2>2, <2>3 DEF Handles
  <2> QED
    BY <2>4, <2>5 DEF Handles
<1>8. ASSUME NEW p \in Pids, DrainExits(p) \/ BindPort(p) \/ GraphServerFails(p) \/ ForeignStarts(p) \/ ForeignEnds(p)
      PROVE  Handles'
  <2>1. UNCHANGED <<drain, flask>>
    BY <1>8 DEF DrainExits, BindPort, GraphServerFails, ForeignStarts, ForeignEnds, server
  <2>2. \A q \in Pids : q # p => proc'[q] = proc[q]
    BY <1>8, Alone
  <2>3. \/ /\ proc[p].kind \in {"drain", "graph"} /\ proc'[p].parent = proc[p].parent
           /\ proc'[p].kind \in {proc[p].kind, "crashed", "ended"}
        \/ proc[p].kind \in {"free", "foreign"} /\ proc'[p].kind \in {"free", "foreign"}
    BY <1>8, Alone, FreeFields
  <2> QED
    BY <1>0, <2>1, <2>2, <2>3 DEF Handles
<1>9. CASE PidfileExpires \/ UNCHANGED vars
  BY <1>1, <1>9 DEF PidfileExpires, vars, server
<1> QED
  BY <1>1, <1>2, <1>3, <1>4, <1>5, <1>6, <1>7, <1>8, <1>9, Acts DEF Next

LEMMA RetirementStep == Types /\ OneKind /\ Retirement /\ [Next]_vars => Retirement'
<1> SUFFICES ASSUME Types, OneKind, Retirement, [Next]_vars PROVE Retirement'
  OBVIOUS
<1>1. ASSUME NEW s \in Servers, Others(s), retired' \subseteq retired, s \notin retired' PROVE Retirement'
  BY <1>1 DEF Retirement, Others, Types, SharedTypes
<1>2. ASSUME UNCHANGED <<mode, up, drain, at, retired>> PROVE Retirement'
  BY <1>2 DEF Retirement
<1>3. \A p \in Pids : DrainExits(p) \/ BindPort(p) \/ GraphServerFails(p) \/ ForeignStarts(p) \/ ForeignEnds(p)
        => UNCHANGED <<mode, up, drain, at, retired>>
  BY DEF DrainExits, BindPort, GraphServerFails, ForeignStarts, ForeignEnds, server, history
<1>4. PidfileExpires \/ UNCHANGED vars => UNCHANGED <<mode, up, drain, at, retired>>
  BY DEF PidfileExpires, vars, server, history
<1>5. \A s \in Servers : Shutdown(s) \/ Killed(s) => Retirement'
  BY <1>1, Acts DEF Shutdown, Killed
<1>6. \A s \in Servers :
        StartServer(s) \/ LookForDrain(s) \/ SpawnDrain(s) \/ SpawnDrainFails(s) \/ LookAtPort(s) \/ ReclaimPort(s)
          \/ Relocate(s) \/ SpawnGraphServer(s) \/ SpawnGraphServerFails(s) => retired' = retired
  BY DEF StartServer, LookForDrain, SpawnDrain, SpawnDrainFails, LookAtPort, ReclaimPort, Relocate, SpawnGraphServer,
         SpawnGraphServerFails, history
<1>7. ASSUME NEW s \in Servers,
             StartServer(s) \/ LookForDrain(s) \/ SpawnDrain(s) \/ SpawnDrainFails(s) \/ LookAtPort(s) \/ ReclaimPort(s)
               \/ Relocate(s) \/ SpawnGraphServer(s) \/ SpawnGraphServerFails(s)
      PROVE  Retirement'
  <2>1. Others(s) /\ (~up[s] \/ at[s].todo # "ready")
    BY <1>7, Acts
  <2>2. s \notin retired
    BY <2>1 DEF Retirement
  <2> QED
    BY <1>1, <1>6, <1>7, <2>1, <2>2
<1>8. ASSUME NEW s \in Servers, CheckSyncWorkerHealth(s) PROVE Retirement'
  <2>1. /\ Others(s) /\ up[s] /\ UNCHANGED up /\ drain[s] # None /\ drain'[s] = None
        /\ at'[s].todo = (IF Respawn(drain[s]) THEN "look for drain" ELSE "ready")
    BY <1>8, Acts
  <2>2. mode = "sync" /\ s \notin retired
    BY <2>1 DEF OneKind, Retirement
  <2>3. retired' = retired \/ (retired' = retired \cup {s} /\ ~Respawn(drain[s]))
    BY <1>8 DEF CheckSyncWorkerHealth, Respawn
  <2>4. CASE retired' = retired
    BY <1>1, <2>1, <2>2, <2>4
  <2>5. CASE retired' = retired \cup {s} /\ ~Respawn(drain[s])
    BY <2>1, <2>2, <2>5 DEF Retirement, Others, Types, SharedTypes
  <2> QED
    BY <2>3, <2>4, <2>5
<1>9. ASSUME NEW s \in Servers, CheckGraphServerHealth(s) PROVE Retirement'
  <2>1. Others(s) /\ flask[s] # None /\ retired' = retired
    BY <1>9, Acts DEF CheckGraphServerHealth, history
  <2>2. s \notin retired
    BY <2>1 DEF OneKind, Retirement
  <2> QED
    BY <1>1, <2>1, <2>2
<1> QED
  BY <1>2, <1>3, <1>4, <1>5, <1>7, <1>8, <1>9 DEF Next

(* Only SpawnDrain adds a drain.                                           *)
LEMMA FewerDrains ==
  ASSUME Types, Handles
  PROVE  /\ \A s \in Servers :
              \/ StartServer(s) \/ Shutdown(s) \/ Killed(s) \/ LookForDrain(s) \/ SpawnDrainFails(s) \/ CheckSyncWorkerHealth(s)
              \/ LookAtPort(s) \/ ReclaimPort(s) \/ Relocate(s) \/ SpawnGraphServer(s) \/ SpawnGraphServerFails(s)
              \/ CheckGraphServerHealth(s)
              => Drains' \subseteq Drains
         /\ \A p \in Pids :
              DrainExits(p) \/ BindPort(p) \/ GraphServerFails(p) \/ ForeignStarts(p) \/ ForeignEnds(p) => Drains' \subseteq Drains
         /\ PidfileExpires \/ UNCHANGED vars => Drains' \subseteq Drains
<1>1. ASSUME UNCHANGED proc PROVE Drains' \subseteq Drains
  BY <1>1 DEF Drains
<1>2. ASSUME NEW s \in Servers, Reaps(s) PROVE Drains' \subseteq Drains
  BY <1>2, FreeFields DEF Reaps, Drains
<1>3. ASSUME NEW s \in Servers, ReclaimPort(s) \/ Relocate(s) PROVE Drains' \subseteq Drains
  <2>1. CASE OwnedStalePid = None
    BY <1>1, <1>3, <2>1 DEF ReclaimPort, Relocate
  <2>2. CASE OwnedStalePid # None
    BY <1>3, <2>2, Terminated, FreeFields DEF Drains
  <2> QED
    BY <2>1, <2>2
<1>4. ASSUME NEW s \in Servers, SpawnGraphServer(s) PROVE Drains' \subseteq Drains
  BY <1>4, Spawned DEF Drains
<1>5. ASSUME NEW p \in Pids, DrainExits(p) \/ BindPort(p) \/ GraphServerFails(p) \/ ForeignStarts(p) \/ ForeignEnds(p)
      PROVE  Drains' \subseteq Drains
  <2>1. \A q \in Pids : q # p => proc'[q] = proc[q]
    BY <1>5, Alone
  <2>2. proc'[p].kind # "drain"
    BY <1>5, Alone, FreeFields
  <2> QED
    BY <2>1, <2>2 DEF Drains
<1>6. PidfileExpires \/ UNCHANGED vars => UNCHANGED proc
  BY DEF PidfileExpires, vars
<1> QED
  BY <1>1, <1>2, <1>3, <1>4, <1>5, <1>6, Acts, Leaving, Reaping

LEMMA NamedStep == Types /\ OneKind /\ Vacant /\ Handles /\ Named /\ [Next]_vars => Named'
<1> SUFFICES ASSUME Types, OneKind, Vacant, Handles, Named, [Next]_vars PROVE Named'
  OBVIOUS
<1>1. ASSUME ~overlap, UNCHANGED pidfile \/ Drains' = {}, Drains' \subseteq Drains,
             \A t \in Servers : at'[t].todo = "spawn drain" => at[t].todo = "spawn drain"
      PROVE  Named'
  BY <1>1 DEF Named
<1>2. overlap' => Named'
  BY DEF Named
<1>3. ASSUME NEW s \in Servers,
             StartServer(s) \/ Killed(s) \/ SpawnDrainFails(s) \/ LookAtPort(s) \/ ReclaimPort(s) \/ Relocate(s)
               \/ SpawnGraphServer(s) \/ SpawnGraphServerFails(s) \/ CheckGraphServerHealth(s)
      PROVE  Named'
  <2>1. UNCHANGED <<pidfile, overlap>>
    BY <1>3 DEF StartServer, Killed, SpawnDrainFails, LookAtPort, ReclaimPort, Relocate, SpawnGraphServer, SpawnGraphServerFails,
                CheckGraphServerHealth, files, history
  <2>2. Others(s) /\ at'[s].todo # "spawn drain"
    BY <1>3, Acts
  <2>3. \A t \in Servers : at'[t].todo = "spawn drain" => at[t].todo = "spawn drain"
    BY <2>2 DEF Others
  <2>4. Drains' \subseteq Drains
    BY <1>3, FewerDrains
  <2> QED
    BY <1>1, <1>2, <2>1, <2>3, <2>4
<1>4. ASSUME NEW s \in Servers, Shutdown(s) PROVE Named'
  <2>1. CASE overlap \/ (root[s] /\ RemovesOthers(s))
    BY <1>2, <1>4, <2>1 DEF Shutdown, ShutdownSyncWorker
  <2>2. CASE ~overlap /\ (root[s] => ~RemovesOthers(s))
    <3>1. Drains' \subseteq Drains /\ at' = at
      BY <1>4, FewerDrains DEF Shutdown
    <3>2. drain[s] \notin Drains'
      BY <1>4, FreeFields DEF Shutdown, Drains
    <3>3. root[s] => Drains' = {}
      BY <2>2, <3>1, <3>2 DEF Named, RemovesOthers
    <3>4. ~root[s] => UNCHANGED pidfile
      BY <1>4 DEF Shutdown, ShutdownSyncWorker
    <3> QED
      BY <1>1, <2>2, <3>1, <3>3, <3>4
  <2> QED
    BY <2>1, <2>2
<1>5. ASSUME NEW s \in Servers, CheckSyncWorkerHealth(s) PROVE Named'
  <2>1. /\ Drains' \subseteq Drains /\ drain[s] \notin Drains
        /\ Others(s) /\ at'[s].todo # "spawn drain"
    BY <1>5, FewerDrains, Reaping, Acts DEF Drains
  <2>2. \A t \in Servers : at'[t].todo = "spawn drain" => at[t].todo = "spawn drain"
    BY <2>1 DEF Others
  <2>3. CASE Respawn(drain[s])
    <3>1. UNCHANGED <<pidfile, overlap>>
      BY <1>5, <2>3 DEF CheckSyncWorkerHealth
    <3> QED
      BY <1>1, <1>2, <2>1, <2>2, <3>1
  <2>4. CASE ~Respawn(drain[s])
    <3>1. overlap' = (overlap \/ RemovesOthers(s))
      BY <1>5, <2>4 DEF CheckSyncWorkerHealth
    <3>2. CASE overlap'
      BY <1>2, <3>2
    <3>3. CASE ~overlap'
      <4>1. Drains' = {}
        BY <2>1, <3>1, <3>3 DEF Named, RemovesOthers
      <4> QED
        BY <1>1, <2>1, <2>2, <3>1, <3>3, <4>1
    <3> QED
      BY <3>2, <3>3
  <2> QED
    BY <2>3, <2>4
<1>6. ASSUME NEW s \in Servers, LookForDrain(s) PROVE Named'
  <2>1. /\ overlap' = (overlap \/ (~AnotherDrainRunning(s) /\ \E t \in Servers \ {s} : at[t].todo = "spawn drain"))
        /\ UNCHANGED <<pidfile, proc>> /\ Drains' = Drains
    BY <1>6 DEF LookForDrain, files, Drains
  <2>2. /\ Others(s) /\ at[s].todo = "look for drain"
        /\ at'[s].todo = (IF AnotherDrainRunning(s) THEN "ready" ELSE "spawn drain")
    BY <1>6, Acts
  <2>3. CASE overlap'
    BY <1>2, <2>3
  <2>4. CASE ~overlap' /\ AnotherDrainRunning(s)
    <3>1. \A t \in Servers : at'[t].todo = "spawn drain" => at[t].todo = "spawn drain"
      BY <2>2, <2>4 DEF Others
    <3> QED
      BY <1>1, <2>1, <2>4, <3>1
  <2>5. CASE ~overlap' /\ ~AnotherDrainRunning(s)
    <3>1. drain[s] = None
      BY <2>2 DEF Vacant, AtDrain
    <3>2. ASSUME NEW p \in Drains PROVE FALSE
      <4>1. pidfile.pid = p /\ ~pidfile.expired /\ p # None /\ proc[p].kind = "drain"
        BY <2>1, <2>5, CompanionsAssumption DEF Named, Drains
      <4> QED
        BY <2>5, <3>1, <4>1 DEF AnotherDrainRunning, Alive
    <3>3. \A t \in Servers : at'[t].todo = "spawn drain" => t = s
      BY <2>1, <2>2, <2>5 DEF Others
    <3> QED
      BY <2>1, <3>2, <3>3 DEF Named
  <2> QED
    BY <2>3, <2>4, <2>5
<1>7. ASSUME NEW s \in Servers, SpawnDrain(s) PROVE Named'
  <2>1. CASE overlap
    BY <1>2, <1>7, <2>1 DEF SpawnDrain, history
  <2>2. CASE ~overlap
    <3>1. PICK p \in Pids : /\ \A q \in Pids : q # p => proc'[q] = proc[q]
                            /\ pidfile' = [pid |-> p, expired |-> FALSE]
      BY <1>7, Spawned
    <3>2. Others(s) /\ at[s].todo = "spawn drain" /\ at'[s].todo = "ready"
      BY <1>7, Acts
    <3>3. Drains = {} /\ \A t \in Servers : at[t].todo = "spawn drain" => t = s
      BY <2>2, <3>2 DEF Named
    <3>4. \A t \in Servers : at'[t].todo # "spawn drain"
      BY <3>2, <3>3 DEF Others
    <3>5. \A q \in Drains' : q = p
      BY <3>1, <3>3 DEF Drains
    <3> QED
      BY <3>1, <3>4, <3>5 DEF Named
  <2> QED
    BY <2>1, <2>2
<1>8. ASSUME NEW p \in Pids, DrainExits(p) \/ BindPort(p) \/ GraphServerFails(p) \/ ForeignStarts(p) \/ ForeignEnds(p)
      PROVE  Named'
  <2>1. UNCHANGED <<pidfile, at, overlap>>
    BY <1>8 DEF DrainExits, BindPort, GraphServerFails, ForeignStarts, ForeignEnds, server, files, history
  <2>2. Drains' \subseteq Drains
    BY <1>8, FewerDrains
  <2> QED
    BY <1>1, <1>2, <2>1, <2>2
<1>9. CASE PidfileExpires
  <2>1. /\ pidfile' = [pidfile EXCEPT !.expired = TRUE] /\ overlap' = (overlap \/ pidfile.pid \in Drains)
        /\ UNCHANGED <<at, proc>> /\ Drains' = Drains
    BY <1>9 DEF PidfileExpires, server, Drains
  <2>2. CASE overlap'
    BY <1>2, <2>2
  <2>3. CASE ~overlap'
    <3>1. Drains = {}
      BY <2>1, <2>3 DEF Named
    <3> QED
      BY <1>1, <2>1, <2>3, <3>1
  <2> QED
    BY <2>2, <2>3
<1>10. CASE UNCHANGED vars
  <2>1. UNCHANGED <<pidfile, at, overlap, proc>>
    BY <1>10 DEF vars, server, files, history
  <2> QED
    BY <2>1 DEF Named, Drains
<1> QED
  BY <1>3, <1>4, <1>5, <1>6, <1>7, <1>8, <1>9, <1>10 DEF Next

LEMMA RecordedStep == Types /\ PortsHeldOnce /\ OneKind /\ Vacant /\ Handles /\ Recorded /\ [Next]_vars => Recorded'
<1> SUFFICES ASSUME Types, PortsHeldOnce, OneKind, Vacant, Handles, Recorded, [Next]_vars PROVE Recorded'
  OBVIOUS
<1>0. /\ owner[1] \in Pids \cup {None} /\ None \notin Pids /\ 1 \in Ports
      /\ owner \in [Ports -> Pids \cup {None}]
  BY CompanionsAssumption DEF Types, SharedTypes
<1>1. excused' => Recorded'
  BY DEF Recorded
<1>2. ASSUME excused' = excused, harm' => harm \/ excused, owner'[1] \in {None, owner[1]},
             \A p \in Pids : proc'[p] = proc[p] \/ proc'[p].kind \notin {"graph", "foreign"},
             \A p \in Pids : proc'[p].kind = "graph" => owned'[proc'[p].parent] = owned[proc'[p].parent],
             \A t \in Servers : at'[t].todo = "resolve" => at[t].todo = "resolve"
      PROVE  Recorded'
  <2> SUFFICES ASSUME ~excused' PROVE Recorded'
    BY <1>1
  <2>1. /\ ~harm
        /\ owner[1] # None =>
             /\ proc[owner[1]].kind # "foreign"
             /\ proc[owner[1]].kind = "graph" => proc[owner[1]].port \in {0, 1} /\ owned[proc[owner[1]].parent] = 1
        /\ \A s \in Servers : at[s].todo = "resolve" =>
             \A p \in Pids : proc[p].kind = "graph" /\ proc[p].port = 1 => proc[p].sick
    BY <1>2 DEF Recorded
  <2>2. owner'[1] # None =>
          /\ proc'[owner'[1]].kind # "foreign"
          /\ proc'[owner'[1]].kind = "graph" => proc'[owner'[1]].port \in {0, 1} /\ owned'[proc'[owner'[1]].parent] = 1
    <3> SUFFICES ASSUME owner'[1] # None
                 PROVE  /\ proc'[owner'[1]].kind # "foreign"
                        /\ proc'[owner'[1]].kind = "graph" => proc'[owner'[1]].port \in {0, 1} /\ owned'[proc'[owner'[1]].parent] = 1
      OBVIOUS
    <3>1. owner'[1] = owner[1] /\ owner[1] \in Pids
      BY <1>0, <1>2
    <3> QED
      BY <1>2, <2>1, <3>1
  <2>3. \A s \in Servers : at'[s].todo = "resolve" =>
          \A p \in Pids : proc'[p].kind = "graph" /\ proc'[p].port = 1 => proc'[p].sick
    BY <1>2, <2>1
  <2> QED
    BY <1>2, <2>1, <2>2, <2>3 DEF Recorded
<1>3. ASSUME NEW s \in Servers, StartServer(s) \/ LookForDrain(s) \/ SpawnDrainFails(s) \/ SpawnGraphServerFails(s)
      PROVE  Recorded'
  <2>1. UNCHANGED <<excused, harm, owner>>
    BY <1>3 DEF StartServer, LookForDrain, SpawnDrainFails, SpawnGraphServerFails, files, history
  <2>2. Others(s) /\ UNCHANGED <<proc, owned>> /\ at'[s].todo # "resolve"
    BY <1>3, Acts
  <2> QED
    BY <1>2, <2>1, <2>2 DEF Others
<1>4. ASSUME NEW s \in Servers, Shutdown(s) \/ Killed(s) PROVE Recorded'
  <2>1. UNCHANGED <<excused, harm>>
    BY <1>4 DEF Shutdown, Killed
  <2>2. owner'[1] \in {None, owner[1]}
    BY <1>0, <1>4 DEF Shutdown, Killed, ShutdownFlask, ClearOwnerFile, files
  <2>3. Others(s) /\ at'[s].todo # "resolve"
    BY <1>4, Acts
  <2>4. Reaps(s) /\ \A p \in Pids : proc[p].parent = s /\ proc[p].kind \in {"drain", "graph"} => proc'[p] = Free
    BY <1>4, Leaving
  <2>5. \A p \in Pids : proc'[p].kind = "graph" => proc'[p].parent \in Servers \ {s}
    BY <2>4, FreeFields DEF Reaps, Handles
  <2>6. \A p \in Pids : proc'[p] = proc[p] \/ proc'[p].kind \notin {"graph", "foreign"}
    BY <2>4, FreeFields DEF Reaps
  <2> QED
    BY <1>2, <2>1, <2>2, <2>3, <2>5, <2>6 DEF Others
<1>5. ASSUME NEW s \in Servers, CheckSyncWorkerHealth(s) \/ CheckGraphServerHealth(s) PROVE Recorded'
  <2>1. UNCHANGED <<excused, harm, owner>>
    BY <1>5 DEF CheckSyncWorkerHealth, CheckGraphServerHealth, files, history
  <2>2. Others(s) /\ at'[s].todo # "resolve" /\ UNCHANGED owned
    BY <1>5, Acts
  <2>3. \A p \in Pids : proc'[p] = proc[p] \/ proc'[p].kind \notin {"graph", "foreign"}
    BY <1>5, Reaping, FreeFields DEF Reaps
  <2> QED
    BY <1>2, <2>1, <2>2, <2>3 DEF Others
<1>6. ASSUME NEW s \in Servers, SpawnDrain(s) PROVE Recorded'
  <2>1. UNCHANGED <<excused, harm, owner>>
    BY <1>6 DEF SpawnDrain, history
  <2>2. Others(s) /\ at'[s].todo # "resolve" /\ UNCHANGED owned
    BY <1>6, Acts
  <2>3. \A p \in Pids : proc'[p] = proc[p] \/ proc'[p].kind \notin {"graph", "foreign"}
    BY <1>6, Spawned
  <2> QED
    BY <1>2, <2>1, <2>2, <2>3 DEF Others
<1>7. ASSUME NEW s \in Servers, ReclaimPort(s) \/ Relocate(s) PROVE Recorded'
  <2>1. excused' = excused /\ owner'[1] \in {None, owner[1]}
    BY <1>0, <1>7 DEF ReclaimPort, Relocate, ClearOwnerFile, files
  <2>2. Others(s) /\ at[s].todo = "resolve" /\ at'[s].todo # "resolve" /\ UNCHANGED owned
    BY <1>7, Acts
  <2>3. CASE OwnedStalePid = None
    <3>1. UNCHANGED <<proc, harm>>
      BY <1>7, <2>3 DEF ReclaimPort, Relocate
    <3> QED
      BY <1>2, <2>1, <2>2, <3>1 DEF Others
  <2>4. CASE OwnedStalePid # None
    <3> DEFINE p == owner[1]
    <3>1. /\ p \in Pids /\ p # None /\ \A q \in Pids : q # p => proc'[q] = proc[q]
          /\ proc'[p].kind \in {"free", "crashed"}
          /\ harm' = (harm \/ proc[p].kind = "foreign" \/ (proc[p].kind = "graph" /\ proc[p].port # 0 /\ ~proc[p].sick))
      BY <1>7, <2>4, Terminated, FreeFields
    <3>2. ASSUME ~excused
          PROVE  ~harm /\ proc[p].kind # "foreign" /\ ~(proc[p].kind = "graph" /\ proc[p].port # 0 /\ ~proc[p].sick)
      BY <2>2, <3>1, <3>2 DEF Recorded
    <3>3. harm' => harm \/ excused
      BY <3>1, <3>2
    <3>4. \A q \in Pids : proc'[q] = proc[q] \/ proc'[q].kind \notin {"graph", "foreign"}
      BY <3>1
    <3> QED
      BY <1>2, <2>1, <2>2, <3>3, <3>4 DEF Others
  <2> QED
    BY <2>3, <2>4
<1>8. ASSUME NEW s \in Servers, LookAtPort(s) PROVE Recorded'
  <2>1. UNCHANGED <<excused, harm, owner>>
    BY <1>8 DEF LookAtPort, files, history
  <2>2. Others(s) /\ UNCHANGED <<proc, owned>> /\ (at'[s].todo = "resolve" => Holder(1) # None /\ ~Healthy(1))
    BY <1>8, Acts
  <2>3. CASE at'[s].todo # "resolve"
    BY <1>2, <2>1, <2>2, <2>3 DEF Others
  <2>4. CASE at'[s].todo = "resolve"
    <3>1. ASSUME NEW p \in Pids, proc[p].kind = "graph", proc[p].port = 1 PROVE proc[p].sick
      <4>1. Holder(1) \in Pids /\ proc[Holder(1)].port = 1
        BY <2>2, <2>4, HolderFound
      <4>2. p = Holder(1)
        BY <3>1, <4>1 DEF PortsHeldOnce
      <4> QED
        BY <2>2, <2>4, <3>1, <4>2 DEF Healthy
    <3> QED
      BY <2>1, <2>2, <3>1 DEF Recorded, Others
  <2> QED
    BY <2>3, <2>4
<1>9. ASSUME NEW s \in Servers, SpawnGraphServer(s) PROVE Recorded'
  <2>1. PICK p \in Pids :
          /\ proc[p].kind = "free" /\ \A q \in Pids : q # p => proc'[q] = proc[q]
          /\ proc'[p].kind = "graph" /\ proc'[p].parent = s /\ proc'[p].port = 0
          /\ owner' = [owner EXCEPT ![at[s].port] = p]
          /\ excused' = (excused \/ \E n \in Ports \ {at[s].port} : owner[n] = p)
    BY <1>9, Spawned
  <2>2. /\ Others(s) /\ at[s].todo = "spawn graph" /\ at'[s].todo = "ready" /\ owned'[s] = at[s].port /\ harm' = harm
    BY <1>9, Acts DEF SpawnGraphServer
  <2> SUFFICES ASSUME ~excused' PROVE Recorded'
    BY <1>1
  <2>3. ~excused /\ (at[s].port # 1 => owner[1] # p)
    BY <1>0, <2>1
  <2>4. owned' \in [Servers -> {0} \cup Ports] /\ \A t \in Servers : t # s => owned'[t] = owned[t]
    BY <1>9, TypesStep, <2>2 DEF Types, ServerTypes, Others
  <2>5. owner'[1] # None =>
          /\ proc'[owner'[1]].kind # "foreign"
          /\ proc'[owner'[1]].kind = "graph" => proc'[owner'[1]].port \in {0, 1} /\ owned'[proc'[owner'[1]].parent] = 1
    <3>1. CASE at[s].port = 1
      <4>1. owner'[1] = p
        BY <1>0, <2>1, <3>1
      <4> QED
        BY <2>1, <2>2, <3>1, <4>1
    <3>2. CASE at[s].port # 1
      <4>1. owner'[1] = owner[1] /\ owner[1] # p
        BY <1>0, <2>1, <2>3, <3>2
      <4>2. flask[s] = None
        BY <2>2 DEF Vacant, AtGraph
      <4>3. \A q \in Pids : proc[q].kind = "graph" => proc[q].parent \in Servers \ {s}
        BY <1>0, <4>2 DEF Handles
      <4>4. owner[1] # None => owner[1] \in Pids /\ proc'[owner[1]] = proc[owner[1]]
        BY <1>0, <2>1, <4>1
      <4>5. owner[1] # None =>
              /\ proc[owner[1]].kind # "foreign"
              /\ proc[owner[1]].kind = "graph" => proc[owner[1]].port \in {0, 1} /\ owned[proc[owner[1]].parent] = 1
        BY <2>3 DEF Recorded
      <4> QED
        BY <2>4, <4>1, <4>3, <4>4, <4>5
    <3> QED
      BY <3>1, <3>2
  <2>6. \A t \in Servers : at'[t].todo = "resolve" =>
          \A q \in Pids : proc'[q].kind = "graph" /\ proc'[q].port = 1 => proc'[q].sick
    <3>1. \A q \in Pids : proc'[q].kind = "graph" /\ proc'[q].port = 1 => proc'[q] = proc[q]
      BY <2>1
    <3>2. \A t \in Servers : at'[t].todo = "resolve" => at[t].todo = "resolve"
      BY <2>2 DEF Others
    <3> QED
      BY <2>3, <3>1, <3>2 DEF Recorded
  <2> QED
    BY <2>2, <2>3, <2>5, <2>6 DEF Recorded
<1>10. ASSUME NEW p \in Pids, DrainExits(p) \/ ForeignEnds(p) PROVE Recorded'
  <2>1. UNCHANGED <<excused, harm, owner, owned, at>>
    BY <1>10 DEF DrainExits, ForeignEnds, server, files, history
  <2>2. \A q \in Pids : proc'[q] = proc[q] \/ proc'[q].kind \notin {"graph", "foreign"}
    BY <1>10, Alone, FreeFields
  <2> QED
    BY <1>2, <2>1, <2>2
<1>11. ASSUME NEW p \in Pids, GraphServerFails(p) PROVE Recorded'
  <2>1. UNCHANGED <<excused, harm, owner, owned, at>>
    BY <1>11 DEF GraphServerFails, server, files, history
  <2>2. /\ proc[p].kind = "graph" /\ proc'[p].parent = proc[p].parent /\ \A q \in Pids : q # p => proc'[q] = proc[q]
        /\ \/ proc'[p].kind = "graph" /\ proc'[p].port = proc[p].port /\ proc'[p].sick
           \/ proc'[p].kind = "crashed" /\ proc'[p].port = 0
    BY <1>11, Alone
  <2> QED
    BY <1>0, <2>1, <2>2 DEF Recorded
<1>12. ASSUME NEW p \in Pids, BindPort(p) PROVE Recorded'
  <2>1. /\ UNCHANGED <<harm, owner, owned, at>>
        /\ excused' = (excused \/ (Holder(owned[proc[p].parent]) = None /\ owned[proc[p].parent] = 1
                                     /\ \E s \in Servers : at[s].todo = "resolve"))
    BY <1>12 DEF BindPort, server, files
  <2>2. /\ proc[p].kind = "graph" /\ proc'[p].parent = proc[p].parent /\ \A q \in Pids : q # p => proc'[q] = proc[q]
        /\ proc'[p].kind \in {"graph", "crashed"}
        /\ proc'[p].kind = "graph" => proc'[p].port = owned[proc[p].parent] /\ Holder(owned[proc[p].parent]) = None
    BY <1>12, Alone
  <2> SUFFICES ASSUME ~excused' PROVE Recorded'
    BY <1>1
  <2>3. proc'[p].kind = "graph" /\ proc'[p].port = 1 => \A s \in Servers : at[s].todo # "resolve"
    BY <2>1, <2>2
  <2> QED
    BY <1>0, <2>1, <2>2, <2>3 DEF Recorded
<1>13. ASSUME NEW p \in Pids, ForeignStarts(p) PROVE Recorded'
  <2>1. UNCHANGED <<harm, owner, owned, at>> /\ excused' = (excused \/ \E n \in Ports : owner[n] = p)
    BY <1>13 DEF ForeignStarts, server, files
  <2>2. /\ proc'[p].kind = "foreign" /\ \A q \in Pids : q # p => proc'[q] = proc[q]
    BY <1>13, Alone
  <2> SUFFICES ASSUME ~excused' PROVE Recorded'
    BY <1>1
  <2>3. ~excused /\ owner[1] # p
    BY <1>0, <2>1
  <2> QED
    BY <1>0, <2>1, <2>2, <2>3 DEF Recorded
<1>14. CASE PidfileExpires \/ UNCHANGED vars
  <2>1. UNCHANGED <<harm, owner, owned, at, proc, excused>>
    BY <1>14 DEF PidfileExpires, vars, server, files, history
  <2> QED
    BY <1>2, <2>1
<1> QED
  BY <1>3, <1>4, <1>5, <1>6, <1>7, <1>8, <1>9, <1>10, <1>11, <1>12, <1>13, <1>14 DEF Next

-----------------------------------------------------------------------------
(* The theorems                                                            *)

LEMMA InvInit == Init => Inv
<1> SUFFICES ASSUME Init PROVE Inv
  OBVIOUS
<1>1. \A p \in Pids : proc[p].kind = "free" /\ proc[p].port = 0
  BY FreeFields DEF Init
<1>2. \A s \in Servers : at[s].todo = "ready" /\ drain[s] = None /\ flask[s] = None
  BY DEF Init, Ready
<1>3. PortsHeldOnce /\ Handles
  BY <1>1, <1>2 DEF PortsHeldOnce, Handles
<1>4. OneKind /\ Vacant /\ Retirement
  BY <1>2 DEF Init, OneKind, Vacant, Retirement, AtDrain, AtGraph
<1>5. Named
  BY <1>1, <1>2 DEF Named, Drains
<1>6. Recorded
  BY <1>2, CompanionsAssumption DEF Init, Recorded
<1> QED
  BY <1>3, <1>4, <1>5, <1>6, TypesInit DEF Inv

LEMMA InvStep == Inv /\ [Next]_vars => Inv'
BY TypesStep, PortsStep, KindStep, VacantStep, HandlesStep, RetirementStep, NamedStep, RecordedStep DEF Inv

LEMMA Invariance == Spec => []Inv
BY InvInit, InvStep, PTL DEF Spec

(* Whatever crashes, is killed or is restarted: no companion outlives its  *)
(* server, none is lost or shared, a port is held once, and a drain that   *)
(* stopped on purpose is not started again (server.start_graph_server,     *)
(* start_sync_worker, the health checks and shutdown_db).                  *)
THEOREM CompanionsAccounted == Spec => []ChildrenAccounted
<1>1. Inv => TypeOK
  BY DEF Inv, Types, ServerTypes, SharedTypes, Stages, AtDrain, AtGraph, ProcType, Kinds, PortsHeldOnce, Vacant, TypeOK
<1>2. Inv => NoOrphan
  <2> SUFFICES ASSUME Inv, NEW p \in Pids, proc[p].kind \in {"drain", "graph"}
               PROVE  up[proc[p].parent] /\ p \in {drain[proc[p].parent], flask[proc[p].parent]}
    BY DEF NoOrphan
  <2> QED
    BY CompanionsAssumption DEF Inv, Handles, Vacant
<1>3. Inv => CleanExitStays
  BY DEF Inv, Retirement, CleanExitStays
<1> QED
  BY <1>1, <1>2, <1>3, Invariance, PTL DEF ChildrenAccounted

(* Two drains run at a time only after two servers checked the pidfile     *)
(* before either wrote it, a server removed another's file, or a live      *)
(* drain's file expired (sync_server._another_drain_running).               *)
THEOREM OneDrain == Spec => []SoleDrain
<1>1. ASSUME Inv PROVE SoleDrain
  <2> SUFFICES ASSUME ~overlap PROVE ~(Cardinality(Drains) > 1)
    BY DEF SoleDrain
  <2>1. Drains \subseteq {pidfile.pid}
    BY <1>1 DEF Inv, Named
  <2>2. IsFiniteSet({pidfile.pid}) /\ Cardinality({pidfile.pid}) = 1
    BY FS_Singleton
  <2>3. Cardinality(Drains) <= 1 /\ Cardinality(Drains) \in Nat
    BY <2>1, <2>2, FS_Subset, FS_CardinalityType
  <2> QED
    BY <2>3
<1> QED
  BY <1>1, Invariance, PTL

(* Recovering the port terminates nothing but a graph server that has      *)
(* stopped answering, unless a recorded pid was used again or the port     *)
(* changed hands under the probe (graph_server._resolve_port_conflict).             *)
THEOREM RecoveryHarmsNoOther == Spec => []TerminatesOnlyWedged
<1>1. Inv => TerminatesOnlyWedged
  BY DEF Inv, Recorded, TerminatesOnlyWedged
<1> QED
  BY <1>1, Invariance, PTL
=============================================================================

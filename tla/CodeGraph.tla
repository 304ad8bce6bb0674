------------------------------ MODULE CodeGraph ------------------------------
(***************************************************************************)
(* The hooks that keep the repository's code graph up to date              *)
(* (scripts/sync_repo_graph.py, mark_repo_graph_dirty.py, hook_common.py). *)
(* Hooks run as processes of their own, most of them asynchronously, and   *)
(* share a dirty marker, the fingerprint of the git state and a lock file. *)
(* A version of the sources is a number; the graph is the version graphify *)
(* read.  The harness kills a hook that takes too long (180 s), before its *)
(* lock is old enough to be broken (190 s).                                *)
(***************************************************************************)
EXTENDS Integers, FiniteSets

CONSTANTS
  Hooks,           \* hook processes
  Unknown,         \* no fingerprint yet
  MaxEdits,        \* bound: changes of the sources
  MaxFailures,     \* bound: graphify runs that fail
  MaxHookKills     \* bound: hooks killed

ASSUME CodeGraphAssumption ==
  Unknown \notin Nat /\ {MaxEdits, MaxFailures, MaxHookKills} \subseteq Nat

VARIABLES
  tree,            \* version of the sources
  look,            \* what git rev-parse and git status show
  owed,            \* an edit's PostToolUse hook has not run yet
  dirty,           \* graphify.dirty
  print,           \* git-state.sha256
  lock,            \* graphify.lock: "none", "young" or "old"
  graph,           \* version in graphify-out
  hook,            \* what each hook is about to do, and the version it read
  orphan,          \* version read by a graphify whose hook was killed
  failures, hookKills,
  missable,        \* history: a change, or a run, that the marker cannot cover
  broken           \* history: a lock was broken

codeVars == <<tree, look, owed, dirty, print, lock, graph, hook, orphan, failures, hookKills, missable, broken>>

Resting == [todo |-> "idle", seen |-> 0]
Refreshing == {h \in Hooks : hook[h].todo \in {"run", "clear", "save", "unlock"}}

CodeInit ==
  /\ tree = 0 /\ look = 0 /\ owed = FALSE /\ dirty = FALSE /\ print = Unknown /\ lock = "none" /\ graph = 0
  /\ hook = [h \in Hooks |-> Resting] /\ orphan = Unknown
  /\ failures = 0 /\ hookKills = 0 /\ missable = FALSE /\ broken = FALSE

Goes(h, what) == hook' = [hook EXCEPT ![h].todo = what]

-----------------------------------------------------------------------------
(* Claude's edit tools, and everything else that writes files.  git shows  *)
(* a change of a file unless it already showed that file as modified.      *)
Edit(byTool, visible) ==
  /\ tree < MaxEdits
  /\ tree' = tree + 1
  /\ look' = IF visible THEN look + 1 ELSE look
  /\ owed' = (owed \/ byTool)
  /\ missable' = (missable \/ Refreshing # {} \/ (~byTool /\ (~visible \/ print = Unknown)))
  /\ UNCHANGED <<dirty, print, lock, graph, hook, orphan, failures, hookKills, broken>>

MarkDirty ==
  /\ owed
  /\ owed' = FALSE /\ dirty' = TRUE
  /\ UNCHANGED <<tree, look, print, lock, graph, hook, orphan, failures, hookKills, missable, broken>>

-----------------------------------------------------------------------------
(* sync_repo_graph *)

StartHook(h) ==
  /\ hook[h].todo = "idle"
  /\ Goes(h, "check")
  /\ UNCHANGED <<tree, look, owed, dirty, print, lock, graph, orphan, failures, hookKills, missable, broken>>

(* git_state_changed saves the new fingerprint; the first one is only      *)
(* recorded.                                                               *)
GitStateChanged(h) ==
  /\ hook[h].todo = "check"
  /\ print' = look
  /\ Goes(h, IF print \notin {look, Unknown} THEN "mark" ELSE "decide")
  /\ UNCHANGED <<tree, look, owed, dirty, lock, graph, orphan, failures, hookKills, missable, broken>>

MarkChanged(h) ==
  /\ hook[h].todo = "mark"
  /\ dirty' = TRUE
  /\ Goes(h, "decide")
  /\ UNCHANGED <<tree, look, owed, print, lock, graph, orphan, failures, hookKills, missable, broken>>

NeedsRefresh(h) ==
  /\ hook[h].todo = "decide"
  /\ Goes(h, IF dirty THEN "lock" ELSE "idle")
  /\ UNCHANGED <<tree, look, owed, dirty, print, lock, graph, orphan, failures, hookKills, missable, broken>>

(* refresh_graphify.  graphify reads the sources when it starts.           *)
Runs(h) ==
  /\ hook' = [hook EXCEPT ![h] = [todo |-> "run", seen |-> tree]]
  /\ missable' = (missable \/ Refreshing \ {h} # {} \/ orphan # Unknown)

LockHeld == lock # "none"
NeverStale == FALSE
LockIsStale == lock = "old"
AcquireLock(h) ==
  /\ hook[h].todo = "lock"
  /\ IF LockHeld
     THEN Goes(h, IF LockIsStale THEN "break" ELSE "idle") /\ UNCHANGED <<lock, missable>>
     ELSE lock' = "young" /\ Runs(h)
  /\ UNCHANGED <<tree, look, owed, dirty, print, graph, orphan, failures, hookKills, broken>>

(* The old lock is removed, or the one somebody took since, and no new one *)
(* is taken.                                                               *)
BreakLock(h) ==
  /\ hook[h].todo = "break"
  /\ lock' = "none" /\ broken' = TRUE
  /\ Runs(h)
  /\ UNCHANGED <<tree, look, owed, dirty, print, graph, orphan, failures, hookKills>>

GraphifyUpdates(h) ==
  /\ hook[h].todo = "run"
  /\ graph' = hook[h].seen
  /\ Goes(h, "clear")
  /\ UNCHANGED <<tree, look, owed, dirty, print, lock, orphan, failures, hookKills, missable, broken>>

(* It fails: the marker stays.  Without a key for its semantic part it     *)
(* changes nothing and that counts as done.                                *)
AfterFailureClears(h) == Goes(h, "clear") /\ UNCHANGED missable
AfterFailure(h) ==
  \/ Goes(h, "unlock") /\ UNCHANGED missable
  \/ Goes(h, "clear") /\ missable' = TRUE
GraphifyFails(h) ==
  /\ hook[h].todo = "run" /\ failures < MaxFailures
  /\ failures' = failures + 1
  /\ AfterFailure(h)
  /\ UNCHANGED <<tree, look, owed, dirty, print, lock, graph, orphan, hookKills, broken>>

ClearDirty(h) ==
  /\ hook[h].todo = "clear"
  /\ dirty' = FALSE
  /\ Goes(h, "save")
  /\ UNCHANGED <<tree, look, owed, print, lock, graph, orphan, failures, hookKills, missable, broken>>

SaveFingerprint(h) ==
  /\ hook[h].todo = "save"
  /\ print' = look
  /\ Goes(h, "unlock")
  /\ UNCHANGED <<tree, look, owed, dirty, lock, graph, orphan, failures, hookKills, missable, broken>>

(* The lock file is removed, whoever made it.                              *)
Unlock(h) ==
  /\ hook[h].todo = "unlock"
  /\ lock' = "none"
  /\ hook' = [hook EXCEPT ![h] = Resting]
  /\ UNCHANGED <<tree, look, owed, dirty, print, graph, orphan, failures, hookKills, missable, broken>>

-----------------------------------------------------------------------------
(* A hook is killed: its lock stays and its graphify goes on.  A change it *)
(* had recorded in the fingerprint and not yet marked is forgotten.        *)
KillHook(h) ==
  /\ hook[h].todo # "idle" /\ hookKills < MaxHookKills
  /\ hookKills' = hookKills + 1
  /\ hook' = [hook EXCEPT ![h] = Resting]
  /\ orphan' = IF hook[h].todo = "run" THEN hook[h].seen ELSE orphan
  /\ missable' = (missable \/ hook[h].todo = "mark")
  /\ UNCHANGED <<tree, look, owed, dirty, print, lock, graph, failures, broken>>

OrphanWrites ==
  /\ orphan # Unknown
  /\ graph' = orphan /\ orphan' = Unknown
  /\ UNCHANGED <<tree, look, owed, dirty, print, lock, hook, failures, hookKills, missable, broken>>

(* Only the lock of a hook that is gone gets old.                          *)
LockAges ==
  /\ lock = "young" /\ Refreshing = {}
  /\ lock' = "old"
  /\ UNCHANGED <<tree, look, owed, dirty, print, graph, hook, orphan, failures, hookKills, missable, broken>>

HookStep(h) ==
  \/ GitStateChanged(h) \/ MarkChanged(h) \/ NeedsRefresh(h) \/ AcquireLock(h) \/ BreakLock(h)
  \/ GraphifyUpdates(h) \/ ClearDirty(h) \/ SaveFingerprint(h) \/ Unlock(h)

CodeNext ==
  \/ \E byTool, visible \in BOOLEAN : Edit(byTool, visible)
  \/ MarkDirty \/ OrphanWrites \/ LockAges
  \/ \E h \in Hooks : StartHook(h) \/ HookStep(h) \/ GraphifyFails(h) \/ KillHook(h)

(* Hooks run on; the harness starts one at every prompt and every stop, so *)
(* a session that goes on starts them again and again.                     *)
CodeFairness ==
  /\ \A h \in Hooks : WF_codeVars(StartHook(h)) /\ WF_codeVars(HookStep(h))
  /\ WF_codeVars(LockAges)

-----------------------------------------------------------------------------
(* Properties *)

(* The part of the type invariant about the code graph.                    *)
CodeTypeOK ==
  /\ tree \in 0..MaxEdits /\ look \in 0..tree /\ graph \in 0..tree
  /\ print \in (0..look) \cup {Unknown} /\ orphan \in (0..tree) \cup {Unknown}
  /\ lock \in {"none", "young", "old"}
  /\ \A h \in Hooks :
       /\ hook[h].seen \in 0..tree
       /\ hook[h].todo \in {"idle", "check", "mark", "decide", "lock", "break", "run", "clear", "save", "unlock"}
  /\ {owed, dirty, missable, broken} \subseteq BOOLEAN
  /\ failures \in 0..MaxFailures /\ hookKills \in 0..MaxHookKills

(* When everything has come to rest the graph is of the current sources,   *)
(* whatever failed, unless the change was made while a refresh was running,*)
(* neither a tool nor git showed it, a hook was killed between saving the  *)
(* fingerprint and marking, two refreshes overlapped, or graphify did      *)
(* nothing for want of a key.                                              *)
NothingForgotten ==
  /\ \A h \in Hooks : hook[h].todo = "idle"
  /\ ~dirty /\ ~owed /\ print = look /\ orphan = Unknown
  => graph = tree \/ missable

(* graphify runs once at a time in a repository until a lock is broken.    *)
SoleRefresh == Cardinality(Refreshing) > 1 => broken

(* Refreshing the code graph forgets nothing and is done once at a time.   *)
CodeGraphSound == NothingForgotten /\ SoleRefresh

(* A marked change is taken up: failures and killed hooks, and the locks   *)
(* they leave behind, only delay the refresh.                              *)
DirtyIsServed == dirty ~> ~dirty
=============================================================================

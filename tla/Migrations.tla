----------------------------- MODULE Migrations -----------------------------
(***************************************************************************)
(* The migration runner of the central database (database/migrate.py): two *)
(* or more operators may run it at once, from checkouts that may differ,   *)
(* and any run may die between two statements.  A migration is a number, a *)
(* text (its version) and batches; a batch creates an object.  Batches of  *)
(* a no-transaction migration are guarded by IF NOT EXISTS, those of the   *)
(* others fail when the object is there.                                   *)
(***************************************************************************)
EXTENDS Integers, FiniteSets

CONSTANTS
  Runners,         \* concurrent runs of the tool
  Count,           \* migrations 1..Count
  Batches,         \* GO-separated batches of each
  NoTransaction,   \* the ones with the no-transaction directive
  Texts            \* texts 1..Texts a migration file goes through

ASSUME MigrationsAssumption ==
  /\ Count \in Nat /\ Batches \in Nat \ {0} /\ Texts \in Nat \ {0}
  /\ NoTransaction \subseteq 1..Count

VARIABLES
  disk,        \* text of every file
  booted,      \* ops.schema_migrations exists
  recorded,    \* text whose checksum is recorded, 0 if none
  built,       \* text whose batch created the object, 0 if none
  open,        \* objects whose creation is not yet committed, by runner
  run          \* the runs

vars == <<disk, booted, recorded, built, open, run>>

Migs == 1..Count
Objects == Migs \X (1..Batches)

Idle == [at |-> "idle", text |-> [m \in Migs |-> 0], applied |-> {}, mig |-> 0, batch |-> 0, commit |-> "end"]

Init ==
  /\ disk = [m \in Migs |-> 1]
  /\ booted = FALSE
  /\ recorded = [m \in Migs |-> 0]
  /\ built = [o \in Objects |-> 0]
  /\ open = [r \in Runners |-> {}]
  /\ run = [r \in Runners |-> Idle]

(* A file is edited.                                                       *)
Edit(m) ==
  /\ disk[m] < Texts
  /\ disk' = [disk EXCEPT ![m] = @ + 1]
  /\ UNCHANGED <<booted, recorded, built, open, run>>

-----------------------------------------------------------------------------
(* ensure_bootstrap: look for the table, create it if it was not there.    *)

CheckBootstrap(r) ==
  /\ run[r].at = "idle"
  /\ run' = [run EXCEPT ![r].at = IF booted THEN "discover" ELSE "create"]
  /\ UNCHANGED <<disk, booted, recorded, built, open>>

(* The loser of a race to create it ends with an error.                    *)
CreateTable(r) ==
  /\ run[r].at = "create"
  /\ booted' = TRUE
  /\ run' = [run EXCEPT ![r] = IF booted THEN Idle ELSE [Idle EXCEPT !.at = "discover"]]
  /\ UNCHANGED <<disk, recorded, built, open>>

(* Every file is read once.                                                *)
DiscoverMigrations(r) ==
  /\ run[r].at = "discover"
  /\ run' = [run EXCEPT ![r].at = "check", ![r].text = disk]
  /\ UNCHANGED <<disk, booted, recorded, built, open>>

(* The first migration from m on that is not in the snapshot, if any.      *)
Pending(applied, m) == {k \in Migs : k >= m /\ k \notin applied}

(* conn.autocommit is set for a no-transaction migration: it commits each  *)
(* statement instead of all of them at the end.                            *)
BeginMigration(x, m) ==
  IF Pending(x.applied, m) = {} THEN Idle
  ELSE LET k == CHOOSE k \in Pending(x.applied, m) : \A j \in Pending(x.applied, m) : k <= j
       IN [x EXCEPT !.at = "apply", !.mig = k, !.batch = 1, !.commit = IF k \in NoTransaction THEN "each" ELSE @]

(* Snapshot of what is applied; any checksum mismatch refuses the run.     *)
DriftIgnored(text) == FALSE
Drift(text) == \E m \in Migs : recorded[m] # 0 /\ recorded[m] # text[m]

GetApplied(r) ==
  /\ run[r].at = "check"
  /\ run' = [run EXCEPT ![r] =
       IF Drift(@.text) THEN Idle
       ELSE BeginMigration([@ EXCEPT !.applied = {m \in Migs : recorded[m] # 0}], 1)]
  /\ UNCHANGED <<disk, booted, recorded, built, open>>

-----------------------------------------------------------------------------
(* apply_migration *)

(* SQL Server makes a statement wait for an uncommitted change of another  *)
(* connection.                                                             *)
WaitsForItself(r) == \E s \in Runners : \E b \in 1..Batches : <<run[r].mig, b>> \in open[s]
Waits(r) == \E s \in Runners \ {r} : <<run[r].mig, run[r].batch>> \in open[s]

(* rollback, and the run ends.                                             *)
RollbackAndContinue(r) ==
  /\ built' = [o \in Objects |-> IF o \in open[r] THEN 0 ELSE built[o]]
  /\ open' = [open EXCEPT ![r] = {}]
  /\ run' = [run EXCEPT ![r] = BeginMigration(@, @.mig + 1)]
Rollback(r) ==
  /\ built' = [o \in Objects |-> IF o \in open[r] THEN 0 ELSE built[o]]
  /\ open' = [open EXCEPT ![r] = {}]
  /\ run' = [run EXCEPT ![r] = Idle]

(* The executable batches of a file.                                       *)
SplitBatchesWithoutLast(m) == IF m \in NoTransaction THEN 1..Batches - 1 ELSE 1..Batches
SplitBatches(m) == 1..Batches

Current(r) == <<run[r].mig, run[r].batch>>

ExecuteBatch(r) ==
  /\ run[r].at = "apply" /\ run[r].batch \in SplitBatches(run[r].mig)
  /\ ~Waits(r)
  /\ IF built[Current(r)] # 0 /\ run[r].mig \notin NoTransaction
     THEN Rollback(r)
     ELSE /\ built' = [built EXCEPT ![Current(r)] = IF @ = 0 THEN run[r].text[run[r].mig] ELSE @]
          /\ open' = [open EXCEPT ![r] = IF run[r].commit = "each" \/ built[Current(r)] # 0 THEN @ ELSE @ \cup {Current(r)}]
          /\ run' = [run EXCEPT ![r].batch = @ + 1]
  /\ UNCHANGED <<disk, booted, recorded>>

(* The bookkeeping row is inserted, everything is committed and autocommit *)
(* is off again.  A row that another run inserted is an error.             *)
ContinueAutocommit(x) == BeginMigration(x, x.mig + 1)
Continue(x) == BeginMigration([x EXCEPT !.commit = "end"], x.mig + 1)

RecordMigration(r) ==
  /\ run[r].at = "apply" /\ run[r].batch \notin SplitBatches(run[r].mig)
  /\ IF recorded[run[r].mig] # 0
     THEN Rollback(r) /\ UNCHANGED recorded
     ELSE /\ recorded' = [recorded EXCEPT ![run[r].mig] = run[r].text[run[r].mig]]
          /\ open' = [open EXCEPT ![r] = {}]
          /\ run' = [run EXCEPT ![r] = Continue(@)]
          /\ UNCHANGED built
  /\ UNCHANGED <<disk, booted>>

(* A statement fails or the process dies: what is not committed is undone. *)
Abort(r) ==
  /\ run[r].at # "idle"
  /\ Rollback(r)
  /\ UNCHANGED <<disk, booted, recorded>>

Step(r) ==
  \/ CheckBootstrap(r) \/ CreateTable(r) \/ DiscoverMigrations(r) \/ GetApplied(r)
  \/ ExecuteBatch(r) \/ RecordMigration(r)

Next == \/ \E m \in Migs : Edit(m)
        \/ \E r \in Runners : Step(r) \/ Abort(r)

Spec == Init /\ [][Next]_vars

(* A run goes on until it ends, and the lock manager, which queues those   *)
(* that wait, lets every one of them through in the end.                   *)
FairSpec ==
  /\ Spec
  /\ \A r \in Runners : WF_vars(run[r].at # "idle" /\ Step(r)) /\ SF_vars(ExecuteBatch(r))

-----------------------------------------------------------------------------
TypeOK ==
  /\ disk \in [Migs -> 1..Texts]
  /\ booted \in BOOLEAN
  /\ recorded \in [Migs -> 0..Texts]
  /\ built \in [Objects -> 0..Texts]
  /\ open \in [Runners -> SUBSET Objects]
  /\ run \in [Runners ->
       [at : {"idle", "create", "discover", "check", "apply"}, text : [Migs -> 0..Texts],
        applied : SUBSET Migs, mig : 0..Count, batch : 0..Batches + 1, commit : {"end", "each"}]]

(* A transactional migration is in the database completely, with the text  *)
(* that is recorded, or not at all, but for the part a run has not yet     *)
(* committed; runs that die or collide change nothing about that.          *)
AllOrNothing ==
  \A m \in Migs \ NoTransaction : \A b \in 1..Batches :
    IF recorded[m] # 0 THEN built[<<m, b>>] = recorded[m]
    ELSE built[<<m, b>>] # 0 => \E r \in Runners : <<m, b>> \in open[r]

(* A no-transaction migration is recorded only when all of it is there.    *)
RecordedComplete ==
  \A m \in NoTransaction : recorded[m] # 0 => \A b \in 1..Batches : built[<<m, b>>] # 0

(* Nothing of a migration is in the database before all the earlier ones   *)
(* are recorded, even when two runs work from stale snapshots.             *)
InOrder ==
  \A o \in Objects : built[o] # 0 => \A k \in 1..o[1] - 1 : recorded[k] # 0

(* Whatever a run applies, what is recorded beneath it is what it read,    *)
(* though files and records may have changed since it compared them.       *)
OwnHistory ==
  \A r \in Runners : run[r].at = "apply" =>
    \A k \in 1..run[r].mig - 1 : recorded[k] \in {0, run[r].text[k]}

(* Runs never wait for each other in a circle: each one ends.              *)
RunsEnd == \A r \in Runners : run[r].at # "idle" ~> run[r].at = "idle"
=============================================================================

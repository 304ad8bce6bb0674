-------------------------- MODULE MigrationsProofs --------------------------
(***************************************************************************)
(* Proofs about module Migrations, for any number of concurrent runs,      *)
(* migrations, batches and texts.                                          *)
(*                                                                         *)
(* None of the properties is inductive.  What makes them hold is what a    *)
(* run that is applying a migration can rely on (Applying): every earlier  *)
(* migration is recorded with the text it read, autocommit is on exactly   *)
(* for a no-transaction migration, the batches it has executed are there,  *)
(* and those of a transactional one are exactly its uncommitted changes,   *)
(* which no other run shares (OpenApart).                                  *)
(***************************************************************************)
EXTENDS Migrations, WellFoundedInduction, TLAPS

RunType ==
  [at : {"idle", "create", "discover", "check", "apply"}, text : [Migs -> 0..Texts],
   applied : SUBSET Migs, mig : 0..Count, batch : 0..Batches + 1, commit : {"end", "each"}]

History(r) ==
  /\ \A m \in run[r].applied : recorded[m] # 0 /\ recorded[m] = run[r].text[m]
  /\ \A k \in 1..run[r].mig - 1 : recorded[k] # 0 /\ recorded[k] = run[r].text[k]

Executed(r) ==
  IF run[r].mig \in NoTransaction
  THEN open[r] = {} /\ \A b \in 1..run[r].batch - 1 : built[<<run[r].mig, b>>] # 0
  ELSE /\ \A o \in Objects : o \in open[r] <=> o[1] = run[r].mig /\ o[2] < run[r].batch
       /\ \A o \in open[r] : built[o] = run[r].text[run[r].mig] /\ recorded[run[r].mig] = 0

Applying(r) ==
  /\ run[r].mig \in Migs /\ run[r].batch \in 1..Batches + 1
  /\ \A m \in Migs : run[r].text[m] # 0
  /\ run[r].commit = IF run[r].mig \in NoTransaction THEN "each" ELSE "end"
  /\ History(r)
  /\ Executed(r)

RunOK(r) ==
  IF run[r].at = "apply" THEN Applying(r)
  ELSE /\ open[r] = {} /\ run[r].commit = "end"
       /\ run[r].at = "check" => \A m \in Migs : run[r].text[m] # 0

OpenApart == \A r, s \in Runners : r # s => open[r] \cap open[s] = {}

Inv ==
  /\ \A r \in Runners : RunOK(r)
  /\ OpenApart
  /\ AllOrNothing /\ RecordedComplete /\ InOrder

-----------------------------------------------------------------------------
(* The migrations that a run has still to apply have a first one.          *)
LEMMA FirstPending ==
  ASSUME NEW A, NEW m, Pending(A, m) # {}
  PROVE  \E k \in Pending(A, m) : \A j \in Pending(A, m) : k <= j
<1>1. Pending(A, m) \in SUBSET Nat
  BY MigrationsAssumption DEF Pending, Migs
<1>2. PICK k \in Pending(A, m) : \A j \in Pending(A, m) : ~(<<j, k>> \in OpToRel(<, Nat))
  BY <1>1, NatLessThanWellFounded, WFMin
<1>3. \A j \in Pending(A, m) : ~(j < k)
  BY <1>1, <1>2 DEF OpToRel
<1> QED
  BY <1>1, <1>3

(* BeginMigration ends the run or goes to the next migration that was not  *)
(* applied, skipping only applied ones.                                    *)
LEMMA BeginMigrationOK ==
  ASSUME NEW x \in RunType, NEW m \in Nat
  PROVE  LET y == BeginMigration(x, m) IN
         /\ y \in RunType
         /\ \/ y = Idle
            \/ /\ y.at = "apply" /\ y.batch = 1 /\ y.text = x.text /\ y.applied = x.applied
               /\ y.mig \in Migs /\ y.mig >= m /\ y.mig \notin x.applied
               /\ \A j \in Migs : m <= j /\ j < y.mig => j \in x.applied
               /\ y.commit = IF y.mig \in NoTransaction THEN "each" ELSE x.commit
<1>1. CASE Pending(x.applied, m) = {}
  <2>1. BeginMigration(x, m) = Idle
    BY <1>1 DEF BeginMigration
  <2>2. Idle \in RunType
    BY MigrationsAssumption DEF Idle, RunType, Migs
  <2> QED
    BY <2>1, <2>2
<1>2. CASE Pending(x.applied, m) # {}
  <2> DEFINE k == CHOOSE k \in Pending(x.applied, m) : \A j \in Pending(x.applied, m) : k <= j
  <2>1. k \in Pending(x.applied, m) /\ \A j \in Pending(x.applied, m) : k <= j
    BY <1>2, FirstPending
  <2>2. BeginMigration(x, m) =
          [x EXCEPT !.at = "apply", !.mig = k, !.batch = 1, !.commit = IF k \in NoTransaction THEN "each" ELSE @]
    BY <1>2 DEF BeginMigration
  <2> HIDE DEF k
  <2>3. k \in Migs /\ k >= m /\ k \notin x.applied
    BY <2>1 DEF Pending
  <2>4. \A j \in Migs : m <= j /\ j < k => j \in x.applied
    BY <2>1, <2>3, MigrationsAssumption DEF Pending, Migs
  <2>5. k \in 0..Count /\ 1 \in 0..Batches + 1
    BY <2>3, MigrationsAssumption DEF Migs
  <2> QED
    BY <2>2, <2>3, <2>4, <2>5 DEF RunType
<1> QED
  BY <1>1, <1>2

-----------------------------------------------------------------------------
(* Types.  That a run which applies something has a migration is part of   *)
(* it: it is what makes its accesses to the files defined.                 *)

HasMigration == \A r \in Runners : run[r].at = "apply" => run[r].mig \in Migs

Typed == TypeOK /\ HasMigration

LEMMA IdleType == Idle \in RunType /\ Idle.at = "idle" /\ Idle.commit = "end"
BY MigrationsAssumption DEF Idle, RunType, Migs

LEMMA TypedInit == Init => Typed
<1> SUFFICES ASSUME Init PROVE Typed
  OBVIOUS
<1>1. 1 \in 1..Texts /\ 0 \in 0..Texts
  BY MigrationsAssumption
<1>2. run \in [Runners -> RunType] /\ HasMigration
  BY IdleType DEF Init, HasMigration
<1> QED
  BY <1>1, <1>2 DEF Init, Typed, TypeOK, RunType

(* What a run becomes has its type and, if it applies something, a         *)
(* migration: enough for all of them.                                      *)
LEMMA RunTyped ==
  ASSUME Typed, NEW r \in Runners, NEW y \in RunType, y.at = "apply" => y.mig \in Migs,
         run' = [run EXCEPT ![r] = y]
  PROVE  run' \in [Runners -> RunType] /\ HasMigration'
<1>1. run \in [Runners -> RunType]
  BY DEF Typed, TypeOK, RunType
<1> QED
  BY <1>1 DEF Typed, HasMigration

LEMMA RollbackTyped ==
  ASSUME Typed, NEW r \in Runners, Rollback(r), UNCHANGED <<disk, booted, recorded>>
  PROVE  Typed'
<1>2. built' \in [Objects -> 0..Texts]
  BY MigrationsAssumption DEF Typed, TypeOK, Rollback
<1>3. open' \in [Runners -> SUBSET Objects]
  BY DEF Typed, TypeOK, Rollback
<1>4. run' \in [Runners -> RunType] /\ HasMigration'
  BY IdleType, RunTyped DEF Rollback
<1> QED
  BY <1>2, <1>3, <1>4 DEF Typed, TypeOK, RunType

LEMMA ExecuteBatchTyped ==
  ASSUME Typed, NEW r \in Runners, ExecuteBatch(r)
  PROVE  Typed'
<1>1. CASE Rollback(r)
  BY <1>1, RollbackTyped DEF ExecuteBatch
<1>2. CASE ~Rollback(r)
  <2>1. /\ run[r].mig \in Migs /\ run[r].batch \in 1..Batches /\ run[r] \in RunType
        /\ run[r].text[run[r].mig] \in 0..Texts
    BY DEF ExecuteBatch, SplitBatches, Typed, TypeOK, HasMigration, RunType
  <2>2. Current(r) \in Objects
    BY <2>1 DEF Current, Objects
  <2>3. built' \in [Objects -> 0..Texts]
    BY <1>2, <2>1, <2>2 DEF ExecuteBatch, Typed, TypeOK
  <2>4. open' \in [Runners -> SUBSET Objects]
    BY <1>2, <2>2 DEF ExecuteBatch, Typed, TypeOK
  <2>5. run[r].batch + 1 \in 0..Batches + 1
    BY <2>1, MigrationsAssumption
  <2>6. run' = [run EXCEPT ![r].batch = @ + 1]
    BY <1>2 DEF ExecuteBatch
  <2>7. run' \in [Runners -> RunType] /\ HasMigration'
    BY <2>5, <2>6 DEF Typed, TypeOK, RunType, HasMigration
  <2> QED
    BY <2>3, <2>4, <2>7 DEF ExecuteBatch, Typed, TypeOK, RunType
<1> QED
  BY <1>1, <1>2

LEMMA RecordMigrationTyped ==
  ASSUME Typed, NEW r \in Runners, RecordMigration(r)
  PROVE  Typed'
<1>1. CASE recorded[run[r].mig] # 0
  BY <1>1, RollbackTyped DEF RecordMigration
<1>2. CASE recorded[run[r].mig] = 0
  <2> DEFINE x == [run[r] EXCEPT !.commit = "end"]
  <2>1. /\ run[r].mig \in Migs /\ run[r] \in RunType
        /\ run[r].text[run[r].mig] \in 0..Texts
    BY DEF RecordMigration, Typed, TypeOK, HasMigration, RunType
  <2>2. x \in RunType /\ run[r].mig + 1 \in Nat
    BY <2>1, MigrationsAssumption DEF RunType, Migs
  <2>3. run' = [run EXCEPT ![r] = BeginMigration(x, run[r].mig + 1)]
    BY <1>2 DEF RecordMigration, Continue
  <2> HIDE DEF x
  <2> DEFINE y == BeginMigration(x, run[r].mig + 1)
  <2>4. y \in RunType /\ (y.at = "apply" => y.mig \in Migs)
    BY <2>2, BeginMigrationOK, IdleType
  <2> HIDE DEF y
  <2>5. run' \in [Runners -> RunType] /\ HasMigration'
    BY <2>3, <2>4, RunTyped DEF y
  <2>6. recorded' \in [Migs -> 0..Texts] /\ open' \in [Runners -> SUBSET Objects] /\ built' = built
    BY <1>2, <2>1 DEF RecordMigration, Typed, TypeOK
  <2> QED
    BY <2>5, <2>6 DEF RecordMigration, Typed, TypeOK, RunType
<1> QED
  BY <1>1, <1>2

LEMMA GetAppliedTyped ==
  ASSUME Typed, NEW r \in Runners, GetApplied(r)
  PROVE  Typed'
<1> DEFINE x == [run[r] EXCEPT !.applied = {m \in Migs : recorded[m] # 0}]
           y == IF Drift(run[r].text) THEN Idle ELSE BeginMigration(x, 1)
<1>1. x \in RunType
  BY DEF Typed, TypeOK, RunType
<1>2. run' = [run EXCEPT ![r] = y]
  BY DEF GetApplied
<1> HIDE DEF x
<1>3. y \in RunType /\ (y.at = "apply" => y.mig \in Migs)
  <2>1. 1 \in Nat
    OBVIOUS
  <2>2. BeginMigration(x, 1) = Idle \/ BeginMigration(x, 1).mig \in Migs
    BY <1>1, <2>1, BeginMigrationOK
  <2>3. BeginMigration(x, 1) \in RunType
    BY <1>1, <2>1, BeginMigrationOK
  <2> QED
    BY <2>2, <2>3, IdleType
<1> HIDE DEF y
<1>4. run' \in [Runners -> RunType] /\ HasMigration'
  BY <1>2, <1>3, RunTyped
<1> QED
  BY <1>4 DEF GetApplied, Typed, TypeOK, RunType

LEMMA TypedNext == Typed /\ [Next]_vars => Typed'
<1> SUFFICES ASSUME Typed, [Next]_vars PROVE Typed'
  OBVIOUS
<1>1. ASSUME NEW m \in Migs, Edit(m) PROVE Typed'
  BY <1>1, MigrationsAssumption DEF Edit, Typed, TypeOK, HasMigration
<1>2. ASSUME NEW r \in Runners, CheckBootstrap(r) PROVE Typed'
  <2> DEFINE y == [run[r] EXCEPT !.at = IF booted THEN "discover" ELSE "create"]
  <2>1. y \in RunType /\ y.at # "apply"
    BY DEF Typed, TypeOK, RunType
  <2>2. run' = [run EXCEPT ![r] = y]
    BY <1>2 DEF CheckBootstrap
  <2> HIDE DEF y
  <2>3. run' \in [Runners -> RunType] /\ HasMigration'
    BY <2>1, <2>2, RunTyped
  <2> QED
    BY <1>2, <2>3 DEF CheckBootstrap, Typed, TypeOK, RunType
<1>3. ASSUME NEW r \in Runners, CreateTable(r) PROVE Typed'
  <2> DEFINE y == IF booted THEN Idle ELSE [Idle EXCEPT !.at = "discover"]
  <2>1. y \in RunType /\ y.at # "apply"
    BY IdleType DEF RunType
  <2>2. run' = [run EXCEPT ![r] = y]
    BY <1>3 DEF CreateTable
  <2> HIDE DEF y
  <2>3. run' \in [Runners -> RunType] /\ HasMigration'
    BY <2>1, <2>2, RunTyped
  <2> QED
    BY <1>3, <2>3 DEF CreateTable, Typed, TypeOK, RunType
<1>4. ASSUME NEW r \in Runners, DiscoverMigrations(r) PROVE Typed'
  <2> DEFINE y == [run[r] EXCEPT !.at = "check", !.text = disk]
  <2>1. disk \in [Migs -> 0..Texts]
    BY MigrationsAssumption DEF Typed, TypeOK
  <2>2. y \in RunType /\ y.at # "apply"
    BY <2>1 DEF Typed, TypeOK, RunType
  <2>3. run' = [run EXCEPT ![r] = y]
    BY <1>4 DEF DiscoverMigrations, Typed, TypeOK
  <2> HIDE DEF y
  <2>4. run' \in [Runners -> RunType] /\ HasMigration'
    BY <2>2, <2>3, RunTyped
  <2> QED
    BY <1>4, <2>4 DEF DiscoverMigrations, Typed, TypeOK, RunType
<1>5. ASSUME NEW r \in Runners, Abort(r) PROVE Typed'
  BY <1>5, RollbackTyped DEF Abort
<1>6. CASE UNCHANGED vars
  BY <1>6 DEF vars, Typed, TypeOK, HasMigration
<1> QED
  BY <1>1, <1>2, <1>3, <1>4, <1>5, <1>6, GetAppliedTyped, ExecuteBatchTyped, RecordMigrationTyped
  DEF Next, Step

(* The records, the objects and the runs keep their types: a run never     *)
(* indexes a migration or a batch that does not exist.                     *)
THEOREM MigrationsTypeCorrect == Spec => []TypeOK
<1>1. Init => Typed
  BY TypedInit
<1>2. Typed /\ [Next]_vars => Typed'
  BY TypedNext
<1>3. Typed => TypeOK
  BY DEF Typed
<1> QED
  BY <1>1, <1>2, <1>3, PTL DEF Spec

-----------------------------------------------------------------------------
(* Safety *)

LEMMA InvInit == Init => Inv
<1> SUFFICES ASSUME Init PROVE Inv
  OBVIOUS
<1>1. \A r \in Runners : RunOK(r)
  BY IdleType DEF Init, RunOK
<1>2. OpenApart
  BY DEF Init, OpenApart
<1>3. AllOrNothing /\ RecordedComplete
  BY MigrationsAssumption DEF Init, AllOrNothing, RecordedComplete, Objects, Migs
<1>4. InOrder
  BY DEF Init, InOrder
<1> QED
  BY <1>1, <1>2, <1>3, <1>4 DEF Inv

(* What is not committed belongs to a transactional migration that is not  *)
(* recorded, and is there.                                                 *)
LEMMA OpenFacts ==
  ASSUME Typed, Inv, NEW r \in Runners, NEW o \in open[r]
  PROVE  /\ o \in Objects /\ o[1] \in Migs \ NoTransaction /\ o[2] \in 1..Batches
         /\ recorded[o[1]] = 0 /\ built[o] # 0
         /\ run[r].at = "apply" /\ o[1] = run[r].mig /\ built[o] = run[r].text[o[1]]
<1>1. o \in Objects /\ o[1] \in Migs /\ o[2] \in 1..Batches
  BY DEF Typed, TypeOK, Objects
<1>2. run[r].at = "apply" /\ Applying(r)
  BY DEF Inv, RunOK
<1>3. run[r].mig \notin NoTransaction
  BY <1>2 DEF Applying, Executed
<1>4. /\ o[1] = run[r].mig /\ built[o] = run[r].text[run[r].mig] /\ recorded[run[r].mig] = 0
      /\ run[r].text[run[r].mig] # 0
  BY <1>1, <1>2, <1>3 DEF Applying, Executed
<1> QED
  BY <1>1, <1>2, <1>3, <1>4

(* A run keeps what it relies on while another one acts, if records and    *)
(* objects it has seen stay as they are.                                   *)
LEMMA OtherRunOK ==
  ASSUME Typed, Inv, NEW s \in Runners, run'[s] = run[s], open'[s] = open[s],
         \A m \in Migs : recorded[m] # 0 => recorded'[m] = recorded[m],
         \A o \in open[s] : recorded'[o[1]] = 0 /\ built'[o] = built[o],
         \A o \in Objects : o[1] \in NoTransaction /\ built[o] # 0 => built'[o] # 0
  PROVE  RunOK(s)'
<1>1. CASE run[s].at # "apply"
  BY <1>1 DEF Inv, RunOK
<1>2. CASE run[s].at = "apply"
  <2>1. Applying(s)
    BY <1>2 DEF Inv, RunOK
  <2>2. run[s] \in RunType
    BY DEF Typed, TypeOK, RunType
  <2>3. History(s)'
    <3>1. \A m \in run[s].applied : m \in Migs
      BY <2>2 DEF RunType
    <3>2. \A k \in 1..run[s].mig - 1 : k \in Migs
      BY <2>1, MigrationsAssumption DEF Applying, Migs
    <3> QED
      BY <2>1, <3>1, <3>2 DEF Applying, History
  <2>4. Executed(s)'
    <3>1. CASE run[s].mig \in NoTransaction
      <4>1. \A b \in 1..run[s].batch - 1 : <<run[s].mig, b>> \in Objects
        BY <2>1, MigrationsAssumption DEF Applying, Objects
      <4> QED
        BY <2>1, <3>1, <4>1 DEF Applying, Executed
    <3>2. CASE run[s].mig \notin NoTransaction
      <4>1. \A o \in open[s] : o[1] = run[s].mig
        BY OpenFacts
      <4> QED
        BY <2>1, <3>2, <4>1 DEF Applying, Executed
    <3> QED
      BY <3>1, <3>2
  <2> QED
    BY <1>2, <2>1, <2>3, <2>4 DEF RunOK, Applying
<1> QED
  BY <1>1, <1>2

-----------------------------------------------------------------------------
(* An undone transaction takes away only what it had built itself.         *)
LEMMA RollbackInv ==
  ASSUME Typed, Inv, NEW r \in Runners, Rollback(r), UNCHANGED recorded
  PROVE  Inv'
<1>1. run' = [run EXCEPT ![r] = Idle] /\ open' = [open EXCEPT ![r] = {}]
  BY DEF Rollback
<1>2. /\ open'[r] = {} /\ run'[r] = Idle
      /\ \A s \in Runners \ {r} : open'[s] = open[s] /\ run'[s] = run[s]
  BY <1>1 DEF Typed, TypeOK
<1>3. \A o \in Objects : built'[o] = IF o \in open[r] THEN 0 ELSE built[o]
  BY DEF Rollback
<1>4. \A s \in Runners \ {r} : RunOK(s)'
  <2> SUFFICES ASSUME NEW s \in Runners \ {r} PROVE RunOK(s)'
    OBVIOUS
  <2>1. \A o \in open[s] : recorded'[o[1]] = 0 /\ built'[o] = built[o]
    <3> SUFFICES ASSUME NEW o \in open[s] PROVE recorded'[o[1]] = 0 /\ built'[o] = built[o]
      OBVIOUS
    <3>1. o \notin open[r]
      BY DEF Inv, OpenApart
    <3>2. o \in Objects /\ recorded[o[1]] = 0
      BY OpenFacts
    <3> QED
      BY <1>3, <3>1, <3>2
  <2>2. \A o \in Objects : o[1] \in NoTransaction /\ built[o] # 0 => built'[o] # 0
    BY <1>3, OpenFacts
  <2> QED
    BY <1>2, <2>1, <2>2, OtherRunOK
<1>5. RunOK(r)'
  BY <1>2, IdleType DEF RunOK
<1>6. OpenApart'
  BY <1>2 DEF Inv, OpenApart
<1>7. AllOrNothing'
  <2> SUFFICES ASSUME NEW m \in Migs \ NoTransaction, NEW b \in 1..Batches
               PROVE  IF recorded[m] # 0 THEN built'[<<m, b>>] = recorded[m]
                      ELSE built'[<<m, b>>] # 0 => \E s \in Runners : <<m, b>> \in open'[s]
    BY DEF AllOrNothing
  <2>1. <<m, b>> \in Objects /\ <<m, b>>[1] = m
    BY DEF Objects
  <2>2. CASE recorded[m] # 0
    BY <1>3, <2>1, <2>2, OpenFacts DEF Inv, AllOrNothing
  <2>3. CASE recorded[m] = 0
    <3> SUFFICES ASSUME built'[<<m, b>>] # 0 PROVE \E s \in Runners : <<m, b>> \in open'[s]
      BY <2>3
    <3>1. <<m, b>> \notin open[r] /\ built[<<m, b>>] # 0
      BY <1>3, <2>1
    <3>2. PICK s \in Runners : <<m, b>> \in open[s]
      BY <2>3, <3>1 DEF Inv, AllOrNothing
    <3> QED
      BY <1>2, <3>1, <3>2
  <2> QED
    BY <2>2, <2>3
<1>8. RecordedComplete'
  <2> SUFFICES ASSUME NEW m \in NoTransaction, recorded[m] # 0, NEW b \in 1..Batches
               PROVE  built'[<<m, b>>] # 0
    BY DEF RecordedComplete
  <2>1. <<m, b>> \in Objects /\ <<m, b>>[1] = m
    BY MigrationsAssumption DEF Objects, Migs
  <2> QED
    BY <1>3, <2>1, OpenFacts DEF Inv, RecordedComplete
<1>9. InOrder'
  BY <1>3 DEF Inv, InOrder
<1> QED
  BY <1>2, <1>4, <1>5, <1>6, <1>7, <1>8, <1>9 DEF Inv

(* A batch creates its object only where there is none.                    *)
LEMMA ExecuteBatchInv ==
  ASSUME Typed, Inv, NEW r \in Runners, ExecuteBatch(r)
  PROVE  Inv'
<1>1. CASE built[Current(r)] # 0 /\ run[r].mig \notin NoTransaction
  BY <1>1, RollbackInv DEF ExecuteBatch
<1>2. CASE ~(built[Current(r)] # 0 /\ run[r].mig \notin NoTransaction)
  <2> DEFINE m == run[r].mig
             b == run[r].batch
  <2>1. run[r].at = "apply" /\ Applying(r) /\ m \in Migs /\ b \in 1..Batches /\ run[r] \in RunType
    BY DEF ExecuteBatch, SplitBatches, Inv, RunOK, Typed, TypeOK, HasMigration, RunType
  <2>2. Current(r) = <<m, b>> /\ Current(r) \in Objects
    BY <2>1 DEF Current, Objects
  <2>3. run[r].text[m] # 0
    BY <2>1 DEF Applying
  <2>4. \A o \in Objects :
          built'[o] = IF o = Current(r) /\ built[o] = 0 THEN run[r].text[m] ELSE built[o]
    BY <1>2, <2>2 DEF ExecuteBatch, Typed, TypeOK
  <2>5. /\ run'[r] = [run[r] EXCEPT !.batch = b + 1]
        /\ \A s \in Runners \ {r} : run'[s] = run[s] /\ open'[s] = open[s]
    BY <1>2 DEF ExecuteBatch, Typed, TypeOK
  <2>6. open'[r] = IF m \in NoTransaction THEN open[r] ELSE open[r] \cup {Current(r)}
    BY <1>2, <2>1 DEF ExecuteBatch, Typed, TypeOK, Applying
  <2>7. recorded' = recorded
    BY DEF ExecuteBatch
  <2>8. m \notin NoTransaction => built[Current(r)] = 0 /\ recorded[m] = 0
    BY <1>2, <2>1, <2>2 DEF Inv, AllOrNothing
  <2>9. \A s \in Runners \ {r} : RunOK(s)'
    <3> SUFFICES ASSUME NEW s \in Runners \ {r} PROVE RunOK(s)'
      OBVIOUS
    <3>1. \A o \in open[s] : recorded'[o[1]] = 0 /\ built'[o] = built[o]
      BY <2>4, <2>7, OpenFacts
    <3>2. \A o \in Objects : built[o] # 0 => built'[o] # 0
      BY <2>4
    <3> QED
      BY <2>5, <2>7, <3>1, <3>2, OtherRunOK
  <2>10. RunOK(r)'
    <3>1. /\ run'[r].at = "apply" /\ run'[r].mig = m /\ run'[r].batch = b + 1
          /\ run'[r].text = run[r].text /\ run'[r].applied = run[r].applied /\ run'[r].commit = run[r].commit
      BY <2>1, <2>5 DEF RunType
    <3>2. History(r)'
      BY <2>1, <2>7, <3>1 DEF Applying, History
    <3>3. Executed(r)'
      <4>1. CASE m \in NoTransaction
        <5>1. open'[r] = {}
          BY <2>1, <2>6, <4>1 DEF Applying, Executed
        <5>2. \A c \in 1..b : built'[<<m, c>>] # 0
          <6> SUFFICES ASSUME NEW c \in 1..b PROVE built'[<<m, c>>] # 0
            OBVIOUS
          <6>1. <<m, c>> \in Objects
            BY <2>1, MigrationsAssumption DEF Objects
          <6>2. CASE c = b
            BY <2>2, <2>3, <2>4, <6>1, <6>2
          <6>3. CASE c # b
            <7>1. c \in 1..b - 1
              BY <2>1, <6>3, MigrationsAssumption
            <7>2. built[<<m, c>>] # 0
              BY <2>1, <4>1, <7>1 DEF Applying, Executed
            <7> QED
              BY <2>4, <6>1, <7>2
          <6> QED
            BY <6>2, <6>3
        <5>3. 1..(b + 1) - 1 = 1..b
          BY <2>1, MigrationsAssumption
        <5> QED
          BY <3>1, <4>1, <5>1, <5>2, <5>3 DEF Executed
      <4>2. CASE m \notin NoTransaction
        <5>1. \A o \in Objects : o \in open[r] <=> o[1] = m /\ o[2] < b
          BY <2>1, <4>2 DEF Applying, Executed
        <5>2. \A o \in Objects : o = Current(r) <=> o[1] = m /\ o[2] = b
          BY <2>1, <2>2 DEF Objects
        <5>3. \A o \in Objects : o[2] < b + 1 <=> o[2] < b \/ o[2] = b
          BY <2>1, MigrationsAssumption DEF Objects
        <5>4. \A o \in Objects : o \in open'[r] <=> o[1] = m /\ o[2] < b + 1
          BY <2>6, <4>2, <5>1, <5>2, <5>3
        <5>5. \A o \in open[r] : o \in Objects /\ o # Current(r) /\ built[o] = run[r].text[m]
          BY <2>8, <4>2, OpenFacts
        <5>6. \A o \in open'[r] : built'[o] = run[r].text[m]
          BY <2>2, <2>4, <2>6, <2>8, <4>2, <5>5
        <5> QED
          BY <2>7, <2>8, <3>1, <4>2, <5>4, <5>6 DEF Executed
      <4> QED
        BY <4>1, <4>2
    <3>4. b + 1 \in 1..Batches + 1
      BY <2>1, MigrationsAssumption
    <3> QED
      BY <2>1, <3>1, <3>2, <3>3, <3>4 DEF RunOK, Applying
  <2>11. OpenApart'
    <3>1. m \notin NoTransaction => \A s \in Runners : Current(r) \notin open[s]
      BY <2>8, OpenFacts
    <3> QED
      BY <2>5, <2>6, <3>1 DEF Inv, OpenApart
  <2>12. AllOrNothing'
    <3> SUFFICES ASSUME NEW n \in Migs \ NoTransaction, NEW c \in 1..Batches
                 PROVE  IF recorded[n] # 0 THEN built'[<<n, c>>] = recorded[n]
                        ELSE built'[<<n, c>>] # 0 => \E s \in Runners : <<n, c>> \in open'[s]
      BY <2>7 DEF AllOrNothing
    <3>1. <<n, c>> \in Objects
      BY DEF Objects
    <3>2. \A s \in Runners : open[s] \subseteq open'[s]
      BY <2>5, <2>6
    <3>3. CASE recorded[n] # 0
      BY <2>4, <3>1, <3>3 DEF Inv, AllOrNothing
    <3>4. CASE recorded[n] = 0
      <4>1. CASE built[<<n, c>>] # 0
        BY <3>2, <3>4, <4>1 DEF Inv, AllOrNothing
      <4>2. CASE <<n, c>> = Current(r)
        BY <2>2, <2>6, <3>4, <4>2
      <4>3. CASE built[<<n, c>>] = 0 /\ <<n, c>> # Current(r)
        BY <2>4, <3>1, <3>4, <4>3
      <4> QED
        BY <4>1, <4>2, <4>3
    <3> QED
      BY <3>3, <3>4
  <2>13. RecordedComplete'
    <3> SUFFICES ASSUME NEW n \in NoTransaction, recorded[n] # 0, NEW c \in 1..Batches
                 PROVE  built'[<<n, c>>] # 0
      BY <2>7 DEF RecordedComplete
    <3>1. <<n, c>> \in Objects
      BY MigrationsAssumption DEF Objects, Migs
    <3> QED
      BY <2>4, <3>1 DEF Inv, RecordedComplete
  <2>14. InOrder'
    <3>1. \A k \in 1..m - 1 : recorded[k] # 0
      BY <2>1 DEF Applying, History
    <3> QED
      BY <2>2, <2>4, <2>7, <3>1 DEF Inv, InOrder
  <2> QED
    BY <2>9, <2>10, <2>11, <2>12, <2>13, <2>14 DEF Inv
<1> QED
  BY <1>1, <1>2

(* A run begins a migration with all the earlier ones recorded as it read  *)
(* them and with nothing uncommitted.                                      *)
LEMMA BeginRunOK ==
  ASSUME NEW r \in Runners, NEW x \in RunType, NEW n \in Nat, x.commit = "end",
         \A m \in Migs : x.text[m] # 0,
         \A m \in x.applied : recorded'[m] = x.text[m],
         \A m \in Migs : m < n => recorded'[m] = x.text[m],
         run'[r] = BeginMigration(x, n), open'[r] = {}
  PROVE  RunOK(r)'
<1> DEFINE y == BeginMigration(x, n)
<1>1. CASE y = Idle
  BY <1>1, IdleType DEF RunOK
<1>2. CASE y # Idle
  <2>1. /\ y.at = "apply" /\ y.batch = 1 /\ y.text = x.text /\ y.applied = x.applied /\ y.mig \in Migs
        /\ \A j \in Migs : n <= j /\ j < y.mig => j \in x.applied
        /\ y.commit = IF y.mig \in NoTransaction THEN "each" ELSE x.commit
    BY <1>2, BeginMigrationOK
  <2> HIDE DEF y
  <2>2. run'[r] = y
    BY DEF y
  <2>3. x.applied \subseteq Migs
    BY DEF RunType
  <2>4. \A k \in 1..y.mig - 1 : k \in Migs /\ recorded'[k] = x.text[k]
    <3> SUFFICES ASSUME NEW k \in 1..y.mig - 1 PROVE k \in Migs /\ recorded'[k] = x.text[k]
      OBVIOUS
    <3>1. k \in Migs /\ k < y.mig
      BY <2>1, MigrationsAssumption DEF Migs
    <3>2. k < n \/ n <= k
      BY <3>1, MigrationsAssumption DEF Migs
    <3> QED
      BY <2>1, <3>1, <3>2
  <2>5. History(r)'
    BY <2>1, <2>2, <2>3, <2>4 DEF History
  <2>6. Executed(r)'
    <3>1. CASE y.mig \in NoTransaction
      BY <2>1, <2>2, <3>1 DEF Executed
    <3>2. CASE y.mig \notin NoTransaction
      <4>1. \A o \in Objects : ~(o[2] < 1)
        BY MigrationsAssumption DEF Objects
      <4> QED
        BY <2>1, <2>2, <3>2, <4>1 DEF Executed
    <3> QED
      BY <3>1, <3>2
  <2>7. 1 \in 1..Batches + 1
    BY MigrationsAssumption
  <2> QED
    BY <2>1, <2>2, <2>5, <2>6, <2>7 DEF RunOK, Applying
<1> QED
  BY <1>1, <1>2

(* A migration is recorded once all of it is there, and all of it becomes  *)
(* permanent with the record.                                              *)
LEMMA RecordMigrationInv ==
  ASSUME Typed, Inv, NEW r \in Runners, RecordMigration(r)
  PROVE  Inv'
<1> DEFINE m == run[r].mig
<1>1. CASE recorded[m] # 0
  BY <1>1, RollbackInv DEF RecordMigration
<1>2. CASE recorded[m] = 0
  <2> DEFINE x == [run[r] EXCEPT !.commit = "end"]
  <2>1. run[r].at = "apply" /\ Applying(r) /\ m \in Migs /\ run[r] \in RunType
    BY DEF RecordMigration, Inv, RunOK, Typed, TypeOK, HasMigration, RunType
  <2>2. run[r].batch = Batches + 1
    BY <2>1, MigrationsAssumption DEF RecordMigration, SplitBatches, Applying
  <2>3. \A n \in Migs : recorded'[n] = IF n = m THEN run[r].text[m] ELSE recorded[n]
    BY <1>2, <2>1 DEF RecordMigration, Typed, TypeOK
  <2>4. run[r].text[m] # 0
    BY <2>1 DEF Applying
  <2>5. /\ run'[r] = BeginMigration(x, m + 1) /\ open'[r] = {} /\ built' = built
        /\ \A s \in Runners \ {r} : run'[s] = run[s] /\ open'[s] = open[s]
    BY <1>2 DEF RecordMigration, Continue, Typed, TypeOK
  <2>6. m \notin NoTransaction => \A o \in Objects : o \in open[r] <=> o[1] = m
    <3>1. \A o \in Objects : o[2] < Batches + 1
      BY MigrationsAssumption DEF Objects
    <3> QED
      BY <2>1, <2>2, <3>1 DEF Applying, Executed
  <2>7. \A s \in Runners \ {r} : \A o \in open[s] : o[1] # m
    <3> SUFFICES ASSUME NEW s \in Runners \ {r}, NEW o \in open[s], o[1] = m PROVE FALSE
      OBVIOUS
    <3>1. o \in Objects /\ o[1] \notin NoTransaction
      BY OpenFacts
    <3>2. o \in open[r]
      BY <2>6, <3>1
    <3> QED
      BY <3>2 DEF Inv, OpenApart
  <2>8. \A s \in Runners \ {r} : RunOK(s)'
    <3> SUFFICES ASSUME NEW s \in Runners \ {r} PROVE RunOK(s)'
      OBVIOUS
    <3>1. \A o \in open[s] : recorded'[o[1]] = 0 /\ built'[o] = built[o]
      BY <2>3, <2>5, <2>7, OpenFacts
    <3>2. \A n \in Migs : recorded[n] # 0 => recorded'[n] = recorded[n]
      BY <1>2, <2>3
    <3> QED
      BY <2>5, <3>1, <3>2, OtherRunOK
  <2>9. RunOK(r)'
    <3>1. /\ x \in RunType /\ x.commit = "end" /\ x.text = run[r].text /\ x.applied = run[r].applied
          /\ m + 1 \in Nat
      BY <2>1, MigrationsAssumption DEF RunType, Migs
    <3>2. \A n \in x.applied : recorded'[n] = x.text[n]
      <4>1. \A n \in x.applied : n \in Migs
        BY <3>1 DEF RunType
      <4> QED
        BY <1>2, <2>1, <2>3, <3>1, <4>1 DEF Applying, History
    <3>3. \A n \in Migs : n < m + 1 => recorded'[n] = x.text[n]
      <4>1. \A n \in Migs : n < m + 1 => n = m \/ n \in 1..m - 1
        BY <2>1, MigrationsAssumption DEF Migs
      <4> QED
        BY <2>1, <2>3, <3>1, <4>1 DEF Applying, History
    <3>4. \A n \in Migs : x.text[n] # 0
      BY <2>1, <3>1 DEF Applying
    <3> HIDE DEF x, m
    <3> QED
      BY <2>5, <3>1, <3>2, <3>3, <3>4, BeginRunOK
  <2>10. OpenApart'
    BY <2>5 DEF Inv, OpenApart
  <2>11. AllOrNothing'
    <3> SUFFICES ASSUME NEW n \in Migs \ NoTransaction, NEW c \in 1..Batches
                 PROVE  IF recorded'[n] # 0 THEN built[<<n, c>>] = recorded'[n]
                        ELSE built[<<n, c>>] # 0 => \E s \in Runners : <<n, c>> \in open'[s]
      BY <2>5 DEF AllOrNothing
    <3>1. <<n, c>> \in Objects /\ <<n, c>>[1] = n
      BY DEF Objects
    <3>2. CASE n = m
      <4>1. <<n, c>> \in open[r]
        BY <2>6, <3>1, <3>2
      <4>2. built[<<n, c>>] = run[r].text[m]
        BY <3>2, <4>1, OpenFacts
      <4> QED
        BY <2>3, <2>4, <3>2, <4>2
    <3>3. CASE n # m /\ recorded[n] # 0
      BY <2>3, <3>3 DEF Inv, AllOrNothing
    <3>4. CASE n # m /\ recorded[n] = 0
      <4> SUFFICES ASSUME built[<<n, c>>] # 0 PROVE \E s \in Runners : <<n, c>> \in open'[s]
        BY <2>3, <3>4
      <4>1. PICK s \in Runners : <<n, c>> \in open[s]
        BY <3>4 DEF Inv, AllOrNothing
      <4>2. s # r
        BY <3>1, <3>4, <4>1, OpenFacts
      <4> QED
        BY <2>5, <4>1, <4>2
    <3> QED
      BY <3>2, <3>3, <3>4
  <2>12. RecordedComplete'
    <3> SUFFICES ASSUME NEW n \in NoTransaction, recorded'[n] # 0, NEW c \in 1..Batches
                 PROVE  built[<<n, c>>] # 0
      BY <2>5 DEF RecordedComplete
    <3>1. n \in Migs
      BY MigrationsAssumption DEF Migs
    <3>2. CASE n = m
      <4>1. 1..Batches = 1..run[r].batch - 1
        BY <2>2, MigrationsAssumption
      <4> QED
        BY <2>1, <3>2, <4>1 DEF Applying, Executed
    <3>3. CASE n # m
      BY <2>3, <3>1, <3>3 DEF Inv, RecordedComplete
    <3> QED
      BY <3>2, <3>3
  <2>13. InOrder'
    <3> SUFFICES ASSUME NEW o \in Objects, built[o] # 0, NEW k \in 1..o[1] - 1
                 PROVE  recorded'[k] # 0
      BY <2>5 DEF InOrder
    <3>1. k \in Migs
      BY MigrationsAssumption DEF Objects, Migs
    <3> QED
      BY <2>3, <2>4, <3>1 DEF Inv, InOrder
  <2> QED
    BY <2>8, <2>9, <2>10, <2>11, <2>12, <2>13 DEF Inv
<1> QED
  BY <1>1, <1>2

(* A step of a run that is not applying yet changes only that run.         *)
LEMMA QuietInv ==
  ASSUME Typed, Inv, NEW r \in Runners, UNCHANGED <<recorded, built, open>>,
         \A s \in Runners \ {r} : run'[s] = run[s], RunOK(r)'
  PROVE  Inv'
<1>1. \A s \in Runners \ {r} : RunOK(s)'
  <2> SUFFICES ASSUME NEW s \in Runners \ {r} PROVE RunOK(s)'
    OBVIOUS
  <2>1. \A o \in open[s] : recorded'[o[1]] = 0 /\ built'[o] = built[o]
    BY OpenFacts
  <2> QED
    BY <2>1, OtherRunOK
<1> QED
  BY <1>1 DEF Inv, OpenApart, AllOrNothing, RecordedComplete, InOrder

LEMMA GetAppliedInv ==
  ASSUME Typed, Inv, NEW r \in Runners, GetApplied(r)
  PROVE  Inv'
<1> DEFINE x == [run[r] EXCEPT !.applied = {m \in Migs : recorded[m] # 0}]
<1>1. run[r].at = "check" /\ run[r] \in RunType /\ UNCHANGED <<recorded, built, open>>
  BY DEF GetApplied, Typed, TypeOK, RunType
<1>2. open[r] = {} /\ run[r].commit = "end" /\ \A m \in Migs : run[r].text[m] # 0
  BY <1>1 DEF Inv, RunOK
<1>3. /\ run'[r] = IF Drift(run[r].text) THEN Idle ELSE BeginMigration(x, 1)
      /\ \A s \in Runners \ {r} : run'[s] = run[s]
  BY DEF GetApplied, Typed, TypeOK
<1>4. RunOK(r)'
  <2>1. CASE Drift(run[r].text)
    BY <1>1, <1>2, <1>3, <2>1, IdleType DEF RunOK
  <2>2. CASE ~Drift(run[r].text)
    <3>1. /\ x \in RunType /\ x.commit = "end" /\ x.text = run[r].text
          /\ x.applied = {m \in Migs : recorded[m] # 0}
      BY <1>1, <1>2 DEF RunType
    <3>2. \A m \in x.applied : recorded'[m] = x.text[m]
      BY <1>1, <2>2, <3>1 DEF Drift
    <3>3. \A m \in Migs : ~(m < 1)
      BY MigrationsAssumption DEF Migs
    <3> HIDE DEF x
    <3> QED
      BY <1>1, <1>2, <1>3, <2>2, <3>1, <3>2, <3>3, BeginRunOK
  <2> QED
    BY <2>1, <2>2
<1> QED
  BY <1>1, <1>3, <1>4, QuietInv

LEMMA InvNext == Typed /\ Inv /\ [Next]_vars => Inv'
<1> SUFFICES ASSUME Typed, Inv, [Next]_vars PROVE Inv'
  OBVIOUS
<1> USE DEF RunOK
<1>1. ASSUME NEW m \in Migs, Edit(m) PROVE Inv'
  BY <1>1 DEF Edit, Inv, RunOK, Applying, History, Executed, OpenApart, AllOrNothing, RecordedComplete, InOrder
<1>2. ASSUME NEW r \in Runners, CheckBootstrap(r) PROVE Inv'
  <2>1. /\ run'[r].at \in {"discover", "create"} /\ run'[r].commit = run[r].commit
        /\ \A s \in Runners \ {r} : run'[s] = run[s]
    BY <1>2 DEF CheckBootstrap, Typed, TypeOK
  <2>2. open[r] = {} /\ run[r].commit = "end"
    BY <1>2 DEF CheckBootstrap, Inv
  <2> QED
    BY <1>2, <2>1, <2>2, QuietInv DEF CheckBootstrap
<1>3. ASSUME NEW r \in Runners, CreateTable(r) PROVE Inv'
  <2>1. /\ run'[r] \in {Idle, [Idle EXCEPT !.at = "discover"]}
        /\ \A s \in Runners \ {r} : run'[s] = run[s]
    BY <1>3 DEF CreateTable, Typed, TypeOK
  <2>2. open[r] = {}
    BY <1>3 DEF CreateTable, Inv
  <2>3. run'[r].at \in {"idle", "discover"} /\ run'[r].commit = "end"
    BY <2>1, IdleType DEF RunType
  <2> QED
    BY <1>3, <2>1, <2>2, <2>3, QuietInv DEF CreateTable
<1>4. ASSUME NEW r \in Runners, DiscoverMigrations(r) PROVE Inv'
  <2>1. /\ run'[r].at = "check" /\ run'[r].commit = run[r].commit /\ run'[r].text = disk
        /\ \A s \in Runners \ {r} : run'[s] = run[s]
    BY <1>4 DEF DiscoverMigrations, Typed, TypeOK
  <2>2. open[r] = {} /\ run[r].commit = "end"
    BY <1>4 DEF DiscoverMigrations, Inv
  <2>3. \A m \in Migs : disk[m] # 0
    BY MigrationsAssumption DEF Typed, TypeOK
  <2> QED
    BY <1>4, <2>1, <2>2, <2>3, QuietInv DEF DiscoverMigrations
<1>5. ASSUME NEW r \in Runners, Abort(r) PROVE Inv'
  BY <1>5, RollbackInv DEF Abort
<1>6. CASE UNCHANGED vars
  BY <1>6 DEF vars, Inv, RunOK, Applying, History, Executed, OpenApart, AllOrNothing, RecordedComplete, InOrder
<1> QED
  BY <1>1, <1>2, <1>3, <1>4, <1>5, <1>6, GetAppliedInv, ExecuteBatchInv, RecordMigrationInv
  DEF Next, Step

LEMMA InvHolds == Spec => [](Typed /\ Inv)
<1>1. Init => Typed /\ Inv
  BY TypedInit, InvInit
<1>2. (Typed /\ Inv) /\ [Next]_vars => (Typed /\ Inv)'
  BY TypedNext, InvNext
<1> QED
  BY <1>1, <1>2, PTL DEF Spec

-----------------------------------------------------------------------------
(* However many runs of the tool collide or die, a transactional migration *)
(* is in the database as recorded or not at all: _apply_migration_         *)
(* transactional commits the batches with the record or undoes both.       *)
THEOREM MigrationsAllOrNothing == Spec => []AllOrNothing
<1>1. Typed /\ Inv => AllOrNothing
  BY DEF Inv
<1> QED
  BY <1>1, InvHolds, PTL

(* _apply_migration_autocommit records a migration last: after a failure   *)
(* between two batches it is not recorded, and one that is recorded is     *)
(* complete.                                                               *)
THEOREM MigrationsRecordedComplete == Spec => []RecordedComplete
<1>1. Typed /\ Inv => RecordedComplete
  BY DEF Inv
<1> QED
  BY <1>1, InvHolds, PTL

(* apply_pending stops at the first failure, so nothing of a migration is  *)
(* in the database before every earlier one is recorded, even with         *)
(* snapshots of get_applied that other runs have made stale.               *)
THEOREM MigrationsInOrder == Spec => []InOrder
<1>1. Typed /\ Inv => InOrder
  BY DEF Inv
<1> QED
  BY <1>1, InvHolds, PTL

(* The comparison of checksums in apply_pending holds for the whole run,   *)
(* though files are edited and others record migrations after it.          *)
THEOREM MigrationsOwnHistory == Spec => []OwnHistory
<1>1. Typed /\ Inv => OwnHistory
  BY DEF Inv, RunOK, Applying, History, OwnHistory
<1> QED
  BY <1>1, InvHolds, PTL
=============================================================================

---------------------------- MODULE MigratorProofs ----------------------------
(***************************************************************************)
(* Migrators do not collide, spare V1 and implement the ledger, for any    *)
(* number of processes and any names of schemas.                           *)
(***************************************************************************)
EXTENDS Migrator, TLAPS

-----------------------------------------------------------------------------
(* Objects, and what the first state may hold.                             *)

LEMMA ObjectsDiffer ==
    ASSUME NEW s, NEW w, NEW v
    PROVE  /\ At(s, w, v).schema = s
           /\ At(s, w, v).what = w
           /\ At(s, w, v).version = v
  BY DEF At

LEMMA KindsAreTwo ==
    /\ \A k \in Kind : k \in {"runtime", "catalog"} /\ Latest[k] \in {1, 2}
    /\ Latest["runtime"] = 2 /\ Latest["catalog"] = 1
  BY DEF Kind, Latest

RowsAndTables == {"row", "runtime", "catalog"}

LEMMA FoundHolds ==
    ASSUME NEW k \in Kind, NEW n \in 0..3, NEW found \in Found(k, n),
           NEW s, NEW w \in RowsAndTables, NEW v
    PROVE  At(s, w, v) \in found <=> s = Target(k) /\ w \in {"row", k} /\ v \in 1..n
<1>1. CASE n = 0
  BY <1>1 DEF Found, At, RowsAndTables
<1>2. CASE n # 0
  <2>1. found = {At(Target(k), "namespace", 0), At(Target(k), "ledger", 0)} \cup Migrated(k, n)
    BY <1>2 DEF Found
  <2> QED
    BY <2>1 DEF Migrated, At, RowsAndTables
<1> QED
  BY <1>1, <1>2

LEMMA V1HoldsNeither ==
    \A s, v : \A w \in RowsAndTables : At(s, w, v) \notin V1Objects
  BY DEF V1Objects, At, RowsAndTables

NoVersionZero == \A k \in Kind : 0 \notin Recorded(k)

LEMMA InitialRows == Init => RowsStandForTables /\ NoVersionZero
<1> SUFFICES ASSUME Init, NEW k \in Kind
             PROVE  /\ Recorded(k) = {v \in Version : At(Target(k), k, v) \in db}
                    /\ 0 \notin Recorded(k)
  BY DEF RowsStandForTables, NoVersionZero
<1>1. {"row", k} \subseteq RowsAndTables
  BY KindsAreTwo DEF RowsAndTables
<1>2. CASE db = V1Objects
  BY <1>1, <1>2, V1HoldsNeither DEF Recorded
<1>3. CASE db # V1Objects
  <2>1. PICK n \in 0..3, m \in 0..2 :
           \E r \in Found("runtime", n), c \in Found("catalog", m) : db = V1Objects \cup r \cup c
    BY <1>3 DEF Init
  <2>2. PICK r \in Found("runtime", n), c \in Found("catalog", m) : db = V1Objects \cup r \cup c
    BY <2>1
  <2>3. Target("runtime") # Target("catalog")
    BY <1>3 DEF Init, KeptApart, Target
  <2>4. \A w \in {"row", k} : \A v :
           At(Target(k), w, v) \in db <=> v \in 1..(IF k = "runtime" THEN n ELSE m)
    BY <1>1, <2>2, <2>3, V1HoldsNeither, FoundHolds, KindsAreTwo DEF Kind
  <2> QED
    BY <2>4 DEF Recorded
<1> QED
  BY <1>2, <1>3

-----------------------------------------------------------------------------
(* The inductive invariant: what each process has done so far.             *)

InTransaction == {"schema", "ledger", "read", "apply", "record", "commit"}

\* Nobody migrates under settings that validate_isolation refuses.
Isolated(p) == pc[p] # "idle" => ValidateIsolation(settings)

LockIsHeld(p) == pc[p] \in InTransaction => lock[Key(p)] = p

PendingIsOwn(p) ==
    /\ pc[p] \in {"idle", "lock"} => pending[p] = {}
    /\ \A o \in pending[p] : o.schema = Schema(p)

NothingIsApplied(p) ==
    \A v \in Version : /\ At(Schema(p), "row", v) \notin pending[p]
                       /\ At(Schema(p), kind[p], v) \notin pending[p]

Done(p) == 1..Latest[kind[p]] \ todo[p]

\* What p sees is what it has applied, and between the two statements of a
\* version the tables are one ahead of the rows.
OneStepAhead(p) ==
    /\ todo[p] \subseteq 1..Latest[kind[p]]
    /\ pc[p] = "commit" => todo[p] = {}
    /\ \A v \in Version : At(Schema(p), "row", v) \in Visible(p) <=> v \in Done(p)
    /\ \A v \in Version : At(Schema(p), kind[p], v) \in Visible(p)
                             <=> \/ v \in Done(p)
                                 \/ pc[p] = "record" /\ v = NextVersion(p)

Progress(p) ==
    /\ pc[p] \in {"schema", "ledger", "read"} => NothingIsApplied(p)
    /\ pc[p] \in {"apply", "record", "commit"} => OneStepAhead(p)

Own(p) == Isolated(p) /\ LockIsHeld(p) /\ PendingIsOwn(p) /\ Progress(p)

MigratorInv ==
    /\ TypeOK
    /\ RowsStandForTables
    /\ NoVersionZero
    /\ MigrationsDoNotCollide
    /\ MigrationsSpareV1
    /\ \A p \in Process : Own(p)

-----------------------------------------------------------------------------
(* Types.                                                                  *)

LEMMA TargetIsAName ==
    ASSUME settings \in Settings, NEW k \in Kind
    PROVE  Target(k) \in Name
  BY DEF Target, Settings

LEMMA ObjectsAreTyped ==
    ASSUME NEW s \in Name, NEW w \in {"namespace", "ledger", "row", "v1"} \cup Kind,
           NEW v \in Version
    PROVE  At(s, w, v) \in Object
  BY DEF At, Object

LEMMA NextIsLeast ==
    ASSUME NEW p, todo[p] \subseteq 1..2, todo[p] # {}
    PROVE  /\ NextVersion(p) \in todo[p]
           /\ \A w \in todo[p] : NextVersion(p) <= w
<1>1. \E v \in todo[p] : \A w \in todo[p] : v <= w
  <2>1. CASE 1 \in todo[p]
    BY <2>1
  <2>2. CASE 1 \notin todo[p]
    <3>1. todo[p] = {2}
      BY <2>2
    <3> QED
      BY <3>1
  <2> QED
    BY <2>1, <2>2
<1> QED
  BY <1>1 DEF NextVersion

LEMMA InitialTypes == Init => TypeOK
<1> SUFFICES ASSUME Init PROVE TypeOK
  OBVIOUS
<1>1. settings \in Settings /\ V1Schemas \subseteq Name
  BY DEF Init, Settings, V1Schemas
<1>2. V1Objects \subseteq Object
  BY <1>1, ObjectsAreTyped DEF V1Objects, Version
<1>3. \A k \in Kind, n \in 0..3 : \A found \in Found(k, n) : found \subseteq Object
  <2> TAKE k \in Kind, n \in 0..3
  <2> TAKE found \in Found(k, n)
  <2>1. At(Target(k), "namespace", 0) \in Object /\ At(Target(k), "ledger", 0) \in Object
    BY <1>1, TargetIsAName, ObjectsAreTyped DEF Version
  <2>2. Migrated(k, n) \subseteq Object
    <3>1. Target(k) \in Name /\ 1..n \subseteq Version
      BY <1>1, TargetIsAName DEF Version
    <3>2. \A v \in 1..n : At(Target(k), "row", v) \in Object /\ At(Target(k), k, v) \in Object
      BY <3>1, ObjectsAreTyped
    <3> QED
      BY <3>2 DEF Migrated
  <2> QED
    BY <2>1, <2>2 DEF Found
<1>4. db \subseteq Object
  <2>1. CASE db = V1Objects
    BY <1>2, <2>1
  <2>2. CASE db # V1Objects
    <3>1. PICK n \in 0..3, m \in 0..2 :
             \E r \in Found("runtime", n), c \in Found("catalog", m) : db = V1Objects \cup r \cup c
      BY <2>2 DEF Init
    <3>2. PICK r \in Found("runtime", n), c \in Found("catalog", m) : db = V1Objects \cup r \cup c
      BY <3>1
    <3>3. r \subseteq Object /\ c \subseteq Object
      BY <1>3 DEF Kind
    <3> QED
      BY <1>2, <3>2, <3>3
  <2> QED
    BY <2>1, <2>2
<1> QED
  BY <1>1, <1>4 DEF Init, TypeOK, Kind, Stage

LEMMA TypesAreKept == TypeOK /\ [Next]_vars => TypeOK'
<1> SUFFICES ASSUME TypeOK, [Next]_vars PROVE TypeOK'
  OBVIOUS
<1> USE DEF TypeOK
<1>1. CASE UNCHANGED vars
  BY <1>1 DEF vars, processes
<1>2. ASSUME NEW p \in Process, NEW result \in {"refused", "migrated", "lost", "broken"},
             End(p, result), db' \subseteq Object
      PROVE  TypeOK'
  <2>1. lock' \in [Name \X Kind -> Process \cup {NoProcess}]
    BY <1>2 DEF End
  <2> QED
    BY <1>2, <2>1 DEF End, Goto, Stage
<1>3. \A p \in Process : Schema(p) \in Name /\ Key(p) \in Name \X Kind
  BY TargetIsAName DEF Schema, Key
<1>4. ASSUME NEW p \in Process, NEW k \in Kind, Start(p, k) PROVE TypeOK'
  BY <1>4 DEF Start, Goto, Stage
<1>5. ASSUME NEW p \in Process, TakeLock(p) PROVE TypeOK'
  BY <1>3, <1>5 DEF TakeLock, Continue, Goto, Stage
<1>6. ASSUME NEW p \in Process, NEW stage, NEW object \in Object, NEW next \in {"ledger", "read"},
             CreateIfMissing(p, stage, object, next)
      PROVE  TypeOK'
  BY <1>6 DEF CreateIfMissing, Continue, Goto, Stage
<1>7. ASSUME NEW p \in Process, CreateSchema(p) \/ CreateLedger(p) PROVE TypeOK'
  BY <1>3, <1>6, <1>7, ObjectsAreTyped DEF CreateSchema, CreateLedger, Version
<1>8. ASSUME NEW p \in Process, ReadLedger(p) PROVE TypeOK'
  <2>1. CASE \E v \in Existing(p) : v > Latest[kind[p]]
    BY <1>2, <1>8, <2>1 DEF ReadLedger
  <2>2. CASE ~ \E v \in Existing(p) : v > Latest[kind[p]]
    <3> DEFINE missing == 1..Latest[kind[p]] \ Existing(p)
    <3>1. missing \subseteq 1..2
      BY KindsAreTwo
    <3>2. /\ todo' = [todo EXCEPT ![p] = missing]
          /\ Continue(p, IF missing = {} THEN "commit" ELSE "apply")
          /\ UNCHANGED <<lock, pending>>
      BY <1>8, <2>2 DEF ReadLedger
    <3> HIDE DEF missing
    <3> QED
      BY <3>1, <3>2 DEF Continue, Goto, Stage
  <2> QED
    BY <2>1, <2>2
<1>9. ASSUME NEW p \in Process, pc[p] \in {"apply", "record"}
      PROVE  /\ NextVersion(p) \in 1..2
             /\ At(Schema(p), kind[p], NextVersion(p)) \in Object
             /\ At(Schema(p), "row", NextVersion(p)) \in Object
  <2>1. NextVersion(p) \in 1..2
    BY <1>9, NextIsLeast
  <2>2. NextVersion(p) \in Version /\ Schema(p) \in Name /\ kind[p] \in Kind
    BY <1>3, <2>1 DEF Version
  <2> QED
    BY <2>1, <2>2, ObjectsAreTyped
<1>10. ASSUME NEW p \in Process, ApplyVersion(p) PROVE TypeOK'
  <2>1. pc[p] = "apply"
    BY <1>10 DEF ApplyVersion
  <2>2. CASE Fits(p, NextVersion(p))
    BY <1>9, <1>10, <2>1, <2>2 DEF ApplyVersion, Continue, Goto, Stage
  <2>3. CASE ~ Fits(p, NextVersion(p))
    BY <1>2, <1>10, <2>3 DEF ApplyVersion
  <2> QED
    BY <2>2, <2>3
<1>11. ASSUME NEW p \in Process, RecordVersion(p) PROVE TypeOK'
  <2> DEFINE row == At(Schema(p), "row", NextVersion(p))
             rest == todo[p] \ {NextVersion(p)}
  <2>1. pc[p] = "record"
    BY <1>11 DEF RecordVersion
  <2>2. row \in Object
    BY <1>9, <2>1
  <2>3. rest \subseteq 1..2
    OBVIOUS
  <2>4. CASE row \notin Visible(p)
    <3>1. /\ pending' = [pending EXCEPT ![p] = @ \cup {row}]
          /\ todo' = [todo EXCEPT ![p] = rest]
          /\ Continue(p, IF rest = {} THEN "commit" ELSE "apply")
          /\ UNCHANGED lock
      BY <1>11, <2>4 DEF RecordVersion
    <3> HIDE DEF row, rest
    <3> QED
      BY <2>2, <2>3, <3>1 DEF Continue, Goto, Stage
  <2>5. CASE row \in Visible(p)
    BY <1>2, <1>11, <2>5 DEF RecordVersion
  <2> QED
    BY <2>4, <2>5
<1>12. ASSUME NEW p \in Process, Commit(p) \/ Fail(p) PROVE TypeOK'
  <2>1. db' \subseteq Object
    BY <1>12 DEF Commit, Fail
  <2> QED
    BY <1>2, <1>12, <2>1 DEF Commit, Fail
<1> QED
  BY <1>1, <1>4, <1>5, <1>7, <1>8, <1>10, <1>11, <1>12 DEF Next

-----------------------------------------------------------------------------
(* A process that does not move keeps its part of the invariant.           *)

LEMMA OthersKeepTheirOwn ==
    ASSUME TypeOK, NEW p \in Process, NEW q \in Process \ {p}, Own(q),
           settings' = settings,
           pc'[q] = pc[q], kind'[q] = kind[q], pending'[q] = pending[q], todo'[q] = todo[q],
           lock[Key(q)] = q => lock'[Key(q)] = q,
           \A w, v : pc[q] \in InTransaction =>
               (At(Schema(q), w, v) \in db' <=> At(Schema(q), w, v) \in db)
    PROVE  Own(q)'
<1>1. Schema(q)' = Schema(q) /\ Key(q)' = Key(q) /\ Done(q)' = Done(q)
  BY DEF Schema, Key, Target, Done
<1>2. (NextVersion(q))' = NextVersion(q)
  BY DEF NextVersion
<1>3. Isolated(q)' /\ LockIsHeld(q)' /\ PendingIsOwn(q)'
  BY <1>1 DEF Own, Isolated, LockIsHeld, PendingIsOwn
<1>4. ASSUME pc[q] \in {"schema", "ledger", "read"} PROVE NothingIsApplied(q)'
  BY <1>1, <1>4 DEF Own, Progress, NothingIsApplied
<1>5. ASSUME pc[q] \in {"apply", "record", "commit"} PROVE OneStepAhead(q)'
  <2>1. OneStepAhead(q) /\ pc[q] \in InTransaction
    BY <1>5 DEF Own, Progress, InTransaction
  <2>2. \A w, v : At(Schema(q), w, v) \in Visible(q)' <=> At(Schema(q), w, v) \in Visible(q)
    BY <2>1 DEF Visible
  <2> QED
    BY <1>1, <1>2, <2>1, <2>2 DEF OneStepAhead
<1> QED
  BY <1>3, <1>4, <1>5 DEF Own, Progress

\* Two transactions of migrators never write to one schema.
LEMMA OneTransactionPerSchema ==
    ASSUME TypeOK, NEW p \in Process, NEW q \in Process \ {p}, Own(p), Own(q),
           pc[p] \in InTransaction, pc[q] \in InTransaction
    PROVE  Schema(p) # Schema(q)
<1> SUFFICES ASSUME Schema(p) = Schema(q) PROVE FALSE
  OBVIOUS
<1>1. lock[Key(p)] = p /\ lock[Key(q)] = q
  BY DEF Own, LockIsHeld
<1>2. kind[p] # kind[q]
  BY <1>1 DEF Key
<1>3. settings.state = settings.catalog
  BY <1>2 DEF Schema, Target, TypeOK, Kind
<1>4. settings.catalog # settings.state
  BY DEF Own, Isolated, ValidateIsolation, InTransaction
<1> QED
  BY <1>3, <1>4

\* Ending is no different for the others, whatever the end is.
LEMMA OthersDoNotMind ==
    ASSUME MigratorInv, NEW p \in Process, NEW result, End(p, result),
           \/ db' = db
           \/ db' = db \cup pending[p] /\ pc[p] \in InTransaction
    PROVE  \A q \in Process \ {p} : Own(q)'
<1> TAKE q \in Process \ {p}
<1> USE DEF MigratorInv
<1>1. /\ settings' = settings /\ kind'[q] = kind[q]
      /\ pc'[q] = pc[q] /\ pending'[q] = pending[q] /\ todo'[q] = todo[q]
  BY DEF End, Goto, TypeOK
<1>2. lock[Key(q)] = q => lock'[Key(q)] = q
  <2>1. Key(q) \in Name \X Kind
    BY TargetIsAName DEF Key, Schema, TypeOK
  <2> QED
    BY <2>1 DEF End, TypeOK
<1>3. ASSUME NEW w, NEW v, pc[q] \in InTransaction
      PROVE  At(Schema(q), w, v) \in db' <=> At(Schema(q), w, v) \in db
  <2>1. CASE db' = db
    BY <2>1
  <2>2. CASE db' = db \cup pending[p] /\ pc[p] \in InTransaction
    <3>1. Schema(p) # Schema(q) /\ PendingIsOwn(p)
      BY <1>3, <2>2, OneTransactionPerSchema DEF Own
    <3>2. At(Schema(q), w, v) \notin pending[p]
      BY <3>1, ObjectsDiffer DEF PendingIsOwn
    <3> QED
      BY <2>2, <3>2
  <2> QED
    BY <2>1, <2>2
<1> QED
  BY <1>1, <1>2, <1>3, OthersKeepTheirOwn

-----------------------------------------------------------------------------
(* Each action keeps what every process has done so far in order.          *)

\* A transaction that ends has nothing left to answer for.
LEMMA EndsAreOwn ==
    ASSUME MigratorInv, NEW p \in Process, NEW result, End(p, result)
    PROVE  Own(p)'
<1>1. pc'[p] = "idle" /\ pending'[p] = {}
  BY DEF End, Goto, MigratorInv, TypeOK
<1> QED
  BY <1>1 DEF Own, Isolated, LockIsHeld, InTransaction, PendingIsOwn, Progress

\* A statement that neither commits nor takes a lock concerns its process only.
LEMMA StatementsAreOwn ==
    ASSUME MigratorInv, NEW p \in Process, NEW stage, Continue(p, stage),
           \A q \in Process \ {p} : pending'[q] = pending[q] /\ todo'[q] = todo[q],
           lock' = lock
    PROVE  \A q \in Process \ {p} : Own(q)'
<1> TAKE q \in Process \ {p}
<1>1. pc'[q] = pc[q] /\ settings' = settings /\ kind' = kind /\ db' = db
  BY DEF Continue, Goto, MigratorInv, TypeOK
<1> QED
  BY <1>1, OthersKeepTheirOwn DEF MigratorInv

LEMMA StartKeepsOwn ==
    ASSUME MigratorInv, NEW p \in Process, NEW k \in Kind, Start(p, k)
    PROVE  \A q \in Process : Own(q)'
<1> USE DEF MigratorInv
<1>1. pc[p] = "idle" /\ settings' = settings /\ db' = db /\ lock' = lock
        /\ pending' = pending /\ todo' = todo
  BY DEF Start
<1>2. pc'[p] = "idle" \/ (pc'[p] = "lock" /\ ValidateIsolation(settings))
  BY <1>1 DEF Start, Goto, TypeOK
<1>3. Own(p)'
  <2>1. pending'[p] = {}
    BY <1>1 DEF Own, PendingIsOwn
  <2>2. Isolated(p)'
    BY <1>1, <1>2 DEF Isolated, ValidateIsolation
  <2> QED
    BY <1>2, <2>1, <2>2 DEF Own, LockIsHeld, InTransaction, PendingIsOwn, Progress
<1>4. ASSUME NEW q \in Process \ {p} PROVE Own(q)'
  <2>1. pc'[q] = pc[q] /\ kind'[q] = kind[q]
    BY DEF Start, Goto, TypeOK
  <2> QED
    BY <1>1, <2>1, OthersKeepTheirOwn
<1> QED
  BY <1>3, <1>4

LEMMA TakeLockKeepsOwn ==
    ASSUME MigratorInv, NEW p \in Process, TakeLock(p)
    PROVE  \A q \in Process : Own(q)'
<1> USE DEF MigratorInv
<1>1. /\ pc[p] = "lock" /\ pc'[p] = "schema"
      /\ settings' = settings /\ db' = db /\ kind' = kind
      /\ pending' = pending /\ todo' = todo
  BY DEF TakeLock, Continue, Goto, TypeOK
<1>2. \A q \in Process : Key(q) \in Name \X Kind /\ Key(q)' = Key(q) /\ Schema(q)' = Schema(q)
  BY <1>1, TargetIsAName DEF Key, Schema, Target, TypeOK
<1>3. Own(p)'
  <2>1. lock'[Key(p)] = p
    BY <1>2 DEF TakeLock, TypeOK
  <2>2. pending'[p] = {}
    BY <1>1 DEF Own, PendingIsOwn
  <2>3. Isolated(p)'
    BY <1>1 DEF Own, Isolated
  <2> QED
    BY <1>1, <1>2, <2>1, <2>2, <2>3
       DEF Own, LockIsHeld, PendingIsOwn, Progress, NothingIsApplied
<1>4. ASSUME NEW q \in Process \ {p} PROVE Own(q)'
  <2>1. pc'[q] = pc[q]
    BY DEF TakeLock, Continue, Goto, TypeOK
  <2>2. lock[Key(q)] = q => lock'[Key(q)] = q
    BY <1>2, MigratorAssumption DEF TakeLock, TypeOK
  <2> QED
    BY <1>1, <2>1, <2>2, OthersKeepTheirOwn
<1> QED
  BY <1>3, <1>4

LEMMA CreateKeepsOwn ==
    ASSUME MigratorInv, NEW p \in Process,
           NEW stage \in {"schema", "ledger"}, NEW next \in {"ledger", "read"},
           NEW w \in {"namespace", "ledger"},
           CreateIfMissing(p, stage, At(Schema(p), w, 0), next)
    PROVE  \A q \in Process : Own(q)'
<1> USE DEF MigratorInv
<1> DEFINE object == At(Schema(p), w, 0)
<1>1. /\ pc[p] = stage /\ pc'[p] = next
      /\ settings' = settings /\ db' = db /\ kind' = kind /\ lock' = lock /\ todo' = todo
      /\ \A q \in Process \ {p} : pending'[q] = pending[q]
      /\ pending'[p] = pending[p] \cup ({object} \ db)
  BY DEF CreateIfMissing, Continue, Goto, TypeOK
<1>2. Key(p)' = Key(p) /\ Schema(p)' = Schema(p)
  BY <1>1 DEF Key, Schema, Target
<1>3. Isolated(p)' /\ LockIsHeld(p)'
  BY <1>1, <1>2 DEF Own, Isolated, LockIsHeld, InTransaction
<1>4. PendingIsOwn(p)'
  BY <1>1, <1>2, ObjectsDiffer DEF Own, PendingIsOwn
<1>5. NothingIsApplied(p)'
  <2>1. NothingIsApplied(p)
    BY <1>1 DEF Own, Progress
  <2>2. \A v : At(Schema(p), "row", v) # object /\ At(Schema(p), kind[p], v) # object
    BY ObjectsDiffer DEF TypeOK, Kind
  <2> HIDE DEF object
  <2> QED
    BY <1>1, <1>2, <2>1, <2>2 DEF NothingIsApplied
<1>6. Own(p)'
  BY <1>1, <1>3, <1>4, <1>5 DEF Own, Progress
<1>7. \A q \in Process \ {p} : Own(q)'
  BY <1>1, StatementsAreOwn DEF CreateIfMissing
<1> QED
  BY <1>6, <1>7

LEMMA ReadKeepsOwn ==
    ASSUME MigratorInv, NEW p \in Process, ReadLedger(p)
    PROVE  \A q \in Process : Own(q)'
<1> USE DEF MigratorInv
<1>1. CASE \E v \in Existing(p) : v > Latest[kind[p]]
  BY <1>1, EndsAreOwn, OthersDoNotMind DEF ReadLedger
<1>2. CASE ~ \E v \in Existing(p) : v > Latest[kind[p]]
  <2> DEFINE missing == 1..Latest[kind[p]] \ Existing(p)
             next    == IF missing = {} THEN "commit" ELSE "apply"
  <2>1. /\ todo' = [todo EXCEPT ![p] = missing]
        /\ Continue(p, next)
        /\ lock' = lock /\ pending' = pending
    BY <1>2 DEF ReadLedger
  <2>2. next \in {"apply", "commit"} /\ (next = "commit" => missing = {})
    OBVIOUS
  <2>3. kind[p] \in Kind /\ missing \subseteq 1..Latest[kind[p]] /\ Latest[kind[p]] \in {1, 2}
    BY KindsAreTwo DEF TypeOK
  <2>4. NothingIsApplied(p) /\ pc[p] = "read"
    BY DEF ReadLedger, Own, Progress
  <2>5. \A v \in Version :
           /\ At(Schema(p), "row", v) \in Visible(p) <=> At(Schema(p), "row", v) \in db
           /\ At(Schema(p), kind[p], v) \in Visible(p) <=> At(Schema(p), "row", v) \in db
    BY <2>3, <2>4 DEF NothingIsApplied, Visible, RowsStandForTables, Recorded, Schema
  <2>6. \A v \in Existing(p) : v \in 1..Latest[kind[p]]
    <3>1. Existing(p) = Recorded(kind[p])
      BY <2>5 DEF Existing, Recorded, Schema
    <3>2. 0 \notin Existing(p) /\ Existing(p) \subseteq 0..3
      BY <2>3, <3>1 DEF NoVersionZero, Existing, Version
    <3> QED
      BY <1>2, <2>3, <3>2
  <2>7. \A v \in Version : v \in 1..Latest[kind[p]] \ missing <=> v \in Existing(p)
    BY <2>6
  <2> HIDE DEF missing, next
  <2>8. /\ pc'[p] = next /\ todo'[p] = missing
        /\ settings' = settings /\ db' = db /\ kind' = kind
        /\ \A q \in Process \ {p} : pending'[q] = pending[q] /\ todo'[q] = todo[q]
    BY <2>1 DEF Continue, Goto, TypeOK
  <2>9. Key(p)' = Key(p) /\ Schema(p)' = Schema(p) /\ Visible(p)' = Visible(p)
    BY <2>1, <2>8 DEF Key, Schema, Target, Visible
  <2>10. Isolated(p)' /\ LockIsHeld(p)' /\ PendingIsOwn(p)'
    BY <2>1, <2>2, <2>4, <2>8, <2>9 DEF Own, Isolated, LockIsHeld, PendingIsOwn, InTransaction
  <2>11. OneStepAhead(p)'
    <3>1. \A v \in Version : v \in Done(p)' <=> v \in Existing(p)
      BY <2>7, <2>8 DEF Done
    <3>2. \A v \in Version : v \in Existing(p) <=> At(Schema(p), "row", v) \in db
      BY <2>5 DEF Existing
    <3> QED
      BY <2>2, <2>3, <2>5, <2>8, <2>9, <3>1, <3>2 DEF OneStepAhead
  <2>12. Own(p)'
    BY <2>2, <2>8, <2>10, <2>11 DEF Own, Progress
  <2>13. \A q \in Process \ {p} : Own(q)'
    BY <2>1, <2>8, StatementsAreOwn
  <2> QED
    BY <2>12, <2>13
<1> QED
  BY <1>1, <1>2

\* The tables of the next version are never there yet, those before it are.
LEMMA NextVersionFits ==
    ASSUME MigratorInv, NEW p \in Process, pc[p] = "apply"
    PROVE  Fits(p, NextVersion(p))
<1> USE DEF MigratorInv
<1> DEFINE n == NextVersion(p)
<1>1. todo[p] # {} /\ todo[p] \subseteq 1..2 /\ OneStepAhead(p)
  BY DEF TypeOK, Own, Progress
<1>2. n \in todo[p] /\ \A w \in todo[p] : n <= w
  BY <1>1, NextIsLeast
<1>3. kind[p] \in Kind /\ Latest[kind[p]] \in {1, 2} /\ todo[p] \subseteq 1..Latest[kind[p]]
  BY <1>1, KindsAreTwo DEF TypeOK, OneStepAhead
<1> HIDE DEF n
<1>4. n \in Version /\ n \notin Done(p)
  BY <1>1, <1>2 DEF Done, Version
<1>5. ASSUME n > 1 PROVE n - 1 \in Version /\ n - 1 \in Done(p)
  <2>1. n - 1 \in 1..Latest[kind[p]] /\ n - 1 \in 0..3
    BY <1>1, <1>2, <1>3, <1>5
  <2>2. n - 1 \notin todo[p]
    BY <1>1, <1>2
  <2> QED
    BY <2>1, <2>2 DEF Done, Version
<1>6. At(Schema(p), kind[p], n) \notin Visible(p)
  BY <1>1, <1>4 DEF OneStepAhead
<1>7. n > 1 => At(Schema(p), kind[p], n - 1) \in Visible(p)
  BY <1>1, <1>5 DEF OneStepAhead
<1> QED
  BY <1>6, <1>7 DEF Fits, n

LEMMA ApplyKeepsOwn ==
    ASSUME MigratorInv, NEW p \in Process, ApplyVersion(p)
    PROVE  (\A q \in Process : Own(q)') /\ db' = db /\ outcome' = outcome
<1> USE DEF MigratorInv
<1> DEFINE n == NextVersion(p)
           object == At(Schema(p), kind[p], n)
<1>1. pc[p] = "apply" /\ Fits(p, n)
  BY NextVersionFits DEF ApplyVersion
<1>2. /\ pending' = [pending EXCEPT ![p] = @ \cup {object}]
      /\ Continue(p, "record")
      /\ lock' = lock /\ todo' = todo
  BY <1>1 DEF ApplyVersion
<1>3. OneStepAhead(p)
  BY <1>1 DEF Own, Progress
<1> HIDE DEF n
<1>4. /\ pc'[p] = "record" /\ settings' = settings /\ db' = db /\ kind' = kind /\ outcome' = outcome
      /\ \A q \in Process \ {p} : pending'[q] = pending[q]
      /\ pending'[p] = pending[p] \cup {object}
  BY <1>2 DEF Continue, Goto, TypeOK
<1>5. /\ Key(p)' = Key(p) /\ Schema(p)' = Schema(p) /\ Done(p)' = Done(p)
      /\ Visible(p)' = Visible(p) \cup {object}
  BY <1>2, <1>4 DEF Key, Schema, Target, Visible, Done
<1>6. NextVersion(p)' = n
  BY <1>2 DEF NextVersion, n
<1>7. Isolated(p)' /\ LockIsHeld(p)'
  BY <1>1, <1>2, <1>4, <1>5 DEF Own, Isolated, LockIsHeld, InTransaction
<1>8. PendingIsOwn(p)'
  BY <1>4, <1>5, ObjectsDiffer DEF Own, PendingIsOwn
<1>9. OneStepAhead(p)'
  <2>1. \A v \in Version : At(Schema(p), "row", v) # object
    BY ObjectsDiffer DEF TypeOK, Kind
  <2>2. \A v \in Version : At(Schema(p), kind[p], v) = object <=> v = n
    BY ObjectsDiffer
  <2> HIDE DEF object
  <2> QED
    BY <1>1, <1>2, <1>3, <1>4, <1>5, <1>6, <2>1, <2>2 DEF OneStepAhead
<1>10. Own(p)'
  BY <1>4, <1>7, <1>8, <1>9 DEF Own, Progress
<1>11. \A q \in Process \ {p} : Own(q)'
  BY <1>2, <1>4, StatementsAreOwn
<1> QED
  BY <1>4, <1>10, <1>11

LEMMA RecordKeepsOwn ==
    ASSUME MigratorInv, NEW p \in Process, RecordVersion(p)
    PROVE  (\A q \in Process : Own(q)') /\ db' = db /\ outcome' = outcome
<1> USE DEF MigratorInv
<1> DEFINE n == NextVersion(p)
           row == At(Schema(p), "row", n)
           rest == todo[p] \ {n}
           next == IF rest = {} THEN "commit" ELSE "apply"
<1>1. pc[p] = "record" /\ OneStepAhead(p)
  BY DEF RecordVersion, Own, Progress
<1>2. n \in todo[p] /\ n \in 1..2 /\ n \in 1..Latest[kind[p]]
  BY <1>1, NextIsLeast DEF TypeOK, OneStepAhead
<1> HIDE DEF n
<1>3. row \notin Visible(p)
  <2>1. n \in Version /\ n \notin Done(p)
    BY <1>2 DEF Version, Done
  <2> QED
    BY <1>1, <2>1 DEF OneStepAhead
<1>4. /\ pending' = [pending EXCEPT ![p] = @ \cup {row}]
      /\ todo' = [todo EXCEPT ![p] = rest]
      /\ Continue(p, next)
      /\ lock' = lock
  BY <1>3 DEF RecordVersion, n
<1>5. next \in {"commit", "apply"} /\ (next = "commit" => rest = {})
  OBVIOUS
<1>6. \A v \in Version : /\ At(Schema(p), "row", v) = row <=> v = n
                         /\ At(Schema(p), kind[p], v) # row
  BY ObjectsDiffer DEF TypeOK, Kind
<1>7. \A v : v \in 1..Latest[kind[p]] \ rest <=> v \in Done(p) \/ v = n
  BY <1>2 DEF Done
<1>8. rest \subseteq todo[p]
  OBVIOUS
<1> HIDE DEF next, rest
<1>9. /\ pc'[p] = next /\ settings' = settings /\ db' = db /\ kind' = kind /\ outcome' = outcome
      /\ \A q \in Process \ {p} : pending'[q] = pending[q] /\ todo'[q] = todo[q]
      /\ pending'[p] = pending[p] \cup {row}
      /\ todo'[p] = rest
  BY <1>4 DEF Continue, Goto, TypeOK
<1>10. /\ Key(p)' = Key(p) /\ Schema(p)' = Schema(p)
       /\ Visible(p)' = Visible(p) \cup {row}
       /\ \A v : v \in Done(p)' <=> v \in Done(p) \/ v = n
  BY <1>7, <1>9 DEF Key, Schema, Target, Visible, Done
<1>11. Isolated(p)' /\ LockIsHeld(p)'
  BY <1>1, <1>4, <1>9, <1>10 DEF Own, Isolated, LockIsHeld, InTransaction
<1>12. PendingIsOwn(p)'
  BY <1>5, <1>9, <1>10, ObjectsDiffer DEF Own, PendingIsOwn
<1>13. OneStepAhead(p)'
  <2> HIDE DEF row
  <2> QED
    BY <1>1, <1>5, <1>6, <1>8, <1>9, <1>10 DEF OneStepAhead, n
<1>14. Own(p)'
  BY <1>5, <1>9, <1>11, <1>12, <1>13 DEF Own, Progress
<1>15. \A q \in Process \ {p} : Own(q)'
  BY <1>4, <1>9, StatementsAreOwn
<1> QED
  BY <1>9, <1>14, <1>15

-----------------------------------------------------------------------------
(* What is committed.                                                      *)

\* A commit adds to the one schema it owns, and completes its ledger.
LEMMA CommitCompletes ==
    ASSUME MigratorInv, NEW p \in Process, Commit(p)
    PROVE  /\ kind[p] \in Kind /\ kind' = kind
           /\ Recorded(kind[p]) \subseteq 1..Latest[kind[p]]
           /\ \A v \in Version :
                 /\ v \in Recorded(kind[p])' <=> v \in 1..Latest[kind[p]]
                 /\ At(Target(kind[p]), kind[p], v) \in db' <=> v \in 1..Latest[kind[p]]
           /\ \A k \in Kind \ {kind[p]} : \A w, v :
                 At(Target(k), w, v) \in db' <=> At(Target(k), w, v) \in db
<1> USE DEF MigratorInv
<1>1. /\ pc[p] = "commit" /\ db' = Visible(p) /\ settings' = settings /\ kind' = kind
      /\ OneStepAhead(p) /\ todo[p] = {} /\ kind[p] \in Kind
  BY DEF Commit, End, Own, Progress, OneStepAhead, Visible, TypeOK
<1>2. Done(p) = 1..Latest[kind[p]] /\ \A k \in Kind : Target(k)' = Target(k)
  BY <1>1 DEF Done, Target
<1>3. \A v \in Version :
         /\ At(Target(kind[p]), "row", v) \in db' <=> v \in 1..Latest[kind[p]]
         /\ At(Target(kind[p]), kind[p], v) \in db' <=> v \in 1..Latest[kind[p]]
  BY <1>1, <1>2 DEF OneStepAhead, Schema
<1>4. Recorded(kind[p]) \subseteq 1..Latest[kind[p]]
  BY <1>1, <1>3 DEF Recorded, Visible
<1>5. ASSUME NEW k \in Kind \ {kind[p]}, NEW w, NEW v
      PROVE  At(Target(k), w, v) \in db' <=> At(Target(k), w, v) \in db
  <2>1. settings.catalog # settings.state
    BY <1>1 DEF Own, Isolated, ValidateIsolation
  <2>2. Target(k) # Schema(p)
    BY <1>1, <2>1 DEF Target, Schema, Kind
  <2>3. At(Target(k), w, v) \notin pending[p]
    BY <2>2, ObjectsDiffer DEF Own, PendingIsOwn
  <2> QED
    BY <1>1, <2>3 DEF Visible
<1> QED
  BY <1>1, <1>2, <1>3, <1>4, <1>5 DEF Recorded

LEMMA CommitKeepsTheLedger ==
    ASSUME MigratorInv, NEW p \in Process, Commit(p)
    PROVE  RowsStandForTables' /\ NoVersionZero' /\ MigrationsSpareV1'
<1> USE DEF MigratorInv
<1>1. settings' = settings /\ kind' = kind /\ db' = db \cup pending[p]
  BY DEF Commit, End
<1>2. ASSUME NEW k \in Kind
      PROVE  /\ Recorded(k)' = {v \in Version : At(Target(k), k, v) \in db'}
             /\ 0 \notin Recorded(k)'
  <2>1. CASE k = kind[p]
    <3>1. /\ \A v \in Version : v \in Recorded(k)' <=> v \in 1..Latest[k]
          /\ \A v \in Version : At(Target(k), k, v) \in db' <=> v \in 1..Latest[k]
      BY <1>1, <2>1, CommitCompletes
    <3>2. Recorded(k)' \subseteq Version /\ 0 \in Version /\ 0 \notin 1..Latest[k]
      BY KindsAreTwo DEF Recorded, Version
    <3> QED
      BY <3>1, <3>2
  <2>2. CASE k # kind[p]
    <3>1. Target(k)' = Target(k)
      BY <1>1 DEF Target
    <3>2. \A w, v : At(Target(k), w, v) \in db' <=> At(Target(k), w, v) \in db
      BY <2>2, CommitCompletes
    <3>3. Recorded(k)' = Recorded(k)
      BY <3>1, <3>2 DEF Recorded
    <3> QED
      BY <3>2, <3>3 DEF RowsStandForTables, NoVersionZero
  <2> QED
    BY <2>1, <2>2
<1>3. \A k \in Kind : Target(k)' = Target(k)
  BY <1>1 DEF Target
<1>4. MigrationsSpareV1'
  <2> SUFFICES ASSUME Preflight(settings)
               PROVE  {o \in db' : o.schema \in V1Schemas} = V1Objects
    BY <1>1 DEF MigrationsSpareV1, Preflight, V1Schemas, V1Objects
  <2>1. Schema(p) \notin V1Schemas
    BY DEF Preflight, V1Schemas, Schema, Target
  <2>2. \A o \in pending[p] : o.schema \notin V1Schemas
    BY <2>1 DEF Own, PendingIsOwn
  <2>3. {o \in db : o.schema \in V1Schemas} = V1Objects
    BY DEF MigrationsSpareV1
  <2> QED
    BY <1>1, <2>2, <2>3
<1> QED
  BY <1>2, <1>3, <1>4 DEF RowsStandForTables, NoVersionZero

LEMMA InitialInv == Init => MigratorInv
<1> SUFFICES ASSUME Init PROVE MigratorInv
  OBVIOUS
<1>1. MigrationsSpareV1
  <2> SUFFICES ASSUME db # V1Objects
               PROVE  {o \in db : o.schema \in V1Schemas} = V1Objects
    <3>1. \A o \in V1Objects : o.schema \in V1Schemas
      BY ObjectsDiffer DEF V1Objects
    <3> QED
      BY <3>1 DEF MigrationsSpareV1
  <2>1. PICK n \in 0..3, m \in 0..2 :
           \E r \in Found("runtime", n), c \in Found("catalog", m) : db = V1Objects \cup r \cup c
    BY DEF Init
  <2>2. PICK r \in Found("runtime", n), c \in Found("catalog", m) : db = V1Objects \cup r \cup c
    BY <2>1
  <2>3. KeptApart
    BY DEF Init
  <2>4. \A o \in V1Objects : o.schema \in V1Schemas
    BY ObjectsDiffer DEF V1Objects
  <2>5. ASSUME NEW k \in Kind, NEW i \in 0..3, NEW found \in Found(k, i)
        PROVE  \A o \in found : o.schema \notin V1Schemas
    <3>1. Target(k) \notin V1Schemas
      BY <2>3 DEF KeptApart, Target
    <3>2. \A o \in Migrated(k, i) : o.schema = Target(k)
      BY ObjectsDiffer DEF Migrated
    <3>3. \A o \in found : o.schema = Target(k)
      BY <3>2, ObjectsDiffer DEF Found
    <3> QED
      BY <3>1, <3>3
  <2>6. \A o \in r \cup c : o.schema \notin V1Schemas
    BY <2>5 DEF Kind
  <2> QED
    BY <2>2, <2>4, <2>6
<1>2. \A p \in Process : Own(p)
  BY DEF Init, Own, Isolated, LockIsHeld, PendingIsOwn, Progress, InTransaction
<1>3. MigrationsDoNotCollide
  BY DEF Init, MigrationsDoNotCollide
<1> QED
  BY <1>1, <1>2, <1>3, InitialTypes, InitialRows DEF MigratorInv

\* Every step keeps the invariant, and only a commit changes the database.
LEMMA StepKeepsInv ==
    ASSUME MigratorInv, [Next]_vars
    PROVE  /\ MigratorInv'
           /\ settings' = settings
           /\ db' = db \/ \E p \in Process : Commit(p)
<1>1. TypeOK'
  BY TypesAreKept DEF MigratorInv
<1>2. ASSUME settings' = settings, db' = db
      PROVE  RowsStandForTables' /\ NoVersionZero' /\ MigrationsSpareV1'
  BY <1>2 DEF MigratorInv, RowsStandForTables, NoVersionZero, MigrationsSpareV1,
              Recorded, Target, Preflight, V1Schemas, V1Objects
<1>3. CASE UNCHANGED vars
  <2>1. \A p \in Process : Own(p)'
    BY <1>3 DEF MigratorInv, vars, processes, Own, Isolated, LockIsHeld, PendingIsOwn, Progress,
                NothingIsApplied, OneStepAhead, Done, Visible, NextVersion, Key, Schema, Target
  <2>2. MigrationsDoNotCollide'
    BY <1>3 DEF MigratorInv, MigrationsDoNotCollide, vars, processes
  <2> QED
    BY <1>1, <1>2, <1>3, <2>1, <2>2 DEF MigratorInv, vars
<1>4. ASSUME NEW p \in Process, settings' = settings,
             db' = db \/ Commit(p),
             \A q \in Process : Own(q)',
             outcome' = outcome \/ (\E o \in {"none", "refused", "migrated", "lost"} :
                                       outcome' = [outcome EXCEPT ![p] = o])
      PROVE  MigratorInv' /\ settings' = settings /\ (db' = db \/ \E q \in Process : Commit(q))
  <2>1. MigrationsDoNotCollide'
    BY <1>4 DEF MigratorInv, MigrationsDoNotCollide, TypeOK
  <2>2. RowsStandForTables' /\ NoVersionZero' /\ MigrationsSpareV1'
    BY <1>2, <1>4, CommitKeepsTheLedger
  <2> QED
    BY <1>1, <1>4, <2>1, <2>2 DEF MigratorInv
<1>5. ASSUME NEW p \in Process, NEW k \in Kind, Start(p, k)
      PROVE  MigratorInv' /\ settings' = settings /\ db' = db
  BY <1>4, <1>5, StartKeepsOwn DEF Start
<1>6. ASSUME NEW p \in Process, TakeLock(p)
      PROVE  MigratorInv' /\ settings' = settings /\ db' = db
  BY <1>4, <1>6, TakeLockKeepsOwn DEF TakeLock, Continue
<1>7. ASSUME NEW p \in Process, CreateSchema(p) \/ CreateLedger(p)
      PROVE  MigratorInv' /\ settings' = settings /\ db' = db
  <2>1. settings' = settings /\ db' = db /\ outcome' = outcome
    BY <1>7 DEF CreateSchema, CreateLedger, CreateIfMissing, Continue
  <2>2. \A q \in Process : Own(q)'
    BY <1>7, CreateKeepsOwn DEF CreateSchema, CreateLedger
  <2> QED
    BY <1>4, <2>1, <2>2
<1>8. ASSUME NEW p \in Process, ReadLedger(p)
      PROVE  MigratorInv' /\ settings' = settings /\ db' = db
  <2>1. settings' = settings /\ db' = db
    BY <1>8 DEF ReadLedger, Continue, End
  <2>2. outcome' = outcome \/ outcome' = [outcome EXCEPT ![p] = "refused"]
    BY <1>8 DEF ReadLedger, Continue, End
  <2> QED
    BY <1>4, <1>8, <2>1, <2>2, ReadKeepsOwn
<1>9. ASSUME NEW p \in Process, ApplyVersion(p) \/ RecordVersion(p)
      PROVE  MigratorInv' /\ settings' = settings /\ db' = db
  <2>1. settings' = settings
    BY <1>9 DEF ApplyVersion, RecordVersion, Continue, End
  <2> QED
    BY <1>4, <1>9, <2>1, ApplyKeepsOwn, RecordKeepsOwn
<1>10. ASSUME NEW p \in Process, Fail(p)
       PROVE  MigratorInv' /\ settings' = settings /\ db' = db
  <2>1. End(p, "lost") /\ db' = db
    BY <1>10 DEF Fail
  <2>2. \A q \in Process : Own(q)'
    BY <2>1, EndsAreOwn, OthersDoNotMind
  <2> QED
    BY <1>4, <2>1, <2>2 DEF End
<1>11. ASSUME NEW p \in Process, Commit(p)
       PROVE  MigratorInv' /\ settings' = settings
  <2>1. End(p, "migrated") /\ db' = db \cup pending[p] /\ pc[p] \in InTransaction
    BY <1>11 DEF Commit, InTransaction
  <2>2. \A q \in Process : Own(q)'
    BY <2>1, EndsAreOwn, OthersDoNotMind
  <2> QED
    BY <1>4, <1>11, <2>1, <2>2 DEF End
<1> QED
  BY <1>3, <1>5, <1>6, <1>7, <1>8, <1>9, <1>10, <1>11 DEF Next

-----------------------------------------------------------------------------
(***************************************************************************)
(* The invariant, of which the three properties are parts: an open         *)
(* transaction holds its schema's lock, sees exactly the versions it has   *)
(* not left to do, and has written into no schema but its own.             *)
(***************************************************************************)
THEOREM MigratorInvariant == Spec => []MigratorInv
<1>1. MigratorInv /\ [Next]_vars => MigratorInv'
  BY StepKeepsInv
<1> QED
  BY <1>1, InitialInv, PTL DEF Spec

(***************************************************************************)
(* Whatever migrators overlap and wherever they are lost, a version is     *)
(* recorded exactly when its tables and columns are there.                 *)
(***************************************************************************)
THEOREM LedgerStandsForTables == Spec => []RowsStandForTables
<1>1. MigratorInv => RowsStandForTables
  BY DEF MigratorInv
<1> QED
  BY <1>1, MigratorInvariant, PTL

(***************************************************************************)
(* No CREATE TABLE or ALTER TABLE of a migrator meets an object that is    *)
(* already there, however many migrators are started.                      *)
(***************************************************************************)
THEOREM MigratorsNeverCollide == Spec => []MigrationsDoNotCollide
<1>1. MigratorInv => MigrationsDoNotCollide
  BY DEF MigratorInv
<1> QED
  BY <1>1, MigratorInvariant, PTL

(***************************************************************************)
(* Under settings the installer's preflight accepts, no migrator creates   *)
(* anything in V1's schemas.                                               *)
(***************************************************************************)
THEOREM MigratorsSpareV1 == Spec => []MigrationsSpareV1
<1>1. MigratorInv => MigrationsSpareV1
  BY DEF MigratorInv
<1> QED
  BY <1>1, MigratorInvariant, PTL

(***************************************************************************)
(* The transactions of all migrators implement the ledger that Activation  *)
(* relies on: a commit is one Upgrade, every other statement is a stutter. *)
(***************************************************************************)
THEOREM MigratorsImplementTheLedger == Spec => IsSchemaLedger
<1> DEFINE rows == [k \in Kind |-> Recorded(k)]
<1>0. DOMAIN Latest = Kind
  BY DEF Latest, Kind
<1>1. Init => Ledger!Init
  BY <1>0 DEF Ledger!Init, Ledger!Schema, Recorded, Version
<1>2. MigratorInv /\ [Next]_vars => [Ledger!Next]_rows
  <2> SUFFICES ASSUME MigratorInv, [Next]_vars PROVE [Ledger!Next]_rows
    OBVIOUS
  <2>1. settings' = settings /\ (db' = db \/ \E p \in Process : Commit(p))
    BY StepKeepsInv
  <2>2. CASE db' = db
    BY <2>1, <2>2 DEF Recorded, Target
  <2>3. ASSUME NEW p \in Process, Commit(p) PROVE Ledger!Next
    <3>1. /\ kind[p] \in Kind /\ kind' = kind
          /\ Recorded(kind[p]) \subseteq 1..Latest[kind[p]]
          /\ \A v \in Version : v \in Recorded(kind[p])' <=> v \in 1..Latest[kind[p]]
      BY <2>3, CommitCompletes
    <3>2. Latest[kind[p]] \in {1, 2} /\ 1..Latest[kind[p]] \subseteq Version
      BY <3>1, KindsAreTwo DEF Version
    <3>3. Recorded(kind[p])' = Recorded(kind[p]) \cup 1..Latest[kind[p]]
      BY <3>1, <3>2 DEF Recorded
    <3>4. ASSUME NEW k \in Kind \ {kind[p]} PROVE Recorded(k)' = Recorded(k)
      <4>1. \A w, v : At(Target(k), w, v) \in db' <=> At(Target(k), w, v) \in db
        BY <2>3, CommitCompletes
      <4> QED
        BY <2>1, <4>1 DEF Recorded, Target
    <3>5. rows' = [rows EXCEPT ![kind[p]] = @ \cup 1..Latest[kind[p]]]
      BY <3>1, <3>3, <3>4
    <3>6. \A v \in Recorded(kind[p]) : ~ (v > Latest[kind[p]])
      BY <3>1, <3>2
    <3> QED
      BY <1>0, <3>1, <3>5, <3>6
         DEF Ledger!Next, Ledger!Schema, Ledger!Upgrade, Ledger!Unsupported, Ledger!ApplyMissing
  <2> QED
    BY <2>1, <2>2, <2>3
<1> QED
  BY <1>1, <1>2, MigratorInvariant, PTL DEF Spec, IsSchemaLedger, Ledger!Spec
===============================================================================

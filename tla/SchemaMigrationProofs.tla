------------------------- MODULE SchemaMigrationProofs -------------------------
(***************************************************************************)
(* Proofs about SchemaMigration for any contents of migration files, any   *)
(* number of them, any sequence of releases and stops at any step.         *)
(***************************************************************************)
EXTENDS SchemaMigration, FiniteSetTheorems, TLAPS

(* What the loop over the migrations knows when it has come to the cursor: the
   directory passed the checks of the start, and everything below the cursor is
   recorded as it stands in the directory. *)
LoopInv ==
    server = "migrating" =>
        /\ Contiguous(files)
        /\ ~IsNewer
        /\ \A v \in Versions :
              v < cursor => v \in DOMAIN ledger /\ ledger[v] = files[v]

(* Only a migration that is not recorded is executed. *)
TransactionInv == inTransaction => cursor \notin DOMAIN ledger

IInv ==
    /\ TypeOK
    /\ LedgerIsTheSchema
    /\ LoopInv
    /\ TransactionInv
    /\ startup = "migrated" => ledger = files

--------------------------------------------------------------------------------
(* Facts about directories *)

LEMMA DirectoryType ==
    ASSUME NEW d \in Directories
    PROVE  /\ DOMAIN d \in SUBSET Versions
           /\ DOMAIN d # {}
           /\ d = [v \in DOMAIN d |-> d[v]]
           /\ \A v \in DOMAIN d : d[v] \in Contents
  BY DEF Directories

LEMMA IsDirectory ==
    ASSUME NEW S \in SUBSET Versions, S # {}, NEW d \in [S -> Contents]
    PROVE  d \in Directories
  BY DEF Directories

LEMMA FilesAreCounted ==
    ASSUME NEW d \in Directories
    PROVE  Cardinality(DOMAIN d) \in Nat
<1>1. IsFiniteSet(Versions)
  BY BoundsAssumption, FS_Interval DEF Versions
<1>2. IsFiniteSet(DOMAIN d)
  BY <1>1, DirectoryType, FS_Subset
<1> QED
  BY <1>2, FS_CardinalityType

(* The ledger as LedgerIsTheSchema has it is a function on its versions. *)
LEMMA LedgerType ==
    ASSUME TypeOK, LedgerIsTheSchema
    PROVE  /\ ledger = [v \in DOMAIN ledger |-> ledger[v]]
           /\ DOMAIN ledger \subseteq Versions
           /\ \A v \in DOMAIN ledger : ledger[v] \in Contents
           /\ schema \in Seq(Contents)
           /\ Len(schema) \in Nat
<1>1. schema \in Seq(Contents) /\ Len(schema) \in Nat
  BY DEF TypeOK
<1>2. CASE ledger = EmptyLedger
  <2>1. DOMAIN ledger = {}
    BY <1>2 DEF EmptyLedger
  <2>2. ledger = [v \in DOMAIN ledger |-> ledger[v]]
    BY <1>2 DEF EmptyLedger
  <2> QED
    BY <1>1, <2>1, <2>2
<1>3. CASE ledger \in Directories
  BY <1>1, <1>3, DirectoryType
<1> QED
  BY <1>2, <1>3 DEF TypeOK

--------------------------------------------------------------------------------
(* The inductive invariant *)

LEMMA InitIInv == Init => IInv
<1> SUFFICES ASSUME Init PROVE IInv
  OBVIOUS
<1>1. TypeOK
  <2>1. ledger \in Directories \cup {EmptyLedger} /\ schema \in Seq(Contents)
    BY DEF Init
  <2>2. cursor \in 1 .. MaxVersion + 1 /\ stops \in 0 .. MaxStops
    BY BoundsAssumption DEF Init
  <2> QED
    BY <2>1, <2>2 DEF Init, TypeOK
<1>2. LedgerIsTheSchema
  BY DEF Init, LedgerIsTheSchema, EmptyLedger
<1> QED
  BY <1>1, <1>2 DEF Init, IInv, LoopInv, TransactionInv

(* A failed start changes nothing but how the server is. *)
LEMMA FailStartupIInv ==
    ASSUME IInv, FailStartup
    PROVE  IInv'
<1>1. TypeOK'
  BY DEF IInv, TypeOK, FailStartup, database
<1>2. LedgerIsTheSchema'
  BY DEF IInv, LedgerIsTheSchema, FailStartup, database
<1> QED
  BY <1>1, <1>2 DEF IInv, LoopInv, TransactionInv, FailStartup, database

LEMMA CommitIInv ==
    ASSUME IInv, Commit
    PROVE  IInv'
<1> USE DEF IInv
<1>1. /\ server = "migrating" /\ cursor \in DOMAIN files /\ cursor \notin DOMAIN ledger
      /\ files \in Directories /\ cursor \in Nat /\ cursor >= 1
  BY BoundsAssumption DEF Commit, TypeOK, TransactionInv
<1>2. /\ cursor \in Versions
      /\ files[cursor] \in Contents
  BY <1>1, DirectoryType
<1>3. cursor = Len(schema) + 1
  <2>1. cursor > Len(schema)
    BY <1>1, LedgerType DEF LedgerIsTheSchema
  <2>2. ASSUME Len(schema) + 1 < cursor PROVE FALSE
    <3>1. Len(schema) + 1 \in Versions
      BY <1>2, <2>2, LedgerType, BoundsAssumption DEF Versions
    <3>2. Len(schema) + 1 \in DOMAIN ledger
      BY <1>1, <2>2, <3>1 DEF LoopInv
    <3> QED
      BY <3>2, LedgerType DEF LedgerIsTheSchema
  <2> QED
    BY <1>1, <2>1, <2>2, LedgerType
<1>4. /\ DOMAIN ledger' = DOMAIN ledger \cup {cursor}
      /\ ledger'[cursor] = files[cursor]
      /\ \A v \in DOMAIN ledger : ledger'[v] = ledger[v]
  BY <1>1 DEF Commit
<1>5. TypeOK'
  <2>1. ledger' \in [DOMAIN ledger \cup {cursor} -> Contents]
    BY <1>2, LedgerType DEF Commit
  <2>2. DOMAIN ledger \cup {cursor} \in SUBSET Versions
    BY <1>2, LedgerType
  <2>3. ledger' \in Directories
    BY <2>1, <2>2, IsDirectory
  <2>4. schema' \in Seq(Contents)
    BY <1>2, LedgerType DEF Commit
  <2>5. cursor' \in 1 .. MaxVersion + 1
    BY <1>2, BoundsAssumption DEF Commit, Versions
  <2> QED
    BY <2>3, <2>4, <2>5 DEF TypeOK, Commit
<1>6. LedgerIsTheSchema'
  <2>1. Len(schema') = Len(schema) + 1
    BY <1>2, LedgerType DEF Commit
  <2>2. DOMAIN ledger' = 1 .. Len(schema')
    BY <1>3, <1>4, <2>1, LedgerType DEF LedgerIsTheSchema
  <2>3. ASSUME NEW v \in DOMAIN ledger PROVE schema'[v] = ledger'[v]
    <3>1. v \in 1 .. Len(schema)
      BY DEF LedgerIsTheSchema
    <3>2. schema'[v] = schema[v]
      BY <1>2, <3>1, LedgerType DEF Commit
    <3> QED
      BY <1>4, <3>2 DEF LedgerIsTheSchema
  <2>4. schema'[cursor] = ledger'[cursor]
    BY <1>2, <1>3, <1>4, LedgerType DEF Commit
  <2> QED
    BY <1>4, <2>2, <2>3, <2>4 DEF LedgerIsTheSchema
<1>7. LoopInv'
  <2>1. Contiguous(files)' /\ Cardinality(DOMAIN files) \in Nat
    BY <1>1, FilesAreCounted DEF Commit, LoopInv, Contiguous
  <2>2. ~IsNewer'
    <3>1. cursor <= Cardinality(DOMAIN files)
      BY <1>1, <2>1 DEF Contiguous, Commit
    <3> QED
      BY <1>1, <1>4, <2>1, <3>1, LedgerType DEF LoopInv, IsNewer, Commit, Versions
  <2>3. ASSUME NEW v \in Versions, v < cursor'
        PROVE  v \in DOMAIN ledger' /\ ledger'[v] = files'[v]
    <3>1. v < cursor \/ v = cursor
      BY <1>1, <2>3 DEF Commit, Versions
    <3> QED
      BY <1>1, <1>4, <3>1 DEF LoopInv, Commit
  <2> QED
    BY <2>1, <2>2, <2>3 DEF LoopInv
<1>8. TransactionInv' /\ (startup = "migrated" => ledger = files)'
  BY <1>1 DEF Commit, TransactionInv, TypeOK
<1> QED
  BY <1>5, <1>6, <1>7, <1>8

(* The loop is over: nothing in the directory is missing in the ledger, and, the
   database not being newer, nothing in the ledger is missing in the directory. *)
LEMMA ServeIInv ==
    ASSUME IInv, Serve
    PROVE  IInv'
<1> USE DEF IInv
<1>1. /\ server = "migrating" /\ cursor \notin DOMAIN files
      /\ files \in Directories /\ cursor \in Nat /\ cursor >= 1
  BY BoundsAssumption DEF Serve, TypeOK
<1>2. /\ DOMAIN files = 1 .. Cardinality(DOMAIN files)
      /\ Cardinality(DOMAIN files) \in Nat
  BY <1>1, FilesAreCounted DEF LoopInv, Contiguous
<1>3. ASSUME NEW v \in DOMAIN files
      PROVE  v \in DOMAIN ledger /\ ledger[v] = files[v]
  <2>1. v \in Versions /\ v < cursor
    BY <1>1, <1>2, DirectoryType
  <2> QED
    BY <1>1, <2>1 DEF LoopInv
<1>4. DOMAIN ledger \subseteq DOMAIN files
  <2>1. ASSUME NEW v \in DOMAIN ledger PROVE v \in DOMAIN files
    <3>1. v \in Nat /\ v >= 1
      BY LedgerType, BoundsAssumption DEF Versions
    <3>2. ~(v > Cardinality(DOMAIN files))
      BY <1>1 DEF LoopInv, IsNewer
    <3> QED
      BY <1>2, <3>1, <3>2
  <2> QED
    BY <2>1
<1>5. ledger = files
  <2>1. DOMAIN ledger = DOMAIN files
    BY <1>3, <1>4
  <2>2. files = [v \in DOMAIN files |-> files[v]]
    BY <1>1, DirectoryType
  <2>3. ledger = [v \in DOMAIN ledger |-> ledger[v]]
    BY LedgerType
  <2> QED
    BY <1>3, <2>1, <2>2, <2>3
<1>6. TypeOK'
  BY DEF TypeOK, Serve, database
<1> QED
  BY <1>5, <1>6 DEF LedgerIsTheSchema, LoopInv, TransactionInv, Serve, database

LEMMA NextIInv == IInv /\ [Next]_vars => IInv'
<1> SUFFICES ASSUME IInv, [Next]_vars PROVE IInv'
  OBVIOUS
<1>1. CASE Deploy
  BY <1>1 DEF IInv, TypeOK, LedgerIsTheSchema, LoopInv, TransactionInv, Deploy,
              database, process
<1>2. CASE StartMigrating
  <2>1. TypeOK'
    BY <1>2, BoundsAssumption DEF IInv, TypeOK, StartMigrating, database
  <2>2. LoopInv'
    BY <1>2 DEF LoopInv, StartMigrating, Contiguous, IsNewer, Versions, database
  <2> QED
    BY <1>2, <2>1, <2>2 DEF IInv, TypeOK, LedgerIsTheSchema, TransactionInv,
                            StartMigrating, database
<1>3. CASE RefuseDirectory \/ RefuseEdited \/ RollBack
  BY <1>3, FailStartupIInv DEF RefuseDirectory, RefuseEdited, RollBack
<1>4. CASE SkipApplied
  <2>1. /\ cursor \in Nat /\ cursor \in Versions
        /\ files \in Directories
    BY <1>4, BoundsAssumption, DirectoryType
    DEF IInv, TypeOK, SkipApplied, AtVersion
  <2>2. TypeOK'
    BY <1>4, <2>1, BoundsAssumption
    DEF IInv, TypeOK, SkipApplied, AtVersion, Versions, database
  <2>3. LoopInv'
    <3>1. Contiguous(files)' /\ ~IsNewer'
      BY <1>4 DEF IInv, LoopInv, SkipApplied, AtVersion, Contiguous, IsNewer,
                  database
    <3>2. ASSUME NEW v \in Versions, v < cursor + 1
          PROVE  v \in DOMAIN ledger /\ ledger[v] = files[v]
      <4>1. v < cursor \/ v = cursor
        BY <2>1, <3>2 DEF Versions
      <4> QED
        BY <1>4, <4>1 DEF IInv, LoopInv, SkipApplied, AtVersion
    <3> QED
      BY <1>4, <3>1, <3>2 DEF LoopInv, SkipApplied, database
  <2> QED
    BY <1>4, <2>2, <2>3 DEF IInv, TypeOK, LedgerIsTheSchema, TransactionInv,
                            SkipApplied, AtVersion, database
<1>5. CASE ExecuteStatements
  <2>1. TypeOK'
    BY <1>5 DEF IInv, TypeOK, ExecuteStatements, AtVersion, database
  <2> QED
    BY <1>5, <2>1 DEF IInv, LedgerIsTheSchema, LoopInv, TransactionInv,
                      Contiguous, IsNewer, ExecuteStatements, AtVersion, database
<1>6. CASE Commit
  BY <1>6, CommitIInv
<1>7. CASE Serve
  BY <1>7, ServeIInv
<1>8. CASE GetReadiness
  BY <1>8 DEF IInv, TypeOK, LedgerIsTheSchema, LoopInv, TransactionInv,
              Contiguous, IsNewer, GetReadiness, database, process
<1>9. CASE StopServer
  <2>1. stops' \in 0 .. MaxStops
    BY <1>9, BoundsAssumption DEF IInv, TypeOK, StopServer
  <2>2. TypeOK'
    BY <1>9, <2>1 DEF IInv, TypeOK, StopServer, database
  <2> QED
    BY <1>9, <2>2 DEF IInv, LedgerIsTheSchema, LoopInv, TransactionInv,
                      StopServer, database
<1>10. CASE UNCHANGED vars
  BY <1>10 DEF IInv, TypeOK, LedgerIsTheSchema, LoopInv, TransactionInv,
               Contiguous, IsNewer, vars, database, process
<1> QED
  BY <1>1, <1>2, <1>3, <1>4, <1>5, <1>6, <1>7, <1>8, <1>9, <1>10
  DEF Next, Start, Migrating

--------------------------------------------------------------------------------
(* Theorems *)

\* The inductive invariant of the migration loop holds in every reachable state.
THEOREM Invariance == Spec => []IInv
  BY InitIInv, NextIInv, PTL DEF Spec

\* run_migrations keeps ledger, cursor and server of their types.
THEOREM TypeCorrect == Spec => []TypeOK
<1>1. IInv => TypeOK
  BY DEF IInv
<1> QED
  BY <1>1, Invariance, PTL

\* Whenever a process ends inside run_migrations, schema_migrations lists
\* exactly the migrations whose statements are committed, in order.
THEOREM LedgerKept == Spec => []LedgerIsTheSchema
<1>1. IInv => LedgerIsTheSchema
  BY DEF IInv
<1> QED
  BY <1>1, Invariance, PTL

\* A startup that run_migrations did not refuse serves the schema that the
\* release's own files describe, no more and no less.
THEOREM ServedSchema == Spec => []ServedAsWritten
<1>1. IInv => ServedAsWritten
  BY DEF IInv, ServedAsWritten
<1> QED
  BY <1>1, Invariance, PTL

\* No step of any release changes or removes an entry of schema_migrations.
THEOREM LedgerPersists == Spec => LedgerOnlyGrows
<1> DEFINE Kept == \A v \in DOMAIN ledger :
                       v \in DOMAIN ledger' /\ ledger'[v] = ledger[v]
<1>1. IInv /\ [Next]_vars => [Kept]_vars
  <2> SUFFICES ASSUME IInv, [Next]_vars PROVE Kept \/ UNCHANGED vars
    BY DEF Kept
  <2>1. CASE Commit
    BY <2>1 DEF IInv, TransactionInv, Commit
  <2>2. CASE UNCHANGED database
    BY <2>2 DEF database
  <2>3. Commit \/ UNCHANGED database
    BY DEF Next, Start, Migrating, Deploy, StartMigrating, RefuseDirectory,
           FailStartup, SkipApplied, RefuseEdited, ExecuteStatements, RollBack,
           Serve, GetReadiness, StopServer, vars
  <2> QED
    BY <2>1, <2>2, <2>3
<1> QED
  BY <1>1, Invariance, PTL DEF Spec, LedgerOnlyGrows
================================================================================

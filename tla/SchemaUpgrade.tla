----------------------------- MODULE SchemaUpgrade -----------------------------
(***************************************************************************)
(* The upgrade of the product's database: Database.initialize of           *)
(* unrender/product/database.py, run by every server and by the operator's *)
(* tool when they start.  A database of any earlier release, or one whose  *)
(* version was never recorded, is brought to the last version in one       *)
(* transaction, statement by statement, under two locks; the process may   *)
(* die after any statement.                                                *)
(*                                                                         *)
(* Abstractions.  Columns, tables and indexes that a version adds are one  *)
(* mark of the shape.  Of the data, what an upgrade rewrites is kept: who  *)
(* may sign in, the idempotency keys, and the owner of a reservation.      *)
(***************************************************************************)
EXTENDS Integers, Sequences

CONSTANTS
    Starters,       \* processes that initialize
    OldAccounts,    \* accounts of the database they find
    OldKeys         \* idempotency keys in it

ASSUME UpgradeAssumption == "free" \notin Starters

SCHEMA_VERSION == 16
Versions == 1 .. SCHEMA_VERSION

VARIABLES
    database,       \* the committed database
    starter,        \* each process: where it is, and its transaction
    migration_lock, \* .migration.lock: a process, or "free"
    found           \* history: who could sign in, and the keys, before the upgrade

schemaVars == <<database, starter, migration_lock, found>>

\* The tables an idempotency key may be in: the two an earlier release may have
\* left, and the one this release builds.
KeyTable == {"api_idempotency", "api_idempotency_v4", "api_idempotency_v5_new"}

\* meta is 0 while no version is recorded; shape holds the versions whose
\* columns are there.
Contents == [meta: 0 .. SCHEMA_VERSION, shape: SUBSET Versions, verified: SUBSET OldAccounts,
             active: SUBSET OldAccounts, ownerless: BOOLEAN, tables: SUBSET KeyTable,
             keys: [KeyTable -> SUBSET OldKeys]]

Nothing == [meta |-> 0, shape |-> {}, verified |-> {}, active |-> {}, ownerless |-> FALSE,
            tables |-> {}, keys |-> [t \in KeyTable |-> {}]]

\* Who may sign in, by the columns that are there.
Access(d) ==
    IF d.shape = {} THEN {} ELSE IF 10 \in d.shape THEN d.active
    ELSE IF 9 \in d.shape THEN d.verified ELSE OldAccounts

AllKeys(d) == UNION {d.keys[t] : t \in d.tables}

SchemaTypeOK ==
    /\ database \in Contents
    /\ starter \in [Starters -> [pc: {"new", "locked", "migrating", "finishing", "serving"},
                                 work: Contents, line: 1 .. 8]]
    /\ migration_lock \in Starters \cup {"free"}
    /\ found \in [access: SUBSET OldAccounts, keys: SUBSET OldKeys]

NewStarter == [pc |-> "new", work |-> Nothing, line |-> 1]

SchemaInit ==
    /\ database = Nothing
    /\ starter = [p \in Starters |-> NewStarter]
    /\ migration_lock = "free"
    /\ found = [access |-> {}, keys |-> {}]

-----------------------------------------------------------------------------
(* Databases of earlier releases                                           *)

\* Releases up to 13 can be told by their columns, so the record of the version
\* may be missing; a release before 5 may have left its keys in a table it had
\* renamed.
Legacy(v, d) ==
    /\ d.shape = 1 .. v
    /\ d.meta = v \/ (v <= 13 /\ d.meta = 0)
    /\ v < 9 => d.verified = {}
    /\ v < 10 => d.active = {}
    /\ ~d.ownerless
    /\ d.tables = IF v < 3 THEN {} ELSE
                  IF v = 4 /\ "api_idempotency_v4" \in d.tables
                  THEN {"api_idempotency_v4"} \cup (d.tables \cap {"api_idempotency"})
                  ELSE {"api_idempotency"}
    /\ \A t \in KeyTable \ d.tables : d.keys[t] = {}

EarlierRelease ==
    /\ database = Nothing /\ \A p \in Starters : starter[p].pc = "new"
    /\ \E v \in Versions, d \in
          [meta: 0 .. SCHEMA_VERSION, shape: {1 .. n : n \in Versions},
           verified: SUBSET OldAccounts, active: SUBSET OldAccounts, ownerless: {FALSE},
           tables: SUBSET (KeyTable \ {"api_idempotency_v5_new"}),
           keys: [KeyTable -> SUBSET OldKeys]] :
          /\ Legacy(v, d)
          /\ database' = d
          /\ found' = [access |-> Access(d), keys |-> AllKeys(d)]
    /\ UNCHANGED <<starter, migration_lock>>

-----------------------------------------------------------------------------
(* The statements of one migration                                         *)

\* The default of email_verified lets every account of before in; the one of
\* account_active none.
AddColumns(d, v) ==
    IF v \in d.shape THEN d
    ELSE [d EXCEPT !.shape = @ \cup {v},
                   !.verified = IF v = 9 THEN OldAccounts ELSE @,
                   !.ownerless = IF v = 8 THEN TRUE ELSE @,
                   !.tables = IF v = 3 THEN @ \cup {"api_idempotency"} ELSE @]

DropTable(d, t) == [d EXCEPT !.tables = @ \ {t}, !.keys[t] = {}]

CopyKeys(d, t) ==
    IF t \in d.tables
    THEN [d EXCEPT !.keys["api_idempotency_v5_new"] = @ \cup d.keys[t]] ELSE d

RenameNew(d) ==
    [DropTable(d, "api_idempotency_v5_new") EXCEPT
        !.tables = @ \cup {"api_idempotency"}, !.shape = @ \cup {5},
        !.keys["api_idempotency"] = d.keys["api_idempotency_v5_new"]]

\* account_active takes email_verified over, which is then reset.
MoveActivation(d) == [d EXCEPT !.active = d.verified, !.verified = {}]

\* The statements that bring a database of version v - 1 to version v.
Script(v) ==
    IF v = 5 THEN <<"drop new", "create new", "copy current", "copy v4", "drop current",
                    "drop v4", "rename new", "version">>
    ELSE IF v = 8 THEN <<"columns", "tokens", "version">>
    ELSE IF v = 10 THEN <<"columns", "activation", "version">>
    ELSE <<"columns", "version">>

Run(d, v, statement) ==
    CASE statement = "columns" -> AddColumns(d, v)
      [] statement = "version" -> [d EXCEPT !.meta = v]
      [] statement = "drop new" -> DropTable(d, "api_idempotency_v5_new")
      [] statement = "create new" -> [d EXCEPT !.tables = @ \cup {"api_idempotency_v5_new"}]
      [] statement = "copy current" -> CopyKeys(d, "api_idempotency")
      [] statement = "copy v4" -> CopyKeys(d, "api_idempotency_v4")
      [] statement = "drop current" -> DropTable(d, "api_idempotency")
      [] statement = "drop v4" -> DropTable(d, "api_idempotency_v4")
      [] statement = "rename new" -> RenameNew(d)
      [] statement = "tokens" -> [d EXCEPT !.ownerless = FALSE]
      [] statement = "activation" -> MoveActivation(d)

\* _infer_legacy_version: the newest mark among those it looks for.
InferLegacyVersion(d) ==
    CHOOSE v \in d.shape \cap 1 .. 13 : \A w \in d.shape \cap 1 .. 13 : w <= v

-----------------------------------------------------------------------------
(* A process that starts                                                   *)

StarterAt(p, pc) == starter[p].pc = pc
StarterTo(p, pc) == starter' = [starter EXCEPT ![p].pc = pc]

TakeMigrationLock(p) ==
    /\ StarterAt(p, "new") /\ migration_lock = "free"
    /\ migration_lock' = p
    /\ StarterTo(p, "locked")
    /\ UNCHANGED <<database, found>>

\* BEGIN EXCLUSIVE; a database without a version is created or dated.
BeginExclusive(p) ==
    LET d == database
        dated == IF d.meta # 0 THEN d ELSE [d EXCEPT !.meta = InferLegacyVersion(d)]
    IN  /\ StarterAt(p, "locked")
        /\ starter' = [starter EXCEPT ![p] =
              IF d.shape = {}
              THEN [pc |-> "finishing", line |-> 1,
                    work |-> [d EXCEPT !.meta = SCHEMA_VERSION, !.shape = Versions,
                                       !.tables = {"api_idempotency"}]]
              ELSE [pc |-> "migrating", work |-> dated, line |-> 1]]
        /\ UNCHANGED <<database, migration_lock, found>>

\* The next statement, on the transaction's copy.
Executed(p) ==
    LET q == starter[p]
        v == q.work.meta + 1
        work == Run(q.work, v, Script(v)[q.line])
    IN  [q EXCEPT !.work = work, !.line = IF q.line = Len(Script(v)) THEN 1 ELSE q.line + 1]

\* Mutant: executescript, which commits what was executed before.
StatementCommits(p) ==
    /\ StarterAt(p, "migrating") /\ starter[p].work.meta < SCHEMA_VERSION
    /\ starter' = [starter EXCEPT ![p] = Executed(p)]
    /\ database' = Executed(p).work
    /\ UNCHANGED <<migration_lock, found>>

Statement(p) ==
    /\ StarterAt(p, "migrating") /\ starter[p].work.meta < SCHEMA_VERSION
    /\ starter' = [starter EXCEPT ![p] = Executed(p)]
    /\ UNCHANGED <<database, migration_lock, found>>

\* _ensure_v6_shape, and SCHEMA for the tables that no migration creates.
EnsureShape(p) ==
    /\ StarterAt(p, "migrating") /\ starter[p].work.meta = SCHEMA_VERSION
    /\ starter' = [starter EXCEPT ![p].pc = "finishing",
                                  ![p].work.tables = @ \cup {"api_idempotency"}]
    /\ UNCHANGED <<database, migration_lock, found>>

CommitUpgrade(p) ==
    /\ StarterAt(p, "finishing")
    /\ database' = starter[p].work
    /\ starter' = [starter EXCEPT ![p] = [NewStarter EXCEPT !.pc = "serving"]]
    /\ migration_lock' = "free"
    /\ UNCHANGED found

\* An exception rolls back, and so does the next opening after a crash.
StartFails(p) ==
    /\ ~StarterAt(p, "new")
    /\ starter' = [starter EXCEPT ![p] = NewStarter]
    /\ migration_lock' = IF migration_lock = p THEN "free" ELSE migration_lock
    /\ UNCHANGED <<database, found>>

SchemaNext ==
    \/ EarlierRelease
    \/ \E p \in Starters :
          \/ TakeMigrationLock(p) \/ BeginExclusive(p) \/ Statement(p)
          \/ EnsureShape(p) \/ CommitUpgrade(p) \/ StartFails(p)

SchemaSpec == SchemaInit /\ [][SchemaNext]_schemaVars

-----------------------------------------------------------------------------
(* Properties                                                              *)

\* The step to version 10 moves the flag that lets an account sign in; done
\* twice it would shut every account out.
AccessSurvives == Access(database) = found.access

\* A server that runs sees all keys where it looks for them, and no reservation
\* that any caller could take over.
KeysSurvive ==
    /\ AllKeys(database) = found.keys
    /\ (\E p \in Starters : StarterAt(p, "serving")) =>
          /\ database.keys["api_idempotency"] = found.keys
          /\ database.shape = Versions /\ ~database.ownerless

\* Nobody loses or gains access to an account by an upgrade, and no idempotency
\* key is lost while its table is built anew, from any release, however often
\* the upgrade dies and is begun again.
UpgradeKeepsData == AccessSurvives /\ KeysSurvive
=============================================================================

------------------------------- MODULE Schema --------------------------------
(***************************************************************************)
(* The tables and who makes them: the alembic migrations 001 and 002,      *)
(* create_all at the start of a server and in seed.py, and the sample rows *)
(* of seed.py, reduced to their API keys.                                  *)
(*                                                                         *)
(* A run of alembic is one transaction, as is a create_all, which looks    *)
(* for the tables first and creates them then; PostgreSQL fails the second *)
(* of two that create the same table.  Alembic is run by one operator at a *)
(* time.                                                                   *)
(***************************************************************************)
EXTENDS Integers, FiniteSets

CONSTANTS
    Bootstraps,     \* slots for servers that start and runs of seed.py
    Keys,           \* API keys; secrets.token_hex never repeats one
    None

VARIABLES
    schema,             \* the tables there are
    version,            \* alembic_version: 0 while there is no row
    riders, drivers,    \* the API keys in the two tables
    issued,             \* every key ever put there
    boot                \* what each server start or seed is doing

schemaVars == <<schema, version, riders, drivers, issued, boot>>

\* "keyed": payments.idempotency_key of 001; "rekeyed": the one that the downgrade of
\* 002 puts back, with a default; "current": without it, as in the models
Schemas == {"none", "keyed", "rekeyed", "current"}
Boot == {"idle", "missing", "present", "created"}

SchemaTypeOK ==
    /\ schema \in Schemas /\ version \in 0 .. 2
    /\ riders \subseteq issued /\ drivers \subseteq issued /\ issued \subseteq Keys
    /\ boot \in [Bootstraps -> Boot]

SchemaInit ==
    /\ schema = "none" /\ version = 0
    /\ riders = {} /\ drivers = {} /\ issued = {}
    /\ boot = [b \in Bootstraps |-> "idle"]

Valid == riders \cup drivers

Booting(b, pc) == boot' = [boot EXCEPT ![b] = pc]

\* What is missing is looked for ...
CheckTables(b) ==
    /\ boot[b] = "idle"
    /\ Booting(b, IF schema = "none" THEN "missing" ELSE "present")
    /\ UNCHANGED <<schema, version, riders, drivers, issued>>

\* ... and created, or the start fails because the tables have come up meanwhile.
CreateAll(b) ==
    /\ boot[b] \in {"missing", "present"}
    /\ IF boot[b] = "missing" /\ schema # "none"
       THEN Booting(b, "idle") /\ UNCHANGED schema
       ELSE /\ Booting(b, "created")
            /\ schema' = IF boot[b] = "missing" THEN "current" ELSE schema
    /\ UNCHANGED <<version, riders, drivers, issued>>

\* seed.py inserts its rows in a second transaction, with new keys and the same phone
\* numbers every time: beside the rows of an earlier run, or without tables, it fails.
InsertSamples(b) ==
    /\ boot[b] = "created"
    /\ schema # "none" /\ Valid = {}
    /\ \E r, d \in Keys \ issued :
           /\ r # d
           /\ riders' = {r} /\ drivers' = {d} /\ issued' = issued \cup {r, d}
    /\ Booting(b, "idle")
    /\ UNCHANGED <<schema, version>>

\* A server that serves, or a seed that fails or dies between its transactions.
EndBoot(b) ==
    /\ boot[b] = "created"
    /\ Booting(b, "idle")
    /\ UNCHANGED <<schema, version, riders, drivers, issued>>

\* What the migrations from version v to version w do; None: they fail.
Upgraded(v, w) ==
    CASE v = 0 /\ schema # "none" -> None
      [] w = 1 -> "keyed"
      [] OTHER -> "current"

\* alembic upgrade: all migrations up to w, or none of them.
Upgrade(w) ==
    /\ version < w
    /\ Upgraded(version, w) # None
    /\ schema' = Upgraded(version, w) /\ version' = w
    /\ UNCHANGED <<riders, drivers, issued, boot>>

\* The column is not put back.
DowngradeNoColumn ==
    /\ version = 2
    /\ version' = 1
    /\ UNCHANGED <<schema, riders, drivers, issued, boot>>

Downgrade ==
    /\ version = 2
    /\ schema' = "rekeyed" /\ version' = 1
    /\ UNCHANGED <<riders, drivers, issued, boot>>

\* All tables are dropped.
DowngradeToBase ==
    /\ version > 0
    /\ schema' = "none" /\ version' = 0
    /\ riders' = {} /\ drivers' = {}
    /\ UNCHANGED <<issued, boot>>

SchemaNext ==
    \/ \E b \in Bootstraps :
           CheckTables(b) \/ CreateAll(b) \/ InsertSamples(b) \/ EndBoot(b)
    \/ \E w \in 1 .. 2 : Upgrade(w)
    \/ Downgrade \/ DowngradeToBase

-----------------------------------------------------------------------------
\* What alembic has written down and what there is agree, whoever made the tables:
\* tables without a version are those of the models, and never get one, as the first
\* migration fails on them; a version stands for its columns, and rows for tables.
VersionTellsSchema ==
    /\ version = 0 => schema \in {"none", "current"}
    /\ version = 1 => schema \in {"keyed", "rekeyed"}
    /\ version = 2 => schema = "current"
    /\ schema = "none" => Valid = {}
=============================================================================

------------------------------- MODULE Startup -------------------------------
(***************************************************************************)
(* How the containers come up (docker/entrypoint.sh, app/migrate.py): all  *)
(* wait for PostgreSQL, API containers then bring the schema up to date,   *)
(* workers wait for the table of the queue.  A container that fails exits. *)
(* docker-compose.yml has no restart policy: it stays so, unless somebody  *)
(* happens to start it again.                                              *)
(* What becomes of a container that runs is the matter of RequestPipeline. *)
(***************************************************************************)
EXTENDS Naturals, FiniteSets

CONSTANTS
  Apis, Workers,  \* containers
  DbTries,        \* attempts to connect to PostgreSQL (60 in the script)
  QueueTries,     \* attempts to find the queue table (120 in the script)
  MaxOutages,     \* bound: outages of PostgreSQL
  MaxKills        \* bound: containers killed

Containers == Apis \cup Workers

ASSUME StartupAssumption ==
  /\ Apis \cap Workers = {}
  /\ DbTries \in Nat \ {0} /\ QueueTries \in Nat \ {0}
  /\ MaxOutages \in Nat /\ MaxKills \in Nat

(* migrations/001_init.sql and 002_pgqueuer.sql, in the order of their names *)
Files == 1 .. 2
Queue == 2

VARIABLES
  db,         \* is PostgreSQL up?
  hasLedger,  \* does the table schema_migrations exist?
  ledger,     \* its rows: the files recorded as applied
  schema,     \* the files whose types, tables and triggers exist
  pc, tries,  \* where a container is, and attempts it has made there
  applied,    \* what an API container has read from the ledger
  file,       \* the file it is at
  outages, kills

tables == <<hasLedger, ledger, schema>>
vars == <<db, tables, pc, tries, applied, file, outages, kills>>

Connected == {"read", "apply", "record"}

TypeOK ==
  /\ db \in {"up", "down"} /\ hasLedger \in BOOLEAN
  /\ ledger \subseteq Files /\ schema \subseteq Files
  /\ \A a \in Apis : pc[a] \in {"waitDb", "connect", "serving", "exited"} \cup Connected
  /\ \A w \in Workers : pc[w] \in {"waitDb", "waitQueue", "running", "exited"}
  /\ \A c \in Containers : tries[c] \in 0 .. IF pc[c] = "waitQueue" THEN QueueTries ELSE DbTries
  /\ applied \in [Apis -> SUBSET Files]
  /\ file \in [Apis -> 1 .. Cardinality(Files) + 1]
  /\ outages \in 0 .. MaxOutages /\ kills \in 0 .. MaxKills

(* A fresh database, one of an earlier release, or one up to date. *)
Init ==
  /\ db \in {"up", "down"}
  /\ schema \in {{}, {1}, Files} /\ ledger = schema /\ hasLedger = (schema # {})
  /\ pc = [c \in Containers |-> "waitDb"] /\ tries = [c \in Containers |-> 0]
  /\ applied = [a \in Apis |-> {}] /\ file = [a \in Apis |-> 1]
  /\ outages = 0 /\ kills = 0

-----------------------------------------------------------------------------
Goto(c, l) == pc' = [pc EXCEPT ![c] = l] /\ tries' = [tries EXCEPT ![c] = 0]

(* One more attempt of a loop that gives up after max of them. *)
Retry(c, max) ==
  IF tries[c] + 1 < max
  THEN tries' = [tries EXCEPT ![c] = @ + 1] /\ UNCHANGED pc
  ELSE Goto(c, "exited")

WaitDb(c) ==
  /\ pc[c] = "waitDb"
  /\ IF db = "up" THEN Goto(c, IF c \in Apis THEN "connect" ELSE "waitQueue")
                  ELSE Retry(c, DbTries)
  /\ UNCHANGED <<db, tables, applied, file, outages, kills>>

(* Mutant of WaitQueue: the worker waits for the table of migrations. *)
WaitLedger(w) ==
  /\ pc[w] = "waitQueue"
  /\ IF db = "up" /\ hasLedger THEN Goto(w, "running") ELSE Retry(w, QueueTries)
  /\ UNCHANGED <<db, tables, applied, file, outages, kills>>

(* to_regclass('public.pgqueuer') *)
WaitQueue(w) ==
  /\ pc[w] = "waitQueue"
  /\ IF db = "up" /\ Queue \in schema THEN Goto(w, "running") ELSE Retry(w, QueueTries)
  /\ UNCHANGED <<db, tables, applied, file, outages, kills>>

-----------------------------------------------------------------------------
(* app.migrate *)

CreateLedger(a) ==
  /\ pc[a] = "connect"
  /\ IF db = "up" THEN hasLedger' = TRUE /\ Goto(a, "read")
                  ELSE Goto(a, "exited") /\ UNCHANGED hasLedger
  /\ UNCHANGED <<db, ledger, schema, applied, file, outages, kills>>

(* Of two CREATE TABLE IF NOT EXISTS at the same moment one may find the    *)
(* name taken after it has looked, and fail.                                *)
CreateLedgerTwice(a, b) ==
  /\ a # b /\ pc[a] = "connect" /\ pc[b] = "connect"
  /\ db = "up" /\ ~hasLedger
  /\ hasLedger' = TRUE
  /\ pc' = [pc EXCEPT ![a] = "read", ![b] = "exited"]
  /\ tries' = [tries EXCEPT ![a] = 0, ![b] = 0]
  /\ UNCHANGED <<db, ledger, schema, applied, file, outages, kills>>

(* Mutant of ReadApplied: the ledger is not read. *)
ReadNothing(a) ==
  /\ pc[a] = "read"
  /\ applied' = [applied EXCEPT ![a] = {}]
  /\ file' = [file EXCEPT ![a] = 1]
  /\ Goto(a, "apply")
  /\ UNCHANGED <<db, tables, outages, kills>>

ReadApplied(a) ==
  /\ pc[a] = "read"
  /\ applied' = [applied EXCEPT ![a] = ledger]
  /\ file' = [file EXCEPT ![a] = 1]
  /\ Goto(a, "apply")
  /\ UNCHANGED <<db, tables, outages, kills>>

SkipFile(a) ==
  /\ pc[a] = "apply" /\ file[a] \in applied[a]
  /\ file' = [file EXCEPT ![a] = @ + 1]
  /\ UNCHANGED <<db, tables, pc, tries, applied, outages, kills>>

(* Does another container's open transaction hold the names of file f? *)
Creating(a, f) == \E b \in Apis \ {a} : pc[b] = "record" /\ file[b] = f

(* Mutant of RunSql: no transaction around the file and its record. *)
RunSqlCommitted(a) ==
  /\ pc[a] = "apply" /\ file[a] \in Files \ applied[a]
  /\ IF file[a] \in schema
     THEN Goto(a, "exited") /\ UNCHANGED schema
     ELSE Goto(a, "record") /\ schema' = schema \cup {file[a]}
  /\ UNCHANGED <<db, hasLedger, ledger, applied, file, outages, kills>>

(* In a transaction.  CREATE TYPE waits for a transaction that is creating  *)
(* the same type, and fails when it is there.                               *)
RunSql(a) ==
  /\ pc[a] = "apply" /\ file[a] \in Files \ applied[a]
  /\ ~Creating(a, file[a])
  /\ Goto(a, IF file[a] \in schema THEN "exited" ELSE "record")
  /\ UNCHANGED <<db, tables, applied, file, outages, kills>>

(* Mutant of RecordFile: it is recorded under the name of the next file. *)
RecordNext(a) ==
  /\ pc[a] = "record"
  /\ ledger' = ledger \cup {file[a], file[a] + 1}
  /\ schema' = schema \cup {file[a]}
  /\ file' = [file EXCEPT ![a] = @ + 1]
  /\ Goto(a, "apply")
  /\ UNCHANGED <<db, hasLedger, applied, outages, kills>>

(* The INSERT into the ledger, and COMMIT. *)
RecordFile(a) ==
  /\ pc[a] = "record"
  /\ ledger' = ledger \cup {file[a]}
  /\ schema' = schema \cup {file[a]}
  /\ file' = [file EXCEPT ![a] = @ + 1]
  /\ Goto(a, "apply")
  /\ UNCHANGED <<db, hasLedger, applied, outages, kills>>

(* Only a migration that ended well reaches exec uvicorn (set -e). *)
Serve(a) ==
  /\ pc[a] = "apply" /\ file[a] \notin Files
  /\ Goto(a, "serving")
  /\ UNCHANGED <<db, tables, applied, file, outages, kills>>

-----------------------------------------------------------------------------
(* The connection of a migration breaks with the server, its transaction is *)
(* rolled back, and the script ends.                                        *)
DbDown ==
  /\ db = "up" /\ outages < MaxOutages
  /\ db' = "down" /\ outages' = outages + 1
  /\ pc' = [c \in Containers |-> IF pc[c] \in Connected THEN "exited" ELSE pc[c]]
  /\ UNCHANGED <<tables, tries, applied, file, kills>>

DbUp == db = "down" /\ db' = "up" /\ UNCHANGED <<tables, pc, tries, applied, file, outages, kills>>

Kill(c) ==
  /\ pc[c] # "exited" /\ kills < MaxKills
  /\ Goto(c, "exited") /\ kills' = kills + 1
  /\ UNCHANGED <<db, tables, applied, file, outages>>

(* Somebody starts the container again, or does not. *)
Restart(c) ==
  /\ pc[c] = "exited" /\ Goto(c, "waitDb")
  /\ UNCHANGED <<db, tables, applied, file, outages, kills>>

Migrate(a) ==
  \/ CreateLedger(a) \/ ReadApplied(a) \/ SkipFile(a) \/ RunSql(a) \/ RecordFile(a) \/ Serve(a)
  \/ \E b \in Apis : CreateLedgerTwice(a, b)

Step(c) == WaitDb(c) \/ (c \in Workers /\ WaitQueue(c)) \/ (c \in Apis /\ Migrate(c))

Next ==
  \/ \E c \in Containers : Step(c) \/ Kill(c) \/ Restart(c)
  \/ DbDown \/ DbUp

Spec == Init /\ [][Next]_vars

(* A container that runs goes on: sleeps and connection attempts end.       *)
(* Nothing makes the server come back or starts an exited container again.  *)
FairSpec == Spec /\ \A c \in Containers : WF_vars(Step(c))

-----------------------------------------------------------------------------
Ready(c) == pc[c] \in {"serving", "running"}

(* Nobody serves requests or takes jobs on a schema that is not complete:   *)
(* not a worker that sees the queue table while a migration is under way,   *)
(* nor an API whose migration was cut short (entrypoint.sh:22-26, 28-46).   *)
ReadyMeansMigrated == \A c \in Containers : Ready(c) => schema = Files

(* schema_migrations names exactly the files that are applied, so a start   *)
(* after a crash neither repeats a file nor leaves one out.                 *)
LedgerTellsSchema == ledger = schema /\ (ledger # {} => hasLedger)

(* Has something gone wrong since k containers had been killed?             *)
Disturbed(k) == kills # k \/ db = "down"

(* However many API containers start at once, and whichever of them fail at *)
(* CREATE TABLE or CREATE TYPE and exit for good, some API comes to serve,  *)
(* unless a container is killed or the server goes down meanwhile.          *)
RaceHasWinner ==
  \A k \in 0 .. MaxKills :
    (kills = k /\ \E a \in Apis : pc[a] = "waitDb")
      ~> (Disturbed(k) \/ \E a \in Apis : pc[a] = "serving")

(* And whatever crashes and races there were before, a container that is    *)
(* started on the complete schema is ready in the end: no file is applied   *)
(* twice, and no worker misses the table it waits for.                      *)
LaterStartsSucceed ==
  \A k \in 0 .. MaxKills, c \in Containers :
    (kills = k /\ schema = Files /\ pc[c] = "waitDb") ~> (Disturbed(k) \/ Ready(c))

(* What docker/entrypoint.sh achieves with nobody to start containers again.*)
StartsSucceed == RaceHasWinner /\ LaterStartsSucceed
=============================================================================

--------------------------- MODULE StartupProofs ---------------------------
(***************************************************************************)
(* For any containers, any number of attempts, outages and kills: nobody   *)
(* is ready on a schema that is not complete, and the ledger of migrations *)
(* tells the truth.                                                        *)
(***************************************************************************)
EXTENDS Startup, FiniteSetTheorems, TLAPS

Places ==
  {"waitDb", "waitQueue", "connect", "serving", "running", "exited"} \cup Connected

Total == pc \in [Containers -> Places] /\ tries \in [Containers -> Nat]

(* A migration knows of no file that is not recorded, has left nothing out  *)
(* before the file it is at, and runs only once there is a ledger.          *)
Prefix ==
  \A a \in Apis :
    /\ pc[a] \in Connected => hasLedger
    /\ pc[a] \in {"apply", "record"} =>
         /\ applied[a] \subseteq ledger
         /\ \A f \in Files : f < file[a] => f \in schema
    /\ pc[a] = "record" => file[a] \in Files

(* Files are applied in their order.                                        *)
InOrder == \A f, g \in Files : g \in schema /\ f < g => f \in schema

IInv == Total /\ TypeOK /\ LedgerTellsSchema /\ Prefix /\ InOrder /\ ReadyMeansMigrated

-----------------------------------------------------------------------------
LEMMA LastFile == Cardinality(Files) + 1 = 3
<1>1. Cardinality(1 .. 2) = IF 1 > 2 THEN 0 ELSE 2 - 1 + 1
  BY 1 \in Int, 2 \in Int, FS_Interval, Zenon
<1> QED BY <1>1 DEF Files

LEMMA InitInv == Init => IInv
<1> SUFFICES ASSUME Init PROVE IInv
  OBVIOUS
<1>1. Total
  BY DEF Init, Total, Places
<1>2. TypeOK
  <2>1. Files = {1, 2}
    BY DEF Files
  <2>2. ledger \subseteq Files /\ schema \subseteq Files
    BY <2>1 DEF Init
  <2>3. hasLedger \in BOOLEAN
    BY DEF Init
  <2>4. file \in [Apis -> 1 .. Cardinality(Files) + 1] /\ applied \in [Apis -> SUBSET Files]
    BY LastFile DEF Init
  <2> QED BY <2>2, <2>3, <2>4, StartupAssumption DEF Init, TypeOK, Containers
<1>3. Prefix /\ ReadyMeansMigrated
  BY DEF Init, Prefix, ReadyMeansMigrated, Ready, Containers, Connected
<1>4. InOrder
  BY DEF Init, InOrder, Files
<1>5. LedgerTellsSchema
  BY Zenon DEF Init, LedgerTellsSchema
<1> QED BY <1>1, <1>2, <1>3, <1>4, <1>5 DEF IInv

(* Where a container is after Goto.                                         *)
LEMMA GotoType ==
  ASSUME Total, NEW c \in Containers, NEW l \in Places, Goto(c, l)
  PROVE  /\ Total'
         /\ pc'[c] = l /\ tries'[c] = 0
         /\ \A d \in Containers : d # c => pc'[d] = pc[d] /\ tries'[d] = tries[d]
BY DEF Total, Goto

(* A container goes where it makes no claim on the schema.                  *)
Modest == {"waitDb", "waitQueue", "connect", "exited"}

LEMMA ModestStep ==
  ASSUME IInv, NEW c \in Containers, NEW l \in Modest, Goto(c, l),
         c \in Apis => l # "waitQueue", c \in Workers => l # "connect",
         UNCHANGED <<ledger, schema, applied, file>>, hasLedger => hasLedger', hasLedger' \in BOOLEAN,
         db' \in {"up", "down"}, outages' \in 0 .. MaxOutages, kills' \in 0 .. MaxKills
  PROVE  IInv'
<1>1. /\ Total' /\ pc'[c] = l /\ tries'[c] = 0
      /\ \A d \in Containers : d # c => pc'[d] = pc[d] /\ tries'[d] = tries[d]
  BY GotoType DEF IInv, Modest, Places
<1>2. TypeOK'
  BY <1>1, StartupAssumption DEF IInv, TypeOK, Containers, Modest
<1>3. Prefix' /\ LedgerTellsSchema' /\ InOrder' /\ ReadyMeansMigrated'
  BY <1>1 DEF IInv, Prefix, LedgerTellsSchema, InOrder, ReadyMeansMigrated, Ready, Connected,
              Modest, Containers
<1> QED BY <1>1, <1>2, <1>3 DEF IInv

LEMMA RetryStep ==
  ASSUME IInv, NEW c \in Containers, NEW max \in Nat \ {0}, Retry(c, max),
         \/ pc[c] = "waitDb" /\ max = DbTries
         \/ pc[c] = "waitQueue" /\ max = QueueTries,
         UNCHANGED <<db, tables, applied, file, outages, kills>>
  PROVE  IInv'
<1>1. CASE tries[c] + 1 < max /\ tries' = [tries EXCEPT ![c] = @ + 1] /\ UNCHANGED pc
  <2>1. Total'
    BY <1>1 DEF IInv, Total
  <2>2. TypeOK'
    BY <1>1, StartupAssumption DEF IInv, Total, TypeOK, tables, Containers
  <2>3. Prefix' /\ LedgerTellsSchema' /\ InOrder' /\ ReadyMeansMigrated'
    BY <1>1 DEF IInv, Prefix, LedgerTellsSchema, InOrder, ReadyMeansMigrated, Ready, tables
  <2> QED BY <2>1, <2>2, <2>3 DEF IInv
<1>2. CASE Goto(c, "exited")
  BY <1>2, ModestStep DEF IInv, TypeOK, LedgerTellsSchema, Modest, tables
<1> QED BY <1>1, <1>2 DEF Retry

LEMMA WaitDbStep ==
  ASSUME IInv, NEW c \in Containers, WaitDb(c)
  PROVE  IInv'
<1>1. pc[c] = "waitDb" /\ UNCHANGED <<db, tables, applied, file, outages, kills>>
  BY DEF WaitDb
<1>2. CASE db = "up"
  <2>1. Goto(c, IF c \in Apis THEN "connect" ELSE "waitQueue")
    BY <1>2 DEF WaitDb
  <2>2. CASE c \in Apis
    BY <1>1, <2>1, <2>2, StartupAssumption, ModestStep
       DEF IInv, TypeOK, LedgerTellsSchema, Modest, tables
  <2>3. CASE c \notin Apis
    BY <1>1, <2>1, <2>3, ModestStep DEF IInv, TypeOK, LedgerTellsSchema, Modest, tables
  <2> QED BY <2>2, <2>3
<1>3. CASE db # "up"
  <2>1. Retry(c, DbTries)
    BY <1>3 DEF WaitDb
  <2> QED BY <1>1, <2>1, StartupAssumption, RetryStep
<1> QED BY <1>2, <1>3

(* The table of the queue comes last, so a worker may go by it.             *)
LEMMA WaitQueueStep ==
  ASSUME IInv, NEW w \in Workers, WaitQueue(w)
  PROVE  IInv'
<1>1. /\ pc[w] = "waitQueue" /\ UNCHANGED <<db, tables, applied, file, outages, kills>>
      /\ w \in Containers /\ w \notin Apis
  BY StartupAssumption DEF WaitQueue, Containers
<1>2. CASE db = "up" /\ Queue \in schema
  <2>1. Goto(w, "running") /\ "running" \in Places
    BY <1>2 DEF WaitQueue, Places
  <2>2. /\ Total' /\ pc'[w] = "running" /\ tries'[w] = 0
        /\ \A d \in Containers : d # w => pc'[d] = pc[d] /\ tries'[d] = tries[d]
    BY <1>1, <2>1, GotoType DEF IInv
  <2>3. schema = Files
    <3>1. schema \subseteq Files /\ InOrder /\ 2 \in schema
      BY <1>2 DEF IInv, TypeOK, Queue
    <3>2. Files = {1, 2} /\ 1 < 2
      BY DEF Files
    <3>3. 1 \in schema
      BY <3>1, <3>2, Zenon DEF InOrder
    <3> QED BY <3>1, <3>2, <3>3
  <2>4. TypeOK'
    BY <1>1, <2>2, StartupAssumption DEF IInv, TypeOK, Containers, tables
  <2>5. Prefix' /\ LedgerTellsSchema' /\ InOrder' /\ ReadyMeansMigrated'
    BY <1>1, <2>2, <2>3 DEF IInv, Prefix, LedgerTellsSchema, InOrder, ReadyMeansMigrated,
                            Containers, tables
  <2> QED BY <2>2, <2>4, <2>5 DEF IInv
<1>3. CASE ~(db = "up" /\ Queue \in schema)
  <2>1. Retry(w, QueueTries)
    BY <1>3 DEF WaitQueue
  <2> QED BY <1>1, <2>1, StartupAssumption, RetryStep
<1> QED BY <1>2, <1>3

(* A step of a migration that leaves the tables as they are, and its file   *)
(* within what is recorded.                                                 *)
LEMMA MigrationStep ==
  ASSUME IInv, NEW a \in Apis, NEW l \in {"apply", "record", "serving"}, Goto(a, l),
         UNCHANGED <<db, tables, outages, kills>>, pc[a] \in Connected,
         applied' \in [Apis -> SUBSET Files], file' \in [Apis -> 1 .. Cardinality(Files) + 1],
         \A b \in Apis : b # a => applied'[b] = applied[b] /\ file'[b] = file[b],
         applied'[a] \subseteq ledger,
         \A f \in Files : f < file'[a] => f \in schema,
         l = "record" => file'[a] \in Files,
         l = "serving" => schema = Files
  PROVE  IInv'
<1>1. /\ a \in Containers /\ l \in Places /\ a \notin Workers
  BY StartupAssumption DEF Containers, Places, Connected
<1>2. /\ Total' /\ pc'[a] = l /\ tries'[a] = 0
      /\ \A d \in Containers : d # a => pc'[d] = pc[d] /\ tries'[d] = tries[d]
  BY <1>1, GotoType DEF IInv
<1>3. TypeOK'
  BY <1>1, <1>2, StartupAssumption DEF IInv, TypeOK, Containers, Connected, tables
<1>4. Prefix'
  BY <1>1, <1>2 DEF IInv, Prefix, Connected, Containers, tables
<1>5. LedgerTellsSchema' /\ InOrder' /\ ReadyMeansMigrated'
  BY <1>1, <1>2 DEF IInv, LedgerTellsSchema, InOrder, ReadyMeansMigrated, Ready, tables
<1> QED BY <1>2, <1>3, <1>4, <1>5 DEF IInv

LEMMA NextInv == IInv /\ [Next]_vars => IInv'
<1> SUFFICES ASSUME IInv, [Next]_vars PROVE IInv'
  OBVIOUS
<1>0. /\ db \in {"up", "down"} /\ hasLedger \in BOOLEAN /\ outages \in 0 .. MaxOutages
      /\ kills \in 0 .. MaxKills /\ ledger = schema /\ ledger \subseteq Files
      /\ applied \in [Apis -> SUBSET Files] /\ file \in [Apis -> 1 .. 3]
      /\ Cardinality(Files) + 1 = 3 /\ Files = 1 .. 2
  BY LastFile DEF IInv, TypeOK, LedgerTellsSchema, Files
<1>1. ASSUME NEW c \in Containers, WaitDb(c) PROVE IInv'
  BY <1>1, WaitDbStep
<1>2. ASSUME NEW w \in Workers, WaitQueue(w) PROVE IInv'
  BY <1>2, WaitQueueStep
<1>3. ASSUME NEW a \in Apis, CreateLedger(a) PROVE IInv'
  <2>1. CASE db = "up"
    <3>1. /\ Goto(a, "read") /\ hasLedger' /\ pc[a] = "connect"
          /\ UNCHANGED <<db, ledger, schema, applied, file, outages, kills>>
      BY <1>3, <2>1 DEF CreateLedger
    <3>2. a \in Containers /\ a \notin Workers /\ "read" \in Places
      BY StartupAssumption DEF Containers, Places, Connected
    <3>3. /\ Total' /\ pc'[a] = "read" /\ tries'[a] = 0
          /\ \A d \in Containers : d # a => pc'[d] = pc[d] /\ tries'[d] = tries[d]
      BY <3>1, <3>2, GotoType DEF IInv
    <3>4. TypeOK'
      BY <1>3, <3>1, <3>2, <3>3, StartupAssumption
         DEF CreateLedger, IInv, TypeOK, Containers, Connected
    <3>5. Prefix'
      BY <3>1, <3>2, <3>3 DEF IInv, Prefix, Containers, Connected
    <3>6. LedgerTellsSchema' /\ InOrder' /\ ReadyMeansMigrated'
      BY <3>1, <3>2, <3>3 DEF IInv, LedgerTellsSchema, InOrder, ReadyMeansMigrated, Ready
    <3> QED BY <3>3, <3>4, <3>5, <3>6 DEF IInv
  <2>2. CASE db # "up"
    BY <1>0, <1>3, <2>2, ModestStep DEF CreateLedger, Containers, Modest
  <2> QED BY <2>1, <2>2
<1>4. ASSUME NEW a \in Apis, NEW b \in Apis, CreateLedgerTwice(a, b) PROVE IInv'
  <2>1. /\ hasLedger' = TRUE /\ a # b
        /\ UNCHANGED <<db, ledger, schema, applied, file, outages, kills>>
        /\ a \in Containers /\ b \in Containers /\ a \notin Workers /\ b \notin Workers
    BY <1>4, StartupAssumption DEF CreateLedgerTwice, Containers
  <2>2. /\ Total' /\ pc'[a] = "read" /\ pc'[b] = "exited" /\ tries'[a] = 0 /\ tries'[b] = 0
        /\ \A d \in Containers \ {a, b} : pc'[d] = pc[d] /\ tries'[d] = tries[d]
    BY <1>4, <2>1 DEF CreateLedgerTwice, IInv, Total, Places, Connected
  <2>3. TypeOK'
    BY <2>1, <2>2, StartupAssumption DEF IInv, TypeOK, Containers, Connected
  <2>4. Prefix'
    BY <2>1, <2>2 DEF IInv, Prefix, Containers, Connected
  <2>5. LedgerTellsSchema' /\ InOrder' /\ ReadyMeansMigrated'
    BY <2>1, <2>2 DEF IInv, LedgerTellsSchema, InOrder, ReadyMeansMigrated, Ready
  <2> QED BY <2>2, <2>3, <2>4, <2>5 DEF IInv
<1>5. ASSUME NEW a \in Apis, ReadApplied(a) PROVE IInv'
  <2>1. /\ applied' \in [Apis -> SUBSET Files] /\ file' \in [Apis -> 1 .. 3]
        /\ \A b \in Apis : b # a => applied'[b] = applied[b] /\ file'[b] = file[b]
        /\ applied'[a] = ledger /\ file'[a] = 1
    BY <1>0, <1>5 DEF ReadApplied
  <2>2. \A f \in Files : ~(f < file'[a])
    BY <1>0, <2>1
  <2> QED BY <1>0, <1>5, <2>1, <2>2, MigrationStep DEF ReadApplied, Connected
<1>6. ASSUME NEW a \in Apis, SkipFile(a) PROVE IInv'
  <2>1. /\ pc[a] = "apply" /\ file[a] \in applied[a] /\ applied[a] \subseteq ledger
        /\ \A f \in Files : f < file[a] => f \in schema
        /\ file' = [file EXCEPT ![a] = @ + 1]
        /\ UNCHANGED <<db, tables, pc, tries, applied, outages, kills>>
    BY <1>6 DEF SkipFile, IInv, Prefix
  <2>2. file[a] \in Files /\ file[a] \in schema
    BY <1>0, <2>1
  <2>3. /\ file' \in [Apis -> 1 .. 3] /\ file'[a] = file[a] + 1
        /\ \A b \in Apis : b # a => file'[b] = file[b]
    BY <1>0, <2>1, <2>2
  <2>4. \A f \in Files : f < file'[a] => f \in schema
    BY <1>0, <2>1, <2>2, <2>3
  <2>5. Prefix'
    BY <2>1, <2>3, <2>4 DEF IInv, Prefix, Connected, tables
  <2>6. TypeOK'
    BY <1>0, <2>1, <2>3 DEF IInv, TypeOK, tables
  <2> QED BY <2>1, <2>5, <2>6
          DEF IInv, Total, LedgerTellsSchema, InOrder, ReadyMeansMigrated, Ready, tables
<1>7. ASSUME NEW a \in Apis, RunSql(a) PROVE IInv'
  <2>1. /\ pc[a] = "apply" /\ applied[a] \subseteq ledger /\ file[a] \in Files
        /\ \A f \in Files : f < file[a] => f \in schema
        /\ UNCHANGED <<db, tables, applied, file, outages, kills>>
    BY <1>7 DEF RunSql, IInv, Prefix
  <2>2. CASE Goto(a, "record")
    BY <1>0, <2>1, <2>2, MigrationStep DEF Connected
  <2>3. CASE Goto(a, "exited")
    BY <1>0, <2>1, <2>3, ModestStep DEF Containers, Modest, tables
  <2> QED BY <1>7, <2>2, <2>3 DEF RunSql
<1>8. ASSUME NEW a \in Apis, RecordFile(a) PROVE IInv'
  <2>1. /\ pc[a] = "record" /\ applied[a] \subseteq ledger /\ file[a] \in Files /\ hasLedger
        /\ \A f \in Files : f < file[a] => f \in schema
        /\ ledger' = ledger \cup {file[a]} /\ schema' = schema \cup {file[a]}
        /\ file' = [file EXCEPT ![a] = @ + 1] /\ Goto(a, "apply")
        /\ UNCHANGED <<db, hasLedger, applied, outages, kills>>
    BY <1>8 DEF RecordFile, IInv, Prefix, Connected
  <2>2. a \in Containers /\ a \notin Workers /\ "apply" \in Places
    BY StartupAssumption DEF Containers, Places, Connected
  <2>3. /\ Total' /\ pc'[a] = "apply" /\ tries'[a] = 0
        /\ \A d \in Containers : d # a => pc'[d] = pc[d] /\ tries'[d] = tries[d]
    BY <2>1, <2>2, GotoType DEF IInv
  <2>4. /\ file' \in [Apis -> 1 .. 3] /\ file'[a] = file[a] + 1
        /\ \A b \in Apis : b # a => file'[b] = file[b]
    BY <1>0, <2>1
  <2>5. \A f \in Files : f < file'[a] => f \in schema'
    BY <1>0, <2>1, <2>4
  <2>6. schema' \subseteq Files /\ ledger' = schema' /\ schema \subseteq schema'
    BY <1>0, <2>1
  <2>7. TypeOK'
    BY <1>0, <2>1, <2>2, <2>3, <2>4, <2>6, StartupAssumption
       DEF IInv, TypeOK, Containers, Connected
  <2>8. Prefix'
    BY <1>0, <2>1, <2>2, <2>3, <2>4, <2>5, <2>6 DEF IInv, Prefix, Containers, Connected
  <2>9. InOrder'
    BY <1>0, <2>1, <2>6 DEF IInv, InOrder
  <2>10. LedgerTellsSchema' /\ ReadyMeansMigrated'
    BY <2>1, <2>3, <2>6 DEF IInv, LedgerTellsSchema, ReadyMeansMigrated, Ready
  <2> QED BY <2>3, <2>7, <2>8, <2>9, <2>10 DEF IInv
<1>9. ASSUME NEW a \in Apis, Serve(a) PROVE IInv'
  <2>1. /\ pc[a] = "apply" /\ applied[a] \subseteq ledger /\ file[a] \notin Files
        /\ \A f \in Files : f < file[a] => f \in schema
        /\ UNCHANGED <<db, tables, applied, file, outages, kills>> /\ Goto(a, "serving")
    BY <1>9 DEF Serve, IInv, Prefix
  <2>2. schema = Files
    <3>1. file[a] = 3
      BY <1>0, <2>1
    <3>2. \A f \in Files : f < 3
      BY <1>0
    <3> QED BY <1>0, <2>1, <3>1, <3>2
  <2> QED BY <1>0, <2>1, <2>2, MigrationStep DEF Connected
<1>10. CASE DbDown
  <2>1. /\ UNCHANGED <<tables, tries, applied, file, kills>> /\ db' = "down"
        /\ outages' \in 0 .. MaxOutages
    BY <1>0, <1>10, StartupAssumption DEF DbDown
  <2>2. /\ pc' \in [Containers -> Places]
        /\ \A c \in Containers :
             pc'[c] = IF pc[c] \in Connected THEN "exited" ELSE pc[c]
    BY <1>10 DEF DbDown, IInv, Total, Places
  <2>3. TypeOK'
    BY <2>1, <2>2 DEF IInv, TypeOK, Containers, Connected, tables
  <2>4. Prefix'
    BY <2>1, <2>2 DEF IInv, Prefix, Containers, Connected, tables
  <2>5. Total' /\ LedgerTellsSchema' /\ InOrder' /\ ReadyMeansMigrated'
    BY <2>1, <2>2 DEF IInv, Total, LedgerTellsSchema, InOrder, ReadyMeansMigrated, Ready, tables
  <2> QED BY <2>3, <2>4, <2>5 DEF IInv
<1>11. CASE DbUp
  BY <1>11 DEF DbUp, IInv, Total, TypeOK, LedgerTellsSchema, Prefix, InOrder,
               ReadyMeansMigrated, Ready, tables
<1>12. ASSUME NEW c \in Containers, Kill(c) PROVE IInv'
  <2>1. kills' \in 0 .. MaxKills
    BY <1>0, <1>12, StartupAssumption DEF Kill
  <2> QED BY <1>0, <1>12, <2>1, ModestStep DEF Kill, Modest, tables
<1>13. ASSUME NEW c \in Containers, Restart(c) PROVE IInv'
  BY <1>0, <1>13, ModestStep DEF Restart, Modest, tables
<1>14. CASE UNCHANGED vars
  BY <1>14 DEF vars, IInv, Total, TypeOK, LedgerTellsSchema, Prefix, InOrder,
               ReadyMeansMigrated, Ready, tables
<1> QED
  BY <1>1, <1>2, <1>3, <1>4, <1>5, <1>6, <1>7, <1>8, <1>9, <1>10, <1>11, <1>12, <1>13, <1>14
     DEF Next, Step, Migrate

LEMMA Invariance == Spec => []IInv
BY InitInv, NextInv, PTL DEF Spec

(* Every variable of a start keeps its type, for any number of containers.  *)
THEOREM TypeCorrect == Spec => []TypeOK
<1>1. IInv => TypeOK
  BY DEF IInv
<1> QED BY <1>1, Invariance, PTL

(* However many API containers race and however often they are killed, no   *)
(* container serves or takes jobs before the schema is complete.            *)
THEOREM ReadyAfterMigrations == Spec => []ReadyMeansMigrated
<1>1. IInv => ReadyMeansMigrated
  BY DEF IInv
<1> QED BY <1>1, Invariance, PTL

(* The ledger never names a file that is not applied, nor leaves one out.   *)
THEOREM LedgerIsTrue == Spec => []LedgerTellsSchema
<1>1. IInv => LedgerTellsSchema
  BY DEF IInv
<1> QED BY <1>1, Invariance, PTL
=============================================================================

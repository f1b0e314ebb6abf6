------------------------ MODULE SchemaAnswersProofs ------------------------
(***************************************************************************)
(* Theorems about what SchemaService answers: that saved settings stay,    *)
(* what is served after a save, what a reload answers, and what a view     *)
(* says of its columns and of unknown tables.                              *)
(***************************************************************************)
EXTENDS SchemaServiceProofs

-----------------------------------------------------------------------------
(* What the steps of requests have in common.                              *)

\* A reader goes on or answers, and changes nothing that is shared.
LEMMA ReadMoves ==
    ASSUME TypesHold, NEW h \in Handlers, Read(h)
    PROVE  /\ UNCHANGED <<catalogs, config, tablesMap, settingsMap, proc, faults, installed, behind>>
           /\ \E to : /\ Goto(h, to) /\ to.step \in {"done", "viewSettings", "rows", "query"}
                      /\ to.step = "done" => to.reply.kind \notin {"saved", "tables"}
  <1> USE DEF database, store, process, history, maps, counters, Takes, Continues, Done, Unknown,
              Failed, RowsCall
  <1> DEFINE Quiet == UNCHANGED <<catalogs, config, tablesMap, settingsMap, proc, faults, installed, behind>>
             Next1(to) == /\ Goto(h, to) /\ to.step \in {"done", "viewSettings", "rows", "query"}
                          /\ to.step = "done" => to.reply.kind \notin {"saved", "tables"}
  <1>1. ASSUME NEW t \in Tables, GetTable(h, t) PROVE Quiet /\ \E to : Next1(to)
    BY <1>1 DEF GetTable
  <1>2. ASSUME NEW t \in Tables, GetSettings(h, t) PROVE Quiet /\ \E to : Next1(to)
    <2>1. PICK s : Goto(h, IF s = Nil THEN Unknown(t)
                           ELSE Done([kind |-> "settings", table |-> t, settings |-> s]))
      BY <1>2 DEF GetSettings
    <2> QED
      BY <1>2, <2>1 DEF GetSettings
  <1>3. ASSUME NEW t \in Tables, NEW select, NEW search, ViewTable(h, t, select, search)
        PROVE  Quiet /\ \E to : Next1(to)
    BY <1>3 DEF ViewTable
  <1>4. ASSUME NEW t \in Tables, NEW select, NEW search, GetRows(h, t, select, search)
        PROVE  Quiet /\ \E to : Next1(to)
    BY <1>4 DEF GetRows
  <1>5. ASSUME NEW t \in Tables, NEW insert, FormSettings(h, t, insert)
        PROVE  Quiet /\ \E to : Next1(to)
    <2>1. PICK s : Goto(h, IF s = Nil THEN Unknown(t)
                           ELSE IF insert
                           THEN Done([kind |-> "settings", table |-> t, settings |-> s])
                           ELSE RowsCall("form", t, {}, Nil, {}, {}, 0))
      BY <1>5 DEF FormSettings
    <2> QED
      BY <1>5, <2>1 DEF FormSettings
  <1>6. CASE ViewSettings(h)
    <2>1. PICK s : Goto(h, IF s = Nil THEN Unknown(task[h].table)
                  ELSE RowsCall("view", task[h].table,
                         IF task[h].select = {} THEN s["tableViewSelectColumns"] ELSE task[h].select,
                         IF task[h].search THEN s["tableViewTextFiltersCols"] ELSE Nil,
                         SortList(task[h].header), task[h].header, task[h].first))
      BY <1>6 DEF ViewSettings
    <2> QED
      BY <1>6, <2>1 DEF ViewSettings
  <1>7. CASE RowsTable(h)
    BY <1>7 DEF RowsTable
  <1>8. CASE QueryRows(h)
    <2>1. task[h].step = "query" /\ task[h] \in ViewTasks
      BY <1>8, TaskFields DEF QueryRows, At, TypesHold, TasksOK
    <2>2. task[h].kind \in {"view", "form", "rows"}
      BY <2>1 DEF ViewTasks
    <2> QED
      BY <1>8, <2>2 DEF QueryRows
  <1> QED
    BY <1>1, <1>2, <1>3, <1>4, <1>5, <1>6, <1>7, <1>8 DEF Read

\* A step of a load changes no settings; its handler is not answered but by
\* the tables that are installed.
LEMMA ReloadMoves ==
    ASSUME NEW p \in Procs, Reload(p)
    PROVE  /\ UNCHANGED <<catalogs, config, settingsMap, proc, behind>> /\ (faults' = faults \/ Faulty)
           /\ \E to : /\ Goto(p, to)
                      /\ to.step \in {"done", "names", "columns", "install", "answer", "settings"}
                      /\ to.step = "done" => to.reply.kind = "tables"
           /\ (UNCHANGED <<tablesMap, installed>>) \/ InstallTables(p)
  <1> USE DEF database, store, process, history, maps, counters, Takes, Continues, Done
  <1> DEFINE Quiet == /\ UNCHANGED <<catalogs, config, settingsMap, proc, behind>> /\ (faults' = faults \/ Faulty)
                      /\ ((UNCHANGED <<tablesMap, installed>>) \/ InstallTables(p))
             Next1(to) == /\ Goto(p, to)
                          /\ to.step \in {"done", "names", "columns", "install", "answer", "settings"}
                          /\ to.step = "done" => to.reply.kind = "tables"
  <1>1. CASE BeginReload(p)
    BY <1>1 DEF BeginReload
  <1>2. CASE LoadNames(p)
    <2>1. PICK names, whole : Goto(p, [step |-> "columns", since |-> task[p].since,
                                       names |-> names, whole |-> whole])
                              /\ (Continues \/ Faulty)
      BY <1>2 DEF LoadNames
    <2> QED
      BY <1>2, <2>1 DEF LoadNames
  <1>3. CASE LoadColumns(p)
    <2>1. PICK m, whole : Goto(p, [step |-> "install", since |-> task[p].since, map |-> m,
                                   whole |-> whole])
                          /\ (Continues \/ Faulty)
      BY <1>3 DEF LoadColumns
    <2> QED
      BY <1>3, <2>1 DEF LoadColumns
  <1>4. CASE InstallTables(p)
    BY <1>4 DEF InstallTables, AfterInstall
  <1>5. CASE LoadFails(p)
    BY <1>5 DEF LoadFails
  <1>6. CASE AnswerTables(p)
    BY <1>6 DEF AnswerTables
  <1> QED
    BY <1>1, <1>2, <1>3, <1>4, <1>5, <1>6 DEF Reload

\* What the steps of updates have in common.
LEMMA UpdateMoves ==
    ASSUME TypesHold, NEW h \in Handlers, Update(h)
    PROVE  \/ Ends
           \/ /\ UNCHANGED <<catalogs, tablesMap, proc, installed>>
              /\ faults' = faults \/ faults' = faults + 1
              /\ \E to : /\ Goto(h, to) /\ to.step \in {"done", "store", "storing"}
                         /\ to.step = "done" => to.reply.kind \in {"saved", "cleared", "failed"}
  <1> USE DEF database, process, history, maps, Takes, Continues, counters
  <1>1. ASSUME NEW t \in Tables, NEW patch \in Patches, UpsertSettings(h, t, patch)
        PROVE  /\ UNCHANGED <<catalogs, tablesMap, proc, installed, faults>>
               /\ \E to : /\ Goto(h, to) /\ to.step \in {"done", "store"}
                          /\ to.step = "done" => to.reply.kind = "failed"
    <2>1. PICK row : row = MergeConfig(config[t], patch)
      OBVIOUS
    <2>2. PICK to : to = [step |-> "store", table |-> t, patch |-> patch, config |-> row]
      OBVIOUS
    <2>3. to.step = "store" /\ Failed.step = "done" /\ Failed.reply.kind = "failed"
      BY <2>2 DEF Failed, Done
    <2>4. /\ Goto(h, to) \/ Goto(h, Failed)
          /\ UNCHANGED <<catalogs, tablesMap, proc, installed, faults>>
      BY <1>1, <2>1, <2>2 DEF UpsertSettings
    <2> QED
      BY <2>3, <2>4
  <1>2. ASSUME NEW t \in Tables, NEW patch \in Patches, UpsertFails(h, t, patch)
        PROVE  /\ UNCHANGED <<catalogs, tablesMap, proc, installed>> /\ faults' = faults + 1
               /\ \E to : Goto(h, to) /\ to.step = "done" /\ to.reply.kind = "failed"
    BY <1>2 DEF UpsertFails, Failed, Done
  <1>3. ASSUME BeginStore(h)
        PROVE  /\ UNCHANGED <<catalogs, tablesMap, proc, installed, faults>>
               /\ \E to : Goto(h, to) /\ to.step = "storing"
    <2>1. PICK to : to = [task[h] EXCEPT !.step = "storing"]
      OBVIOUS
    <2>2. Goto(h, to) /\ task[h].step = "store" /\ UNCHANGED <<catalogs, tablesMap, proc, installed, faults>>
      BY <1>3, <2>1 DEF BeginStore, At
    <2>3. task[h] \in StoreTasks
      BY <2>2, TaskFields DEF TypesHold, TasksOK
    <2>4. to.step = "storing"
      BY <2>1, <2>3 DEF StoreTasks
    <2> QED
      BY <2>2, <2>4
  <1>4. ASSUME EndStore(h)
        PROVE  /\ UNCHANGED <<catalogs, tablesMap, proc, installed, faults>>
               /\ \E to : Goto(h, to) /\ to.step = "done" /\ to.reply.kind \in {"saved", "cleared"}
    BY <1>4 DEF EndStore, Saved, Done
  <1>5. MapFault(h) => Ends
    BY DEF MapFault
  <1> QED
    BY <1>1, <1>2, <1>3, <1>4, <1>5 DEF Update

-----------------------------------------------------------------------------
(* What was saved stays saved.                                             *)

\* Every key a patch sets is a key of the row, unless a null body has wiped it.
HasKeys(row, patch) == row = Null \/ \A f \in Fields : patch[f] # Nil => HasKey(row, f)

\* The row an update holds has the keys it sent.
HoldsPatch(v) == v.config = Null \/ \A f \in Fields : v.patch[f] # Nil => v.config[f] = v.patch[f]

\* The inductive invariant: an update between its statement and its answer
\* holds a row with the keys it sent, and they are in the database already.
SaveInv ==
    /\ \A h \in Handlers : task[h].step \in {"store", "storing"} =>
          HoldsPatch(task[h]) /\ HasKeys(config[task[h].table], task[h].patch)
    /\ SavedFieldsSurvive

\* A key, once there, stays, unless a null body wipes the row, and for good.
KeepsKeys ==
    \A t \in Tables :
        \/ config'[t] = Null
        \/ config[t] # Null /\ \A f \in Fields : HasKey(config[t], f) => HasKey(config'[t], f)

LEMMA KeysOfPatchStay ==
    ASSUME KeepsKeys, NEW t \in Tables, NEW patch, HasKeys(config[t], patch)
    PROVE  HasKeys(config'[t], patch)
  BY DEF KeepsKeys, HasKeys

\* A row that a null body has not wiped has the keys of the row before and those
\* of the patch.
LEMMA MergedKeys ==
    ASSUME TypesHold, NEW t \in Tables, NEW patch \in Patches,
           NEW row, row = MergeConfig(config[t], patch), row # Null
    PROVE  /\ config[t] # Null
           /\ \A f \in Fields : HasKey(config[t], f) => HasKey(row, f)
           /\ \A f \in Fields : patch[f] # Nil => row[f] = patch[f] /\ HasKey(row, f)
  <1>1. Null \notin {config[t], patch}
    BY DEF MergeConfig
  <1>2. row \in Configs /\ row # Nil
    BY MergeType, ColumnsAssumption DEF TypesHold, Rows
  <1>3. CASE config[t] = Nil
    BY <1>1, <1>2, <1>3 DEF MergeConfig, HasKey
  <1>4. CASE config[t] # Nil
    <2>1. row = [f \in Fields |-> IF patch[f] = Nil THEN config[t][f] ELSE patch[f]]
      BY <1>1, <1>4 DEF MergeConfig
    <2> QED
      BY <1>1, <1>2, <1>4, <2>1 DEF HasKey
  <1> QED
    BY <1>3, <1>4

\* The merge removes no key: it takes the row's own where the patch has none.
LEMMA MergeKeeps ==
    ASSUME TypesHold, NEW t \in Tables, NEW patch \in Patches,
           NEW row \in {config[t], MergeConfig(config[t], patch)},
           config' = [config EXCEPT ![t] = row]
    PROVE  KeepsKeys
  <1>1. config'[t] = row /\ \A u \in Tables : u # t => config'[u] = config[u]
    BY DEF TypesHold, DataOK
  <1>2. row = Null \/ (config[t] # Null /\ \A f \in Fields : HasKey(config[t], f) => HasKey(row, f))
    BY MergedKeys
  <1> QED
    BY <1>1, <1>2 DEF KeepsKeys

\* What an answered request has been answered.
LEMMA ReplyFields ==
    ASSUME TypesHold, NEW h \in Handlers, task[h].step = "done"
    PROVE  task[h].reply \in Replies
  <1>1. task[h] \in HandlerTasks
    BY DEF TypesHold, TasksOK
  <1>2. CASE task[h] \in [step : {"done"}, reply : Replies]
    BY <1>2
  <1>3. CASE task[h] \in LoadTasks \union AnswerTasks
    BY <1>3 DEF LoadTasks, AnswerTasks
  <1>4. CASE task[h] \in StoreTasks
    BY <1>4 DEF StoreTasks
  <1>5. CASE task[h] \in ViewTasks
    BY <1>5 DEF ViewTasks
  <1>6. CASE task[h] = Idle
    BY <1>6 DEF Idle
  <1> QED
    BY <1>1, <1>2, <1>3, <1>4, <1>5, <1>6 DEF HandlerTasks

\* An answered update names a table.
LEMMA SavedFields ==
    ASSUME TypesHold, NEW h \in Handlers, Replied(h, "saved")
    PROVE  task[h].reply.table \in Tables
  <1>1. task[h].reply \in Replies /\ task[h].reply.kind = "saved"
    BY ReplyFields DEF Replied
  <1>2. \A reply \in Replies : reply.kind = "saved" => reply.table \in Tables
    BY DEF Replies
  <1> QED
    BY <1>1, <1>2

\* The step of one goroutine that leaves the rows their keys.
LEMMA SaveMoves ==
    ASSUME TypesHold, SaveInv, KeepsKeys, NEW p \in Procs, NEW to, Goto(p, to),
           p \in Handlers /\ to.step \in {"store", "storing"} =>
               HoldsPatch(to) /\ HasKeys(config'[to.table], to.patch),
           to.step = "done" /\ to.reply.kind = "saved" =>
               /\ \A f \in Fields : to.reply.patch[f] # Nil => to.reply.settings[f] = to.reply.patch[f]
               /\ HasKeys(config'[to.reply.table], to.reply.patch)
    PROVE  SaveInv'
  <1>1. \A h \in Handlers : (h = p /\ task'[h] = to) \/ task'[h] = task[h]
    BY TaskDomain DEF Goto
  <1>2. ASSUME NEW h \in Handlers, task'[h].step \in {"store", "storing"}
        PROVE  HoldsPatch(task'[h]) /\ HasKeys(config'[task'[h].table], task'[h].patch)
    <2>1. CASE task'[h] = task[h]
      <3>1. task[h] \in StoreTasks
        BY <1>2, <2>1, TaskFields DEF TypesHold, TasksOK
      <3>2. task[h].table \in Tables
        BY <3>1 DEF StoreTasks
      <3> QED
        BY <1>2, <2>1, <3>2, KeysOfPatchStay DEF SaveInv
    <2> QED
      BY <1>1, <1>2, <2>1
  <1>3. ASSUME NEW h \in Handlers, Replied(h, "saved")'
        PROVE  \A f \in Fields : task'[h].reply.patch[f] # Nil =>
                   /\ task'[h].reply.settings[f] = task'[h].reply.patch[f]
                   /\ \/ config'[task'[h].reply.table] = Null
                      \/ HasKey(config'[task'[h].reply.table], f)
    <2>1. CASE task'[h] = task[h]
      <3>1. Replied(h, "saved")
        BY <1>3, <2>1 DEF Replied
      <3>2. task[h].reply.table \in Tables
        BY <3>1, SavedFields
      <3> QED
        BY <2>1, <3>1, <3>2 DEF SaveInv, SavedFieldsSurvive, KeepsKeys
    <2>2. CASE task'[h] = to
      BY <1>3, <2>2 DEF Replied, HasKeys
    <2> QED
      BY <1>1, <2>1, <2>2
  <1> QED
    BY <1>2, <1>3 DEF SaveInv, SavedFieldsSurvive

\* Steps that change no row.
LEMMA SaveQuiet == UNCHANGED config => KeepsKeys
  BY DEF KeepsKeys

\* The process ends, and with it every update and every answer.
LEMMA SaveEnds == ASSUME Ends PROVE SaveInv'
  <1>1. \A h \in Handlers : task'[h].step = "idle"
    BY DEF Ends, Idle, Procs
  <1> QED
    BY <1>1 DEF SaveInv, SavedFieldsSurvive, Replied

\* The updates of settings.
LEMMA UpdateKeeps ==
    ASSUME TypesHold, SaveInv, NEW h \in Handlers, Update(h)
    PROVE  SaveInv'
  <1>0. h \in Procs
    BY TaskDomain
  <1>6. Goto(h, Failed) => \E to : Goto(h, to) /\ to.step = "done" /\ to.reply.kind = "failed"
    BY DEF Failed, Done
  <1>1. ASSUME NEW t \in Tables, NEW patch \in Patches, UpsertSettings(h, t, patch)
        PROVE  SaveInv'
    <2>1. PICK row : row = MergeConfig(config[t], patch)
      OBVIOUS
    <2>2. PICK to : to = [step |-> "store", table |-> t, patch |-> patch, config |-> row]
      OBVIOUS
    <2>3. config' = [config EXCEPT ![t] = row] /\ (Goto(h, to) \/ Goto(h, Failed))
      BY <1>1, <2>1, <2>2 DEF UpsertSettings
    <2>4. KeepsKeys
      BY <2>1, <2>3, MergeKeeps
    <2>5. config'[t] = row
      BY <2>3 DEF TypesHold, DataOK
    <2>6. row # Null => \A f \in Fields : patch[f] # Nil => row[f] = patch[f] /\ HasKey(row, f)
      BY <2>1, MergedKeys
    <2>7. /\ to.step = "store" /\ to.patch = patch /\ to.config = row /\ to.table = t
      BY <2>2
    <2>8. HoldsPatch(to) /\ HasKeys(config'[to.table], to.patch)
      BY <2>5, <2>6, <2>7 DEF HasKeys, HoldsPatch
    <2>9. CASE Goto(h, to)
      BY <1>0, <2>4, <2>7, <2>8, <2>9, SaveMoves
    <2>10. CASE Goto(h, Failed)
      BY <1>0, <1>6, <2>4, <2>10, SaveMoves
    <2> QED
      BY <2>3, <2>9, <2>10
  <1>2. ASSUME NEW t \in Tables, NEW patch \in Patches, UpsertFails(h, t, patch)
        PROVE  SaveInv'
    <2>1. PICK row \in {config[t], MergeConfig(config[t], patch)} :
              config' = [config EXCEPT ![t] = row]
      BY <1>2 DEF UpsertFails
    <2>2. KeepsKeys
      BY <2>1, MergeKeeps
    <2>3. Goto(h, Failed)
      BY <1>2 DEF UpsertFails
    <2> QED
      BY <1>0, <1>6, <2>2, <2>3, SaveMoves
  <1>3. CASE BeginStore(h)
    <2>1. PICK to : to = [task[h] EXCEPT !.step = "storing"]
      OBVIOUS
    <2>2. Goto(h, to) /\ KeepsKeys /\ UNCHANGED config /\ task[h].step = "store"
      BY <1>3, <2>1, SaveQuiet DEF BeginStore, At, store
    <2>3. task[h] \in StoreTasks
      BY <2>2, TaskFields DEF TypesHold, TasksOK
    <2>4. /\ to.step = "storing" /\ to.patch = task[h].patch /\ to.config = task[h].config
          /\ to.table = task[h].table /\ task[h].table \in Tables
      BY <2>1, <2>3 DEF StoreTasks
    <2>5. HasKeys(config'[task[h].table], task[h].patch)
      BY <2>2, <2>4, KeysOfPatchStay DEF SaveInv
    <2>6. HoldsPatch(to) /\ HasKeys(config'[to.table], to.patch)
      BY <2>2, <2>4, <2>5 DEF HasKeys, HoldsPatch, SaveInv
    <2> QED
      BY <1>0, <2>2, <2>4, <2>6, SaveMoves
  <1>4. CASE EndStore(h)
    <2>1. PICK s : s = Entry(task[h].config)
      OBVIOUS
    <2>2. Goto(h, Saved(task[h], s)) /\ KeepsKeys /\ UNCHANGED config /\ task[h].step = "storing"
      BY <1>4, <2>1, SaveQuiet DEF EndStore, At, store
    <2>3. task[h] \in StoreTasks
      BY <2>2, TaskFields DEF TypesHold, TasksOK
    <2>4. task[h].table \in Tables /\ task[h].config \in Rows
      BY <2>3 DEF StoreTasks
    <2>5. HasKeys(config'[task[h].table], task[h].patch) /\ HoldsPatch(task[h])
      BY <2>2, <2>4, KeysOfPatchStay DEF SaveInv
    <2>6. CASE s = Nil
      <3>1. PICK to : to = Done([kind |-> "cleared", table |-> task[h].table])
        OBVIOUS
      <3>2. Goto(h, to) /\ to.step = "done" /\ to.reply.kind = "cleared"
        BY <2>2, <2>6, <3>1 DEF Saved, Done
      <3> QED
        BY <1>0, <2>2, <3>2, SaveMoves
    <2>7. CASE s # Nil
      <3>1. PICK reply : reply = [kind |-> "saved", table |-> task[h].table, patch |-> task[h].patch,
                                  settings |-> s]
        OBVIOUS
      <3>2. /\ reply.table = task[h].table /\ reply.patch = task[h].patch /\ reply.settings = s
        BY <3>1
      <3>3. Goto(h, Done(reply)) /\ Done(reply).step = "done" /\ Done(reply).reply = reply
        BY <2>2, <2>7, <3>1 DEF Saved, Done
      <3>4. task[h].config # Null /\ task[h].config # Nil /\ s = Decode(task[h].config)
        BY <2>1, <2>4, <2>7, ColumnsAssumption DEF Entry, Rows
      <3>5. ASSUME NEW f \in Fields, task[h].patch[f] # Nil
            PROVE  s[f] = task[h].patch[f]
        BY <2>5, <3>4, <3>5 DEF HoldsPatch, Decode
      <3>6. HasKeys(config'[reply.table], reply.patch)
        BY <2>5, <3>2 DEF HasKeys
      <3> QED
        BY <1>0, <2>2, <3>2, <3>3, <3>5, <3>6, SaveMoves
    <2> QED
      BY <2>6, <2>7
  <1>5. CASE MapFault(h)
    BY <1>5, SaveEnds DEF MapFault
  <1> QED
    BY <1>1, <1>2, <1>3, <1>4, <1>5 DEF Update

\* Readers and loads.
LEMMA AskKeeps ==
    ASSUME TypesHold, SaveInv, NEW p \in Procs, Reload(p) \/ (p \in Handlers /\ Read(p))
    PROVE  SaveInv'
  <1>1. CASE Reload(p)
    BY <1>1, ReloadMoves, SaveQuiet, SaveMoves
  <1>2. CASE p \in Handlers /\ Read(p)
    BY <1>2, ReadMoves, SaveQuiet, SaveMoves
  <1> QED
    BY <1>1, <1>2

\* The start-up and the ends of the process.
LEMMA BootKeeps ==
    ASSUME TypesHold, SaveInv, Boot
    PROVE  SaveInv'
  <1>0. Main \in Procs /\ Main \notin Handlers
    BY HandlersAssumption, TaskDomain
  <1> USE DEF store
  <1>1. CASE Start
    BY <1>0, <1>1, SaveQuiet, SaveMoves DEF Start
  <1>2. CASE LoadSettings
    BY <1>0, <1>2, SaveQuiet, SaveMoves DEF LoadSettings
  <1>3. CASE CreateAdminTables
    BY <1>0, <1>3, SaveQuiet, SaveMoves DEF CreateAdminTables, Idle
  <1>4. CASE LoadSettingsFails \/ StartupFails \/ Stop
    BY <1>4, SaveEnds DEF LoadSettingsFails, StartupFails, Stop
  <1> QED
    BY <1>1, <1>2, <1>3, <1>4 DEF Boot

\* Of the updates that were answered, none loses a key it saved, whatever other
\* updates, restarts and schema changes come between, unless a null body wipes
\* the row (core/schema_service.go:315-340).
THEOREM SavedStay == Spec => []SavedFieldsSurvive
  <1>1. Init => SaveInv
    <2> SUFFICES ASSUME Init PROVE SaveInv
      OBVIOUS
    <2>1. \A h \in Handlers : task[h].step = "idle"
      BY DEF Init, Idle, Procs
    <2> QED
      BY <2>1 DEF SaveInv, SavedFieldsSurvive, Replied
  <1>2. TypesHold /\ SaveInv /\ [Next]_vars => SaveInv'
    <2> SUFFICES ASSUME TypesHold, SaveInv, [Next]_vars
                 PROVE  SaveInv'
      OBVIOUS
    <2>1. CASE UNCHANGED <<config, task>>
      BY <2>1 DEF SaveInv, SavedFieldsSurvive, HasKeys, HasKey, HoldsPatch, Replied
    <2>2. (UNCHANGED vars) => UNCHANGED <<config, task>>
      BY DEF vars, store
    <2>3. ASSUME NEW t \in Tables, NEW columns \in Alterations, AlterCatalog(t, columns)
          PROVE  UNCHANGED <<config, task>>
      BY <2>3 DEF AlterCatalog, store
    <2> QED
      BY <2>1, <2>2, <2>3, BootKeeps, AskKeeps, UpdateKeeps, TaskDomain DEF Next
  <1>3. SaveInv => SavedFieldsSurvive
    BY DEF SaveInv
  <1>4. Spec => []TypesHold
    BY TypeCorrect, TypeParts, PTL DEF TypesHold
  <1> QED
    BY <1>1, <1>2, <1>3, <1>4, PTL DEF Spec

-----------------------------------------------------------------------------
(* The maps that were installed since the process started.                 *)

\* One sequence goes on where another one ends.
Extends(old, new) ==
    /\ Len(old) \in Nat /\ Len(new) \in Nat /\ Len(old) <= Len(new)
    /\ \A i \in 1..Len(old) : new[i] = old[i]

\* The start-up installs the first of them before it reads any settings, and the
\* last is the map of the service.
Settling == task[Main].step \in {"settings", "create"}
InstalledInv ==
    /\ proc = "down" \/ task[Main].step \in {"names", "columns", "install"} => installed = <<>>
    /\ Settling => Len(installed) = 1
    /\ proc = "up" \/ Settling => Len(installed) >= 1 /\ tablesMap = installed[Len(installed)]

\* A map that is installed is added to the others.
LEMMA AddsMap ==
    ASSUME TypesHold, NEW p \in Procs, InstallTables(p)
    PROVE  /\ Len(installed') = Len(installed) + 1 /\ Extends(installed, installed')
           /\ installed'[Len(installed')] = task[p].map /\ tablesMap' = task[p].map
  <1>1. installed' = Append(installed, task[p].map) /\ tablesMap' = task[p].map
    BY DEF InstallTables
  <1>2. installed \in Seq(TablesMaps) /\ task[p].map \in TablesMaps
    BY LoadFields DEF InstallTables, At, TypesHold, DataOK
  <1>3. Len(installed) \in Nat
    BY <1>2, LenProperties
  <1>4. Len(installed') = Len(installed) + 1
    BY <1>1, <1>2, AppendProperties
  <1>5. \A i \in 1..Len(installed) : installed'[i] = installed[i]
    BY <1>1, <1>2, AppendProperties
  <1>6. installed'[Len(installed')] = task[p].map
    BY <1>1, <1>2, <1>4, AppendProperties
  <1> QED
    BY <1>1, <1>3, <1>4, <1>5, <1>6 DEF Extends

\* A handler's request, of a server that is up.
LEMMA InstalledMoves ==
    ASSUME TypesHold, InstalledInv, proc = "up", UNCHANGED proc,
           NEW h \in Handlers, NEW to, Goto(h, to), (UNCHANGED <<tablesMap, installed>>) \/ InstallTables(h)
    PROVE  InstalledInv'
  <1>1. task'[Main] = task[Main] /\ task[Main] = Idle
    BY TaskDomain, HandlersAssumption DEF Goto, TypesHold, LifeOK
  <1>2. CASE UNCHANGED <<tablesMap, installed>>
    BY <1>1, <1>2 DEF InstalledInv, Settling
  <1>3. CASE InstallTables(h)
    <2>1. h \in Procs
      BY TaskDomain
    <2>2. Len(installed') = Len(installed) + 1 /\ tablesMap' = installed'[Len(installed')]
      BY <1>3, <2>1, AddsMap
    <2>3. Len(installed) >= 1 /\ Len(installed) \in Nat
      BY LenProperties DEF InstalledInv, TypesHold, DataOK
    <2> QED
      BY <1>1, <2>2, <2>3 DEF InstalledInv, Settling, Idle
  <1> QED
    BY <1>2, <1>3

LEMMA InstalledEnds == ASSUME Ends PROVE InstalledInv'
  <1>1. proc' = "down" /\ task'[Main].step = "idle" /\ installed' = <<>>
    BY DEF Ends, Idle, Procs
  <1> QED
    BY <1>1 DEF InstalledInv, Settling

\* The load of the start-up.
LEMMA MainInstalls ==
    ASSUME TypesHold, InstalledInv, Reload(Main)
    PROVE  InstalledInv'
  <1>1. Main \in Procs /\ ~BeginReload(Main) /\ ~LoadFails(Main)
    BY TaskDomain, HandlersAssumption DEF BeginReload, LoadFails, Takes
  <1>2. task[Main].step # "answer"
    BY DEF TypesHold, TasksOK, MainTasks, LoadTasks, Idle
  <1>3. task[Main].step \in {"names", "columns", "install"}
    BY <1>1, <1>2 DEF Reload, LoadNames, LoadColumns, InstallTables, AnswerTables, At
  <1>4. installed = <<>> /\ proc = "boot" /\ proc' = "boot"
    BY <1>1, <1>3, ReloadMoves DEF InstalledInv, TypesHold, LifeOK, Idle
  <1>5. CASE InstallTables(Main)
    <2>1. Len(installed') = 1 /\ tablesMap' = installed'[1]
      BY <1>1, <1>4, <1>5, AddsMap
    <2>2. task'[Main].step = "settings"
      BY <1>5, TaskDomain DEF InstallTables, AfterInstall, Goto
    <2> QED
      BY <1>4, <2>1, <2>2 DEF InstalledInv, Settling
  <1>6. CASE LoadNames(Main) \/ LoadColumns(Main)
    <2>1. installed' = <<>>
      BY <1>4, <1>6 DEF LoadNames, LoadColumns, process, history
    <2>2. task'[Main].step \in {"columns", "install"}
      BY <1>6, TaskDomain DEF LoadNames, LoadColumns, Goto
    <2> QED
      BY <1>4, <2>1, <2>2 DEF InstalledInv, Settling
  <1> QED
    BY <1>1, <1>2, <1>5, <1>6 DEF Reload, AnswerTables, At

\* The start-up and the ends of the process.
LEMMA BootInstalls ==
    ASSUME TypesHold, InstalledInv, Boot
    PROVE  InstalledInv'
  <1> USE DEF process, history, maps
  <1>1. CASE Start
    <2>1. task'[Main].step = "names" /\ proc' = "boot" /\ installed' = <<>>
      BY <1>1, TaskDomain DEF Start, Goto, InstalledInv
    <2> QED
      BY <2>1 DEF InstalledInv, Settling
  <1>2. CASE LoadSettings
    <2>1. /\ task'[Main].step = "create" /\ Settling /\ UNCHANGED <<proc, tablesMap, installed>>
      BY <1>2, TaskDomain DEF LoadSettings, Goto, At, Settling
    <2>2. proc = "boot"
      BY <2>1 DEF Settling, TypesHold, LifeOK, Idle
    <2> QED
      BY <2>1, <2>2 DEF InstalledInv, Settling
  <1>3. CASE CreateAdminTables
    <2>1. /\ task'[Main].step = "idle" /\ proc' = "up" /\ Settling
          /\ UNCHANGED <<tablesMap, installed>>
      BY <1>3, TaskDomain DEF CreateAdminTables, Goto, At, Settling, Idle
    <2> QED
      BY <2>1 DEF InstalledInv, Settling
  <1>4. CASE LoadSettingsFails \/ StartupFails \/ Stop
    BY <1>4, InstalledEnds DEF LoadSettingsFails, StartupFails, Stop
  <1> QED
    BY <1>1, <1>2, <1>3, <1>4 DEF Boot

\* A handler at work is one of a server that is up.
LEMMA WorksUp ==
    ASSUME TypesHold, NEW h \in Handlers, Reload(h) \/ Read(h) \/ Update(h)
    PROVE  proc = "up"
  <1>1. CASE task[h].step # "idle"
    BY <1>1, AtWork DEF TypesHold
  <1>2. CASE MapFault(h)
    BY <1>2, AtWork DEF MapFault, At, TypesHold
  <1>3. CASE task[h].step = "idle" /\ ~MapFault(h)
    BY <1>3 DEF Reload, BeginReload, LoadNames, LoadColumns, InstallTables, LoadFails, AnswerTables,
                Read, GetTable, GetSettings, ViewTable, GetRows, FormSettings, ViewSettings,
                RowsTable, QueryRows, Update, UpsertSettings, UpsertFails, BeginStore, EndStore,
                Takes, At
  <1> QED
    BY <1>1, <1>2, <1>3

LEMMA InstalledStep == TypesHold /\ InstalledInv /\ [Next]_vars => InstalledInv'
  <1> SUFFICES ASSUME TypesHold, InstalledInv, [Next]_vars
               PROVE  InstalledInv'
    OBVIOUS
  <1>1. CASE UNCHANGED <<proc, tablesMap, installed, task>>
    BY <1>1 DEF InstalledInv, Settling
  <1>2. (UNCHANGED vars) => UNCHANGED <<proc, tablesMap, installed, task>>
    BY DEF vars, process, history, maps
  <1>3. ASSUME NEW t \in Tables, NEW columns \in Alterations, AlterCatalog(t, columns)
        PROVE  UNCHANGED <<proc, tablesMap, installed, task>>
    BY <1>3 DEF AlterCatalog, process, history, maps
  <1>4. ASSUME NEW h \in Handlers, Read(h) PROVE InstalledInv'
    BY <1>4, WorksUp, InstalledEnds, ReadMoves, InstalledMoves
  <1>5. ASSUME NEW h \in Handlers, Update(h) PROVE InstalledInv'
    BY <1>5, WorksUp, InstalledEnds, UpdateMoves, InstalledMoves
  <1>6. ASSUME NEW p \in Procs, Reload(p) PROVE InstalledInv'
    <2>1. CASE p = Main
      BY <1>6, <2>1, MainInstalls
    <2>2. CASE p \in Handlers
      BY <1>6, <2>2, WorksUp, InstalledEnds, ReloadMoves, InstalledMoves
    <2> QED
      BY <2>1, <2>2 DEF Procs
  <1> QED
    BY <1>1, <1>2, <1>3, <1>4, <1>5, <1>6, BootInstalls DEF Next

LEMMA Installed == Spec => []InstalledInv
  <1>1. Init => InstalledInv
    <2> SUFFICES ASSUME Init PROVE InstalledInv
      OBVIOUS
    <2>1. installed = <<>> /\ proc = "down" /\ task[Main].step = "idle"
      BY DEF Init, Idle, Procs
    <2> QED
      BY <2>1 DEF InstalledInv, Settling
  <1>2. Spec => []TypesHold
    BY TypeCorrect, TypeParts, PTL DEF TypesHold
  <1> QED
    BY <1>1, <1>2, InstalledStep, PTL DEF Spec

\* While the server is up no installed map is taken back.
LEMMA InstalledGrows ==
    ASSUME TypesHold, [Next]_vars, proc' = "up"
    PROVE  Extends(installed, installed')
  <1>1. CASE UNCHANGED installed
    BY <1>1, LenProperties DEF Extends, TypesHold, DataOK
  <1>2. (UNCHANGED vars) => UNCHANGED installed
    BY DEF vars, process, history
  <1>3. ASSUME NEW t \in Tables, NEW columns \in Alterations, AlterCatalog(t, columns)
        PROVE  UNCHANGED installed
    BY <1>3 DEF AlterCatalog, process, history
  <1>4. ~Ends
    BY DEF Ends
  <1>5. Boot => UNCHANGED installed
    BY <1>4 DEF Boot, Start, LoadSettings, LoadSettingsFails, CreateAdminTables, StartupFails,
                Stop, process, history
  <1>6. ASSUME NEW p \in Procs, Reload(p) PROVE Extends(installed, installed')
    BY <1>1, <1>6, ReloadMoves, AddsMap
  <1>7. ASSUME NEW h \in Handlers, Read(h) \/ Update(h) PROVE UNCHANGED installed
    BY <1>4, <1>7, ReadMoves, UpdateMoves
  <1> QED
    BY <1>1, <1>2, <1>3, <1>5, <1>6, <1>7 DEF Next

-----------------------------------------------------------------------------
(* The columns a view announces.                                           *)

\* A view that has looked its table up once and not yet again.
LookedUp(v) == v.step = "viewSettings" \/ (v.step = "rows" /\ v.kind = "view")

\* The maps of the two lookups are installed ones, the first no later than the
\* second; and if the table had the same columns in them and in all between,
\* the header is the list of the rows, or empty.
Announces(r, rows, kept) ==
    /\ r.first \in 1..Len(kept) /\ r.last \in r.first..Len(kept)
    /\ (\A i \in r.first..r.last : kept[i][r.table] = kept[r.first][r.table])
       => r.header \in {{}, rows}

\* What a view remembers of its table is what was installed at its first lookup;
\* what it is about to announce, and announces, are the columns of its rows.
HeaderAgrees(v, kept) ==
    /\ LookedUp(v) => v.first \in 1..Len(kept) /\ v.header = kept[v.first][v.table]
    /\ v.step = "query" /\ v.kind = "view" => Announces(v, v.shown, kept)
    /\ v.step = "done" /\ v.reply.kind = "view" => Announces(v.reply, v.reply.rows, kept)

\* The inductive invariant.
HeadersInv == \A h \in Handlers : HeaderAgrees(task[h], installed)

\* Maps that are installed later change nothing of it.
LEMMA HeaderKept ==
    ASSUME NEW v, NEW old, NEW new, Extends(old, new), HeaderAgrees(v, old)
    PROVE  HeaderAgrees(v, new)
  <1>1. \A i \in 1..Len(old) : i \in 1..Len(new) /\ new[i] = old[i]
    BY DEF Extends
  <1>2. ASSUME NEW r, NEW rows, Announces(r, rows, old)
        PROVE  Announces(r, rows, new)
    <2>1. /\ r.first \in 1..Len(old) /\ r.last \in r.first..Len(old)
          /\ Len(old) \in Nat /\ Len(new) \in Nat /\ Len(old) <= Len(new)
      BY <1>2 DEF Announces, Extends
    <2>2. r.first \in 1..Len(new) /\ r.last \in r.first..Len(new)
      BY <2>1
    <2>3. \A i \in r.first..r.last : i \in 1..Len(old)
      BY <2>1
    <2>4. \A i \in r.first..r.last : new[i] = old[i] /\ new[r.first] = old[r.first]
      BY <1>1, <2>1, <2>3
    <2> QED
      BY <1>2, <2>2, <2>4 DEF Announces
  <1> QED
    BY <1>1, <1>2 DEF HeaderAgrees

\* A goroutine that is at no view announces nothing.
LEMMA NoHeader ==
    ASSUME NEW to, to.step \notin {"viewSettings", "query"}, to.step = "rows" => to.kind # "view",
           to.step = "done" => to.reply.kind # "view"
    PROVE  \A kept : HeaderAgrees(to, kept)
  BY DEF HeaderAgrees, LookedUp

LEMMA UnknownHeader == \A t, kept : HeaderAgrees(Unknown(t), kept) /\ HeaderAgrees(Failed, kept)
  BY DEF Unknown, Failed, Done, HeaderAgrees, LookedUp

\* The readers of one map: a view announces what its first lookup found.
LEMMA LookUpHeaders ==
    ASSUME TypesHold, InstalledInv, NEW h \in Handlers, NEW t \in Tables,
           NEW select, NEW search, NEW insert,
           \/ GetTable(h, t) \/ GetSettings(h, t) \/ ViewTable(h, t, select, search)
           \/ GetRows(h, t, select, search) \/ FormSettings(h, t, insert)
    PROVE  \E to : Goto(h, to) /\ HeaderAgrees(to, installed)
  <1>1. CASE GetTable(h, t)
    <2>1. HeaderAgrees(Done([kind |-> "table", table |-> t, header |-> tablesMap[t]]), installed)
      BY DEF Done, HeaderAgrees, LookedUp
    <2> QED
      BY <1>1, <2>1, UnknownHeader DEF GetTable
  <1>2. CASE GetSettings(h, t)
    <2>1. PICK s \in SettingsSeen(t) :
              Goto(h, IF s = Nil THEN Unknown(t)
                      ELSE Done([kind |-> "settings", table |-> t, settings |-> s]))
      BY <1>2 DEF GetSettings
    <2>2. HeaderAgrees(Done([kind |-> "settings", table |-> t, settings |-> s]), installed)
      BY DEF Done, HeaderAgrees, LookedUp
    <2> QED
      BY <2>1, <2>2, UnknownHeader
  <1>3. CASE ViewTable(h, t, select, search)
    <2>1. PICK v : v = [step |-> "viewSettings", table |-> t, select |-> select,
                        search |-> search, header |-> tablesMap[t], first |-> Len(installed)]
      OBVIOUS
    <2>2. /\ v.step = "viewSettings" /\ v.table = t /\ v.header = tablesMap[t]
          /\ v.first = Len(installed)
      BY <2>1
    <2>3. /\ Len(installed) \in Nat /\ Len(installed) >= 1 /\ tablesMap = installed[Len(installed)]
      BY <1>3, LenProperties DEF ViewTable, Takes, InstalledInv, TypesHold, DataOK
    <2>4. HeaderAgrees(v, installed)
      BY <2>2, <2>3 DEF HeaderAgrees, LookedUp
    <2> QED
      BY <1>3, <2>1, <2>4, UnknownHeader DEF ViewTable
  <1>4. CASE GetRows(h, t, select, search)
    <2>1. HeaderAgrees(RowsCall("rows", t, select, IF search THEN {} ELSE Nil, {}, {}, 0), installed)
      BY DEF RowsCall, HeaderAgrees, LookedUp
    <2> QED
      BY <1>4, <2>1 DEF GetRows
  <1>5. CASE FormSettings(h, t, insert)
    <2>1. PICK s \in SettingsSeen(t) :
              Goto(h, IF s = Nil THEN Unknown(t)
                      ELSE IF insert
                      THEN Done([kind |-> "settings", table |-> t, settings |-> s])
                      ELSE RowsCall("form", t, {}, Nil, {}, {}, 0))
      BY <1>5 DEF FormSettings
    <2>2. /\ HeaderAgrees(Done([kind |-> "settings", table |-> t, settings |-> s]), installed)
          /\ HeaderAgrees(RowsCall("form", t, {}, Nil, {}, {}, 0), installed)
      BY DEF Done, RowsCall, HeaderAgrees, LookedUp
    <2> QED
      BY <2>1, <2>2, UnknownHeader
  <1> QED
    BY <1>1, <1>2, <1>3, <1>4, <1>5

\* ViewSettings: the header and its map are passed on.
LEMMA ViewSettingsHeader ==
    ASSUME TypesHold, HeadersInv, NEW h \in Handlers, ViewSettings(h)
    PROVE  \E to : Goto(h, to) /\ HeaderAgrees(to, installed)
  <1> DEFINE v == task[h]
             call(select, search) ==
                RowsCall("view", v.table, select, search, SortList(v.header), v.header, v.first)
  <1>1. PICK s \in SettingsSeen(v.table) :
            Goto(h, IF s = Nil THEN Unknown(v.table)
                    ELSE call(IF v.select = {} THEN s["tableViewSelectColumns"] ELSE v.select,
                              IF v.search THEN s["tableViewTextFiltersCols"] ELSE Nil))
    BY DEF ViewSettings
  <1>2. v.first \in 1..Len(installed) /\ v.header = installed[v.first][v.table]
    BY DEF ViewSettings, At, HeadersInv, HeaderAgrees, LookedUp
  <1>3. \A select, search : HeaderAgrees(call(select, search), installed)
    BY <1>2 DEF RowsCall, HeaderAgrees, LookedUp
  <1> HIDE DEF call
  <1> QED
    BY <1>1, <1>3, UnknownHeader

\* RowsTable: the second lookup; if the columns are those of the first, the
\* header and the list of the rows select the same of them.
LEMMA RowsTableHeader ==
    ASSUME TypesHold, InstalledInv, HeadersInv, NEW h \in Handlers, RowsTable(h)
    PROVE  \E to : Goto(h, to) /\ HeaderAgrees(to, installed)
  <1> DEFINE v == task[h]
             columns == tablesMap[v.table]
             shown == SelectList(v.select, columns)
             searched == IF v.search = Nil THEN {} ELSE SearchList(v.search, columns)
  <1>1. PICK query : query = [step |-> "query", kind |-> v.kind, table |-> v.table,
                              header |-> ViewColumns(v.header, v.select), shown |-> shown,
                              reads |-> shown \union searched \union v.sort,
                              first |-> v.first, last |-> Len(installed)]
    OBVIOUS
  <1>2. v.step = "rows" /\ Goto(h, IF columns = Nil THEN Unknown(v.table) ELSE query)
    BY <1>1 DEF RowsTable, At
  <1>3. /\ query.step = "query" /\ query.kind = v.kind /\ query.table = v.table
        /\ query.header = ViewColumns(v.header, v.select) /\ query.shown = shown
        /\ query.first = v.first /\ query.last = Len(installed)
    BY <1>1
  <1>4. proc = "up"
    BY <1>2, AtWork DEF TypesHold
  <1>5. /\ Len(installed) \in Nat /\ tablesMap = installed[Len(installed)]
    BY <1>4, LenProperties DEF InstalledInv, TypesHold, DataOK
  <1>6. ASSUME v.kind = "view" PROVE Announces(query, query.shown, installed)
    <2>1. v.first \in 1..Len(installed) /\ v.header = installed[v.first][v.table]
      BY <1>2, <1>6 DEF HeadersInv, HeaderAgrees, LookedUp
    <2>2. query.first \in 1..Len(installed) /\ query.last \in query.first..Len(installed)
      BY <1>3, <1>5, <2>1
    <2>3. ASSUME \A i \in query.first..query.last :
                     installed[i][query.table] = installed[query.first][query.table]
          PROVE  query.header \in {{}, query.shown}
      <3>1. query.last \in query.first..query.last
        BY <1>5, <2>2
      <3>2. v.header = columns
        BY <1>3, <1>5, <2>1, <2>3, <3>1
      <3>3. ViewColumns(v.header, v.select) \in {{}, shown}
        BY <3>2 DEF ViewColumns, SelectList
      <3> QED
        BY <1>3, <3>3
    <2> QED
      BY <2>2, <2>3 DEF Announces
  <1>7. HeaderAgrees(query, installed)
    BY <1>3, <1>6 DEF HeaderAgrees, LookedUp
  <1> QED
    BY <1>2, <1>7, UnknownHeader

\* QueryRows: the answer carries both on.
LEMMA QueryRowsHeader ==
    ASSUME TypesHold, HeadersInv, NEW h \in Handlers, QueryRows(h)
    PROVE  \E to : Goto(h, to) /\ HeaderAgrees(to, installed)
  <1> DEFINE v == task[h]
             runs == catalog[v.table] # Nil /\ v.reads \subseteq catalog[v.table]
  <1>1. PICK reply : reply = [kind |-> v.kind, table |-> v.table, header |-> v.header,
                              rows |-> v.shown, first |-> v.first, last |-> v.last]
    OBVIOUS
  <1>2. v.step = "query" /\ Goto(h, IF runs THEN Done(reply) ELSE Failed)
    BY <1>1 DEF QueryRows, At
  <1>3. /\ reply.kind = v.kind /\ reply.table = v.table /\ reply.header = v.header
        /\ reply.rows = v.shown /\ reply.first = v.first /\ reply.last = v.last
    BY <1>1
  <1>4. v.kind = "view" => Announces(v, v.shown, installed)
    BY <1>2 DEF HeadersInv, HeaderAgrees
  <1>5. v.kind = "view" => Announces(reply, reply.rows, installed)
    BY <1>3, <1>4 DEF Announces
  <1>6. HeaderAgrees(Done(reply), installed)
    BY <1>3, <1>5 DEF Done, HeaderAgrees, LookedUp
  <1> HIDE DEF runs
  <1> QED
    BY <1>2, <1>6, UnknownHeader

\* The step of one goroutine.
LEMMA HeadersMove ==
    ASSUME TypesHold, HeadersInv, Extends(installed, installed'), NEW p \in Procs, NEW to,
           Goto(p, to), p \in Handlers => HeaderAgrees(to, installed')
    PROVE  HeadersInv'
  <1>1. \A g \in Handlers : (g = p /\ task'[g] = to) \/ task'[g] = task[g]
    BY TaskDomain DEF Goto
  <1>2. \A g \in Handlers : HeaderAgrees(task[g], installed')
    BY HeaderKept DEF HeadersInv
  <1> QED
    BY <1>1, <1>2 DEF HeadersInv

\* Where the process is not up there is no request.
LEMMA HeadersIdle == ASSUME \A h \in Handlers : task'[h] = Idle PROVE HeadersInv'
  <1>1. \A kept : HeaderAgrees(Idle, kept)
    BY NoHeader DEF Idle
  <1> QED
    BY <1>1 DEF HeadersInv

LEMMA HeadersStep ==
    TypesHold /\ TypesHold' /\ InstalledInv /\ HeadersInv /\ [Next]_vars => HeadersInv'
  <1> SUFFICES ASSUME TypesHold, TypesHold', InstalledInv, HeadersInv, [Next]_vars, proc' = "up"
               PROVE  HeadersInv'
    BY HeadersIdle DEF TypesHold, LifeOK
  <1>0. Extends(installed, installed')
    BY InstalledGrows
  <1>1. CASE UNCHANGED task
    <2>1. \A g \in Handlers : HeaderAgrees(task[g], installed')
      BY <1>0, HeaderKept DEF HeadersInv
    <2> QED
      BY <1>1, <2>1 DEF HeadersInv
  <1>2. (UNCHANGED vars) => UNCHANGED task
    BY DEF vars
  <1>3. ASSUME NEW t \in Tables, NEW columns \in Alterations, AlterCatalog(t, columns)
        PROVE  UNCHANGED task
    BY <1>3 DEF AlterCatalog
  <1>4. ASSUME NEW h \in Handlers, Read(h) PROVE HeadersInv'
    <2>1. installed' = installed
      BY <1>4, ReadMoves
    <2>2. \E to : Goto(h, to) /\ HeaderAgrees(to, installed)
      BY <1>4, LookUpHeaders, ViewSettingsHeader, RowsTableHeader, QueryRowsHeader DEF Read
    <2> QED
      BY <1>0, <2>1, <2>2, HeadersMove, TaskDomain
  <1>5. ASSUME NEW h \in Handlers, Update(h) PROVE HeadersInv'
    <2>1. PICK to : /\ Goto(h, to) /\ to.step \in {"done", "store", "storing"}
                    /\ to.step = "done" => to.reply.kind \in {"saved", "cleared", "failed"}
      BY <1>5, UpdateMoves DEF Ends
    <2>2. HeaderAgrees(to, installed')
      BY <2>1, NoHeader
    <2> QED
      BY <1>0, <2>1, <2>2, HeadersMove, TaskDomain
  <1>6. ASSUME NEW p \in Procs, Reload(p) PROVE HeadersInv'
    <2>1. PICK to : /\ Goto(p, to)
                    /\ to.step \in {"done", "names", "columns", "install", "answer", "settings"}
                    /\ to.step = "done" => to.reply.kind = "tables"
      BY <1>6, ReloadMoves
    <2>2. HeaderAgrees(to, installed')
      BY <2>1, NoHeader
    <2> QED
      BY <1>0, <1>6, <2>1, <2>2, HeadersMove
  <1>7. CASE Boot
    <2>1. \E to : Goto(Main, to)
      BY <1>7 DEF Boot, Start, LoadSettings, LoadSettingsFails, CreateAdminTables,
                  StartupFails, Stop, Ends
    <2> QED
      BY <1>0, <2>1, HeadersMove, TaskDomain, HandlersAssumption
  <1> QED
    BY <1>1, <1>2, <1>3, <1>4, <1>5, <1>6, <1>7 DEF Next

\* The columns a view announces are those of its rows, or none, whatever reloads,
\* updates, schema changes and restarts come between its lookups, unless a reload
\* installs other columns for its table between the two lookups of it
\* (core/data_service.go:399-444).
THEOREM HeadersOfHeldColumns == Spec => []ViewHeaderMatches
  <1>1. Init => HeadersInv
    <2> SUFFICES ASSUME Init, NEW h \in Handlers PROVE HeaderAgrees(task[h], installed)
      BY DEF HeadersInv
    <2> QED
      BY NoHeader DEF Init, Idle, Procs
  <1>2. HeadersInv => ViewHeaderMatches
    BY DEF HeadersInv, HeaderAgrees, Announces, ViewHeaderMatches, Replied
  <1>3. Spec => []TypesHold
    BY TypeCorrect, TypeParts, PTL DEF TypesHold
  <1> QED
    BY <1>1, <1>2, <1>3, Installed, HeadersStep, PTL DEF Spec

-----------------------------------------------------------------------------
(* What an unknown table is answered.                                      *)

\* The start-up did not list the table, or a null body has wiped its row.
Excused(t, kept, rows) == kept[1][t] = Nil \/ rows[t] = Null

\* The inductive invariant: an answer "unknown table" is excused if the table
\* was listed, once the start-up has read the settings every other table it
\* listed has some, and an update that is about to store none has wiped the row.
SaysListed(v, kept, rows) ==
    v.step = "done" /\ v.reply.kind = "unknown" =>
        v.reply.table \in Tables /\ (v.reply.listed => Excused(v.reply.table, kept, rows))
StoresNone(v, rows) ==
    v.step \in {"store", "storing"} /\ v.config = Null => v.table \in Tables /\ rows[v.table] = Null
EveryTableHasSettings ==
    proc = "up" \/ task[Main].step = "create" =>
        \A t \in Tables : settingsMap[t] = Nil => Excused(t, installed, config)
ListedInv ==
    /\ \A h \in Handlers : SaysListed(task[h], installed, config) /\ StoresNone(task[h], config)
    /\ EveryTableHasSettings

\* A row that is wiped stays so, and no other step but a save changes rows.
LEMMA RowsKept == TypesHold /\ [Next]_vars => KeepsKeys
  <1> SUFFICES ASSUME TypesHold, [Next]_vars PROVE KeepsKeys
    OBVIOUS
  <1> USE DEF store
  <1>1. (UNCHANGED vars) => KeepsKeys
    BY SaveQuiet DEF vars
  <1>2. ASSUME NEW t \in Tables, NEW columns \in Alterations, AlterCatalog(t, columns)
        PROVE  KeepsKeys
    BY <1>2, SaveQuiet DEF AlterCatalog
  <1>3. ASSUME NEW h \in Handlers, Read(h) PROVE KeepsKeys
    BY <1>3, ReadMoves, SaveQuiet
  <1>4. ASSUME NEW p \in Procs, Reload(p) PROVE KeepsKeys
    BY <1>4, ReloadMoves, SaveQuiet
  <1>5. CASE Boot
    BY <1>5, SaveQuiet DEF Boot, Start, LoadSettings, LoadSettingsFails, CreateAdminTables,
                           StartupFails, Stop, Ends
  <1>6. ASSUME NEW h \in Handlers, Update(h) PROVE KeepsKeys
    <2>1. ASSUME NEW t \in Tables, NEW patch \in Patches, UpsertSettings(h, t, patch)
          PROVE  KeepsKeys
      <3>1. PICK row : row = MergeConfig(config[t], patch)
        OBVIOUS
      <3>2. config' = [config EXCEPT ![t] = row]
        BY <2>1, <3>1 DEF UpsertSettings
      <3> QED
        BY <3>1, <3>2, MergeKeeps
    <2>2. ASSUME NEW t \in Tables, NEW patch \in Patches, UpsertFails(h, t, patch)
          PROVE  KeepsKeys
      <3>1. PICK row \in {config[t], MergeConfig(config[t], patch)} :
                config' = [config EXCEPT ![t] = row]
        BY <2>2 DEF UpsertFails
      <3> QED
        BY <3>1, MergeKeeps
    <2> QED
      BY <1>6, <2>1, <2>2, SaveQuiet DEF Update, BeginStore, EndStore, MapFault, Ends
  <1> QED
    BY <1>1, <1>2, <1>3, <1>4, <1>5, <1>6 DEF Next

\* What is excused stays excused, while the server is up.
LEMMA ExcusedKept ==
    ASSUME TypesHold, InstalledInv, proc = "up", KeepsKeys, Extends(installed, installed')
    PROVE  \A t \in Tables : Excused(t, installed, config) => Excused(t, installed', config')
  <1>1. 1 \in 1..Len(installed)
    BY LenProperties DEF InstalledInv, TypesHold, DataOK
  <1>2. installed'[1] = installed[1]
    BY <1>1 DEF Extends
  <1> QED
    BY <1>2 DEF Excused, KeepsKeys

\* A table that is unknown because it is not listed, or because it is excused.
LEMMA UnknownListed ==
    ASSUME NEW t \in Tables, tablesMap[t] = Nil \/ Excused(t, installed, config)
    PROVE  SaysListed(Unknown(t), installed, config)
  BY DEF Unknown, Done, SaysListed

\* An update stores none only where a null body has wiped the row.
LEMMA SeenNone ==
    ASSUME TypesHold, ListedInv, proc = "up", NEW t \in Tables, Nil \in SettingsSeen(t)
    PROVE  Excused(t, installed, config)
  <1>1. ASSUME NEW q \in Handlers, task[q].step = "storing", task[q].table = t,
               Entry(task[q].config) = Nil
        PROVE  config[t] = Null
    <2>1. task[q] \in StoreTasks
      BY <1>1, TaskFields DEF TypesHold, TasksOK
    <2>2. task[q].config \in Rows /\ TRUE \in Scans(task[q].config)
      BY <2>1 DEF StoreTasks
    <2>3. task[q].config = Null
      BY <1>1, <2>2, EntryType
    <2> QED
      BY <1>1, <2>3 DEF ListedInv, StoresNone
  <1>2. settingsMap[t] = Nil \/ config[t] = Null
    BY <1>1 DEF SettingsSeen, At
  <1> QED
    BY <1>2 DEF ListedInv, EveryTableHasSettings, Excused

\* The readers of one map: a table that is answered as unknown is not listed.
LEMMA LookUpListed ==
    ASSUME TypesHold, ListedInv, NEW h \in Handlers, NEW t \in Tables,
           NEW select, NEW search, NEW insert,
           \/ GetTable(h, t) \/ GetSettings(h, t) \/ ViewTable(h, t, select, search)
           \/ GetRows(h, t, select, search) \/ FormSettings(h, t, insert)
    PROVE  \E to : Goto(h, to) /\ SaysListed(to, installed, config)
  <1>1. CASE GetTable(h, t)
    <2>1. SaysListed(Done([kind |-> "table", table |-> t, header |-> tablesMap[t]]), installed, config)
      BY DEF Done, SaysListed
    <2> QED
      BY <1>1, <2>1, UnknownListed DEF GetTable
  <1>2. CASE GetSettings(h, t)
    <2>1. PICK s \in SettingsSeen(t) :
              Goto(h, IF s = Nil THEN Unknown(t)
                      ELSE Done([kind |-> "settings", table |-> t, settings |-> s]))
      BY <1>2 DEF GetSettings
    <2>2. SaysListed(Done([kind |-> "settings", table |-> t, settings |-> s]), installed, config)
      BY DEF Done, SaysListed
    <2>3. s = Nil => SaysListed(Unknown(t), installed, config)
      BY <1>2, SeenNone, UnknownListed DEF GetSettings, Takes
    <2> QED
      BY <2>1, <2>2, <2>3
  <1>3. CASE ViewTable(h, t, select, search)
    <2>1. SaysListed([step |-> "viewSettings", table |-> t, select |-> select, search |-> search,
                      header |-> tablesMap[t], first |-> Len(installed)], installed, config)
      BY DEF SaysListed
    <2> QED
      BY <1>3, <2>1, UnknownListed DEF ViewTable
  <1>4. CASE GetRows(h, t, select, search)
    <2>1. SaysListed(RowsCall("rows", t, select, IF search THEN {} ELSE Nil, {}, {}, 0),
                     installed, config)
      BY DEF RowsCall, SaysListed
    <2> QED
      BY <1>4, <2>1 DEF GetRows
  <1>5. CASE FormSettings(h, t, insert)
    <2>1. PICK s \in SettingsSeen(t) :
              Goto(h, IF s = Nil THEN Unknown(t)
                      ELSE IF insert
                      THEN Done([kind |-> "settings", table |-> t, settings |-> s])
                      ELSE RowsCall("form", t, {}, Nil, {}, {}, 0))
      BY <1>5 DEF FormSettings
    <2>2. /\ SaysListed(Done([kind |-> "settings", table |-> t, settings |-> s]), installed, config)
          /\ SaysListed(RowsCall("form", t, {}, Nil, {}, {}, 0), installed, config)
      BY DEF Done, RowsCall, SaysListed
    <2>3. s = Nil => SaysListed(Unknown(t), installed, config)
      BY <1>5, SeenNone, UnknownListed DEF FormSettings, Takes
    <2> QED
      BY <2>1, <2>2, <2>3
  <1> QED
    BY <1>1, <1>2, <1>3, <1>4, <1>5

\* The further steps of a view ask for the table and its settings again.
LEMMA ViewListed ==
    ASSUME TypesHold, ListedInv, NEW h \in Handlers,
           ViewSettings(h) \/ RowsTable(h) \/ QueryRows(h)
    PROVE  \E to : Goto(h, to) /\ SaysListed(to, installed, config)
  <1> DEFINE v == task[h]
  <1>1. v.step \in {"viewSettings", "rows", "query"}
    BY DEF ViewSettings, RowsTable, QueryRows, At
  <1>2. v \in ViewTasks /\ proc = "up"
    BY <1>1, TaskFields, AtWork DEF TypesHold, TasksOK
  <1>3. v.table \in Tables /\ (v.step = "query" => v.kind \in {"view", "form", "rows"})
    BY <1>2 DEF ViewTasks
  <1>4. CASE ViewSettings(h)
    <2> DEFINE call(select, search) ==
                  RowsCall("view", v.table, select, search, SortList(v.header), v.header, v.first)
    <2>1. PICK s \in SettingsSeen(v.table) :
              Goto(h, IF s = Nil THEN Unknown(v.table)
                      ELSE call(IF v.select = {} THEN s["tableViewSelectColumns"] ELSE v.select,
                                IF v.search THEN s["tableViewTextFiltersCols"] ELSE Nil))
      BY <1>4 DEF ViewSettings
    <2>2. \A select, search : SaysListed(call(select, search), installed, config)
      BY DEF RowsCall, SaysListed
    <2>3. s = Nil => SaysListed(Unknown(v.table), installed, config)
      BY <1>2, <1>3, SeenNone, UnknownListed
    <2> HIDE DEF call
    <2> QED
      BY <2>1, <2>2, <2>3
  <1>5. CASE RowsTable(h)
    <2>1. PICK query : /\ Goto(h, IF tablesMap[v.table] = Nil THEN Unknown(v.table) ELSE query)
                       /\ query.step = "query"
      BY <1>5 DEF RowsTable
    <2> QED
      BY <1>3, <2>1, UnknownListed DEF SaysListed
  <1>6. CASE QueryRows(h)
    <2>1. PICK reply : /\ Goto(h, Done(reply)) \/ Goto(h, Failed)
                       /\ reply.kind = v.kind /\ v.step = "query"
      BY <1>6 DEF QueryRows, At
    <2>2. SaysListed(Done(reply), installed, config) /\ SaysListed(Failed, installed, config)
      BY <1>3, <2>1 DEF Done, Failed, SaysListed
    <2> QED
      BY <2>1, <2>2
  <1> QED
    BY <1>4, <1>5, <1>6

\* The step of a handler that takes no table's settings away unless a null body
\* has wiped them.
LEMMA ListedMove ==
    ASSUME TypesHold, InstalledInv, ListedInv, KeepsKeys, Extends(installed, installed'),
           proc = "up", NEW h \in Handlers, NEW to, Goto(h, to),
           SaysListed(to, installed', config'), StoresNone(to, config'),
           \A t \in Tables : settingsMap'[t] = Nil => settingsMap[t] = Nil \/ config[t] = Null
    PROVE  ListedInv'
  <1>1. \A g \in Handlers : (g = h /\ task'[g] = to) \/ task'[g] = task[g]
    BY TaskDomain DEF Goto
  <1>2. \A t \in Tables : Excused(t, installed, config) => Excused(t, installed', config')
    BY ExcusedKept
  <1>3. \A g \in Handlers : SaysListed(task[g], installed', config')
    BY <1>2 DEF ListedInv, SaysListed
  <1>4. \A g \in Handlers : StoresNone(task[g], config')
    BY DEF ListedInv, StoresNone, KeepsKeys
  <1>5. EveryTableHasSettings'
    <2>1. ASSUME NEW t \in Tables, settingsMap'[t] = Nil PROVE Excused(t, installed', config')
      <3>1. Excused(t, installed, config)
        BY <2>1 DEF ListedInv, EveryTableHasSettings, Excused
      <3> QED
        BY <1>2, <3>1
    <2> QED
      BY <2>1 DEF EveryTableHasSettings
  <1> QED
    BY <1>1, <1>3, <1>4, <1>5 DEF ListedInv

\* While the process is not up no request is under way, whatever the main
\* goroutine does to the maps.
LEMMA ListedBoot ==
    ASSUME TypesHold, proc # "up", NEW to, Goto(Main, to),
           proc' = "up" \/ to.step = "create" =>
               \A t \in Tables : settingsMap'[t] = Nil => Excused(t, installed', config')
    PROVE  ListedInv'
  <1>1. task'[Main] = to /\ \A g \in Handlers : task'[g] = Idle
    BY TaskDomain, HandlersAssumption DEF Goto, TypesHold, LifeOK
  <1>2. \A kept, rows : SaysListed(Idle, kept, rows) /\ StoresNone(Idle, rows)
    BY DEF Idle, SaysListed, StoresNone
  <1>3. EveryTableHasSettings'
    BY <1>1 DEF EveryTableHasSettings
  <1> QED
    BY <1>1, <1>2, <1>3 DEF ListedInv

LEMMA ListedEnd == ASSUME Ends PROVE ListedInv'
  <1>1. proc' = "down" /\ \A p \in Procs : task'[p].step = "idle"
    BY DEF Ends, Idle
  <1> QED
    BY <1>1 DEF ListedInv, SaysListed, StoresNone, EveryTableHasSettings, Procs

\* The updates of settings: an entry is taken away by the null that wiped its row.
LEMMA UpdateListed ==
    ASSUME TypesHold, InstalledInv, ListedInv, KeepsKeys, NEW h \in Handlers, Update(h), ~Ends
    PROVE  ListedInv'
  <1>0. proc = "up" /\ installed' = installed /\ Extends(installed, installed')
    BY WorksUp, UpdateMoves, LenProperties DEF Extends, TypesHold, DataOK
  <1>1. \A g : SaysListed(Failed, g, config') /\ StoresNone(Failed, config')
    BY DEF Failed, Done, SaysListed, StoresNone
  <1>2. ASSUME NEW t \in Tables, NEW patch \in Patches, UpsertSettings(h, t, patch)
        PROVE  ListedInv'
    <2>1. PICK row : row = MergeConfig(config[t], patch)
      OBVIOUS
    <2>2. PICK to : to = [step |-> "store", table |-> t, patch |-> patch, config |-> row]
      OBVIOUS
    <2>3. /\ config' = [config EXCEPT ![t] = row] /\ settingsMap' = settingsMap
          /\ Goto(h, to) \/ Goto(h, Failed)
      BY <1>2, <2>1, <2>2 DEF UpsertSettings, maps
    <2>4. config'[t] = row
      BY <2>3 DEF TypesHold, DataOK
    <2>5. SaysListed(to, installed', config') /\ StoresNone(to, config')
      BY <2>2, <2>4 DEF SaysListed, StoresNone
    <2> QED
      BY <1>0, <1>1, <2>3, <2>5, ListedMove
  <1>3. ASSUME NEW t \in Tables, NEW patch \in Patches, UpsertFails(h, t, patch)
        PROVE  ListedInv'
    <2>1. settingsMap' = settingsMap /\ Goto(h, Failed)
      BY <1>3 DEF UpsertFails, maps
    <2> QED
      BY <1>0, <1>1, <2>1, ListedMove
  <1>4. CASE BeginStore(h)
    <2>1. PICK to : to = [task[h] EXCEPT !.step = "storing"]
      OBVIOUS
    <2>2. /\ Goto(h, to) /\ task[h].step = "store" /\ UNCHANGED <<config, settingsMap>>
      BY <1>4, <2>1 DEF BeginStore, At, store, maps
    <2>3. task[h] \in StoreTasks
      BY <2>2, TaskFields DEF TypesHold, TasksOK
    <2>4. to.step = "storing" /\ to.config = task[h].config /\ to.table = task[h].table
      BY <2>1, <2>3 DEF StoreTasks
    <2>5. SaysListed(to, installed', config') /\ StoresNone(to, config')
      BY <2>2, <2>4 DEF SaysListed, StoresNone, ListedInv
    <2> QED
      BY <1>0, <2>2, <2>5, ListedMove
  <1>5. CASE EndStore(h)
    <2>1. PICK s : s = Entry(task[h].config)
      OBVIOUS
    <2>2. PICK to : to = Saved(task[h], s)
      OBVIOUS
    <2>3. /\ task[h].step = "storing" /\ Goto(h, to)
          /\ settingsMap' = [settingsMap EXCEPT ![task[h].table] = s] /\ UNCHANGED config
      BY <1>5, <2>1, <2>2 DEF EndStore, At, store
    <2>4. task[h] \in StoreTasks
      BY <2>3, TaskFields DEF TypesHold, TasksOK
    <2>5. task[h].config \in Rows /\ TRUE \in Scans(task[h].config)
      BY <2>4 DEF StoreTasks
    <2>6. s = Nil => config[task[h].table] = Null
      BY <2>1, <2>3, <2>5, EntryType DEF ListedInv, StoresNone
    <2>7. \A t \in Tables : settingsMap'[t] = Nil => settingsMap[t] = Nil \/ config[t] = Null
      BY <2>3, <2>6 DEF TypesHold, DataOK
    <2>8. to.step = "done" /\ to.reply.kind \in {"cleared", "saved"}
      BY <2>2 DEF Saved, Done
    <2>9. SaysListed(to, installed', config') /\ StoresNone(to, config')
      BY <2>8 DEF SaysListed, StoresNone
    <2> QED
      BY <1>0, <2>3, <2>7, <2>9, ListedMove
  <1>6. ~MapFault(h)
    BY DEF MapFault
  <1> QED
    BY <1>2, <1>3, <1>4, <1>5, <1>6 DEF Update

\* The start-up: it reads settings for every table it has listed.
LEMMA BootListed ==
    ASSUME TypesHold, InstalledInv, ListedInv, Boot
    PROVE  ListedInv'
  <1> USE DEF process, maps, history
  <1>1. CASE Start
    <2>1. Goto(Main, [step |-> "names", since |-> Len(catalogs)]) /\ proc' = "boot" /\ proc = "down"
      BY <1>1 DEF Start
    <2> QED
      BY <2>1, ListedBoot
  <1>2. CASE LoadSettings
    <2>1. /\ task[Main].step = "settings" /\ Goto(Main, [step |-> "create"])
          /\ settingsMap' = [t \in Tables |-> StartupSettings(t)]
          /\ UNCHANGED <<tablesMap, installed, config, proc>>
          /\ \A t \in Listed : TRUE \in StartupReads(t)
      BY <1>2 DEF LoadSettings, At, store
    <2>2. proc = "boot"
      BY <2>1 DEF TypesHold, LifeOK, Idle
    <2>3. tablesMap = installed[1]
      BY <2>1 DEF InstalledInv, Settling
    <2>4. ASSUME NEW t \in Tables, settingsMap'[t] = Nil PROVE Excused(t, installed', config')
      <3>1. StartupSettings(t) = Nil
        BY <2>1, <2>4
      <3>2. tablesMap[t] = Nil
        BY <2>1, <3>1, StartupType DEF TypesHold
      <3> QED
        BY <2>1, <2>3, <3>2 DEF Excused
    <2> QED
      BY <2>1, <2>2, <2>4, ListedBoot
  <1>3. CASE CreateAdminTables
    <2>1. /\ proc = "boot" /\ task[Main].step = "create" /\ Goto(Main, Idle)
          /\ UNCHANGED <<settingsMap, installed, config>>
      BY <1>3 DEF CreateAdminTables, At, TypesHold, LifeOK, Idle
    <2>2. \A t \in Tables : settingsMap'[t] = Nil => Excused(t, installed', config')
      BY <2>1 DEF ListedInv, EveryTableHasSettings
    <2> QED
      BY <2>1, <2>2, ListedBoot
  <1>4. CASE LoadSettingsFails \/ StartupFails \/ Stop
    BY <1>4, ListedEnd DEF LoadSettingsFails, StartupFails, Stop
  <1> QED
    BY <1>1, <1>2, <1>3, <1>4 DEF Boot

\* A load installs tables and leaves the settings alone.
LEMMA ReloadListed ==
    ASSUME TypesHold, InstalledInv, ListedInv, KeepsKeys, NEW p \in Procs, Reload(p)
    PROVE  ListedInv'
  <1>1. UNCHANGED <<settingsMap, proc, config>>
    BY ReloadMoves
  <1>2. PICK to : /\ Goto(p, to)
                  /\ to.step \in {"done", "names", "columns", "install", "answer", "settings"}
                  /\ to.step = "done" => to.reply.kind = "tables"
    BY ReloadMoves
  <1>3. CASE p = Main
    <2>1. task[p].step # "idle"
      BY <1>3, HandlersAssumption
      DEF Reload, BeginReload, LoadNames, LoadColumns, InstallTables, LoadFails, AnswerTables, At, Takes
    <2>2. proc = "boot"
      BY <1>3, <2>1 DEF TypesHold, LifeOK, Idle
    <2> QED
      BY <1>1, <1>2, <1>3, <2>2, ListedBoot
  <1>4. CASE p \in Handlers
    <2>1. proc = "up"
      BY <1>4 DEF Reload, BeginReload, LoadNames, LoadColumns, InstallTables, LoadFails,
                  AnswerTables, At, Takes, TypesHold, LifeOK, Idle
    <2>2. Extends(installed, installed')
      BY ReloadMoves, AddsMap, LenProperties DEF Extends, TypesHold, DataOK
    <2>3. SaysListed(to, installed', config') /\ StoresNone(to, config')
      BY <1>2 DEF SaysListed, StoresNone
    <2> QED
      BY <1>1, <1>2, <1>4, <2>1, <2>2, <2>3, ListedMove
  <1> QED
    BY <1>3, <1>4 DEF Procs

LEMMA ListedStep == TypesHold /\ InstalledInv /\ ListedInv /\ [Next]_vars => ListedInv'
  <1> SUFFICES ASSUME TypesHold, InstalledInv, ListedInv, [Next]_vars
               PROVE  ListedInv'
    OBVIOUS
  <1>0. KeepsKeys
    BY RowsKept
  <1>1. CASE UNCHANGED <<proc, config, installed, settingsMap, task>>
    BY <1>1 DEF ListedInv, EveryTableHasSettings
  <1>2. (UNCHANGED vars) => UNCHANGED <<proc, config, installed, settingsMap, task>>
    BY DEF vars, process, history, maps, store
  <1>3. ASSUME NEW t \in Tables, NEW columns \in Alterations, AlterCatalog(t, columns)
        PROVE  UNCHANGED <<proc, config, installed, settingsMap, task>>
    BY <1>3 DEF AlterCatalog, process, history, maps, store
  <1>4. ASSUME NEW h \in Handlers, Read(h) PROVE ListedInv'
    <2>1. /\ UNCHANGED <<installed, config, settingsMap, proc>>
          /\ proc = "up" /\ Extends(installed, installed')
      BY <1>4, ReadMoves, WorksUp, LenProperties DEF Extends, TypesHold, DataOK
    <2>2. PICK to : Goto(h, to) /\ SaysListed(to, installed, config)
      BY <1>4, LookUpListed, ViewListed DEF Read
    <2>3. PICK to2 : Goto(h, to2) /\ to2.step \in {"done", "viewSettings", "rows", "query"}
      BY <1>4, ReadMoves
    <2>4. to2 = to
      BY <2>2, <2>3, TaskDomain DEF Goto
    <2>5. StoresNone(to, config')
      BY <2>3, <2>4 DEF StoresNone
    <2> QED
      BY <1>0, <2>1, <2>2, <2>5, ListedMove
  <1>5. ASSUME NEW h \in Handlers, Update(h) PROVE ListedInv'
    BY <1>0, <1>5, UpdateListed, ListedEnd
  <1> QED
    BY <1>0, <1>1, <1>2, <1>3, <1>4, <1>5, BootListed, ReloadListed DEF Next

\* No table that the start-up listed is answered as unknown while it is listed,
\* by any of the five requests that ask for one, whatever reloads, updates, schema
\* changes and restarts do, unless a null body has wiped its row
\* (core/schema_service.go:205-217, 227-235, 305-313).
THEOREM ListedOfStartup == Spec => []UnknownIsNotListed
  <1>1. Init => ListedInv
    <2> SUFFICES ASSUME Init PROVE ListedInv
      OBVIOUS
    <2>1. proc = "down" /\ \A p \in Procs : task[p].step = "idle"
      BY DEF Init, Idle
    <2> QED
      BY <2>1 DEF ListedInv, SaysListed, StoresNone, EveryTableHasSettings, Procs
  <1>2. ListedInv => UnknownIsNotListed
    BY DEF ListedInv, SaysListed, Excused, UnknownIsNotListed, Replied
  <1>3. Spec => []TypesHold
    BY TypeCorrect, TypeParts, PTL DEF TypesHold
  <1> QED
    BY <1>1, <1>2, <1>3, Installed, ListedStep, PTL DEF Spec

-----------------------------------------------------------------------------
(* What a reload answers.                                                  *)

\* Names, and a map, that were read from catalogs since one of them, without a
\* statement that failed or a row that was lost.
NamesSince(names, since, cats) ==
    since \in 1..Len(cats) /\ \E i \in since..Len(cats) : names = ListedTables(cats[i])
MapSince(map, since, cats) ==
    /\ since \in 1..Len(cats)
    /\ \E i \in since..Len(cats) : \E j \in i..Len(cats) :
          map = FetchedMap(ListedTables(cats[i]), cats[j])

\* What a reload holds that has lost nothing, and the map it has installed, are
\* that fresh.
OwnSince(r, kept, cats) ==
    r.own # 0 => r.own \in 1..Len(kept) /\ MapSince(kept[r.own], r.since, cats)
Fresh(v, kept, cats) ==
    /\ v.step = "columns" /\ v.whole => NamesSince(v.names, v.since, cats)
    /\ v.step = "install" /\ v.whole => MapSince(v.map, v.since, cats)
    /\ v.step = "answer" => OwnSince(v, kept, cats)
    /\ v.step = "done" /\ v.reply.kind = "tables" => OwnSince(v.reply, kept, cats)

\* The inductive invariant.
FreshInv == \A h \in Handlers : Fresh(task[h], installed, catalogs)

\* The schema's history only grows.
LEMMA CatalogsGrow ==
    ASSUME TypesHold, [Next]_vars
    PROVE  Extends(catalogs, catalogs')
  <1>1. CASE UNCHANGED catalogs
    BY <1>1, LenProperties DEF Extends, TypesHold, DataOK
  <1> USE DEF database
  <1>2. (UNCHANGED vars) => UNCHANGED catalogs
    BY DEF vars
  <1>3. ASSUME NEW t \in Tables, NEW columns \in Alterations, AlterCatalog(t, columns)
        PROVE  Extends(catalogs, catalogs')
    <2>1. catalogs' = Append(catalogs, catalog')
      BY <1>3 DEF AlterCatalog
    <2>2. catalog \in TablesMaps
      BY ElementOfSeq DEF TypesHold, DataOK
    <2>3. catalog' \in TablesMaps
      BY <1>3, <2>2, InputsAssumption DEF AlterCatalog, TablesMaps
    <2>4. catalogs \in Seq(TablesMaps) /\ Len(catalogs) \in Nat
      BY LenProperties DEF TypesHold, DataOK
    <2>5. Len(catalogs') = Len(catalogs) + 1 /\ \A i \in 1..Len(catalogs) : catalogs'[i] = catalogs[i]
      BY <2>1, <2>3, <2>4, AppendProperties
    <2> QED
      BY <2>4, <2>5 DEF Extends
  <1>4. Boot => UNCHANGED catalogs
    BY DEF Boot, Start, LoadSettings, LoadSettingsFails, CreateAdminTables, StartupFails, Stop, Ends
  <1>5. ASSUME NEW p \in Procs, Reload(p) PROVE UNCHANGED catalogs
    BY <1>5, ReloadMoves
  <1>6. ASSUME NEW h \in Handlers, Read(h) \/ Update(h) PROVE UNCHANGED catalogs
    BY <1>6, ReadMoves, UpdateMoves DEF Ends
  <1> QED
    BY <1>1, <1>2, <1>3, <1>4, <1>5, <1>6 DEF Next

\* What is fresh stays so when the schema changes again, and when other maps are
\* installed.
LEMMA SinceKept ==
    ASSUME NEW old, NEW new, Extends(old, new), NEW since
    PROVE  /\ \A names : NamesSince(names, since, old) => NamesSince(names, since, new)
           /\ \A map : MapSince(map, since, old) => MapSince(map, since, new)
  <1>0. Len(old) \in Nat /\ Len(new) \in Nat /\ Len(old) <= Len(new)
    BY DEF Extends
  <1>1. \A i \in 1..Len(old) : i \in 1..Len(new) /\ new[i] = old[i]
    BY DEF Extends
  <1>2. ASSUME since \in 1..Len(old), NEW i \in since..Len(old)
        PROVE  i \in since..Len(new) /\ new[i] = old[i]
    BY <1>0, <1>1, <1>2
  <1>3. ASSUME NEW names, NamesSince(names, since, old)
        PROVE  NamesSince(names, since, new)
    BY <1>1, <1>2, <1>3 DEF NamesSince
  <1>4. ASSUME NEW map, MapSince(map, since, old)
        PROVE  MapSince(map, since, new)
    <2>1. since \in 1..Len(old) /\ since \in 1..Len(new)
      BY <1>1, <1>4 DEF MapSince
    <2>2. PICK i \in since..Len(old) : \E j \in i..Len(old) :
              map = FetchedMap(ListedTables(old[i]), old[j])
      BY <1>4 DEF MapSince
    <2>3. PICK j \in i..Len(old) : map = FetchedMap(ListedTables(old[i]), old[j])
      BY <2>2
    <2>4. j \in since..Len(old) /\ j \in i..Len(new)
      BY <1>0, <2>1, <2>2, <2>3
    <2>5. i \in since..Len(new) /\ new[i] = old[i] /\ new[j] = old[j]
      BY <1>2, <2>1, <2>2, <2>4
    <2> QED
      BY <2>1, <2>3, <2>4, <2>5 DEF MapSince
  <1> QED
    BY <1>3, <1>4

LEMMA FreshKept ==
    ASSUME NEW v, NEW kept, NEW kept2, Extends(kept, kept2), NEW cats, NEW cats2, Extends(cats, cats2),
           Fresh(v, kept, cats)
    PROVE  Fresh(v, kept2, cats2)
  <1>1. \A i \in 1..Len(kept) : i \in 1..Len(kept2) /\ kept2[i] = kept[i]
    BY DEF Extends
  <1>2. \A r : OwnSince(r, kept, cats) => OwnSince(r, kept2, cats2)
    BY <1>1, SinceKept DEF OwnSince
  <1> QED
    BY <1>2, SinceKept DEF Fresh

\* The step of one goroutine.
LEMMA FreshMoves ==
    ASSUME TypesHold, FreshInv, Extends(catalogs, catalogs'), Extends(installed, installed'),
           NEW p \in Procs, NEW to, Goto(p, to),
           p \in Handlers => Fresh(to, installed', catalogs')
    PROVE  FreshInv'
  <1>1. \A g \in Handlers : (g = p /\ task'[g] = to) \/ task'[g] = task[g]
    BY TaskDomain DEF Goto
  <1>2. \A g \in Handlers : Fresh(task[g], installed', catalogs')
    BY FreshKept DEF FreshInv
  <1> QED
    BY <1>1, <1>2 DEF FreshInv

\* A goroutine that is at no load holds and answers no tables.
LEMMA NoTables ==
    ASSUME NEW to, to.step \notin {"columns", "install", "answer"},
           to.step = "done" => to.reply.kind # "tables"
    PROVE  \A kept, cats : Fresh(to, kept, cats)
  BY DEF Fresh

LEMMA FreshIdle == ASSUME \A h \in Handlers : task'[h] = Idle PROVE FreshInv'
  <1>1. \A kept, cats : Fresh(Idle, kept, cats)
    BY NoTables DEF Idle
  <1> QED
    BY <1>1 DEF FreshInv

\* LoadNames: the names are those of the catalog of that moment, or not whole.
LEMMA LoadNamesFresh ==
    ASSUME TypesHold, NEW p \in Procs, LoadNames(p)
    PROVE  \E to : Goto(p, to) /\ Fresh(to, installed, catalogs)
  <1>1. PICK names : Goto(p, [step |-> "columns", since |-> task[p].since, names |-> names,
                              whole |-> names = ListedTables(catalog)])
    BY DEF LoadNames
  <1>2. PICK to : to = [step |-> "columns", since |-> task[p].since, names |-> names,
                        whole |-> names = ListedTables(catalog)]
    OBVIOUS
  <1>3. /\ to.step = "columns" /\ to.since = task[p].since /\ to.names = names
        /\ to.whole => names = ListedTables(catalog)
    BY <1>2
  <1>4. /\ task[p].since \in 1..Len(catalogs) /\ Len(catalogs) \in Nat
        /\ catalog = catalogs[Len(catalogs)]
    BY LoadFields, LenProperties DEF LoadNames, At, TypesHold, DataOK
  <1>5. Len(catalogs) \in task[p].since..Len(catalogs)
    BY <1>4
  <1>6. to.whole => NamesSince(to.names, to.since, catalogs)
    BY <1>3, <1>4, <1>5 DEF NamesSince
  <1>7. Fresh(to, installed, catalogs)
    BY <1>3, <1>6 DEF Fresh
  <1> QED
    BY <1>1, <1>2, <1>7

\* LoadColumns: so are the columns, at that moment or later.
LEMMA LoadColumnsFresh ==
    ASSUME TypesHold, FreshInv, NEW p \in Handlers, LoadColumns(p)
    PROVE  \E to : Goto(p, to) /\ Fresh(to, installed, catalogs)
  <1> DEFINE full == FetchedMap(task[p].names, catalog)
  <1>1. PICK m : Goto(p, [step |-> "install", since |-> task[p].since, map |-> m,
                          whole |-> task[p].whole /\ m = full])
    BY DEF LoadColumns
  <1>2. PICK to : to = [step |-> "install", since |-> task[p].since, map |-> m,
                        whole |-> task[p].whole /\ m = full]
    OBVIOUS
  <1>3. /\ to.step = "install" /\ to.since = task[p].since /\ to.map = m
        /\ to.whole => task[p].whole /\ m = full
    BY <1>2
  <1>4. Len(catalogs) \in Nat /\ catalog = catalogs[Len(catalogs)]
    BY LenProperties DEF TypesHold, DataOK
  <1>5. ASSUME to.whole PROVE MapSince(m, task[p].since, catalogs)
    <2>1. NamesSince(task[p].names, task[p].since, catalogs)
      BY <1>3, <1>5 DEF LoadColumns, At, FreshInv, Fresh
    <2>2. PICK i \in task[p].since..Len(catalogs) : task[p].names = ListedTables(catalogs[i])
      BY <2>1 DEF NamesSince
    <2>3. task[p].since \in 1..Len(catalogs)
      BY <2>1 DEF NamesSince
    <2>4. Len(catalogs) \in i..Len(catalogs)
      BY <1>4, <2>2, <2>3
    <2>5. m = FetchedMap(ListedTables(catalogs[i]), catalogs[Len(catalogs)])
      BY <1>3, <1>4, <1>5, <2>2
    <2> QED
      BY <2>2, <2>3, <2>4, <2>5 DEF MapSince
  <1>6. Fresh(to, installed, catalogs)
    BY <1>3, <1>5 DEF Fresh
  <1> QED
    BY <1>1, <1>2, <1>6

\* InstallTables: its own map is the last of the installed ones.
LEMMA InstallTablesFresh ==
    ASSUME TypesHold, FreshInv, NEW p \in Handlers, InstallTables(p)
    PROVE  \E to : Goto(p, to) /\ Fresh(to, installed', catalogs)
  <1>1. PICK to : to = AfterInstall(p)
    OBVIOUS
  <1>2. /\ task[p].step = "install" /\ Goto(p, to) /\ p # Main /\ p \in Procs
    BY <1>1, TaskDomain, HandlersAssumption DEF InstallTables, At
  <1>3. /\ to.step = "answer" /\ to.since = task[p].since
        /\ to.own = IF task[p].whole THEN Len(installed) + 1 ELSE 0
    BY <1>1, <1>2 DEF AfterInstall
  <1>4. /\ Len(installed) \in Nat /\ Len(installed') = Len(installed) + 1
        /\ installed'[Len(installed')] = task[p].map
    BY <1>2, AddsMap DEF Extends
  <1>5. task[p].whole => MapSince(task[p].map, task[p].since, catalogs)
    BY <1>2 DEF FreshInv, Fresh
  <1>6. OwnSince(to, installed', catalogs)
    BY <1>3, <1>4, <1>5 DEF OwnSince
  <1>7. Fresh(to, installed', catalogs)
    BY <1>3, <1>6 DEF Fresh
  <1> QED
    BY <1>2, <1>7

\* A step of a reload.
LEMMA ReloadFresh ==
    ASSUME TypesHold, FreshInv, NEW p \in Handlers, Reload(p)
    PROVE  \E to : Goto(p, to) /\ Fresh(to, installed', catalogs)
  <1> USE DEF process, history
  <1>0. p \in Procs
    BY TaskDomain
  <1>1. CASE BeginReload(p)
    <2>1. PICK to : to = [step |-> "names", since |-> Len(catalogs)]
      OBVIOUS
    <2>2. Goto(p, to)
      BY <1>1, <2>1 DEF BeginReload
    <2>3. Fresh(to, installed', catalogs)
      BY <2>1 DEF Fresh
    <2> QED
      BY <2>2, <2>3
  <1>2. CASE LoadFails(p)
    <2>1. PICK to : to = [step |-> "answer", since |-> task[p].since, own |-> 0]
      OBVIOUS
    <2>2. Goto(p, to) /\ to.step = "answer" /\ to.own = 0
      BY <1>2, <2>1 DEF LoadFails
    <2>3. Fresh(to, installed', catalogs)
      BY <2>2 DEF Fresh, OwnSince
    <2> QED
      BY <2>2, <2>3
  <1>3. CASE AnswerTables(p)
    <2>1. PICK reply : reply = [kind |-> "tables", since |-> task[p].since, own |-> task[p].own,
                                map |-> tablesMap]
      OBVIOUS
    <2>2. Goto(p, Done(reply)) /\ installed' = installed /\ task[p].step = "answer"
      BY <1>3, <2>1 DEF AnswerTables, At
    <2>3. reply.since = task[p].since /\ reply.own = task[p].own
      BY <2>1
    <2>4. OwnSince(task[p], installed, catalogs)
      BY <2>2 DEF FreshInv, Fresh
    <2>5. OwnSince(reply, installed, catalogs)
      BY <2>3, <2>4 DEF OwnSince
    <2>6. Fresh(Done(reply), installed', catalogs)
      BY <2>2, <2>5 DEF Done, Fresh
    <2> QED
      BY <2>2, <2>6
  <1>4. CASE LoadNames(p) \/ LoadColumns(p)
    <2>1. installed' = installed
      BY <1>4 DEF LoadNames, LoadColumns
    <2> QED
      BY <1>0, <1>4, <2>1, LoadNamesFresh, LoadColumnsFresh
  <1> QED
    BY <1>1, <1>2, <1>3, <1>4, InstallTablesFresh DEF Reload

LEMMA FreshStep == TypesHold /\ TypesHold' /\ FreshInv /\ [Next]_vars => FreshInv'
  <1> SUFFICES ASSUME TypesHold, TypesHold', FreshInv, [Next]_vars, proc' = "up"
               PROVE  FreshInv'
    BY FreshIdle DEF TypesHold, LifeOK
  <1>0. Extends(catalogs, catalogs') /\ Extends(installed, installed')
    BY CatalogsGrow, InstalledGrows
  <1>1. CASE UNCHANGED task
    <2>1. \A g \in Handlers : Fresh(task[g], installed', catalogs')
      BY <1>0, FreshKept DEF FreshInv
    <2> QED
      BY <1>1, <2>1 DEF FreshInv
  <1>2. (UNCHANGED vars) => UNCHANGED task
    BY DEF vars
  <1>3. ASSUME NEW t \in Tables, NEW columns \in Alterations, AlterCatalog(t, columns)
        PROVE  UNCHANGED task
    BY <1>3 DEF AlterCatalog
  <1>4. ASSUME NEW h \in Handlers, Read(h) PROVE FreshInv'
    <2>1. PICK to : /\ Goto(h, to) /\ to.step \in {"done", "viewSettings", "rows", "query"}
                    /\ to.step = "done" => to.reply.kind \notin {"saved", "tables"}
      BY <1>4, ReadMoves
    <2>2. Fresh(to, installed', catalogs')
      BY <2>1, NoTables
    <2> QED
      BY <1>0, <2>1, <2>2, FreshMoves, TaskDomain
  <1>5. ASSUME NEW h \in Handlers, Update(h) PROVE FreshInv'
    <2>1. PICK to : /\ Goto(h, to) /\ to.step \in {"done", "store", "storing"}
                    /\ to.step = "done" => to.reply.kind \in {"saved", "cleared", "failed"}
      BY <1>5, UpdateMoves DEF Ends
    <2>2. Fresh(to, installed', catalogs')
      BY <2>1, NoTables
    <2> QED
      BY <1>0, <2>1, <2>2, FreshMoves, TaskDomain
  <1>6. ASSUME NEW p \in Procs, Reload(p) PROVE FreshInv'
    <2>1. \E to : Goto(p, to) /\ (p \in Handlers => Fresh(to, installed', catalogs'))
      BY <1>6, ReloadMoves, ReloadFresh
    <2> QED
      BY <1>0, <2>1, FreshMoves
  <1>7. CASE Boot
    <2>1. \E to : Goto(Main, to)
      BY <1>7 DEF Boot, Start, LoadSettings, LoadSettingsFails, CreateAdminTables,
                  StartupFails, Stop, Ends
    <2> QED
      BY <1>0, <2>1, FreshMoves, TaskDomain, HandlersAssumption
  <1> QED
    BY <1>1, <1>2, <1>3, <1>4, <1>5, <1>6, <1>7 DEF Next

\* A reload of which no statement failed and no row was lost answers tables that
\* were read since its request came in, whatever other reloads, failures, updates
\* and schema changes run meanwhile, unless another reload installs other tables
\* between its own installation and its answer (core/schema_service.go:219-225).
THEOREM FreshOfOwnLoad == Spec => []FreshReload
  <1>1. Init => FreshInv
    <2> SUFFICES ASSUME Init PROVE \A h \in Handlers : task[h] = Idle
      <3>1. \A kept, cats : Fresh(Idle, kept, cats)
        BY NoTables DEF Idle
      <3> QED
        BY <3>1 DEF FreshInv
    <2> QED
      BY DEF Init, Procs
  <1>2. FreshInv => FreshReload
    <2> SUFFICES ASSUME FreshInv, NEW h \in Handlers, Replied(h, "tables"), task[h].reply.own # 0,
                        task[h].reply.map = installed[task[h].reply.own]
                 PROVE  \E i \in task[h].reply.since..Len(catalogs) : \E j \in i..Len(catalogs) :
                            Loaded(task[h].reply.map, ListedTables(catalogs[i]), i, j)
      BY DEF FreshReload
    <2>1. MapSince(task[h].reply.map, task[h].reply.since, catalogs)
      BY DEF FreshInv, Fresh, OwnSince, Replied
    <2> QED
      BY <2>1 DEF MapSince, Loaded
  <1>3. Spec => []TypesHold
    BY TypeCorrect, TypeParts, PTL DEF TypesHold
  <1> QED
    BY <1>1, <1>2, <1>3, FreshStep, PTL DEF Spec

-----------------------------------------------------------------------------
(* What is served after a save.                                            *)

Storing == {"store", "storing"}

\* Every non-empty list of a row is the list that is served for its table.
ServesRow(t) ==
    \A f \in Fields : settingsMap[t] # Nil /\ Decode(config[t])[f] # {} =>
        settingsMap[t][f] = Decode(config[t])[f]

\* The inductive invariant: an update of a table that is not behind holds the
\* row the database holds; with none under way such a table is served from its
\* row, from the moment the start-up has read it.
HoldsItsRow(h) ==
    task[h].step \in Storing /\ task[h].table \notin behind => task[h].config = config[task[h].table]
Serves(t) == t \in behind \/ UpdateUnderWay(t) \/ ServesRow(t)
SettledInv ==
    /\ \A h \in Handlers : HoldsItsRow(h)
    /\ proc = "up" \/ task[Main].step = "create" => \A t \in Tables : Serves(t)

\* Neither a reader nor a load is an update under way.
LEMMA NotStoring ==
    ASSUME NEW p \in Procs, Reload(p) \/ Read(p)
    PROVE  task[p].step \notin Storing
  BY DEF Reload, BeginReload, LoadNames, LoadColumns, InstallTables, LoadFails, AnswerTables,
         Read, GetTable, GetSettings, ViewTable, GetRows, FormSettings, ViewSettings, RowsTable,
         QueryRows, Takes, At, Storing

\* The step of a goroutine that is no update.
LEMMA SettledMoves ==
    ASSUME TypesHold, SettledInv, UNCHANGED <<config, settingsMap, behind>>,
           NEW p \in Procs, NEW to, Goto(p, to), p \notin Handlers \/ task[p].step \notin Storing,
           p \notin Handlers \/ to.step \notin Storing,
           proc' = "up" \/ task'[Main].step = "create" => proc = "up" \/ task[Main].step = "create"
    PROVE  SettledInv'
  <1>1. /\ task'[p] = to
        /\ \A g \in Handlers : g # p => task'[g] = task[g]
    BY TaskDomain DEF Goto
  <1>2. \A g \in Handlers : HoldsItsRow(g)'
    BY <1>1 DEF SettledInv, HoldsItsRow
  <1>3. \A t \in Tables : UpdateUnderWay(t) => UpdateUnderWay(t)'
    BY <1>1 DEF UpdateUnderWay, Storing
  <1>4. \A t \in Tables : ServesRow(t) => ServesRow(t)'
    BY DEF ServesRow, Decode
  <1> QED
    BY <1>2, <1>3, <1>4 DEF SettledInv, Serves

LEMMA SettledEnds == ASSUME Ends PROVE SettledInv'
  <1>1. proc' = "down" /\ \A p \in Procs : task'[p].step = "idle"
    BY DEF Ends, Idle
  <1> QED
    BY <1>1 DEF SettledInv, HoldsItsRow, Storing, Procs

\* A statement of an update on one table, after which the table is behind or its
\* one update under way holds the new row.
LEMMA StatementSettled ==
    ASSUME TypesHold, SettledInv, proc = "up", NEW h \in Handlers, task[h].step \notin Storing,
           NEW to, Goto(h, to), NEW t \in Tables, NEW row, config' = [config EXCEPT ![t] = row],
           UNCHANGED settingsMap, behind \ {t} \subseteq behind', behind' \subseteq behind \union {t},
           to.step \in Storing => to.table = t /\ to.config = row,
           \/ t \in behind'
           \/ to.step \in Storing /\ ~UpdateUnderWay(t)
           \/ to.step \notin Storing /\ row = config[t] /\ t \notin behind
    PROVE  SettledInv'
  <1>1. /\ task'[h] = to /\ \A g \in Handlers : g # h => task'[g] = task[g]
    BY TaskDomain DEF Goto
  <1>2. config'[t] = row /\ \A u \in Tables : u # t => config'[u] = config[u]
    BY DEF TypesHold, DataOK
  <1>3. ASSUME NEW g \in Handlers PROVE HoldsItsRow(g)'
    <2>1. CASE g = h
      BY <1>1, <1>2, <2>1 DEF HoldsItsRow
    <2>2. CASE g # h
      <3>1. SUFFICES ASSUME task[g].step \in Storing, task[g].table \notin behind'
                     PROVE  task[g].config = config'[task[g].table]
        BY <1>1, <2>2 DEF HoldsItsRow
      <3>2. task[g] \in StoreTasks
        BY <3>1, TaskFields DEF TypesHold, TasksOK, Storing
      <3>3. task[g].table \in Tables
        BY <3>2 DEF StoreTasks
      <3>4. CASE task[g].table = t
        <4>1. ~UpdateUnderWay(t) => FALSE
          BY <3>1, <3>4 DEF UpdateUnderWay, Storing
        <4>2. row = config[t] /\ t \notin behind
          BY <3>1, <3>4, <4>1
        <4> QED
          BY <1>2, <3>1, <3>4, <4>2 DEF SettledInv, HoldsItsRow
      <3>5. CASE task[g].table # t
        BY <1>2, <3>1, <3>3, <3>5 DEF SettledInv, HoldsItsRow
      <3> QED
        BY <3>4, <3>5
    <2> QED
      BY <2>1, <2>2
  <1>4. ASSUME NEW u \in Tables PROVE Serves(u)'
    <2>1. UpdateUnderWay(u) => UpdateUnderWay(u)'
      BY <1>1 DEF UpdateUnderWay, Storing
    <2>2. Serves(u)
      BY DEF SettledInv
    <2>3. CASE u # t
      <3>1. ServesRow(u) => ServesRow(u)'
        BY <1>2, <2>3 DEF ServesRow, Decode
      <3> QED
        BY <2>1, <2>2, <2>3, <3>1 DEF Serves
    <2>4. CASE u = t /\ to.step \in Storing
      BY <1>1, <2>4 DEF Serves, UpdateUnderWay, Storing
    <2>5. CASE u = t /\ to.step \notin Storing /\ t \notin behind'
      <3>1. config'[u] = config[u] /\ u \notin behind
        BY <1>2, <2>5
      <3>2. ServesRow(u) => ServesRow(u)'
        BY <3>1 DEF ServesRow, Decode
      <3> QED
        BY <2>1, <2>2, <3>1, <3>2 DEF Serves
    <2> QED
      BY <2>3, <2>4, <2>5 DEF Serves
  <1> QED
    BY <1>3, <1>4 DEF SettledInv

\* UpsertSettings: its table is being updated now, by no other update, or is
\* behind; the rows of other tables are not touched.
LEMMA UpsertSettled ==
    ASSUME TypesHold, SettledInv, NEW h \in Handlers, NEW t \in Tables,
           NEW patch \in Patches, UpsertSettings(h, t, patch)
    PROVE  SettledInv'
  <1>1. PICK row : row = MergeConfig(config[t], patch)
    OBVIOUS
  <1>2. PICK to : to = [step |-> "store", table |-> t, patch |-> patch, config |-> row]
    OBVIOUS
  <1>3. /\ task[h].step \notin Storing /\ proc = "up"
        /\ config' = [config EXCEPT ![t] = row] /\ settingsMap' = settingsMap
        /\ \/ Goto(h, to) /\ behind' = IF UpdateUnderWay(t) THEN behind \union {t} ELSE behind \ {t}
           \/ Goto(h, Failed) /\ behind' = behind \union {t}
    BY <1>1, <1>2 DEF UpsertSettings, Takes, Storing, maps
  <1>4. to.step = "store" /\ to.table = t /\ to.config = row
    BY <1>2
  <1>5. CASE Goto(h, to) /\ behind' = IF UpdateUnderWay(t) THEN behind \union {t} ELSE behind \ {t}
    <2>1. /\ behind \ {t} \subseteq behind' /\ behind' \subseteq behind \union {t}
          /\ t \in behind' \/ ~UpdateUnderWay(t)
      BY <1>5
    <2>2. to.step \in Storing
      BY <1>4 DEF Storing
    <2> QED
      BY <1>3, <1>4, <1>5, <2>1, <2>2, StatementSettled
  <1>6. CASE Goto(h, Failed) /\ behind' = behind \union {t}
    <2>1. Failed.step \notin Storing
      BY DEF Failed, Done, Storing
    <2>2. behind \ {t} \subseteq behind' /\ behind' \subseteq behind \union {t} /\ t \in behind'
      BY <1>6
    <2> QED
      BY <1>3, <1>6, <2>1, <2>2, StatementSettled
  <1> QED
    BY <1>3, <1>5, <1>6

\* UpsertFails: the row is as it was, or the table is behind.
LEMMA UpsertFailsSettled ==
    ASSUME TypesHold, SettledInv, NEW h \in Handlers, NEW t \in Tables, NEW patch \in Patches,
           UpsertFails(h, t, patch)
    PROVE  SettledInv'
  <1>1. PICK row : /\ config' = [config EXCEPT ![t] = row]
                   /\ behind' = IF row = config[t] THEN behind ELSE behind \union {t}
    BY DEF UpsertFails
  <1>2. /\ task[h].step \notin Storing /\ proc = "up" /\ Goto(h, Failed)
        /\ settingsMap' = settingsMap
    BY DEF UpsertFails, Storing, maps
  <1>3. Failed.step \notin Storing
    BY DEF Failed, Done, Storing
  <1>4. /\ behind \ {t} \subseteq behind' /\ behind' \subseteq behind \union {t}
        /\ t \in behind' \/ (row = config[t] /\ t \notin behind)
    BY <1>1
  <1> QED
    BY <1>1, <1>2, <1>3, <1>4, StatementSettled

\* BeginStore: the update goes on with the same table and the same row.
LEMMA BeginStoreSettled ==
    ASSUME TypesHold, SettledInv, NEW h \in Handlers, BeginStore(h)
    PROVE  SettledInv'
  <1>1. PICK to : to = [task[h] EXCEPT !.step = "storing"]
    OBVIOUS
  <1>2. /\ task[h].step = "store" /\ Goto(h, to)
        /\ UNCHANGED <<config, settingsMap, behind, proc>>
    BY <1>1 DEF BeginStore, At, store, process, history, maps
  <1>3. task[h] \in StoreTasks
    BY <1>2, TaskFields DEF TypesHold, TasksOK
  <1>4. to.step = "storing" /\ to.table = task[h].table /\ to.config = task[h].config
    BY <1>1, <1>3 DEF StoreTasks
  <1>5. /\ task'[h] = to /\ task'[Main] = task[Main]
        /\ \A g \in Handlers : g # h => task'[g] = task[g]
    BY <1>2, TaskDomain, HandlersAssumption DEF Goto
  <1>6. \A g \in Handlers : HoldsItsRow(g)'
    BY <1>2, <1>4, <1>5 DEF SettledInv, HoldsItsRow, Storing
  <1>7. \A t \in Tables : UpdateUnderWay(t) => UpdateUnderWay(t)'
    BY <1>4, <1>5 DEF UpdateUnderWay
  <1>8. \A t \in Tables : ServesRow(t) => ServesRow(t)'
    BY <1>2 DEF ServesRow, Decode
  <1> QED
    BY <1>2, <1>5, <1>6, <1>7, <1>8 DEF SettledInv, Serves

\* EndStore: the row the update holds is the row of the database.
LEMMA EndStoreSettled ==
    ASSUME TypesHold, SettledInv, NEW h \in Handlers, EndStore(h)
    PROVE  SettledInv'
  <1>1. PICK t : t = task[h].table
    OBVIOUS
  <1>2. PICK s : s = Entry(task[h].config)
    OBVIOUS
  <1>3. PICK to : to = Saved(task[h], s)
    OBVIOUS
  <1>4. /\ task[h].step = "storing" /\ Goto(h, to)
        /\ settingsMap' = [settingsMap EXCEPT ![t] = s]
        /\ UNCHANGED <<config, behind, proc>>
    BY <1>1, <1>2, <1>3 DEF EndStore, At, store, process, history
  <1>5. t \notin behind => task[h].config = config[t]
    BY <1>1, <1>4 DEF SettledInv, HoldsItsRow, Storing
  <1>6. /\ task'[h] = to /\ task'[Main] = task[Main]
        /\ \A g \in Handlers : g # h => task'[g] = task[g]
    BY <1>4, TaskDomain, HandlersAssumption DEF Goto
  <1>7. to.step \notin Storing
    BY <1>3 DEF Saved, Done, Storing
  <1>8. \A g \in Handlers : HoldsItsRow(g)'
    BY <1>4, <1>6, <1>7 DEF SettledInv, HoldsItsRow
  <1>9. ASSUME proc' = "up" \/ task'[Main].step = "create", NEW u \in Tables
        PROVE  Serves(u)'
    <2>1. CASE u = t /\ u \notin behind
      <3>1. settingsMap'[u] = Nil \/ settingsMap'[u] = Decode(config'[u])
        BY <1>2, <1>4, <1>5, <2>1 DEF TypesHold, DataOK, Entry, Decode
      <3> QED
        BY <3>1 DEF Serves, ServesRow, Decode
    <2>2. CASE u # t
      <3>1. UpdateUnderWay(u) => UpdateUnderWay(u)'
        BY <1>1, <1>6, <2>2 DEF UpdateUnderWay
      <3>2. settingsMap'[u] = settingsMap[u]
        BY <1>4, <2>2 DEF TypesHold, DataOK
      <3>3. ServesRow(u) => ServesRow(u)'
        BY <1>4, <3>2 DEF ServesRow, Decode
      <3> QED
        BY <1>4, <1>6, <1>9, <3>1, <3>3 DEF SettledInv, Serves
    <2> QED
      BY <1>4, <2>1, <2>2 DEF Serves
  <1> QED
    BY <1>8, <1>9 DEF SettledInv

\* LoadSettings: the defaults fill in empty lists only, and no update runs.
LEMMA LoadSettingsSettled ==
    ASSUME TypesHold, SettledInv, LoadSettings
    PROVE  SettledInv'
  <1>1. /\ Goto(Main, [step |-> "create"]) /\ UNCHANGED config
        /\ settingsMap' = [t \in Tables |-> StartupSettings(t)]
    BY DEF LoadSettings, store
  <1>2. proc = "boot"
    BY DEF LoadSettings, At, TypesHold, LifeOK, Idle
  <1>3. \A g \in Handlers : task'[g] = Idle
    BY <1>1, <1>2, TaskDomain, HandlersAssumption DEF Goto, TypesHold, LifeOK
  <1>4. ASSUME NEW t \in Tables PROVE ServesRow(t)'
    <2> SUFFICES ASSUME NEW f \in Fields, settingsMap'[t] # Nil, Decode(config[t])[f] # {}
                 PROVE  settingsMap'[t][f] = Decode(config[t])[f]
      BY <1>1 DEF ServesRow, Decode
    <2>1. settingsMap'[t] = WithDefaults(Decode(config[t]), tablesMap[t])
      BY <1>1 DEF StartupSettings
    <2> QED
      BY <2>1 DEF WithDefaults
  <1> QED
    BY <1>3, <1>4 DEF SettledInv, Serves, HoldsItsRow, Idle, Storing

\* Readers and loads.
LEMMA AskSettled ==
    ASSUME TypesHold, SettledInv, NEW p \in Procs, Reload(p) \/ (p \in Handlers /\ Read(p))
    PROVE  SettledInv'
  <1>1. task[p].step \notin Storing
    BY NotStoring
  <1>2. UNCHANGED <<config, settingsMap, proc, behind>>
    BY ReloadMoves, ReadMoves
  <1>3. \E to : Goto(p, to) /\ to.step \notin Storing /\ to.step # "create"
    BY ReloadMoves, ReadMoves DEF Storing
  <1>4. task'[Main].step = "create" => task[Main].step = "create"
    BY <1>3, TaskDomain DEF Goto
  <1> QED
    BY <1>1, <1>2, <1>3, <1>4, SettledMoves

\* The start-up and the ends of the process.
LEMMA BootSettled ==
    ASSUME TypesHold, SettledInv, Boot
    PROVE  SettledInv'
  <1>0. Main \in Procs /\ Main \notin Handlers
    BY TaskDomain, HandlersAssumption
  <1> USE DEF store, maps, process, history
  <1>1. CASE Start
    <2>1. task'[Main].step = "names" /\ proc' = "boot"
      BY <1>1, TaskDomain DEF Start, Goto
    <2> QED
      BY <1>0, <1>1, <2>1, SettledMoves DEF Start
  <1>2. CASE CreateAdminTables
    BY <1>0, <1>2, SettledMoves DEF CreateAdminTables, At
  <1>3. CASE LoadSettingsFails \/ StartupFails \/ Stop
    BY <1>3, SettledEnds DEF LoadSettingsFails, StartupFails, Stop
  <1> QED
    BY <1>1, <1>2, <1>3, LoadSettingsSettled DEF Boot

LEMMA SettledStep == TypesHold /\ SettledInv /\ [Next]_vars => SettledInv'
  <1> SUFFICES ASSUME TypesHold, SettledInv, [Next]_vars
               PROVE  SettledInv'
    OBVIOUS
  <1>1. CASE UNCHANGED <<config, settingsMap, task, behind, proc>>
    BY <1>1 DEF SettledInv, Serves, HoldsItsRow, UpdateUnderWay, ServesRow, Decode
  <1>2. (UNCHANGED vars) => UNCHANGED <<config, settingsMap, task, behind, proc>>
    BY DEF vars, store, maps, process, history
  <1>3. ASSUME NEW t \in Tables, NEW columns \in Alterations, AlterCatalog(t, columns)
        PROVE  UNCHANGED <<config, settingsMap, task, behind, proc>>
    BY <1>3 DEF AlterCatalog, store, maps, process, history
  <1>4. ASSUME NEW h \in Handlers, Update(h) PROVE SettledInv'
    BY <1>4, UpsertSettled, UpsertFailsSettled, BeginStoreSettled, EndStoreSettled, SettledEnds
    DEF Update, MapFault
  <1> QED
    BY <1>1, <1>2, <1>3, <1>4, BootSettled, AskSettled, TaskDomain DEF Next

\* What was saved is what is served, across updates of any number of tables by
\* any number of administrators, failures, reloads and restarts, but for the
\* tables whose row was committed while another update of it was under way or by
\* one that was answered with an error (core/schema_service.go:205-217, 315-340).
THEOREM ServedUnlessBehind == Spec => []SettledUnlessBehind
  <1>1. Init => SettledInv
    <2> SUFFICES ASSUME Init PROVE SettledInv
      OBVIOUS
    <2>1. proc = "down" /\ \A p \in Procs : task[p].step = "idle"
      BY DEF Init, Idle
    <2> QED
      BY <2>1 DEF SettledInv, HoldsItsRow, Storing, Procs
  <1>2. SettledInv => SettledUnlessBehind
    BY DEF SettledInv, Serves, ServesRow, SettledUnlessBehind
  <1>3. Spec => []TypesHold
    BY TypeCorrect, TypeParts, PTL DEF TypesHold
  <1> QED
    BY <1>1, <1>2, <1>3, SettledStep, PTL DEF Spec

=============================================================================

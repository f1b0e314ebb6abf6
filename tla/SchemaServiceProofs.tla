------------------------ MODULE SchemaServiceProofs ------------------------
(***************************************************************************)
(* Theorems about SchemaService for every value of its constants: types,   *)
(* what the cache of settings serves, and what the installed tables are.   *)
(***************************************************************************)
EXTENDS SchemaService, SequenceTheorems, TLAPS

\* What the parts of TypeOK say: of the data, of the goroutines' states, and
\* of when goroutines exist.
DataOK ==
    /\ catalogs \in Seq(TablesMaps) /\ Len(catalogs) >= 1
    /\ catalog = catalogs[Len(catalogs)]
    /\ config \in [Tables -> {Nil} \union Rows]
    /\ committed \in [Tables -> SUBSET ({Nil} \union Rows)]
    /\ adminTables \in BOOLEAN
    /\ proc \in {"down", "boot", "up"}
    /\ tablesMap \in TablesMaps
    /\ settingsMap \in [Tables -> {Nil} \union Settings]
    /\ requests \in Nat /\ faults \in Nat /\ stops \in Nat
    /\ installed \in Seq(TablesMaps) /\ behind \subseteq Tables
TasksOK ==
    /\ DOMAIN task = Procs
    /\ task[Main] \in MainTasks
    /\ \A h \in Handlers : task[h] \in HandlerTasks
LifeOK ==
    /\ proc # "up" => \A h \in Handlers : task[h] = Idle
    /\ proc # "boot" => task[Main] = Idle

\* TypeOK is the conjunction of its parts.
LEMMA TypeParts == TypeOK <=> DataOK /\ TasksOK /\ LifeOK
  BY DEF TypeOK, DataOK, TasksOK, LifeOK

-----------------------------------------------------------------------------
(* Helpers.                                                                *)

\* What Scan accepts decodes to settings, whichever keys are missing.
LEMMA DecodeType ==
    ASSUME NEW row \in {Nil} \union Rows, row = Nil \/ TRUE \in Scans(row)
    PROVE  Decode(row) \in Settings
  <1> SUFFICES ASSUME NEW f \in Fields
               PROVE  (IF row \in {Nil, Null} THEN {} ELSE IF row[f] = Nil THEN {} ELSE row[f])
                      \in ColumnSet
    BY DEF Decode, Settings
  <1>1. {} \in ColumnSet
    BY DEF ColumnSet
  <1>2. CASE row \in {Nil, Null}
    BY <1>1, <1>2
  <1>3. CASE row \notin {Nil, Null}
    <2>1. row \in Configs /\ TRUE \in Scans(row)
      BY <1>3 DEF Rows
    <2>2. row[f] \in {Nil, Bad} \union ColumnSet
      BY <2>1 DEF Configs
    <2>3. \A g \in Fields : row[g] # Bad
      BY <1>3, <2>1 DEF Scans
    <2> QED
      BY <1>1, <1>3, <2>2, <2>3
  <1> QED
    BY <1>2, <1>3

\* The entry an update keeps of a row that Scan accepts.
LEMMA EntryType ==
    ASSUME NEW row \in Rows, TRUE \in Scans(row)
    PROVE  Entry(row) \in {Nil} \union Settings /\ (row # Null => Entry(row) # Nil)
  <1>1. Decode(row) \in Settings
    BY DecodeType
  <1> QED
    BY <1>1, ColumnsAssumption DEF Entry

\* The settings a start-up keeps for a table it lists.
LEMMA StartupType ==
    ASSUME DataOK, NEW t \in Tables, t \in Listed => TRUE \in StartupReads(t)
    PROVE  /\ StartupSettings(t) \in {Nil} \union Settings
           /\ tablesMap[t] # Nil => StartupSettings(t) # Nil
  <1>1. CASE tablesMap[t] = Nil
    BY <1>1 DEF StartupSettings
  <1>2. CASE tablesMap[t] # Nil
    <2>1. tablesMap[t] \in ColumnSet
      BY <1>2 DEF DataOK, TablesMaps
    <2>2. config[t] \in {Nil} \union Rows /\ (config[t] = Nil \/ TRUE \in Scans(config[t]))
      BY <1>2 DEF DataOK, Listed, StartupReads
    <2>3. Decode(config[t]) \in Settings
      BY <2>2, DecodeType
    <2>4. \A f \in Fields : Default(f, tablesMap[t]) \in ColumnSet
      BY <2>1 DEF Default, ColumnSet
    <2>5. WithDefaults(Decode(config[t]), tablesMap[t]) \in Settings
      BY <2>3, <2>4 DEF WithDefaults, Settings
    <2> QED
      BY <1>2, <2>5, ColumnsAssumption DEF StartupSettings
  <1> QED
    BY <1>1, <1>2

\* A save makes a row of a row or of none.
LEMMA MergeType ==
    ASSUME DataOK, NEW t \in Tables, NEW patch \in Patches
    PROVE  MergeConfig(config[t], patch) \in Rows
  <1>1. patch \in Rows /\ config[t] \in {Nil} \union Rows
    BY InputsAssumption DEF DataOK
  <1>2. CASE Null \in {config[t], patch}
    BY <1>2 DEF MergeConfig, Rows
  <1>3. CASE Null \notin {config[t], patch} /\ config[t] = Nil
    BY <1>1, <1>3 DEF MergeConfig
  <1>4. CASE Null \notin {config[t], patch} /\ config[t] # Nil
    <2>1. config[t] \in Configs /\ patch \in Configs
      BY <1>1, <1>4 DEF Rows
    <2>2. MergeConfig(config[t], patch) \in Configs
      BY <1>4, <2>1 DEF MergeConfig, Configs
    <2> QED
      BY <2>2 DEF Rows
  <1> QED
    BY <1>2, <1>3, <1>4

\* What a goroutine in the middle of a request remembers.
LEMMA TaskFields ==
    ASSUME NEW v \in HandlerTasks
    PROVE  /\ v.step \in {"names", "answer", "columns", "install"} => v.since \in 1..Len(catalogs)
           /\ v.step = "columns" => v.names \in SUBSET Tables /\ v.whole \in BOOLEAN
           /\ v.step = "install" => v.map \in TablesMaps /\ v.whole \in BOOLEAN
           /\ v.step = "answer" => v.own \in Nat
           /\ v.step \in {"store", "storing"} => v \in StoreTasks
           /\ v.step \in {"viewSettings", "rows", "query"} => v \in ViewTasks
  <1>1. CASE v \in LoadTasks \union AnswerTasks
    BY <1>1 DEF LoadTasks, AnswerTasks
  <1>2. CASE v \in StoreTasks
    BY <1>2 DEF StoreTasks
  <1>3. CASE v \in ViewTasks
    BY <1>3 DEF ViewTasks
  <1>4. CASE v = Idle \/ v.step = "done"
    BY <1>4 DEF Idle
  <1> QED
    BY <1>1, <1>2, <1>3, <1>4 DEF HandlerTasks

\* The types of goroutines grow with the catalogs and with nothing else.
LEMMA TypesKept ==
    UNCHANGED catalogs => HandlerTasks' = HandlerTasks /\ MainTasks' = MainTasks
  BY DEF HandlerTasks, MainTasks, LoadTasks, AnswerTasks, StoreTasks, ViewTasks, Replies, Idle,
         TablesMaps, Configs, Rows, Scans, Settings, ColumnSet, Fields

-----------------------------------------------------------------------------
(* Steps of one goroutine.                                                 *)

\* A handler of a server that is up goes to any of its control points.
LEMMA HandlerMoves ==
    ASSUME TasksOK, LifeOK, proc = "up", UNCHANGED <<catalogs, proc>>,
           NEW h \in Handlers, NEW to \in HandlerTasks, Goto(h, to)
    PROVE  TasksOK' /\ LifeOK'
  <1>1. h # Main /\ h \in Procs /\ Main \in Procs
    BY HandlersAssumption DEF Procs
  <1>2. /\ DOMAIN task' = Procs
        /\ task'[Main] = task[Main]
        /\ \A g \in Handlers : task'[g] = task[g] \/ task'[g] = to
    BY <1>1, HandlersAssumption DEF Goto, TasksOK, Procs
  <1>3. TasksOK'
    BY <1>2, TypesKept DEF TasksOK
  <1>4. LifeOK'
    BY <1>2 DEF LifeOK
  <1> QED
    BY <1>3, <1>4

\* The main goroutine of a process that starts, or is done with it.
LEMMA MainMoves ==
    ASSUME TasksOK, LifeOK, proc # "up", UNCHANGED catalogs,
           NEW to \in MainTasks, Goto(Main, to), proc' = "boot" \/ (proc' = "up" /\ to = Idle)
    PROVE  TasksOK' /\ LifeOK'
  <1>1. Main \in Procs /\ \A h \in Handlers : h # Main /\ h \in Procs
    BY HandlersAssumption DEF Procs
  <1>2. /\ DOMAIN task' = Procs
        /\ task'[Main] = to
        /\ \A g \in Handlers : task'[g] = task[g]
    BY <1>1 DEF Goto, TasksOK
  <1>3. TasksOK'
    BY <1>2, TypesKept DEF TasksOK
  <1>4. LifeOK'
    BY <1>2 DEF LifeOK
  <1> QED
    BY <1>3, <1>4

\* The process ends, and every goroutine with it.
LEMMA EndsTyped ==
    ASSUME DataOK, Ends, requests' \in Nat, faults' \in Nat, stops' \in Nat
    PROVE  DataOK' /\ TasksOK' /\ LifeOK'
  <1>1. /\ proc' = "down" /\ task' = [p \in Procs |-> Idle]
        /\ tablesMap' = [t \in Tables |-> Nil] /\ settingsMap' = [t \in Tables |-> Nil]
        /\ installed' = <<>> /\ behind' = {}
        /\ UNCHANGED <<catalog, catalogs, config, committed, adminTables>>
    BY DEF Ends, database, store
  <1>2. DataOK'
    BY <1>1 DEF DataOK, TablesMaps, Settings, Configs, Rows, Scans, ColumnSet
  <1>3. Main \in Procs /\ Handlers \subseteq Procs
    BY DEF Procs
  <1>4. TasksOK' /\ LifeOK'
    BY <1>1, <1>3 DEF TasksOK, LifeOK, HandlerTasks, MainTasks
  <1> QED
    BY <1>2, <1>4

\* A handler that holds a control point of a request is in a server that is up.
LEMMA AtWork ==
    ASSUME TasksOK, LifeOK, NEW h \in Handlers, task[h].step # "idle"
    PROVE  proc = "up" /\ task[h] \in HandlerTasks
  BY DEF TasksOK, LifeOK, Idle

\* A step that leaves the database, the settings, the maps and the process
\* alone keeps the types of the data.
LEMMA DataKept ==
    ASSUME DataOK, UNCHANGED <<database, store, process, maps>>,
           Continues \/ Faulty \/ \E h \in Handlers : Takes(h)
    PROVE  DataOK' /\ UNCHANGED <<catalogs, proc>>
  BY DEF DataOK, database, store, process, history, maps, Continues, Faulty, Takes, counters,
         TablesMaps, Settings, Configs, Rows, Scans, ColumnSet, Fields

-----------------------------------------------------------------------------
(* The actions, each of which keeps the types.                             *)

TypesHold == DataOK /\ TasksOK /\ LifeOK

\* A request is answered, or goes on, without changing what it reads.
LEMMA HandlerReads ==
    ASSUME TypesHold, UNCHANGED <<database, store, process, maps>>,
           Continues \/ Faulty \/ \E g \in Handlers : Takes(g),
           NEW h \in Handlers, proc = "up", NEW to \in HandlerTasks, Goto(h, to)
    PROVE  TypesHold'
  <1>1. DataOK' /\ UNCHANGED <<catalogs, proc>>
    BY DataKept DEF TypesHold
  <1>2. TasksOK' /\ LifeOK'
    BY <1>1, HandlerMoves DEF TypesHold
  <1> QED
    BY <1>1, <1>2 DEF TypesHold

LEMMA UnknownType == \A t \in Tables : Unknown(t) \in HandlerTasks
  <1> SUFFICES ASSUME NEW t \in Tables PROVE Unknown(t) \in HandlerTasks
    OBVIOUS
  <1> DEFINE reply == [kind |-> "unknown", table |-> t, listed |-> tablesMap[t] # Nil]
  <1>1. (tablesMap[t] # Nil) \in BOOLEAN
    OBVIOUS
  <1>2. reply \in Replies
    BY <1>1, Zenon DEF Replies
  <1> QED
    BY <1>2 DEF Unknown, Done, HandlerTasks

LEMMA ReplyType == \A reply \in Replies : Done(reply) \in HandlerTasks
  BY DEF Done, HandlerTasks

LEMMA FailedType == Failed \in HandlerTasks
  BY DEF Failed, Done, HandlerTasks, Replies

\* BeginReload.
LEMMA BeginReloadTyped ==
    ASSUME TypesHold, NEW h \in Procs, BeginReload(h)
    PROVE  TypesHold'
  <1> DEFINE to == [step |-> "names", since |-> Len(catalogs)]
  <1>1. /\ h \in Handlers /\ proc = "up" /\ Takes(h) /\ Goto(h, to)
        /\ UNCHANGED <<database, store, process, maps>>
    BY DEF BeginReload, Takes
  <1>2. Len(catalogs) \in 1..Len(catalogs)
    BY LenProperties DEF TypesHold, DataOK
  <1>3. to \in HandlerTasks
    BY <1>2 DEF HandlerTasks, LoadTasks
  <1> HIDE DEF to
  <1> QED
    BY <1>1, <1>3, HandlerReads

\* What a goroutine that loads the tables, the main one included, remembers.
LEMMA LoadFields ==
    ASSUME TypesHold, NEW p \in Procs
    PROVE  /\ task[p].step \in {"names", "answer", "columns", "install"} =>
                task[p].since \in 1..Len(catalogs)
           /\ task[p].step = "columns" => task[p].names \in SUBSET Tables /\ task[p].whole \in BOOLEAN
           /\ task[p].step = "install" => task[p].map \in TablesMaps /\ task[p].whole \in BOOLEAN
           /\ task[p].step = "answer" => task[p].own \in Nat
  <1>1. CASE p \in Handlers
    BY <1>1, TaskFields DEF TypesHold, TasksOK
  <1>2. CASE p = Main
    <2>1. task[p] \in MainTasks
      BY <1>2 DEF TypesHold, TasksOK
    <2> QED
      BY <2>1 DEF MainTasks, LoadTasks, Idle
  <1> QED
    BY <1>1, <1>2 DEF Procs

\* A goroutine that loads the tables goes on with the load.
LEMMA LoadMoves ==
    ASSUME TypesHold, UNCHANGED <<database, store, process, maps>>, Continues \/ Faulty,
           NEW p \in Procs, task[p].step # "idle", NEW to \in LoadTasks, Goto(p, to)
    PROVE  TypesHold'
  <1>1. CASE p \in Handlers
    <2>1. proc = "up"
      BY <1>1, AtWork DEF TypesHold
    <2>2. to \in HandlerTasks
      BY DEF HandlerTasks
    <2> QED
      BY <1>1, <2>1, <2>2, HandlerReads
  <1>2. CASE p = Main
    <2>1. proc = "boot"
      BY <1>2 DEF TypesHold, LifeOK, Idle
    <2>2. to \in MainTasks
      BY DEF MainTasks
    <2>3. DataOK' /\ UNCHANGED <<catalogs, proc>>
      BY DataKept DEF TypesHold
    <2>4. TasksOK' /\ LifeOK'
      BY <1>2, <2>1, <2>2, <2>3, MainMoves DEF TypesHold
    <2> QED
      BY <2>3, <2>4 DEF TypesHold
  <1> QED
    BY <1>1, <1>2 DEF Procs

\* LoadNames: the names are tables.
LEMMA LoadNamesTyped ==
    ASSUME TypesHold, NEW p \in Procs, LoadNames(p)
    PROVE  TypesHold'
  <1>1. ListedTables(catalog) \in SUBSET Tables
    BY InputsAssumption DEF ListedTables
  <1>2. PICK names \in SUBSET ListedTables(catalog) :
            /\ Continues \/ Faulty
            /\ Goto(p, [step |-> "columns", since |-> task[p].since, names |-> names,
                        whole |-> names = ListedTables(catalog)])
    BY DEF LoadNames
  <1> DEFINE whole == names = ListedTables(catalog)
             to == [step |-> "columns", since |-> task[p].since, names |-> names,
                    whole |-> whole]
  <1>3. task[p].step # "idle" /\ UNCHANGED <<database, store, process, maps>> /\ Goto(p, to)
    BY <1>2 DEF LoadNames, At
  <1>4. whole \in BOOLEAN
    OBVIOUS
  <1> HIDE DEF whole
  <1>5. to \in LoadTasks
    BY <1>1, <1>4, LoadFields DEF LoadNames, At, LoadTasks
  <1> HIDE DEF to
  <1> QED
    BY <1>2, <1>3, <1>5, LoadMoves

\* LoadColumns: what arrived is a map.
LEMMA LoadColumnsTyped ==
    ASSUME TypesHold, NEW p \in Procs, LoadColumns(p)
    PROVE  TypesHold'
  <1>1. PICK m \in CutShort(FetchedMap(task[p].names, catalog)) :
            /\ Continues \/ Faulty
            /\ Goto(p, [step |-> "install", since |-> task[p].since, map |-> m,
                        whole |-> task[p].whole
                                  /\ m = FetchedMap(task[p].names, catalog)])
    BY DEF LoadColumns
  <1> DEFINE whole == task[p].whole /\ m = FetchedMap(task[p].names, catalog)
             to == [step |-> "install", since |-> task[p].since, map |-> m, whole |-> whole]
  <1>2. m \in TablesMaps /\ whole \in BOOLEAN
    BY DEF CutShort
  <1>3. task[p].step # "idle" /\ UNCHANGED <<database, store, process, maps>> /\ Goto(p, to)
    BY <1>1 DEF LoadColumns, At
  <1> HIDE DEF whole
  <1>4. to \in LoadTasks
    BY <1>2, LoadFields DEF LoadColumns, At, LoadTasks
  <1> HIDE DEF to
  <1> QED
    BY <1>1, <1>3, <1>4, LoadMoves

\* LoadFails: the handler answers what is installed.
LEMMA LoadFailsTyped ==
    ASSUME TypesHold, NEW h \in Procs, LoadFails(h)
    PROVE  TypesHold'
  <1> DEFINE to == [step |-> "answer", since |-> task[h].since, own |-> 0]
  <1>1. /\ h \in Handlers /\ task[h].step \in {"names", "columns"} /\ task[h].step # "idle"
        /\ Faulty /\ Goto(h, to) /\ UNCHANGED <<database, store, process, maps>>
    BY DEF LoadFails
  <1>2. proc = "up"
    BY <1>1, AtWork DEF TypesHold
  <1>3. to \in HandlerTasks
    BY <1>1, LoadFields DEF HandlerTasks, AnswerTasks
  <1> HIDE DEF to
  <1> QED
    BY <1>1, <1>2, <1>3, HandlerReads

\* InstallTables: the map that was loaded becomes the map of the service.
LEMMA InstallTablesTyped ==
    ASSUME TypesHold, NEW p \in Procs, InstallTables(p)
    PROVE  TypesHold'
  <1>1. /\ task[p].step = "install" /\ task[p].step # "idle" /\ tablesMap' = task[p].map
        /\ installed' = Append(installed, task[p].map) /\ Goto(p, AfterInstall(p))
        /\ UNCHANGED <<catalog, catalogs, config, committed, adminTables, proc, stops,
                       behind, settingsMap, requests, faults>>
    BY DEF InstallTables, At, database, store, Continues, counters
  <1>2. task[p].map \in TablesMaps /\ task[p].since \in 1..Len(catalogs)
    BY <1>1, LoadFields
  <1>6. installed' \in Seq(TablesMaps) /\ Len(installed) \in Nat
    BY <1>1, <1>2, AppendProperties, LenProperties DEF TypesHold, DataOK
  <1>3. DataOK'
    BY <1>1, <1>2, <1>6 DEF TypesHold, DataOK, TablesMaps, Settings, Configs, Rows, Scans, ColumnSet, Fields
  <1>4. CASE p = Main
    <2> DEFINE to == [step |-> "settings"]
    <2>1. proc = "boot"
      BY <1>1, <1>4 DEF TypesHold, LifeOK, Idle
    <2>2. to \in MainTasks /\ Goto(Main, to)
      BY <1>1, <1>4 DEF MainTasks, AfterInstall
    <2> HIDE DEF to
    <2> QED
      BY <1>1, <1>3, <2>1, <2>2, MainMoves DEF TypesHold
  <1>5. CASE p # Main
    <2> DEFINE own == IF task[p].whole THEN Len(installed) + 1 ELSE 0
               to == [step |-> "answer", since |-> task[p].since, own |-> own]
    <2>1. p \in Handlers
      BY <1>5 DEF Procs
    <2>2. proc = "up"
      BY <1>1, <2>1, AtWork DEF TypesHold
    <2>3. Goto(p, to)
      BY <1>1, <1>5 DEF AfterInstall
    <2>4. own \in Nat
      BY <1>6
    <2> HIDE DEF own
    <2>5. to \in HandlerTasks
      BY <1>2, <2>4 DEF HandlerTasks, AnswerTasks
    <2> HIDE DEF to
    <2> QED
      BY <1>1, <1>3, <2>1, <2>2, <2>3, <2>5, HandlerMoves DEF TypesHold
  <1> QED
    BY <1>4, <1>5

\* AnswerTables: only a handler ever has a reload to answer.
LEMMA AnswerTablesTyped ==
    ASSUME TypesHold, NEW h \in Procs, AnswerTables(h)
    PROVE  TypesHold'
  <1> DEFINE reply == [kind |-> "tables", since |-> task[h].since, own |-> task[h].own,
                       map |-> tablesMap]
             to == Done(reply)
  <1>1. /\ task[h].step = "answer" /\ task[h].step # "idle" /\ Goto(h, to) /\ Continues
        /\ UNCHANGED <<database, store, process, maps>>
    BY DEF AnswerTables, At
  <1>2. h \in Handlers
    BY <1>1 DEF Procs, TypesHold, TasksOK, MainTasks, LoadTasks, Idle
  <1>3. proc = "up"
    BY <1>1, <1>2, AtWork DEF TypesHold
  <1>4. task[h].since \in 1..Len(catalogs) /\ task[h].own \in Nat /\ tablesMap \in TablesMaps
    BY <1>1, LoadFields DEF TypesHold, DataOK
  <1>5. reply \in Replies
    BY <1>4 DEF Replies
  <1> HIDE DEF reply
  <1>6. to \in HandlerTasks
    BY <1>5, ReplyType
  <1> HIDE DEF to
  <1> QED
    BY <1>1, <1>2, <1>3, <1>6, HandlerReads

-----------------------------------------------------------------------------
(* The start-up and the end of the process.                                *)

\* Start: the main goroutine begins the load.
LEMMA StartTyped ==
    ASSUME TypesHold, Start
    PROVE  TypesHold'
  <1> DEFINE to == [step |-> "names", since |-> Len(catalogs)]
  <1>1. /\ proc = "down" /\ proc' = "boot" /\ Goto(Main, to)
        /\ UNCHANGED <<catalog, catalogs, config, committed, adminTables, tablesMap,
                       settingsMap, stops, installed, behind, requests, faults>>
    BY DEF Start, database, store, maps, history, Continues, counters
  <1>2. DataOK'
    BY <1>1 DEF TypesHold, DataOK, TablesMaps, Settings, Configs, Rows, Scans, ColumnSet, Fields
  <1>3. Len(catalogs) \in 1..Len(catalogs)
    BY LenProperties DEF TypesHold, DataOK
  <1>4. to \in MainTasks
    BY <1>3 DEF MainTasks, LoadTasks
  <1> HIDE DEF to
  <1> QED
    BY <1>1, <1>2, <1>4, MainMoves DEF TypesHold

\* LoadSettings: every table of the map gets settings, and no other.
LEMMA LoadSettingsTyped ==
    ASSUME TypesHold, LoadSettings
    PROVE  TypesHold'
  <1> DEFINE to == [step |-> "create"]
  <1>1. /\ task[Main].step = "settings" /\ Goto(Main, to)
        /\ settingsMap' = [t \in Tables |-> StartupSettings(t)]
        /\ UNCHANGED <<catalog, catalogs, config, committed, adminTables, proc, tablesMap,
                       stops, installed, behind, requests, faults>>
    BY DEF LoadSettings, At, database, store, process, history, Continues, counters
  <1>2. proc = "boot"
    BY <1>1 DEF TypesHold, LifeOK, Idle
  <1>7. \A t \in Tables : t \in Listed => TRUE \in StartupReads(t)
    BY DEF LoadSettings
  <1>3. settingsMap' \in [Tables -> {Nil} \union Settings]
    BY <1>1, <1>7, StartupType DEF TypesHold
  <1>4. DataOK'
    BY <1>1, <1>3 DEF TypesHold, DataOK, TablesMaps, Settings, Configs, Rows, Scans, ColumnSet, Fields
  <1>5. to \in MainTasks
    BY DEF MainTasks
  <1> HIDE DEF to
  <1> QED
    BY <1>1, <1>2, <1>4, <1>5, MainMoves DEF TypesHold

\* CreateAdminTables: the server is up and its main goroutine at rest.
LEMMA CreateAdminTablesTyped ==
    ASSUME TypesHold, CreateAdminTables
    PROVE  TypesHold'
  <1>1. /\ task[Main].step = "create" /\ Goto(Main, Idle) /\ proc' = "up" /\ adminTables' = TRUE
        /\ UNCHANGED <<catalog, catalogs, config, committed, tablesMap, settingsMap,
                       stops, installed, behind, requests, faults>>
    BY DEF CreateAdminTables, At, database, maps, history, Continues, counters
  <1>2. proc = "boot"
    BY <1>1 DEF TypesHold, LifeOK, Idle
  <1>3. DataOK'
    BY <1>1 DEF TypesHold, DataOK, TablesMaps, Settings, Configs, Rows, Scans, ColumnSet, Fields
  <1>4. Idle \in MainTasks
    BY DEF MainTasks
  <1> QED
    BY <1>1, <1>2, <1>3, <1>4, MainMoves DEF TypesHold

\* The ways in which the process ends.
LEMMA EndingsTyped ==
    ASSUME TypesHold, LoadSettingsFails \/ StartupFails \/ Stop \/ \E h \in Handlers : MapFault(h)
    PROVE  TypesHold'
  <1> SUFFICES Ends /\ requests' \in Nat /\ faults' \in Nat /\ stops' \in Nat
    BY EndsTyped DEF TypesHold
  <1> USE DEF Continues, Faulty, counters, TypesHold, DataOK
  <1>1. CASE LoadSettingsFails
    BY <1>1 DEF LoadSettingsFails
  <1>2. CASE StartupFails
    BY <1>2 DEF StartupFails
  <1>3. CASE Stop
    BY <1>3 DEF Stop
  <1>4. CASE \E h \in Handlers : MapFault(h)
    BY <1>4 DEF MapFault
  <1> QED
    BY <1>1, <1>2, <1>3, <1>4

-----------------------------------------------------------------------------
(* The settings.                                                           *)

\* A read of the cache sees settings or nothing.
LEMMA SettingsSeenType ==
    ASSUME TypesHold, NEW t \in Tables, NEW s \in SettingsSeen(t)
    PROVE  s \in {Nil} \union Settings
  <1>1. CASE s = settingsMap[t]
    BY <1>1 DEF TypesHold, DataOK
  <1>2. CASE s # settingsMap[t]
    <2>1. PICK q \in Handlers : task[q].step = "storing" /\ s = Entry(task[q].config)
      BY <1>2 DEF SettingsSeen, At
    <2>2. task[q] \in StoreTasks
      BY <2>1, TaskFields DEF TypesHold, TasksOK
    <2>3. task[q].config \in Rows /\ TRUE \in Scans(task[q].config)
      BY <2>2 DEF StoreTasks
    <2> QED
      BY <2>1, <2>3, EntryType
  <1> QED
    BY <1>1, <1>2

\* UpsertSettings: the row is merged, and the cache still to be assigned, or
\* the row is refused.
LEMMA UpsertSettingsTyped ==
    ASSUME TypesHold, NEW h \in Handlers, NEW t \in Tables, NEW patch \in Patches,
           UpsertSettings(h, t, patch)
    PROVE  TypesHold'
  <1>1. PICK row : row = MergeConfig(config[t], patch)
    OBVIOUS
  <1> DEFINE to == [step |-> "store", table |-> t, patch |-> patch, config |-> row]
  <1>2. /\ proc = "up" /\ requests' = requests + 1
        /\ config' = [config EXCEPT ![t] = row]
        /\ committed' = [committed EXCEPT ![t] = @ \union {row}]
        /\ behind' \in {behind, behind \union {t}, behind \ {t}}
        /\ (TRUE \in Scans(row) /\ Goto(h, to)) \/ Goto(h, Failed)
        /\ UNCHANGED <<catalog, catalogs, adminTables, proc, stops, installed, tablesMap,
                       settingsMap, faults>>
    BY <1>1 DEF UpsertSettings, Takes, database, maps
  <1>3. row \in Rows /\ patch \in Rows
    BY <1>1, MergeType, InputsAssumption DEF TypesHold
  <1>4. DataOK'
    BY <1>2, <1>3 DEF TypesHold, DataOK, TablesMaps, Settings, Configs, Rows, Scans, ColumnSet, Fields
  <1>5. TRUE \in Scans(row) => to \in HandlerTasks
    BY <1>3 DEF HandlerTasks, StoreTasks
  <1> HIDE DEF to
  <1>6. TasksOK' /\ LifeOK'
    BY <1>2, <1>5, FailedType, HandlerMoves DEF TypesHold
  <1> QED
    BY <1>4, <1>6 DEF TypesHold

\* UpsertFails: the row is as before or merged.
LEMMA UpsertFailsTyped ==
    ASSUME TypesHold, NEW h \in Handlers, NEW t \in Tables, NEW patch \in Patches,
           UpsertFails(h, t, patch)
    PROVE  TypesHold'
  <1>1. PICK row \in {config[t], MergeConfig(config[t], patch)} :
            /\ config' = [config EXCEPT ![t] = row]
            /\ committed' = [committed EXCEPT ![t] = @ \union {row}]
    BY DEF UpsertFails
  <1>2. /\ proc = "up" /\ requests' = requests + 1 /\ faults' = faults + 1 /\ Goto(h, Failed)
        /\ behind' \in {behind, behind \union {t}}
        /\ UNCHANGED <<catalog, catalogs, adminTables, proc, stops, installed, tablesMap,
                       settingsMap>>
    BY DEF UpsertFails, database, maps
  <1>3. row \in {Nil} \union Rows
    BY MergeType DEF TypesHold, DataOK
  <1>4. DataOK'
    BY <1>1, <1>2, <1>3 DEF TypesHold, DataOK, TablesMaps, Settings, Configs, Rows, Scans, ColumnSet, Fields
  <1> QED
    BY <1>2, <1>4, FailedType, HandlerMoves DEF TypesHold

\* BeginStore: the update keeps what it remembers.
LEMMA BeginStoreTyped ==
    ASSUME TypesHold, NEW h \in Handlers, BeginStore(h)
    PROVE  TypesHold'
  <1> DEFINE to == [task[h] EXCEPT !.step = "storing"]
  <1>1. /\ task[h].step = "store" /\ task[h].step # "idle" /\ Goto(h, to) /\ Continues
        /\ UNCHANGED <<database, store, process, maps>>
    BY DEF BeginStore, At
  <1>2. proc = "up"
    BY <1>1, AtWork DEF TypesHold
  <1>3. task[h] \in StoreTasks
    BY <1>1, TaskFields DEF TypesHold, TasksOK
  <1>4. to \in StoreTasks
    BY <1>3 DEF StoreTasks
  <1>5. to \in HandlerTasks
    BY <1>4 DEF HandlerTasks
  <1> HIDE DEF to
  <1> QED
    BY <1>1, <1>2, <1>5, HandlerReads

\* The answer of an update.
LEMMA SavedType ==
    ASSUME NEW update \in StoreTasks, NEW settings \in {Nil} \union Settings
    PROVE  Saved(update, settings) \in HandlerTasks
  <1> DEFINE cleared == [kind |-> "cleared", table |-> update.table]
             saved == [kind |-> "saved", table |-> update.table, patch |-> update.patch,
                       settings |-> settings]
  <1>1. update.table \in Tables /\ update.patch \in Rows
    BY DEF StoreTasks
  <1>2. cleared \in Replies
    BY <1>1 DEF Replies
  <1>3. settings # Nil => saved \in Replies
    BY <1>1 DEF Replies
  <1>4. Saved(update, settings) = Done(IF settings = Nil THEN cleared ELSE saved)
    BY DEF Saved
  <1> HIDE DEF cleared, saved
  <1> QED
    BY <1>2, <1>3, <1>4, ReplyType

\* EndStore: the cache gets the decoded row, or no entry.
LEMMA EndStoreTyped ==
    ASSUME TypesHold, NEW h \in Handlers, EndStore(h)
    PROVE  TypesHold'
  <1>1. PICK result : result = Entry(task[h].config)
    OBVIOUS
  <1>2. /\ task[h].step = "storing" /\ task[h].step # "idle" /\ Goto(h, Saved(task[h], result))
        /\ settingsMap' = [settingsMap EXCEPT ![task[h].table] = result]
        /\ UNCHANGED <<catalog, catalogs, config, committed, adminTables, proc, stops,
                       installed, behind, tablesMap, requests, faults>>
    BY <1>1 DEF EndStore, At, database, store, process, history, Continues, counters
  <1>3. proc = "up"
    BY <1>2, AtWork DEF TypesHold
  <1>4. task[h] \in StoreTasks
    BY <1>2, TaskFields DEF TypesHold, TasksOK
  <1>5. task[h].config \in Rows /\ TRUE \in Scans(task[h].config)
    BY <1>4 DEF StoreTasks
  <1>6. result \in {Nil} \union Settings
    BY <1>1, <1>5, EntryType
  <1>7. DataOK'
    BY <1>2, <1>6 DEF TypesHold, DataOK, TablesMaps, Settings, Configs, Rows, Scans, ColumnSet, Fields
  <1>8. Saved(task[h], result) \in HandlerTasks
    BY <1>4, <1>6, SavedType
  <1> QED
    BY <1>2, <1>3, <1>7, <1>8, HandlerMoves DEF TypesHold

\* GetSettings.
LEMMA GetSettingsTyped ==
    ASSUME TypesHold, NEW h \in Handlers, NEW t \in Tables, GetSettings(h, t)
    PROVE  TypesHold'
  <1>1. PICK s \in SettingsSeen(t) :
            Goto(h, IF s = Nil THEN Unknown(t)
                    ELSE Done([kind |-> "settings", table |-> t, settings |-> s]))
    BY DEF GetSettings
  <1>2. Takes(h) /\ proc = "up" /\ UNCHANGED <<database, store, process, maps>>
    BY DEF GetSettings, Takes
  <1> DEFINE to == IF s = Nil THEN Unknown(t)
                   ELSE Done([kind |-> "settings", table |-> t, settings |-> s])
  <1>3. s # Nil => [kind |-> "settings", table |-> t, settings |-> s] \in Replies
    BY SettingsSeenType DEF Replies
  <1>4. to \in HandlerTasks
    BY <1>3, UnknownType, ReplyType
  <1>5. Goto(h, to)
    BY <1>1
  <1> HIDE DEF to
  <1> QED
    BY <1>2, <1>4, <1>5, HandlerReads

-----------------------------------------------------------------------------
(* The readers.                                                            *)

\* GetTable.
LEMMA GetTableTyped ==
    ASSUME TypesHold, NEW h \in Handlers, NEW t \in Tables, GetTable(h, t)
    PROVE  TypesHold'
  <1> DEFINE reply == [kind |-> "table", table |-> t, header |-> tablesMap[t]]
             to == IF tablesMap[t] = Nil THEN Unknown(t) ELSE Done(reply)
  <1>1. Takes(h) /\ proc = "up" /\ Goto(h, to) /\ UNCHANGED <<database, store, process, maps>>
    BY DEF GetTable, Takes
  <1>2. tablesMap[t] # Nil => reply \in Replies
    BY DEF TypesHold, DataOK, TablesMaps, Replies
  <1>3. to \in HandlerTasks
    BY <1>2, UnknownType, ReplyType
  <1> HIDE DEF to
  <1> QED
    BY <1>1, <1>3, HandlerReads

\* ViewTable.
LEMMA ViewTableTyped ==
    ASSUME TypesHold, NEW h \in Handlers, NEW t \in Tables, NEW select \in ClientSelects,
           NEW search \in BOOLEAN, ViewTable(h, t, select, search)
    PROVE  TypesHold'
  <1> DEFINE view == [step |-> "viewSettings", table |-> t, select |-> select,
                      search |-> search, header |-> tablesMap[t],
                      first |-> Len(installed)]
             to == IF tablesMap[t] = Nil THEN Unknown(t) ELSE view
  <1>1. Takes(h) /\ proc = "up" /\ Goto(h, to) /\ UNCHANGED <<database, store, process, maps>>
    BY DEF ViewTable, Takes
  <1>4. Len(installed) \in Nat
    BY LenProperties DEF TypesHold, DataOK
  <1>2. tablesMap[t] # Nil => view \in ViewTasks
    BY <1>4, InputsAssumption DEF TypesHold, DataOK, TablesMaps, ViewTasks
  <1>3. to \in HandlerTasks
    BY <1>2, UnknownType DEF HandlerTasks
  <1> HIDE DEF to
  <1> QED
    BY <1>1, <1>3, HandlerReads

\* The call of GetRows, whoever makes it.
LEMMA RowsCallType ==
    ASSUME NEW kind \in {"view", "form", "rows"}, NEW t \in Tables, NEW select \in ColumnSet,
           NEW search \in {Nil} \union ColumnSet, NEW sort \in ColumnSet, NEW header \in ColumnSet,
           NEW first \in Nat
    PROVE  RowsCall(kind, t, select, search, sort, header, first) \in HandlerTasks
  BY DEF RowsCall, HandlerTasks, ViewTasks

LEMMA NoColumns == {} \in ColumnSet
  BY DEF ColumnSet

\* ViewSettings.
LEMMA ViewSettingsTyped ==
    ASSUME TypesHold, NEW h \in Handlers, ViewSettings(h)
    PROVE  TypesHold'
  <1> DEFINE v == task[h]
  <1>1. /\ v.step = "viewSettings" /\ v.step # "idle" /\ Continues
        /\ UNCHANGED <<database, store, process, maps>>
    BY DEF ViewSettings, At
  <1>2. proc = "up" /\ v \in ViewTasks
    BY <1>1, AtWork, TaskFields DEF TypesHold
  <1>3. v.table \in Tables /\ v.select \in ColumnSet /\ v.header \in ColumnSet /\ v.first \in Nat
    BY <1>1, <1>2 DEF ViewTasks
  <1> DEFINE selected(s) == IF v.select = {} THEN s["tableViewSelectColumns"] ELSE v.select
             searched(s) == IF v.search THEN s["tableViewTextFiltersCols"] ELSE Nil
             call(s) == RowsCall("view", v.table, selected(s), searched(s),
                                 SortList(v.header), v.header, v.first)
             to(s) == IF s = Nil THEN Unknown(v.table) ELSE call(s)
  <1>4. PICK s \in SettingsSeen(v.table) : Goto(h, to(s))
    BY DEF ViewSettings
  <1>5. s # Nil => s \in Settings
    BY <1>3, <1>4, SettingsSeenType
  <1>6. ASSUME s # Nil PROVE call(s) \in HandlerTasks
    <2>1. selected(s) \in ColumnSet /\ searched(s) \in {Nil} \union ColumnSet
      BY <1>3, <1>5, <1>6 DEF Settings, Fields
    <2>2. SortList(v.header) \in ColumnSet
      BY <1>3 DEF SortList, ColumnSet
    <2> QED
      BY <1>3, <2>1, <2>2, RowsCallType
  <1>7. to(s) \in HandlerTasks
    BY <1>3, <1>6, UnknownType
  <1> HIDE DEF to
  <1> QED
    BY <1>1, <1>2, <1>4, <1>7, HandlerReads

\* FormSettings.
LEMMA FormSettingsTyped ==
    ASSUME TypesHold, NEW h \in Handlers, NEW t \in Tables, NEW insert \in BOOLEAN,
           FormSettings(h, t, insert)
    PROVE  TypesHold'
  <1> DEFINE reply(s) == [kind |-> "settings", table |-> t, settings |-> s]
             call == RowsCall("form", t, {}, Nil, {}, {}, 0)
             to(s) == IF s = Nil THEN Unknown(t) ELSE IF insert THEN Done(reply(s)) ELSE call
  <1>1. PICK s \in SettingsSeen(t) : Goto(h, to(s))
    BY DEF FormSettings
  <1>2. Takes(h) /\ proc = "up" /\ UNCHANGED <<database, store, process, maps>>
    BY DEF FormSettings, Takes
  <1>3. s # Nil => reply(s) \in Replies
    BY <1>1, SettingsSeenType DEF Replies
  <1>4. call \in HandlerTasks
    BY NoColumns, RowsCallType
  <1> HIDE DEF call, reply
  <1>5. to(s) \in HandlerTasks
    BY <1>3, <1>4, UnknownType, ReplyType
  <1> HIDE DEF to
  <1> QED
    BY <1>1, <1>2, <1>5, HandlerReads

\* GetRows.
LEMMA GetRowsTyped ==
    ASSUME TypesHold, NEW h \in Handlers, NEW t \in Tables, NEW select \in ClientSelects,
           NEW search \in BOOLEAN, GetRows(h, t, select, search)
    PROVE  TypesHold'
  <1> DEFINE to == RowsCall("rows", t, select, IF search THEN {} ELSE Nil, {}, {}, 0)
  <1>1. Takes(h) /\ proc = "up" /\ Goto(h, to) /\ UNCHANGED <<database, store, process, maps>>
    BY DEF GetRows, Takes
  <1>2. select \in ColumnSet
    BY InputsAssumption
  <1>3. to \in HandlerTasks
    BY <1>2, NoColumns, RowsCallType
  <1> HIDE DEF to
  <1> QED
    BY <1>1, <1>3, HandlerReads

\* RowsTable: the columns of the statement are columns.
LEMMA RowsTableTyped ==
    ASSUME TypesHold, NEW h \in Handlers, RowsTable(h)
    PROVE  TypesHold'
  <1> DEFINE v == task[h]
             columns == tablesMap[v.table]
             shown == SelectList(v.select, columns)
             searched == IF v.search = Nil THEN {} ELSE SearchList(v.search, columns)
             query == [step |-> "query", kind |-> v.kind, table |-> v.table,
                       header |-> ViewColumns(v.header, v.select), shown |-> shown,
                       reads |-> shown \union searched \union v.sort,
                       first |-> v.first, last |-> Len(installed)]
             to == IF columns = Nil THEN Unknown(v.table) ELSE query
  <1>1. /\ v.step = "rows" /\ v.step # "idle" /\ Goto(h, to) /\ Continues
        /\ UNCHANGED <<database, store, process, maps>>
    BY DEF RowsTable, At
  <1>2. proc = "up" /\ v \in ViewTasks
    BY <1>1, AtWork, TaskFields DEF TypesHold
  <1>3. /\ v.kind \in {"view", "form", "rows"} /\ v.table \in Tables
        /\ v.select \in ColumnSet /\ v.sort \in ColumnSet /\ v.header \in ColumnSet
        /\ v.first \in Nat
    BY <1>1, <1>2 DEF ViewTasks
  <1>4. ASSUME columns # Nil PROVE query \in ViewTasks
    <2>1. columns \in ColumnSet
      BY <1>3, <1>4 DEF TypesHold, DataOK, TablesMaps
    <2>2. shown \in ColumnSet /\ ViewColumns(v.header, v.select) \in ColumnSet
      BY <1>3, <2>1 DEF SelectList, ViewColumns, ColumnSet
    <2>3. searched \in ColumnSet
      BY <2>1 DEF SearchList, ColumnSet
    <2>4. shown \union searched \union v.sort \in ColumnSet
      BY <1>3, <2>2, <2>3 DEF ColumnSet
    <2>5. Len(installed) \in Nat
      BY LenProperties DEF TypesHold, DataOK
    <2> HIDE DEF shown, searched
    <2> QED
      BY <1>3, <2>2, <2>4, <2>5 DEF ViewTasks
  <1> HIDE DEF query
  <1>5. to \in HandlerTasks
    BY <1>3, <1>4, UnknownType DEF HandlerTasks
  <1> HIDE DEF to
  <1> QED
    BY <1>1, <1>2, <1>5, HandlerReads

\* QueryRows: the statement returns rows or fails.
LEMMA QueryRowsTyped ==
    ASSUME TypesHold, NEW h \in Handlers, QueryRows(h)
    PROVE  TypesHold'
  <1> DEFINE v == task[h]
             reply == [kind |-> v.kind, table |-> v.table, header |-> v.header, rows |-> v.shown,
                       first |-> v.first, last |-> v.last]
  <1>1. /\ v.step = "query" /\ v.step # "idle" /\ Continues
        /\ Goto(h, Done(reply)) \/ Goto(h, Failed)
        /\ UNCHANGED <<database, store, process, maps>>
    BY DEF QueryRows, At
  <1>2. proc = "up" /\ v \in ViewTasks
    BY <1>1, AtWork, TaskFields DEF TypesHold
  <1>3. reply \in Replies
    BY <1>1, <1>2 DEF ViewTasks, Replies
  <1>4. Done(reply) \in HandlerTasks
    BY <1>3, ReplyType
  <1> HIDE DEF reply
  <1> QED
    BY <1>1, <1>2, <1>4, FailedType, HandlerReads

-----------------------------------------------------------------------------
(* The environment, the initial states and the theorem.                    *)

\* AlterCatalog: one more catalog, and everything typed by the shorter history
\* is typed by the longer one.
LEMMA AlterCatalogTyped ==
    ASSUME TypesHold, NEW t \in Tables, NEW columns \in Alterations, AlterCatalog(t, columns)
    PROVE  TypesHold'
  <1>1. /\ catalog' = [catalog EXCEPT ![t] = columns] /\ catalogs' = Append(catalogs, catalog')
        /\ UNCHANGED <<config, committed, adminTables, proc, stops, installed, behind, tablesMap, settingsMap,
                       task, requests, faults>>
    BY DEF AlterCatalog, store, process, history, maps, Continues, counters
  <1>2. catalog \in TablesMaps
    BY ElementOfSeq DEF TypesHold, DataOK
  <1>3. catalog' \in TablesMaps
    BY <1>1, <1>2, InputsAssumption DEF TablesMaps
  <1>4. /\ catalogs' \in Seq(TablesMaps) /\ Len(catalogs') = Len(catalogs) + 1
        /\ catalog' = catalogs'[Len(catalogs')]
        /\ Len(catalogs) \in Nat
    BY <1>1, <1>3, AppendProperties, LenProperties DEF TypesHold, DataOK
  <1>5. DataOK'
    BY <1>1, <1>4 DEF TypesHold, DataOK, TablesMaps, Settings, Configs, Rows, Scans, ColumnSet, Fields
  <1>6. 1..Len(catalogs) \subseteq 1..Len(catalogs')
    BY <1>4
  <1>7. LoadTasks \subseteq LoadTasks' /\ AnswerTasks \subseteq AnswerTasks'
    BY <1>6 DEF LoadTasks, AnswerTasks, TablesMaps, ColumnSet
  <1>8. Replies \subseteq Replies'
    BY <1>6 DEF Replies, TablesMaps, Settings, Configs, Rows, Scans, ColumnSet, Fields
  <1>9. HandlerTasks \subseteq HandlerTasks' /\ MainTasks \subseteq MainTasks'
    BY <1>7, <1>8 DEF HandlerTasks, MainTasks, StoreTasks, ViewTasks, Idle, Configs, Rows, Scans, ColumnSet, Fields
  <1>10. TasksOK' /\ LifeOK'
    BY <1>1, <1>9 DEF TypesHold, TasksOK, LifeOK
  <1> QED
    BY <1>5, <1>10 DEF TypesHold

\* A server that has not been started, over any catalog.
LEMMA InitTyped == Init => TypesHold
  <1> SUFFICES ASSUME Init PROVE TypesHold
    OBVIOUS
  <1>1. InitialCatalog \in TablesMaps
    BY InputsAssumption
  <1>2. catalogs \in Seq(TablesMaps) /\ Len(catalogs) = 1 /\ catalogs[1] = InitialCatalog
    BY <1>1 DEF Init
  <1>3. DataOK
    BY <1>1, <1>2 DEF Init, DataOK, TablesMaps
  <1>4. Main \in Procs /\ Handlers \subseteq Procs
    BY DEF Procs
  <1>5. TasksOK /\ LifeOK
    BY <1>4 DEF Init, TasksOK, LifeOK, HandlerTasks, MainTasks
  <1> QED
    BY <1>3, <1>5 DEF TypesHold

\* Nothing happens.
LEMMA StutterTyped ==
    ASSUME TypesHold, UNCHANGED vars
    PROVE  TypesHold'
  <1>1. UNCHANGED <<catalog, catalogs, config, committed, adminTables, proc, stops,
                    installed, behind, tablesMap, settingsMap, task, requests, faults>>
    BY DEF vars, database, store, process, history, maps, counters
  <1>2. DataOK'
    BY <1>1 DEF TypesHold, DataOK, TablesMaps, Settings, Configs, Rows, Scans, ColumnSet, Fields
  <1>3. TasksOK' /\ LifeOK'
    BY <1>1, TypesKept DEF TypesHold, TasksOK, LifeOK
  <1> QED
    BY <1>2, <1>3 DEF TypesHold

\* Every variable keeps its type in every behaviour, and goroutines exist
\* only in a live process: through reloads, saves, faults, stops and schema
\* changes (core/schema_service.go, core/app.go).
THEOREM TypeCorrect == Spec => []TypeOK
  <1>1. Init => TypesHold
    BY InitTyped
  <1>2. TypesHold /\ [Next]_vars => TypesHold'
    <2> SUFFICES ASSUME TypesHold, [Next]_vars
                 PROVE  TypesHold'
      OBVIOUS
    <2>1. CASE Boot
      <3>1. CASE Start
        BY <3>1, StartTyped
      <3>2. CASE LoadSettings
        BY <3>2, LoadSettingsTyped
      <3>3. CASE CreateAdminTables
        BY <3>3, CreateAdminTablesTyped
      <3>4. CASE LoadSettingsFails \/ StartupFails \/ Stop
        BY <3>4, EndingsTyped
      <3> QED
        BY <2>1, <3>1, <3>2, <3>3, <3>4 DEF Boot
    <2>2. ASSUME NEW p \in Procs, Reload(p) PROVE TypesHold'
      <3>1. CASE BeginReload(p)
        BY <3>1, BeginReloadTyped
      <3>2. CASE LoadNames(p)
        BY <3>2, LoadNamesTyped
      <3>3. CASE LoadColumns(p)
        BY <3>3, LoadColumnsTyped
      <3>4. CASE InstallTables(p)
        BY <3>4, InstallTablesTyped
      <3>5. CASE LoadFails(p)
        BY <3>5, LoadFailsTyped
      <3>6. CASE AnswerTables(p)
        BY <3>6, AnswerTablesTyped
      <3> QED
        BY <2>2, <3>1, <3>2, <3>3, <3>4, <3>5, <3>6 DEF Reload
    <2>3. ASSUME NEW h \in Handlers, Update(h) PROVE TypesHold'
      <3>1. ASSUME NEW t \in Tables, NEW patch \in Patches, UpsertSettings(h, t, patch)
            PROVE  TypesHold'
        BY <3>1, UpsertSettingsTyped
      <3>2. ASSUME NEW t \in Tables, NEW patch \in Patches, UpsertFails(h, t, patch)
            PROVE  TypesHold'
        BY <3>2, UpsertFailsTyped
      <3>3. CASE BeginStore(h)
        BY <3>3, BeginStoreTyped
      <3>4. CASE EndStore(h)
        BY <3>4, EndStoreTyped
      <3>5. CASE MapFault(h)
        BY <3>5, EndingsTyped
      <3> QED
        BY <2>3, <3>1, <3>2, <3>3, <3>4, <3>5 DEF Update
    <2>4. ASSUME NEW h \in Handlers, Read(h) PROVE TypesHold'
      <3>1. ASSUME NEW t \in Tables, GetTable(h, t) PROVE TypesHold'
        BY <3>1, GetTableTyped
      <3>2. ASSUME NEW t \in Tables, GetSettings(h, t) PROVE TypesHold'
        BY <3>2, GetSettingsTyped
      <3>3. ASSUME NEW t \in Tables, NEW select \in ClientSelects, NEW search \in BOOLEAN,
                   ViewTable(h, t, select, search)
            PROVE  TypesHold'
        BY <3>3, ViewTableTyped
      <3>4. ASSUME NEW t \in Tables, NEW select \in ClientSelects, NEW search \in BOOLEAN,
                   GetRows(h, t, select, search)
            PROVE  TypesHold'
        BY <3>4, GetRowsTyped
      <3>5. ASSUME NEW t \in Tables, NEW insert \in BOOLEAN, FormSettings(h, t, insert)
            PROVE  TypesHold'
        BY <3>5, FormSettingsTyped
      <3>6. CASE ViewSettings(h)
        BY <3>6, ViewSettingsTyped
      <3>7. CASE RowsTable(h)
        BY <3>7, RowsTableTyped
      <3>8. CASE QueryRows(h)
        BY <3>8, QueryRowsTyped
      <3> QED
        BY <2>4, <3>1, <3>2, <3>3, <3>4, <3>5, <3>6, <3>7, <3>8 DEF Read
    <2>5. ASSUME NEW t \in Tables, NEW columns \in Alterations, AlterCatalog(t, columns)
          PROVE  TypesHold'
      BY <2>5, AlterCatalogTyped
    <2>6. CASE UNCHANGED vars
      BY <2>6, StutterTyped
    <2> QED
      BY <2>1, <2>2, <2>3, <2>4, <2>5, <2>6 DEF Next
  <1>3. TypesHold => TypeOK
    BY TypeParts DEF TypesHold
  <1> QED
    BY <1>1, <1>2, <1>3, PTL DEF Spec

-----------------------------------------------------------------------------
(* What the cache of settings serves.                                      *)

\* The columns a map lists for a table were columns of it, all or the first
\* to arrive, in some catalog.
FromCatalogs(map) ==
    \A t \in Tables : map[t] # Nil =>
        \E i \in 1..Len(catalogs) : map[t] \subseteq FetchedMap({t}, catalogs[i])[t]

\* The maps about to be installed.
Installs == \A q \in Procs : task[q].step = "install" => FromCatalogs(task[q].map)

\* The inductive invariant: the row of a table is committed and so is the one
\* each update is about to store; the lists a start-up takes its defaults from
\* come from a catalog, and so do those about to be installed.
CacheInv ==
    /\ FromCatalogs(tablesMap)
    /\ Installs
    /\ \A t \in Tables : config[t] \in committed[t]
    /\ \A h \in Handlers : task[h].step \in {"store", "storing"} =>
          task[h].config \in committed[task[h].table]
    /\ ServedIsCommitted

\* ServedIsCommitted, for one table.
ServedOK(t) ==
    settingsMap[t] # Nil => \E row \in committed[t] : ServedFor(row, settingsMap[t], t)

\* The goroutines have control points.
LEMMA TaskDomain == TypesHold => DOMAIN task = Procs /\ Handlers \subseteq Procs /\ Main \in Procs
  BY DEF TypesHold, TasksOK, Procs

\* A map about to be installed is one that was before, or comes from a catalog.
LEMMA InstallsKept ==
    ASSUME Installs, UNCHANGED catalogs,
           \A q \in Procs : task'[q].step = "install" =>
               task'[q] = task[q] \/ FromCatalogs(task'[q].map)
    PROVE  Installs'
  <1> SUFFICES ASSUME NEW q \in Procs, task'[q].step = "install"
               PROVE  FromCatalogs(task[q].map)'
    BY DEF Installs
  <1>1. FromCatalogs(task'[q].map)
    BY DEF Installs
  <1> QED
    BY <1>1 DEF FromCatalogs

\* A step that only moves a goroutine to where it holds no map and no row.
LEMMA QuietMoves ==
    ASSUME TypesHold, CacheInv, NEW p \in Procs, NEW to, Goto(p, to),
           to.step \notin {"install", "store", "storing"},
           UNCHANGED <<catalogs, config, committed, tablesMap, settingsMap>>
    PROVE  CacheInv'
  <1>1. \A q \in Procs : task'[q] = task[q] \/ task'[q] = to
    BY TaskDomain DEF Goto
  <1>2. Handlers \subseteq Procs
    BY TaskDomain
  <1>3. ServedIsCommitted'
    BY DEF CacheInv, ServedIsCommitted, ServedFor
  <1>4. FromCatalogs(tablesMap)'
    BY DEF CacheInv, FromCatalogs
  <1>5. Installs'
    BY <1>1, InstallsKept DEF CacheInv
  <1> QED
    BY <1>1, <1>2, <1>3, <1>4, <1>5 DEF CacheInv

\* The end of the process leaves nothing in the maps.
LEMMA EndsServed ==
    ASSUME TypesHold, CacheInv, Ends
    PROVE  CacheInv'
  <1>1. /\ tablesMap' = [t \in Tables |-> Nil] /\ settingsMap' = [t \in Tables |-> Nil]
        /\ task' = [p \in Procs |-> Idle] /\ Handlers \subseteq Procs
        /\ UNCHANGED <<config, committed>>
    BY TaskDomain DEF Ends, store
  <1>2. \A p \in Procs : task'[p].step = "idle"
    BY <1>1 DEF Idle
  <1>3. FromCatalogs(tablesMap)' /\ ServedIsCommitted'
    BY <1>1 DEF FromCatalogs, ServedIsCommitted
  <1> QED
    BY <1>1, <1>2, <1>3 DEF CacheInv, Installs

\* LoadColumns: what arrived of the catalog of that moment.
LEMMA LoadColumnsServed ==
    ASSUME TypesHold, CacheInv, NEW p \in Procs, LoadColumns(p)
    PROVE  CacheInv'
  <1> DEFINE full == FetchedMap(task[p].names, catalog)
  <1>1. PICK m \in CutShort(full) :
            Goto(p, [step |-> "install", since |-> task[p].since, map |-> m,
                     whole |-> task[p].whole /\ m = full])
    BY DEF LoadColumns
  <1>2. UNCHANGED <<catalogs, config, committed, tablesMap, settingsMap>>
    BY DEF LoadColumns, database, store, maps
  <1>3. FromCatalogs(m)
    <2> SUFFICES ASSUME NEW t \in Tables, m[t] # Nil
                 PROVE  \E i \in 1..Len(catalogs) : m[t] \subseteq FetchedMap({t}, catalogs[i])[t]
      BY DEF FromCatalogs
    <2>1. full[t] # Nil /\ m[t] \subseteq full[t]
      BY DEF CutShort
    <2>2. full[t] = FetchedMap({t}, catalog)[t]
      BY <2>1 DEF FetchedMap
    <2>3. Len(catalogs) \in 1..Len(catalogs) /\ catalog = catalogs[Len(catalogs)]
      BY LenProperties DEF TypesHold, DataOK
    <2> HIDE DEF full
    <2> QED
      BY <2>1, <2>2, <2>3
  <1> HIDE DEF full
  <1>4. /\ task'[p].step = "install" /\ task'[p].map = m
        /\ \A q \in Procs : q # p => task'[q] = task[q]
    BY <1>1, TaskDomain DEF Goto
  <1>5. ServedIsCommitted' /\ FromCatalogs(tablesMap)'
    BY <1>2 DEF CacheInv, ServedIsCommitted, ServedFor, FromCatalogs
  <1>6. Installs'
    BY <1>2, <1>3, <1>4, InstallsKept DEF CacheInv
  <1> QED
    BY <1>2, <1>4, <1>5, <1>6, TaskDomain DEF CacheInv

\* InstallTables: the map was loaded from a catalog.
LEMMA InstallTablesServed ==
    ASSUME TypesHold, CacheInv, NEW p \in Procs, InstallTables(p)
    PROVE  CacheInv'
  <1>1. /\ tablesMap' = task[p].map /\ FromCatalogs(task[p].map)
        /\ UNCHANGED <<catalogs, config, committed, settingsMap>>
    BY DEF InstallTables, At, database, store, CacheInv, Installs
  <1>2. /\ task'[p].step \in {"settings", "answer"}
        /\ \A q \in Procs : q # p => task'[q] = task[q]
    BY TaskDomain DEF InstallTables, AfterInstall, Goto
  <1>3. ServedIsCommitted'
    BY <1>1 DEF CacheInv, ServedIsCommitted, ServedFor
  <1>4. FromCatalogs(tablesMap)'
    BY <1>1 DEF FromCatalogs
  <1>5. Installs'
    BY <1>1, <1>2, InstallsKept DEF CacheInv
  <1> QED
    BY <1>1, <1>2, <1>3, <1>4, <1>5, TaskDomain DEF CacheInv

\* LoadSettings: each entry is the committed row with the defaults.
LEMMA LoadSettingsServed ==
    ASSUME TypesHold, CacheInv, LoadSettings
    PROVE  CacheInv'
  <1>1. /\ settingsMap' = [t \in Tables |-> StartupSettings(t)]
        /\ Goto(Main, [step |-> "create"])
        /\ UNCHANGED <<catalogs, config, committed, tablesMap>>
    BY DEF LoadSettings, database, store
  <1>2. ASSUME NEW t \in Tables PROVE ServedOK(t)'
    <2> SUFFICES ASSUME settingsMap'[t] # Nil
                 PROVE  \E row \in committed[t] : ServedFor(row, settingsMap'[t], t)
      BY <1>1 DEF ServedOK, ServedFor
    <2>1. tablesMap[t] # Nil /\ settingsMap'[t] = WithDefaults(Decode(config[t]), tablesMap[t])
      BY <1>1 DEF StartupSettings
    <2>2. PICK i \in 1..Len(catalogs) : tablesMap[t] \subseteq FetchedMap({t}, catalogs[i])[t]
      BY <2>1 DEF CacheInv, FromCatalogs
    <2>3. ServedFor(config[t], settingsMap'[t], t)
      BY <2>1, <2>2 DEF ServedFor
    <2> QED
      BY <2>3 DEF CacheInv
  <1>3. ServedIsCommitted'
    BY <1>2 DEF ServedIsCommitted, ServedOK
  <1>4. /\ task'[Main].step = "create"
        /\ \A q \in Procs : q # Main => task'[q] = task[q]
    BY <1>1, TaskDomain DEF Goto
  <1>5. FromCatalogs(tablesMap)' /\ Installs'
    BY <1>1, <1>4, InstallsKept DEF CacheInv, FromCatalogs
  <1>6. \A h \in Handlers : task'[h] = task[h]
    BY <1>4, TaskDomain, HandlersAssumption
  <1> QED
    BY <1>1, <1>3, <1>5, <1>6 DEF CacheInv

\* An upsert, answered or not: one more row of the table is committed.
LEMMA UpsertServed ==
    ASSUME TypesHold, CacheInv, NEW h \in Handlers, NEW t \in Tables, NEW row, NEW to,
           config' = [config EXCEPT ![t] = row],
           committed' = [committed EXCEPT ![t] = @ \union {row}],
           UNCHANGED <<catalogs, tablesMap, settingsMap>>,
           Goto(h, to), to.step # "install",
           to.step \in {"store", "storing"} => to.table = t /\ to.config = row
    PROVE  CacheInv'
  <1>1. \A s \in Tables : config'[s] \in committed'[s] /\ committed[s] \subseteq committed'[s]
    BY DEF CacheInv, TypesHold, DataOK
  <1>2. row \in committed'[t]
    BY DEF TypesHold, DataOK
  <1>3. task'[h] = to /\ \A q \in Procs : q # h => task'[q] = task[q]
    BY TaskDomain DEF Goto
  <1>4. ServedIsCommitted'
    BY <1>1 DEF CacheInv, ServedIsCommitted, ServedFor
  <1>5. FromCatalogs(tablesMap)'
    BY DEF CacheInv, FromCatalogs
  <1>6. Installs'
    BY <1>3, InstallsKept DEF CacheInv
  <1>7. \A g \in Handlers : task[g].step \in {"store", "storing"} => task[g].table \in Tables
    BY TaskFields DEF TypesHold, TasksOK, StoreTasks
  <1>8. (\A g \in Handlers : task[g].step \in {"store", "storing"} =>
            task[g].config \in committed[task[g].table])'
    BY <1>1, <1>2, <1>3, <1>7, TaskDomain DEF CacheInv
  <1> QED
    BY <1>1, <1>4, <1>5, <1>8, <1>6 DEF CacheInv

\* BeginStore: the update keeps its row.
LEMMA BeginStoreServed ==
    ASSUME TypesHold, CacheInv, NEW h \in Handlers, BeginStore(h)
    PROVE  CacheInv'
  <1>1. /\ task[h].step = "store" /\ Goto(h, [task[h] EXCEPT !.step = "storing"])
        /\ UNCHANGED <<catalogs, config, committed, tablesMap, settingsMap>>
    BY DEF BeginStore, At, database, store, maps
  <1>2. task[h] \in StoreTasks
    BY <1>1, TaskFields DEF TypesHold, TasksOK
  <1>3. /\ task'[h].step = "storing" /\ task'[h].table = task[h].table
        /\ task'[h].config = task[h].config
        /\ \A q \in Procs : q # h => task'[q] = task[q]
    BY <1>1, <1>2, TaskDomain DEF Goto, StoreTasks
  <1>4. ServedIsCommitted' /\ FromCatalogs(tablesMap)'
    BY <1>1 DEF CacheInv, ServedIsCommitted, ServedFor, FromCatalogs
  <1>5. Installs'
    BY <1>1, <1>3, InstallsKept DEF CacheInv
  <1> QED
    BY <1>1, <1>3, <1>4, <1>5, TaskDomain DEF CacheInv

\* EndStore: the entry is the row the update committed.
LEMMA EndStoreServed ==
    ASSUME TypesHold, CacheInv, NEW h \in Handlers, EndStore(h)
    PROVE  CacheInv'
  <1> DEFINE table == task[h].table
             result == Entry(task[h].config)
  <1>1. /\ task[h].step = "storing" /\ settingsMap' = [settingsMap EXCEPT ![table] = result]
        /\ UNCHANGED <<catalogs, config, committed, tablesMap>>
        /\ task[h].config \in committed[table]
    BY DEF EndStore, At, database, store, CacheInv
  <1>2. table \in Tables
    BY <1>1, TaskFields DEF TypesHold, TasksOK, StoreTasks
  <1>3. result # Nil => ServedFor(task[h].config, result, table)
    BY DEF ServedFor, Entry
  <1>4. settingsMap'[table] = result /\ \A t \in Tables : t # table => settingsMap'[t] = settingsMap[t]
    BY <1>1, <1>2 DEF TypesHold, DataOK
  <1> HIDE DEF table, result
  <1>5. ASSUME NEW t \in Tables PROVE ServedOK(t)'
    <2>1. CASE t = table
      BY <1>1, <1>3, <1>4, <2>1 DEF ServedOK, ServedFor
    <2>2. CASE t # table
      <3>1. ServedOK(t)
        BY DEF CacheInv, ServedIsCommitted, ServedOK
      <3> QED
        BY <1>1, <1>4, <2>2, <3>1 DEF ServedOK, ServedFor
    <2> QED
      BY <2>1, <2>2
  <1>6. ServedIsCommitted'
    BY <1>5 DEF ServedIsCommitted, ServedOK
  <1>7. task'[h].step = "done" /\ \A q \in Procs : q # h => task'[q] = task[q]
    BY TaskDomain DEF EndStore, Goto, Saved, Done
  <1>8. FromCatalogs(tablesMap)' /\ Installs'
    BY <1>1, <1>7, InstallsKept DEF CacheInv, FromCatalogs
  <1> QED
    BY <1>1, <1>7, <1>8, <1>6, TaskDomain DEF CacheInv

\* AlterCatalog: the catalogs there were remain.
LEMMA AlterCatalogServed ==
    ASSUME TypesHold, CacheInv, NEW t \in Tables, NEW columns \in Alterations,
           AlterCatalog(t, columns)
    PROVE  CacheInv'
  <1>1. /\ catalogs' = Append(catalogs, catalog')
        /\ UNCHANGED <<config, committed, tablesMap, settingsMap, task>>
    BY DEF AlterCatalog, store, maps
  <1>2. /\ Len(catalogs) \in Nat /\ Len(catalogs') = Len(catalogs) + 1
        /\ \A i \in 1..Len(catalogs) : i \in 1..Len(catalogs') /\ catalogs'[i] = catalogs[i]
    BY <1>1, AppendProperties, LenProperties DEF TypesHold, DataOK
  <1>3. \A map : FromCatalogs(map) => FromCatalogs(map)'
    BY <1>2 DEF FromCatalogs
  <1>4. \A row, s : \A u \in Tables : ServedFor(row, s, u) => ServedFor(row, s, u)'
    BY <1>2 DEF ServedFor
  <1>5. ServedIsCommitted'
    BY <1>1, <1>4 DEF CacheInv, ServedIsCommitted
  <1> QED
    BY <1>1, <1>3, <1>5 DEF CacheInv, Installs

\* The actions of a load that hold no map.
LEMMA ReloadServed ==
    ASSUME TypesHold, CacheInv, NEW p \in Procs, Reload(p)
    PROVE  CacheInv'
  <1> USE DEF database, store, maps
  <1>1. CASE BeginReload(p)
    BY <1>1, QuietMoves DEF BeginReload
  <1>2. CASE LoadNames(p)
    <2>1. PICK names \in SUBSET ListedTables(catalog) :
              Goto(p, [step |-> "columns", since |-> task[p].since, names |-> names,
                       whole |-> names = ListedTables(catalog)])
      BY <1>2 DEF LoadNames
    <2> QED
      BY <1>2, <2>1, QuietMoves DEF LoadNames
  <1>3. CASE LoadColumns(p)
    BY <1>3, LoadColumnsServed
  <1>4. CASE InstallTables(p)
    BY <1>4, InstallTablesServed
  <1>5. CASE LoadFails(p)
    BY <1>5, QuietMoves DEF LoadFails
  <1>6. CASE AnswerTables(p)
    BY <1>6, QuietMoves DEF AnswerTables, Done
  <1> QED
    BY <1>1, <1>2, <1>3, <1>4, <1>5, <1>6 DEF Reload

\* The readers.
LEMMA ReadServed ==
    ASSUME TypesHold, CacheInv, NEW h \in Handlers, Read(h)
    PROVE  CacheInv'
  <1> USE DEF database, store, maps
  <1>1. h \in Procs
    BY TaskDomain
  <1>2. ASSUME NEW t \in Tables, GetTable(h, t) PROVE CacheInv'
    BY <1>1, <1>2, QuietMoves DEF GetTable, Unknown, Done
  <1>3. ASSUME NEW t \in Tables, GetSettings(h, t) PROVE CacheInv'
    <2>1. PICK s : Goto(h, IF s = Nil THEN Unknown(t)
                           ELSE Done([kind |-> "settings", table |-> t, settings |-> s]))
      BY <1>3 DEF GetSettings
    <2> QED
      BY <1>1, <1>3, <2>1, QuietMoves DEF GetSettings, Unknown, Done
  <1>4. ASSUME NEW t \in Tables, NEW select, NEW search, ViewTable(h, t, select, search)
        PROVE  CacheInv'
    BY <1>1, <1>4, QuietMoves DEF ViewTable, Unknown, Done
  <1>5. ASSUME NEW t \in Tables, NEW select, NEW search, GetRows(h, t, select, search)
        PROVE  CacheInv'
    BY <1>1, <1>5, QuietMoves DEF GetRows, RowsCall
  <1>6. ASSUME NEW t \in Tables, NEW insert, FormSettings(h, t, insert) PROVE CacheInv'
    <2>1. PICK s : Goto(h, IF s = Nil THEN Unknown(t)
                           ELSE IF insert
                           THEN Done([kind |-> "settings", table |-> t, settings |-> s])
                           ELSE RowsCall("form", t, {}, Nil, {}, {}, 0))
      BY <1>6 DEF FormSettings
    <2> QED
      BY <1>1, <1>6, <2>1, QuietMoves DEF FormSettings, Unknown, Done, RowsCall
  <1>7. CASE ViewSettings(h)
    <2>1. PICK s : Goto(h, IF s = Nil THEN Unknown(task[h].table)
                  ELSE RowsCall("view", task[h].table,
                         IF task[h].select = {} THEN s["tableViewSelectColumns"] ELSE task[h].select,
                         IF task[h].search THEN s["tableViewTextFiltersCols"] ELSE Nil,
                         SortList(task[h].header), task[h].header, task[h].first))
      BY <1>7 DEF ViewSettings
    <2> QED
      BY <1>1, <1>7, <2>1, QuietMoves DEF ViewSettings, Unknown, Done, RowsCall
  <1>8. CASE RowsTable(h)
    BY <1>1, <1>8, QuietMoves DEF RowsTable, Unknown, Done
  <1>9. CASE QueryRows(h)
    BY <1>1, <1>9, QuietMoves DEF QueryRows, Failed, Done
  <1> QED
    BY <1>2, <1>3, <1>4, <1>5, <1>6, <1>7, <1>8, <1>9 DEF Read

\* The updates.
LEMMA UpdateServed ==
    ASSUME TypesHold, CacheInv, NEW h \in Handlers, Update(h)
    PROVE  CacheInv'
  <1>1. ASSUME NEW t \in Tables, NEW patch \in Patches, UpsertSettings(h, t, patch)
        PROVE  CacheInv'
    <2>1. PICK row : row = MergeConfig(config[t], patch)
      OBVIOUS
    <2>2. /\ config' = [config EXCEPT ![t] = row]
          /\ committed' = [committed EXCEPT ![t] = @ \union {row}]
          /\ UNCHANGED <<catalogs, tablesMap, settingsMap>>
      BY <1>1, <2>1 DEF UpsertSettings, database, maps
    <2>3. CASE Goto(h, Failed)
      BY <2>2, <2>3, UpsertServed DEF Failed, Done
    <2>4. CASE Goto(h, [step |-> "store", table |-> t, patch |-> patch, config |-> row])
      BY <2>2, <2>4, UpsertServed
    <2> QED
      BY <1>1, <2>1, <2>3, <2>4 DEF UpsertSettings
  <1>2. ASSUME NEW t \in Tables, NEW patch \in Patches, UpsertFails(h, t, patch)
        PROVE  CacheInv'
    <2>1. PICK row : /\ config' = [config EXCEPT ![t] = row]
                     /\ committed' = [committed EXCEPT ![t] = @ \union {row}]
      BY <1>2 DEF UpsertFails
    <2> QED
      BY <1>2, <2>1, UpsertServed DEF UpsertFails, Failed, Done, database, maps
  <1>3. CASE BeginStore(h)
    BY <1>3, BeginStoreServed
  <1>4. CASE EndStore(h)
    BY <1>4, EndStoreServed
  <1>5. CASE MapFault(h)
    BY <1>5, EndsServed DEF MapFault
  <1> QED
    BY <1>1, <1>2, <1>3, <1>4, <1>5 DEF Update

\* The start-up and the ends of the process.
LEMMA BootServed ==
    ASSUME TypesHold, CacheInv, Boot
    PROVE  CacheInv'
  <1> USE TaskDomain DEF database, store, maps
  <1>1. CASE Start
    BY <1>1, QuietMoves DEF Start
  <1>2. CASE LoadSettings
    BY <1>2, LoadSettingsServed
  <1>3. CASE CreateAdminTables
    BY <1>3, QuietMoves DEF CreateAdminTables, Idle
  <1>4. CASE LoadSettingsFails \/ StartupFails \/ Stop
    BY <1>4, EndsServed DEF LoadSettingsFails, StartupFails, Stop
  <1> QED
    BY <1>1, <1>2, <1>3, <1>4 DEF Boot

\* Whatever the order of updates, restarts and reloads, an entry of the cache
\* is one committed row of its table, whole (core/schema_service.go:166-217,
\* 315-340).
THEOREM CacheServesCommitted == Spec => []ServedIsCommitted
  <1>1. Init => TypesHold
    BY InitTyped
  <1>2. Init => CacheInv
    <2> SUFFICES ASSUME Init PROVE CacheInv
      OBVIOUS
    <2>1. \A p \in Procs : task[p].step = "idle"
      BY DEF Init, Idle
    <2> QED
      BY <2>1 DEF Init, CacheInv, Installs, FromCatalogs, ServedIsCommitted, Procs
  <1>3. TypesHold /\ CacheInv /\ [Next]_vars => CacheInv'
    <2> SUFFICES ASSUME TypesHold, CacheInv, [Next]_vars
                 PROVE  CacheInv'
      OBVIOUS
    <2>1. CASE UNCHANGED vars
      <3>1. UNCHANGED <<catalogs, config, committed, tablesMap, settingsMap, task>>
        BY <2>1 DEF vars, database, store, maps
      <3>2. Installs' /\ FromCatalogs(tablesMap)' /\ ServedIsCommitted'
        BY <3>1, InstallsKept DEF CacheInv, FromCatalogs, ServedIsCommitted, ServedFor
      <3> QED
        BY <3>1, <3>2 DEF CacheInv
    <2> QED
      BY <2>1, BootServed, ReloadServed, UpdateServed, ReadServed, AlterCatalogServed DEF Next
  <1>4. CacheInv => ServedIsCommitted
    BY DEF CacheInv
  <1>5. Spec => []TypesHold
    BY TypeCorrect, TypeParts, PTL DEF TypesHold
  <1> QED
    BY <1>2, <1>3, <1>4, <1>5, PTL DEF Spec

-----------------------------------------------------------------------------
(* What the installed tables are.                                          *)

\* Names of one catalog of a history, all of them if no statement has failed.
NamesFrom(names, cats, failures) ==
    \E i \in 1..Len(cats) :
        /\ names \subseteq ListedTables(cats[i])
        /\ failures = 0 => names = ListedTables(cats[i])

\* A map one load may return over a history.
MapFrom(map, cats, failures) ==
    \E i \in 1..Len(cats) : \E j \in i..Len(cats), names \in SUBSET Tables :
        IF failures = 0
        THEN names = ListedTables(cats[i]) /\ map = FetchedMap(names, cats[j])
        ELSE /\ names \subseteq ListedTables(cats[i])
             /\ map \in CutShort(FetchedMap(names, cats[j]))

\* The inductive invariant: it holds of the names and of the map of every load
\* under way, and of the installed map once the main goroutine installed one.
LoadInv ==
    /\ \A p \in Procs : task[p].step = "columns" => NamesFrom(task[p].names, catalogs, faults)
    /\ \A p \in Procs : task[p].step = "install" => MapFrom(task[p].map, catalogs, faults)
    /\ proc = "up" \/ task[Main].step \in {"settings", "create"} =>
          MapFrom(tablesMap, catalogs, faults)

\* Histories only grow, and a fault is not taken back.
Grows ==
    /\ Len(catalogs) \in Nat /\ Len(catalogs') \in Nat /\ Len(catalogs) <= Len(catalogs')
    /\ \A i \in 1..Len(catalogs) : catalogs'[i] = catalogs[i]
    /\ faults' = 0 => faults = 0

\* A map that lost no row is one that may have lost some.
LEMMA WholeIsCut ==
    ASSUME NEW names \in SUBSET Tables, NEW cat \in TablesMaps
    PROVE  FetchedMap(names, cat) \in CutShort(FetchedMap(names, cat))
  <1>1. \A t \in Tables : cat[t] \in {Nil} \union ColumnSet
    BY DEF TablesMaps
  <1>2. {} \in ColumnSet
    BY DEF ColumnSet
  <1>3. FetchedMap(names, cat) \in TablesMaps
    BY <1>1, <1>2 DEF FetchedMap, TablesMaps
  <1> QED
    BY <1>3 DEF CutShort

\* What was loaded over a history is so over a longer one.
LEMMA NamesKept ==
    ASSUME Grows, NEW names, NamesFrom(names, catalogs, faults)
    PROVE  NamesFrom(names, catalogs', faults')
  BY DEF Grows, NamesFrom
LEMMA MapKept ==
    ASSUME TypesHold, Grows, NEW map, MapFrom(map, catalogs, faults)
    PROVE  MapFrom(map, catalogs', faults')
  <1> DEFINE From(i, j, names) ==
                IF faults = 0
                THEN names = ListedTables(catalogs[i]) /\ map = FetchedMap(names, catalogs[j])
                ELSE /\ names \subseteq ListedTables(catalogs[i])
                     /\ map \in CutShort(FetchedMap(names, catalogs[j]))
  <1>0. PICK i \in 1..Len(catalogs) :
            \E j \in i..Len(catalogs), names \in SUBSET Tables : From(i, j, names)
    BY DEF MapFrom
  <1>1. PICK j \in i..Len(catalogs), names \in SUBSET Tables : From(i, j, names)
    BY <1>0
  <1>2. /\ i \in 1..Len(catalogs') /\ j \in i..Len(catalogs') /\ j \in 1..Len(catalogs)
        /\ catalogs'[i] = catalogs[i] /\ catalogs'[j] = catalogs[j]
    BY DEF Grows
  <1>3. catalogs[j] \in TablesMaps
    BY <1>2, ElementOfSeq DEF TypesHold, DataOK
  <1>4. faults = 0 => map \in CutShort(FetchedMap(names, catalogs[j]))
    BY <1>1, <1>3, WholeIsCut
  <1>5. CASE faults' = 0
    BY <1>1, <1>2, <1>5 DEF Grows, MapFrom
  <1>6. CASE faults' # 0
    BY <1>1, <1>2, <1>4, <1>6 DEF MapFrom
  <1> QED
    BY <1>5, <1>6

\* A step of one goroutine, whatever it does to the maps.
LEMMA LoadStep ==
    ASSUME TypesHold, LoadInv, Grows, NEW p \in Procs, NEW to, Goto(p, to),
           to.step = "columns" => NamesFrom(to.names, catalogs', faults'),
           to.step = "install" => MapFrom(to.map, catalogs', faults'),
           tablesMap' = tablesMap \/ MapFrom(tablesMap', catalogs', faults'),
           proc' = "up" => proc = "up" \/ task[Main].step = "create",
           p = Main /\ to.step \in {"settings", "create"} =>
               task[Main].step = "settings" \/ MapFrom(tablesMap', catalogs', faults')
    PROVE  LoadInv'
  <1>1. task'[p] = to /\ \A q \in Procs : q # p => task'[q] = task[q]
    BY TaskDomain DEF Goto
  <1>2. ASSUME NEW q \in Procs, task'[q].step = "columns"
        PROVE  NamesFrom(task'[q].names, catalogs', faults')
    BY <1>1, <1>2, NamesKept DEF LoadInv
  <1>3. ASSUME NEW q \in Procs, task'[q].step = "install"
        PROVE  MapFrom(task'[q].map, catalogs', faults')
    BY <1>1, <1>3, MapKept DEF LoadInv
  <1>4. ASSUME proc' = "up" \/ task'[Main].step \in {"settings", "create"}
        PROVE  MapFrom(tablesMap', catalogs', faults')
    <2> SUFFICES ASSUME tablesMap' = tablesMap, ~MapFrom(tablesMap', catalogs', faults')
                 PROVE  FALSE
      OBVIOUS
    <2>1. proc = "up" \/ task[Main].step \in {"settings", "create"}
      BY <1>1, <1>4, TaskDomain
    <2> QED
      BY <2>1, MapKept DEF LoadInv
  <1> QED
    BY <1>2, <1>3, <1>4 DEF LoadInv

\* Steps that alter no catalog, and the alterations.
LEMMA StepGrows ==
    ASSUME TypesHold, catalogs' = catalogs \/ \E cat : catalogs' = Append(catalogs, cat) /\ cat \in TablesMaps,
           faults' = faults \/ faults' = faults + 1
    PROVE  Grows
  <1>1. Len(catalogs) \in Nat /\ (faults' = 0 => faults = 0)
    BY LenProperties DEF TypesHold, DataOK
  <1>2. CASE catalogs' = catalogs
    BY <1>1, <1>2 DEF Grows
  <1>3. CASE \E cat : catalogs' = Append(catalogs, cat) /\ cat \in TablesMaps
    <2>1. Len(catalogs') = Len(catalogs) + 1 /\ \A i \in 1..Len(catalogs) : catalogs'[i] = catalogs[i]
      BY <1>3, AppendProperties DEF TypesHold, DataOK
    <2> QED
      BY <1>1, <2>1 DEF Grows
  <1> QED
    BY <1>2, <1>3

\* A step of a request that loads nothing and installs nothing.
LEMMA LoadQuiet ==
    ASSUME TypesHold, LoadInv, UNCHANGED <<catalogs, tablesMap, proc>>,
           faults' = faults \/ faults' = faults + 1,
           NEW h \in Handlers, NEW to, Goto(h, to), to.step \notin {"columns", "install"}
    PROVE  LoadInv'
  <1>1. Grows
    BY StepGrows
  <1>2. h \in Procs /\ h # Main
    BY TaskDomain, HandlersAssumption
  <1> QED
    BY <1>1, <1>2, LoadStep

\* The process ends, and every load with it.
LEMMA LoadEnds == ASSUME Ends PROVE LoadInv'
  <1>1. proc' = "down" /\ \A p \in Procs : task'[p].step = "idle"
    BY DEF Ends, Idle
  <1> QED
    BY <1>1 DEF LoadInv, Procs

\* LoadNames: the names are those of the catalog of that moment.
LEMMA LoadNamesFrom ==
    ASSUME TypesHold, LoadInv, NEW p \in Procs, LoadNames(p)
    PROVE  LoadInv'
  <1> DEFINE to(names) == [step |-> "columns", since |-> task[p].since, names |-> names,
                           whole |-> names = ListedTables(catalog)]
  <1>1. PICK names \in SUBSET ListedTables(catalog) :
            /\ (names = ListedTables(catalog) /\ faults' = faults) \/ faults' = faults + 1
            /\ Goto(p, to(names))
    BY DEF LoadNames, Continues, counters, Faulty
  <1>2. UNCHANGED <<catalogs, tablesMap, proc>>
    BY DEF LoadNames, database, process, history, maps
  <1>3. Grows
    BY <1>1, <1>2, StepGrows
  <1>4. Len(catalogs) \in 1..Len(catalogs) /\ catalog = catalogs[Len(catalogs)] /\ faults \in Nat
    BY LenProperties DEF TypesHold, DataOK
  <1>5. NamesFrom(names, catalogs', faults')
    BY <1>1, <1>2, <1>4 DEF NamesFrom
  <1>6. to(names).step = "columns" /\ to(names).names = names
    OBVIOUS
  <1> HIDE DEF to
  <1> QED
    BY <1>1, <1>2, <1>3, <1>5, <1>6, LoadStep

\* LoadColumns: the columns are those of the catalog of that moment, which is
\* the one the names come from or a later one.
LEMMA LoadColumnsFrom ==
    ASSUME TypesHold, LoadInv, NEW p \in Procs, LoadColumns(p)
    PROVE  LoadInv'
  <1> DEFINE to(m) == [step |-> "install", since |-> task[p].since, map |-> m,
                       whole |-> task[p].whole /\ m = FetchedMap(task[p].names, catalog)]
             names == task[p].names
  <1>1. PICK m \in CutShort(FetchedMap(names, catalog)) :
            /\ (m = FetchedMap(names, catalog) /\ faults' = faults) \/ faults' = faults + 1
            /\ Goto(p, to(m))
    BY DEF LoadColumns, Continues, counters, Faulty
  <1>2. UNCHANGED <<catalogs, tablesMap, proc>>
    BY DEF LoadColumns, database, process, history, maps
  <1>3. Grows
    BY <1>1, <1>2, StepGrows
  <1>4. Len(catalogs) \in Nat /\ catalog = catalogs[Len(catalogs)] /\ faults \in Nat
    BY LenProperties DEF TypesHold, DataOK
  <1>5. NamesFrom(names, catalogs, faults) /\ names \in SUBSET Tables
    BY LoadFields DEF LoadInv, LoadColumns, At
  <1> HIDE DEF names
  <1>6. PICK i \in 1..Len(catalogs) :
            names \subseteq ListedTables(catalogs[i]) /\ (faults = 0 => names = ListedTables(catalogs[i]))
    BY <1>5 DEF NamesFrom
  <1>7. MapFrom(m, catalogs, faults')
    <2>1. Len(catalogs) \in i..Len(catalogs)
      BY <1>4, <1>6
    <2>2. CASE faults' = 0
      BY <1>1, <1>4, <1>5, <1>6, <2>1, <2>2 DEF MapFrom
    <2>3. CASE faults' # 0
      BY <1>1, <1>4, <1>5, <1>6, <2>1, <2>3 DEF MapFrom
    <2> QED
      BY <2>2, <2>3
  <1>8. to(m).step = "install" /\ to(m).map = m
    OBVIOUS
  <1> HIDE DEF to
  <1> QED
    BY <1>1, <1>2, <1>3, <1>7, <1>8, LoadStep

\* InstallTables: the map of the load is the map of the service.
LEMMA InstallTablesFrom ==
    ASSUME TypesHold, LoadInv, NEW p \in Procs, InstallTables(p)
    PROVE  LoadInv'
  <1>1. /\ tablesMap' = task[p].map /\ task[p].step = "install" /\ Goto(p, AfterInstall(p))
        /\ UNCHANGED <<catalogs, proc, faults>>
    BY DEF InstallTables, At, database, Continues, counters
  <1>2. Grows
    BY <1>1, StepGrows
  <1>3. MapFrom(tablesMap', catalogs', faults')
    BY <1>1, <1>2, MapKept DEF LoadInv
  <1>4. AfterInstall(p).step \in {"settings", "answer"}
    BY DEF AfterInstall
  <1> QED
    BY <1>1, <1>2, <1>3, <1>4, LoadStep

\* A step of a reload or of the load of a start-up.
LEMMA ReloadFrom ==
    ASSUME TypesHold, LoadInv, NEW p \in Procs, Reload(p)
    PROVE  LoadInv'
  <1> USE DEF database, process, history, maps, counters
  <1>1. CASE BeginReload(p)
    BY <1>1, LoadQuiet DEF BeginReload, Takes
  <1>2. CASE LoadFails(p)
    BY <1>2, LoadQuiet DEF LoadFails, Faulty
  <1>3. CASE AnswerTables(p)
    <2>1. Goto(p, Done([kind |-> "tables", since |-> task[p].since, own |-> task[p].own,
                        map |-> tablesMap]))
          /\ UNCHANGED <<catalogs, tablesMap, proc, faults>> /\ task[p].step = "answer"
      BY <1>3 DEF AnswerTables, Continues, At
    <2>2. p \in Handlers
      BY <2>1 DEF Procs, TypesHold, TasksOK, MainTasks, LoadTasks, Idle
    <2> QED
      BY <2>1, <2>2, LoadQuiet DEF Done
  <1> QED
    BY <1>1, <1>2, <1>3, LoadNamesFrom, LoadColumnsFrom, InstallTablesFrom DEF Reload

\* The readers.
LEMMA ReadFrom ==
    ASSUME TypesHold, LoadInv, NEW h \in Handlers, Read(h)
    PROVE  LoadInv'
  <1> USE DEF database, process, history, maps, counters
  <1>1. ASSUME NEW t \in Tables, GetTable(h, t) PROVE LoadInv'
    BY <1>1, LoadQuiet DEF GetTable, Takes, Unknown, Done
  <1>2. ASSUME NEW t \in Tables, GetSettings(h, t) PROVE LoadInv'
    <2>1. PICK s : Goto(h, IF s = Nil THEN Unknown(t)
                           ELSE Done([kind |-> "settings", table |-> t, settings |-> s]))
      BY <1>2 DEF GetSettings
    <2> QED
      BY <1>2, <2>1, LoadQuiet DEF GetSettings, Takes, Unknown, Done
  <1>3. ASSUME NEW t \in Tables, NEW select, NEW search, ViewTable(h, t, select, search)
        PROVE  LoadInv'
    BY <1>3, LoadQuiet DEF ViewTable, Takes, Unknown, Done
  <1>4. ASSUME NEW t \in Tables, NEW select, NEW search, GetRows(h, t, select, search)
        PROVE  LoadInv'
    BY <1>4, LoadQuiet DEF GetRows, Takes, RowsCall
  <1>5. ASSUME NEW t \in Tables, NEW insert, FormSettings(h, t, insert) PROVE LoadInv'
    <2>1. PICK s : Goto(h, IF s = Nil THEN Unknown(t)
                           ELSE IF insert
                           THEN Done([kind |-> "settings", table |-> t, settings |-> s])
                           ELSE RowsCall("form", t, {}, Nil, {}, {}, 0))
      BY <1>5 DEF FormSettings
    <2> QED
      BY <1>5, <2>1, LoadQuiet DEF FormSettings, Takes, Unknown, Done, RowsCall
  <1>6. CASE ViewSettings(h)
    <2>1. PICK s : Goto(h, IF s = Nil THEN Unknown(task[h].table)
                  ELSE RowsCall("view", task[h].table,
                         IF task[h].select = {} THEN s["tableViewSelectColumns"] ELSE task[h].select,
                         IF task[h].search THEN s["tableViewTextFiltersCols"] ELSE Nil,
                         SortList(task[h].header), task[h].header, task[h].first))
      BY <1>6 DEF ViewSettings
    <2> QED
      BY <1>6, <2>1, LoadQuiet DEF ViewSettings, Continues, Unknown, Done, RowsCall
  <1>7. CASE RowsTable(h)
    BY <1>7, LoadQuiet DEF RowsTable, Continues, Unknown, Done
  <1>8. CASE QueryRows(h)
    BY <1>8, LoadQuiet DEF QueryRows, Continues, Failed, Done
  <1> QED
    BY <1>1, <1>2, <1>3, <1>4, <1>5, <1>6, <1>7, <1>8 DEF Read

\* The updates of settings.
LEMMA UpdateFrom ==
    ASSUME TypesHold, LoadInv, NEW h \in Handlers, Update(h)
    PROVE  LoadInv'
  <1> USE DEF database, process, history, maps, counters
  <1>1. ASSUME NEW t \in Tables, NEW patch \in Patches, UpsertSettings(h, t, patch)
        PROVE  LoadInv'
    <2>1. PICK row : row = MergeConfig(config[t], patch)
      OBVIOUS
    <2>2. UNCHANGED <<catalogs, tablesMap, proc, faults>>
      BY <1>1 DEF UpsertSettings, Takes
    <2>3. CASE Goto(h, Failed)
      BY <2>2, <2>3, LoadQuiet DEF Failed, Done
    <2>4. CASE Goto(h, [step |-> "store", table |-> t, patch |-> patch, config |-> row])
      BY <2>2, <2>4, LoadQuiet
    <2> QED
      BY <1>1, <2>1, <2>3, <2>4 DEF UpsertSettings
  <1>2. ASSUME NEW t \in Tables, NEW patch \in Patches, UpsertFails(h, t, patch)
        PROVE  LoadInv'
    BY <1>2, LoadQuiet DEF UpsertFails, Failed, Done
  <1>3. CASE BeginStore(h)
    <2>1. Goto(h, [task[h] EXCEPT !.step = "storing"])
          /\ UNCHANGED <<catalogs, tablesMap, proc, faults>> /\ task[h].step = "store"
      BY <1>3 DEF BeginStore, At, Continues
    <2>2. task[h] \in StoreTasks
      BY <2>1, TaskFields DEF TypesHold, TasksOK
    <2>3. [task[h] EXCEPT !.step = "storing"].step = "storing"
      BY <2>2 DEF StoreTasks
    <2> QED
      BY <2>1, <2>3, LoadQuiet
  <1>4. CASE EndStore(h)
    <2>1. PICK reply : Goto(h, Done(reply)) /\ UNCHANGED <<catalogs, tablesMap, proc, faults>>
      BY <1>4 DEF EndStore, Continues, Saved
    <2> QED
      BY <2>1, LoadQuiet DEF Done
  <1>5. CASE MapFault(h)
    BY <1>5, LoadEnds DEF MapFault
  <1> QED
    BY <1>1, <1>2, <1>3, <1>4, <1>5 DEF Update

\* The start-up and the ends of the process.
LEMMA BootFrom ==
    ASSUME TypesHold, LoadInv, Boot
    PROVE  LoadInv'
  <1> USE TaskDomain DEF database, process, history, maps, counters
  <1>1. CASE Start
    <2>1. Grows
      BY <1>1, StepGrows DEF Start, Continues
    <2> QED
      BY <1>1, <2>1, LoadStep DEF Start
  <1>2. CASE LoadSettings
    <2>1. Grows
      BY <1>2, StepGrows DEF LoadSettings, Continues
    <2> QED
      BY <1>2, <2>1, LoadStep DEF LoadSettings, At
  <1>3. CASE CreateAdminTables
    <2>1. Grows
      BY <1>3, StepGrows DEF CreateAdminTables, Continues
    <2> QED
      BY <1>3, <2>1, LoadStep DEF CreateAdminTables, At, Idle
  <1>4. CASE LoadSettingsFails \/ StartupFails \/ Stop
    BY <1>4, LoadEnds DEF LoadSettingsFails, StartupFails, Stop
  <1> QED
    BY <1>1, <1>2, <1>3, <1>4 DEF Boot

\* AlterCatalog: what was loaded over the history remains so.
LEMMA AlterCatalogFrom ==
    ASSUME TypesHold, LoadInv, NEW t \in Tables, NEW columns \in Alterations,
           AlterCatalog(t, columns)
    PROVE  LoadInv'
  <1>1. /\ catalogs' = Append(catalogs, catalog')
        /\ UNCHANGED <<proc, tablesMap, task, faults>>
    BY DEF AlterCatalog, process, history, maps, Continues, counters
  <1>2. Grows
    <2>1. catalog \in TablesMaps
      BY ElementOfSeq DEF TypesHold, DataOK
    <2>2. catalog' \in TablesMaps
      BY <2>1, InputsAssumption DEF AlterCatalog, TablesMaps
    <2> QED
      BY <1>1, <2>2, StepGrows
  <1> QED
    BY <1>1, <1>2, NamesKept, MapKept DEF LoadInv

\* Loads overlap schema changes, each other and restarts, and still the tables
\* the service serves are those one load read (core/schema_service.go:54-164).
THEOREM TablesOfOneLoad == Spec => []OneLoad
  <1>1. Init => LoadInv
    <2> SUFFICES ASSUME Init PROVE LoadInv
      OBVIOUS
    <2>1. proc = "down" /\ \A p \in Procs : task[p].step = "idle"
      BY DEF Init, Idle
    <2> QED
      BY <2>1 DEF LoadInv, Procs
  <1>2. TypesHold /\ LoadInv /\ [Next]_vars => LoadInv'
    <2> SUFFICES ASSUME TypesHold, LoadInv, [Next]_vars
                 PROVE  LoadInv'
      OBVIOUS
    <2>1. CASE UNCHANGED vars
      <3>1. UNCHANGED <<catalogs, faults, proc, tablesMap, task>>
        BY <2>1 DEF vars, database, process, history, maps, counters
      <3> QED
        BY <3>1 DEF LoadInv
    <2> QED
      BY <2>1, BootFrom, ReloadFrom, UpdateFrom, ReadFrom, AlterCatalogFrom DEF Next
  <1>3. LoadInv => OneLoad
    BY DEF LoadInv, MapFrom, OneLoad, Loaded, LoadedCut
  <1>4. Spec => []TypesHold
    BY TypeCorrect, TypeParts, PTL DEF TypesHold
  <1> QED
    BY <1>1, <1>2, <1>3, <1>4, PTL DEF Spec
=============================================================================

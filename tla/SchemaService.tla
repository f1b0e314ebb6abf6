--------------------------- MODULE SchemaService ---------------------------
(***************************************************************************)
(* The schema service of pgpanel (core/schema_service.go): the two maps    *)
(* every HTTP handler shares, tablesMap and tableSettingsMap, the          *)
(* database they copy (the catalog of the panel's schema and the rows of   *)
(* pgpanel.settings), the start-up that fills them, and the requests that  *)
(* read, reload and update them while other sessions change the schema.    *)
(*                                                                         *)
(* A handler is a goroutine net/http runs for one request at a time.  The  *)
(* maps have no lock, so each access of a map and each SQL statement is a  *)
(* step of its own, and the steps of different handlers interleave.        *)
(***************************************************************************)
EXTENDS Integers, Sequences

CONSTANTS
    Tables,         \* the tables the schema may ever hold
    Columns,        \* column ordinals (information_schema ordinal_position)
    TextColumns,    \* the columns of type text or varchar
    PrimaryKey,     \* the column that is the primary key, where it exists
    IncludedTables, \* config.IncludedTables; {} when every table is shown
    Handlers,       \* handler goroutines
    Reloaders,      \* the handlers that may be asked to reload the tables
    Writers,        \* the handlers that may be asked to update settings
    Patches,        \* the settings bodies an administrator may save
    ClientSelects,  \* the ?cols= selections a client may send ({}: none)
    InitialCatalog, \* the catalog when the server is first started
    Alterations,    \* what a schema change may leave a table as (Nil: dropped)
    Nil,            \* no value: Go's nil, a key or a row that is not there
    Bad,            \* a value of a key that does not decode into its Go type
    Null,           \* a settings body of null, and what it leaves of a row
    Main,           \* the goroutine that starts the server
    MaxCatalogs,    \* bound: catalogs the schema goes through
    MaxRequests,    \* bound: requests served in a behaviour
    MaxFaults,      \* bound: statements that fail or whose rows stop early
    MaxStops        \* bound: times the process is stopped or killed

Fields    == {"tableViewSelectColumns", "tableViewTextFiltersCols"}
Procs     == Handlers \union {Main}
ColumnSet == SUBSET Columns
\* A TablesMap: the columns of each listed table, Nil for an unlisted one.
TablesMaps == [Tables -> {Nil} \union ColumnSet]
\* A JSON object of settings, Nil for a key it does not have: any object is
\* accepted, saved and committed, whether its values decode or not.
Configs   == [Fields -> {Nil, Bad} \union ColumnSet]
\* What a body, and a row of pgpanel.settings, may be.
Rows      == Configs \union {Null}
\* A decoded TableSettings: a missing key and [] are both the empty slice.
Settings  == [Fields -> ColumnSet]

ASSUME ColumnsAssumption ==
    /\ Columns \subseteq Nat
    /\ TextColumns \subseteq Columns
    /\ PrimaryKey \in Columns
    /\ \A v \in ColumnSet \union Configs \union Settings : v \notin {Nil, Bad, Null}
    /\ Nil # Bad /\ Nil # Null
ASSUME HandlersAssumption ==
    /\ Main \notin Handlers
    /\ Reloaders \subseteq Handlers
    /\ Writers \subseteq Handlers
ASSUME InputsAssumption ==
    /\ IncludedTables \subseteq Tables
    /\ Patches \subseteq Rows
    /\ ClientSelects \subseteq ColumnSet
    /\ InitialCatalog \in TablesMaps
    /\ Alterations \subseteq {Nil} \union ColumnSet
ASSUME BoundsAssumption ==
    MaxCatalogs \in Nat /\ MaxRequests \in Nat /\ MaxFaults \in Nat /\ MaxStops \in Nat

VARIABLES
    catalog,      \* the tables and columns the database has now
    config,       \* the rows of pgpanel.settings, Nil where there is none
    adminTables,  \* whether the schema pgpanel and its tables exist
    proc,         \* the server process: "down", "boot" or "up"
    tablesMap,    \* SchemaService.tablesMap
    settingsMap,  \* SchemaService.tableSettingsMap
    task,         \* where each goroutine is, with its local variables
    catalogs,     \* auxiliary: every catalog the schema went through
    committed,    \* auxiliary: every settings row ever committed, per table
    installed,    \* auxiliary: the maps installed since the process started
    behind,       \* auxiliary: tables whose entry may be behind their row
    requests, faults, stops  \* counters of the bounds

database == <<catalog, catalogs>>
store    == <<config, committed, adminTables>>
history  == <<installed, behind>>
process  == <<proc, stops, history>>
maps     == <<tablesMap, settingsMap>>
counters == <<requests, faults>>
vars == <<database, store, process, maps, task, counters>>

-----------------------------------------------------------------------------
(* What the functions of the service compute.                              *)

\* The names query: every base table of the schema, or the configured list.
ListedTables(cat) ==
    IF IncludedTables = {} THEN {t \in Tables : cat[t] # Nil} ELSE IncludedTables

\* The columns query for the listed names, over the catalog of that moment.
FetchedMap(names, cat) ==
    [t \in Tables |-> IF t \notin names THEN Nil
                      ELSE IF cat[t] = Nil THEN {} ELSE cat[t]]

\* The rows come by ordinal position: a stream cut short delivers the lower
\* columns of every table, and any of those that share the last ordinal.
CutShort(full) ==
    {m \in TablesMaps :
        /\ \A t \in Tables : (m[t] = Nil) <=> (full[t] = Nil)
        /\ \A t \in Tables : full[t] # Nil => m[t] \subseteq full[t]
        /\ \A s, t \in Tables : (full[s] # Nil /\ full[t] # Nil) =>
              \A c \in m[s], d \in full[t] : d < c => d \in m[t]}

MergeReplaces(old, patch) == patch \* mutant: the whole row is replaced

\* jsonb ||: the keys of the patch replace those of the row, the rest stay.
\* A null body wipes the row: NULL || x is NULL, and a JSON null makes an array
\* of it; nothing that is saved later makes it an object again.
MergeConfig(old, patch) ==
    IF Null \in {old, patch} THEN Null
    ELSE IF old = Nil THEN patch
    ELSE [f \in Fields |-> IF patch[f] = Nil THEN old[f] ELSE patch[f]]

\* Whether Scan may succeed on a row, and whether it may fail: an object is
\* decoded if its values have the types of the struct, and else refused.  What
\* a null body left (SQL NULL, JSON null or an array) the driver may accept as
\* nothing or refuse.
Scans(row) == IF row = Null THEN BOOLEAN ELSE {\A f \in Fields : row[f] # Bad}

\* A missing row, a missing key and an empty list all give the empty slice.
Decode(row) ==
    [f \in Fields |-> IF row \in {Nil, Null} THEN {} ELSE IF row[f] = Nil THEN {} ELSE row[f]]
\* The entry an update stores: Scan of a null sets its *TableSettings to nil.
Entry(row) == IF row = Null THEN Nil ELSE Decode(row)

\* "Apply some defaults for the frontend": all columns, all text columns.
Default(f, columns) ==
    IF f = "tableViewSelectColumns" THEN columns ELSE columns \intersect TextColumns

AlwaysDefaults(settings, columns) == \* mutant: what was saved is replaced as well
    [f \in Fields |-> Default(f, columns)]

WithDefaults(settings, columns) ==
    [f \in Fields |-> IF settings[f] = {} THEN Default(f, columns) ELSE settings[f]]

\* SelectColumns.ToSQL: the known ones of the selection, all if there is none.
SelectList(select, columns) ==
    IF select \intersect columns = {} THEN columns ELSE select \intersect columns
\* TextSearchFilters.ToSQL: the given columns, by default every text column.
SearchList(cols, columns) ==
    columns \intersect (IF cols = {} THEN TextColumns ELSE cols)

ViewColumnsAll(columns, select) == columns \* mutant: the selection is ignored

\* table.GetColumns(params.SelectColumns), the header of a view.
ViewColumns(columns, select) == columns \intersect select
SortList(columns) == columns \intersect {PrimaryKey}

-----------------------------------------------------------------------------
(* The goroutines.                                                         *)

Idle        == [step |-> "idle"]
Done(reply) == [step |-> "done", reply |-> reply]
At(p, step) == task[p].step = step
Goto(p, to) == task' = [task EXCEPT ![p] = to]

\* net/http hands a free handler the next request while the server is up.
Takes(h) ==
    /\ proc = "up" /\ h \in Handlers
    /\ task[h].step \in {"idle", "done"}
    /\ requests < MaxRequests
    /\ requests' = requests + 1
    /\ UNCHANGED faults
Continues == UNCHANGED counters
Faulty    == faults < MaxFaults /\ faults' = faults + 1 /\ UNCHANGED requests

Unknown(t) == Done([kind |-> "unknown", table |-> t, listed |-> tablesMap[t] # Nil])
Failed     == Done([kind |-> "failed"])

\* The process ends: the maps and every goroutine are gone.
Ends ==
    /\ proc' = "down"
    /\ tablesMap' = [t \in Tables |-> Nil]
    /\ settingsMap' = [t \in Tables |-> Nil]
    /\ task' = [p \in Procs |-> Idle]
    /\ installed' = <<>> /\ behind' = {}
    /\ UNCHANGED <<database, store>>

-----------------------------------------------------------------------------
(* loadTablesFromDB, run by the start-up and by a reload.                  *)

BeginReloadCached(h) == \* mutant: the tables at hand are answered
    /\ Takes(h) /\ h \in Reloaders
    /\ Goto(h, [step |-> "answer", since |-> Len(catalogs), own |-> Len(installed)])
    /\ UNCHANGED <<database, store, process, maps>>

BeginReload(h) ==
    /\ Takes(h) /\ h \in Reloaders
    /\ Goto(h, [step |-> "names", since |-> Len(catalogs)])
    /\ UNCHANGED <<database, store, process, maps>>

\* Query 1.  With IncludedTables there is no query, so no rows to lose.
\* whole (auxiliary): nothing of this load is missing.
LoadNames(p) ==
    /\ At(p, "names")
    /\ \E names \in SUBSET ListedTables(catalog) :
          /\ \/ names = ListedTables(catalog) /\ Continues
             \/ names # ListedTables(catalog) /\ IncludedTables = {} /\ Faulty
          /\ Goto(p, [step |-> "columns", since |-> task[p].since, names |-> names,
                      whole |-> names = ListedTables(catalog)])
    /\ UNCHANGED <<database, store, process, maps>>

\* Query 2.  rows.Next ends the loop on an error as on the last row.
LoadColumns(p) ==
    /\ At(p, "columns")
    /\ LET full == FetchedMap(task[p].names, catalog) IN
       \E m \in CutShort(full) :
          /\ IF m = full THEN Continues ELSE Faulty
          /\ Goto(p, [step |-> "install", since |-> task[p].since, map |-> m,
                      whole |-> task[p].whole /\ m = full])
    /\ UNCHANGED <<database, store, process, maps>>

\* own (auxiliary): which of the installed maps is this load's, 0 when it has
\* failed or was cut short.
AfterInstall(p) ==
    IF p = Main THEN [step |-> "settings"]
    ELSE [step |-> "answer", since |-> task[p].since,
          own |-> IF task[p].whole THEN Len(installed) + 1 ELSE 0]

InstallTablesMerged(p) == \* mutant: the old map is not replaced but added to
    /\ At(p, "install")
    /\ tablesMap' = [t \in Tables |-> IF task[p].map[t] = Nil THEN tablesMap[t] ELSE task[p].map[t]]
    /\ installed' = Append(installed, tablesMap')
    /\ Goto(p, AfterInstall(p))
    /\ Continues
    /\ UNCHANGED <<database, store, proc, stops, behind, settingsMap>>

\* "set tableMap if there are no errors"
InstallTables(p) ==
    /\ At(p, "install")
    /\ tablesMap' = task[p].map
    /\ installed' = Append(installed, task[p].map)
    /\ Goto(p, AfterInstall(p))
    /\ Continues
    /\ UNCHANGED <<database, store, proc, stops, behind, settingsMap>>

\* A query that returns an error ends the load: GetTablesMap ignores it.
LoadFails(h) ==
    /\ h \in Handlers /\ task[h].step \in {"names", "columns"}
    /\ Faulty
    /\ Goto(h, [step |-> "answer", since |-> task[h].since, own |-> 0])
    /\ UNCHANGED <<database, store, process, maps>>

\* GetTablesMap returns the map that is installed by now.
AnswerTables(h) ==
    /\ At(h, "answer")
    /\ Goto(h, Done([kind |-> "tables", since |-> task[h].since, own |-> task[h].own,
                     map |-> tablesMap]))
    /\ Continues
    /\ UNCHANGED <<database, store, process, maps>>

GetTable(h, t) ==
    /\ Takes(h)
    /\ Goto(h, IF tablesMap[t] = Nil THEN Unknown(t)
               ELSE Done([kind |-> "table", table |-> t, header |-> tablesMap[t]]))
    /\ UNCHANGED <<database, store, process, maps>>

-----------------------------------------------------------------------------
(* NewApp: the order in which the process is brought up.                   *)

StartServing == \* mutant: requests are taken before the maps are loaded
    /\ proc = "down" /\ proc' = "up"
    /\ Goto(Main, [step |-> "names", since |-> Len(catalogs)])
    /\ Continues
    /\ UNCHANGED <<database, store, maps, stops, history>>

Start ==
    /\ proc = "down" /\ proc' = "boot"
    /\ Goto(Main, [step |-> "names", since |-> Len(catalogs)])
    /\ Continues
    /\ UNCHANGED <<database, store, maps, stops, history>>

NoRowsFail(t) == \* mutant: pgx.ErrNoRows is not skipped
    IF ~adminTables \/ config[t] = Nil THEN {FALSE} ELSE Scans(config[t])

\* Whether the SELECT of a table's settings may succeed, and whether it may
\* fail: it is an error without pgpanel.settings, and none without a row.
StartupReads(t) ==
    IF ~adminTables THEN {FALSE} ELSE IF config[t] = Nil THEN {TRUE} ELSE Scans(config[t])
Listed == {t \in Tables : tablesMap[t] # Nil}

StoredSettings(t) == \* mutant: only tables with a row of settings get an entry
    IF tablesMap[t] = Nil \/ config[t] = Nil THEN Nil
    ELSE WithDefaults(Decode(config[t]), tablesMap[t])

\* getTableSettingsFromDB: no row is no error, then the defaults.
StartupSettings(t) ==
    IF tablesMap[t] = Nil THEN Nil ELSE WithDefaults(Decode(config[t]), tablesMap[t])

LoadSettings ==
    /\ At(Main, "settings") /\ \A t \in Listed : TRUE \in StartupReads(t)
    /\ settingsMap' = [t \in Tables |-> StartupSettings(t)]
    /\ Goto(Main, [step |-> "create"])
    /\ Continues
    /\ UNCHANGED <<database, store, process, tablesMap>>

\* loadTableSettingsFromDB ends with the first error, and NewApp exits.
LoadSettingsFails ==
    /\ At(Main, "settings") /\ \E t \in Listed : FALSE \in StartupReads(t)
    /\ Continues
    /\ Ends
    /\ UNCHANGED stops

\* NewApp creates the admin tables last, and Serve then takes requests.
CreateAdminTables ==
    /\ At(Main, "create")
    /\ adminTables' = TRUE
    /\ proc' = "up"
    /\ Goto(Main, Idle)
    /\ Continues
    /\ UNCHANGED <<database, config, committed, stops, history, maps>>

\* Any statement of the start-up may fail: os.Exit(1).
StartupFails ==
    /\ proc = "boot" /\ task[Main].step \in {"names", "columns", "settings", "create"}
    /\ Faulty
    /\ Ends
    /\ UNCHANGED stops

\* The process is stopped or killed, at any point of any request.
Stop ==
    /\ proc # "down" /\ stops < MaxStops /\ stops' = stops + 1
    /\ Continues
    /\ Ends

-----------------------------------------------------------------------------
(* tableSettingsMap: a Go map read and written with no lock.               *)

\* A read while another goroutine assigns sees the entry before or after.
SettingsSeen(t) ==
    {settingsMap[t]} \union
    {Entry(task[q].config) : q \in {q \in Handlers : At(q, "storing") /\ task[q].table = t}}

\* The runtime detects most accesses that overlap an assignment, and ends
\* the process: "fatal error: concurrent map read and map write".
MapFault(h) ==
    /\ \E q \in Handlers \ {h} : At(q, "storing")
    /\ \/ task[h].step \in {"store", "viewSettings"}
       \/ task[h].step \in {"idle", "done"} /\ requests < MaxRequests \* a GET arrives
    /\ Continues
    /\ Ends
    /\ UNCHANGED stops

GetSettings(h, t) ==
    /\ Takes(h)
    /\ \E s \in SettingsSeen(t) :
          Goto(h, IF s = Nil THEN Unknown(t)
                  ELSE Done([kind |-> "settings", table |-> t, settings |-> s]))
    /\ UNCHANGED <<database, store, process, maps>>

UpdateUnderWay(t) ==
    \E h \in Handlers : task[h].step \in {"store", "storing"} /\ task[h].table = t

\* The upsert, one atomic statement, is committed; nothing checks that the table
\* is listed.  Then its row is decoded, and an error leaves the cache alone.
UpsertSettings(h, t, patch) ==
    /\ Takes(h) /\ h \in Writers /\ adminTables
    /\ LET row == MergeConfig(config[t], patch) IN
       /\ config' = [config EXCEPT ![t] = row]
       /\ committed' = [committed EXCEPT ![t] = @ \union {row}]
       /\ \/ /\ TRUE \in Scans(row)
             /\ Goto(h, [step |-> "store", table |-> t, patch |-> patch, config |-> row])
             /\ behind' = IF UpdateUnderWay(t) THEN behind \union {t} ELSE behind \ {t}
          \/ /\ FALSE \in Scans(row)
             /\ Goto(h, Failed)
             /\ behind' = behind \union {t}
    /\ UNCHANGED <<database, adminTables, proc, stops, installed, maps>>

\* The statement fails, or it is committed and its RETURNING row is lost.
UpsertFails(h, t, patch) ==
    /\ proc = "up" /\ h \in Writers /\ task[h].step \in {"idle", "done"}
    /\ requests < MaxRequests /\ requests' = requests + 1
    /\ faults < MaxFaults /\ faults' = faults + 1
    /\ \E row \in {config[t], MergeConfig(config[t], patch)} :
       /\ config' = [config EXCEPT ![t] = row]
       /\ committed' = [committed EXCEPT ![t] = @ \union {row}]
       /\ behind' = IF row = config[t] THEN behind ELSE behind \union {t}
    /\ Goto(h, Failed)
    /\ UNCHANGED <<database, adminTables, proc, stops, installed, maps>>

\* The answer of an update: its settings, or null where there are none.
Saved(update, settings) ==
    Done(IF settings = Nil THEN [kind |-> "cleared", table |-> update.table]
         ELSE [kind |-> "saved", table |-> update.table, patch |-> update.patch,
               settings |-> settings])

EndStorePatch(h) == \* mutant: what was sent is stored, not the merged row
    /\ At(h, "storing")
    /\ settingsMap' = [settingsMap EXCEPT ![task[h].table] = Entry(task[h].patch)]
    /\ Goto(h, Saved(task[h], Entry(task[h].patch)))
    /\ Continues
    /\ UNCHANGED <<database, store, process, tablesMap>>

\* s.tableSettingsMap[tableName] = result: the assignment begins and ends.
BeginStore(h) ==
    /\ At(h, "store")
    /\ Goto(h, [task[h] EXCEPT !.step = "storing"])
    /\ Continues
    /\ UNCHANGED <<database, store, process, maps>>

EndStore(h) ==
    /\ At(h, "storing")
    /\ settingsMap' = [settingsMap EXCEPT ![task[h].table] = Entry(task[h].config)]
    /\ Goto(h, Saved(task[h], Entry(task[h].config)))
    /\ Continues
    /\ UNCHANGED <<database, store, process, tablesMap>>

-----------------------------------------------------------------------------
(* The views of DataService that read both maps.                           *)

\* What GetRows is called with: the selection, the columns the text search
\* is limited to (Nil: no text search), the default sort, the columns GetTable
\* showed to the caller, and (auxiliary) in which of the installed maps.
RowsCall(kind, t, select, search, sort, header, first) ==
    [step |-> "rows", kind |-> kind, table |-> t, select |-> select,
     search |-> search, sort |-> sort, header |-> header, first |-> first]

\* GetTableView: the table, as tablesMap has it at that moment.
ViewTable(h, t, select, search) ==
    /\ Takes(h)
    /\ Goto(h, IF tablesMap[t] = Nil THEN Unknown(t)
               ELSE [step |-> "viewSettings", table |-> t, select |-> select,
                     search |-> search, header |-> tablesMap[t],
                     first |-> Len(installed)])
    /\ UNCHANGED <<database, store, process, maps>>

\* Then its settings, which supply the selection when the client sent none.
ViewSettings(h) ==
    /\ At(h, "viewSettings")
    /\ LET v == task[h] IN
       \E s \in SettingsSeen(v.table) :
          Goto(h, IF s = Nil THEN Unknown(v.table)
                  ELSE RowsCall("view", v.table,
                         IF v.select = {} THEN s["tableViewSelectColumns"] ELSE v.select,
                         IF v.search THEN s["tableViewTextFiltersCols"] ELSE Nil,
                         SortList(v.header), v.header, v.first))
    /\ Continues
    /\ UNCHANGED <<database, store, process, maps>>

\* GetFormView: no table is read in insert mode, all its columns in update.
FormSettings(h, t, insert) ==
    /\ Takes(h)
    /\ \E s \in SettingsSeen(t) :
          Goto(h, IF s = Nil THEN Unknown(t)
                  ELSE IF insert
                  THEN Done([kind |-> "settings", table |-> t, settings |-> s])
                  ELSE RowsCall("form", t, {}, Nil, {}, {}, 0))
    /\ UNCHANGED <<database, store, process, maps>>

\* GET /api/data/{table}: no settings and no default sort.
GetRows(h, t, select, search) ==
    /\ Takes(h)
    /\ Goto(h, RowsCall("rows", t, select, IF search THEN {} ELSE Nil, {}, {}, 0))
    /\ UNCHANGED <<database, store, process, maps>>

\* GetRows looks the table up again and builds its statement from that.
\* shown: the SELECT list; reads: every column the statement names.
RowsTable(h) ==
    /\ At(h, "rows")
    /\ LET v == task[h]
           columns == tablesMap[v.table]
           shown == SelectList(v.select, columns)
           searched == IF v.search = Nil THEN {} ELSE SearchList(v.search, columns)
       IN Goto(h, IF columns = Nil THEN Unknown(v.table)
                  ELSE [step |-> "query", kind |-> v.kind, table |-> v.table,
                        header |-> ViewColumns(v.header, v.select), shown |-> shown,
                        reads |-> shown \union searched \union v.sort,
                        first |-> v.first, last |-> Len(installed)])
    /\ Continues
    /\ UNCHANGED <<database, store, process, maps>>

\* The statement runs against the catalog of that moment; the view adds the
\* columns of its own lookup, table.GetColumns(params.SelectColumns).
QueryRows(h) ==
    /\ At(h, "query")
    /\ LET v == task[h]
           runs == catalog[v.table] # Nil /\ v.reads \subseteq catalog[v.table]
       IN Goto(h, IF runs THEN Done([kind |-> v.kind, table |-> v.table,
                                     header |-> v.header, rows |-> v.shown,
                                     first |-> v.first, last |-> v.last])
                  ELSE Failed)
    /\ Continues
    /\ UNCHANGED <<database, store, process, maps>>

-----------------------------------------------------------------------------
\* Another session creates, alters or drops a table.
AlterCatalog(t, columns) ==
    /\ Len(catalogs) < MaxCatalogs
    /\ columns # catalog[t]
    /\ catalog' = [catalog EXCEPT ![t] = columns]
    /\ catalogs' = Append(catalogs, catalog')
    /\ Continues
    /\ UNCHANGED <<store, process, maps, task>>

Init ==
    /\ catalog = InitialCatalog /\ catalogs = <<InitialCatalog>>
    /\ config = [t \in Tables |-> Nil]
    /\ committed = [t \in Tables |-> {Nil}]
    /\ adminTables \in BOOLEAN
    /\ proc = "down"
    /\ tablesMap = [t \in Tables |-> Nil]
    /\ settingsMap = [t \in Tables |-> Nil]
    /\ task = [p \in Procs |-> Idle]
    /\ installed = <<>> /\ behind = {}
    /\ requests = 0 /\ faults = 0 /\ stops = 0

Boot ==
    Start \/ LoadSettings \/ LoadSettingsFails \/ CreateAdminTables \/ StartupFails \/ Stop
Reload(p) ==
    BeginReload(p) \/ LoadNames(p) \/ LoadColumns(p) \/ InstallTables(p)
    \/ LoadFails(p) \/ AnswerTables(p)
Update(h) ==
    \/ \E t \in Tables, patch \in Patches : UpsertSettings(h, t, patch) \/ UpsertFails(h, t, patch)
    \/ BeginStore(h) \/ EndStore(h) \/ MapFault(h)
Read(h) ==
    \/ \E t \in Tables : GetTable(h, t) \/ GetSettings(h, t)
    \/ \E t \in Tables, select \in ClientSelects, search \in BOOLEAN :
          ViewTable(h, t, select, search) \/ GetRows(h, t, select, search)
    \/ \E t \in Tables, insert \in BOOLEAN : FormSettings(h, t, insert)
    \/ ViewSettings(h) \/ RowsTable(h) \/ QueryRows(h)

Next ==
    \/ Boot
    \/ \E p \in Procs : Reload(p)
    \/ \E h \in Handlers : Update(h) \/ Read(h)
    \/ \E t \in Tables, columns \in Alterations : AlterCatalog(t, columns)

Spec == Init /\ [][Next]_vars

\* The process is restarted when it ends, and a start-up once begun goes on:
\* nothing in it waits for anything but the database.
BootFairness ==
    /\ WF_vars(Start) /\ WF_vars(Reload(Main))
    /\ WF_vars(LoadSettings) /\ WF_vars(LoadSettingsFails) /\ WF_vars(CreateAdminTables)
FairSpec == Spec /\ BootFairness

-----------------------------------------------------------------------------
(* Types.                                                                  *)

Replies ==
    [kind : {"tables"}, since : 1..Len(catalogs), own : Nat, map : TablesMaps]
    \union [kind : {"table"}, table : Tables, header : ColumnSet]
    \union [kind : {"settings"}, table : Tables, settings : Settings]
    \union [kind : {"saved"}, table : Tables, patch : Rows, settings : Settings]
    \union [kind : {"cleared"}, table : Tables]
    \union [kind : {"view", "form", "rows"}, table : Tables, header : ColumnSet, rows : ColumnSet,
            first : Nat, last : Nat]
    \union [kind : {"unknown"}, table : Tables, listed : BOOLEAN]
    \union [kind : {"failed"}]

LoadTasks ==
    [step : {"names"}, since : 1..Len(catalogs)]
    \union [step : {"columns"}, since : 1..Len(catalogs), names : SUBSET Tables,
            whole : BOOLEAN]
    \union [step : {"install"}, since : 1..Len(catalogs), map : TablesMaps, whole : BOOLEAN]

AnswerTasks == [step : {"answer"}, since : 1..Len(catalogs), own : Nat]

StoreTasks ==
    [step : {"store", "storing"}, table : Tables, patch : Rows,
     config : {row \in Rows : TRUE \in Scans(row)}]

ViewTasks ==
    [step : {"viewSettings"}, table : Tables, select : ColumnSet, search : BOOLEAN,
     header : ColumnSet, first : Nat]
    \union [step : {"rows"}, kind : {"view", "form", "rows"}, table : Tables, select : ColumnSet,
            search : {Nil} \union ColumnSet, sort : ColumnSet, header : ColumnSet, first : Nat]
    \union [step : {"query"}, kind : {"view", "form", "rows"}, table : Tables,
            header : ColumnSet, shown : ColumnSet, reads : ColumnSet, first : Nat, last : Nat]

HandlerTasks ==
    {Idle} \union [step : {"done"}, reply : Replies] \union LoadTasks
    \union AnswerTasks \union StoreTasks \union ViewTasks
MainTasks == {Idle} \union LoadTasks \union [step : {"settings", "create"}]

\* Every variable has its type, and goroutines exist only in a live process:
\* the main one while it boots, the handlers once it is up.
TypeOK ==
    /\ catalogs \in Seq(TablesMaps) /\ Len(catalogs) >= 1
    /\ catalog = catalogs[Len(catalogs)]
    /\ config \in [Tables -> {Nil} \union Rows]
    /\ committed \in [Tables -> SUBSET ({Nil} \union Rows)]
    /\ adminTables \in BOOLEAN
    /\ proc \in {"down", "boot", "up"}
    /\ tablesMap \in TablesMaps
    /\ settingsMap \in [Tables -> {Nil} \union Settings]
    /\ installed \in Seq(TablesMaps) /\ behind \subseteq Tables
    /\ DOMAIN task = Procs
    /\ task[Main] \in MainTasks
    /\ \A h \in Handlers : task[h] \in HandlerTasks
    /\ proc # "up" => \A h \in Handlers : task[h] = Idle
    /\ proc # "boot" => task[Main] = Idle
    /\ requests \in Nat /\ faults \in Nat /\ stops \in Nat

-----------------------------------------------------------------------------
(* Properties.                                                             *)

Replied(h, kind) == task[h].step = "done" /\ task[h].reply.kind = kind

\* Settings a request may be given for a row: the row itself, as an update
\* stores it, or the row with the defaults a start-up adds.
ServedFor(row, s, t) ==
    \/ s = Decode(row)
    \/ \E i \in 1..Len(catalogs) : \E columns \in SUBSET FetchedMap({t}, catalogs[i])[t] :
          s = WithDefaults(Decode(row), columns)

\* The cache of settings never holds a mixture or a half of two updates, nor
\* an update that did not commit: whatever the order in which concurrent
\* updates (schema_service.go:315-340) and restarts reach it, an entry is
\* one row that was committed for that table, whole.
ServedIsCommitted ==
    \A t \in Tables : settingsMap[t] # Nil =>
        \E row \in committed[t] : ServedFor(row, settingsMap[t], t)

\* Nothing an administrator saved is served differently: with no update of a
\* table under way, every non-empty list of its row is the list in the cache,
\* across updates, reloads and restarts (schema_service.go:205-217, 328-336).
\* Excepted are the tables whose row was committed while another update was
\* under way, or by one that was answered with an error, until an update has the
\* table to itself or the process starts anew.
SettledUnlessBehind ==
    \A t \in Tables \ behind : \A f \in Fields :
        (proc = "up" /\ settingsMap[t] # Nil /\ ~UpdateUnderWay(t) /\ Decode(config[t])[f] # {})
        => settingsMap[t][f] = Decode(config[t])[f]

\* "update stored settings map" (schema_service.go:335): once every update of a
\* table is answered and no statement has failed, the cache has the row's lists.
SettledCache ==
    \A t \in Tables : \A f \in Fields :
        (faults = 0 /\ proc = "up" /\ settingsMap[t] # Nil /\ ~UpdateUnderWay(t)
         /\ Decode(config[t])[f] # {})
        => settingsMap[t][f] = Decode(config[t])[f]

\* An update that was answered is in the database, and no other update,
\* whichever keys it carries, removes a key it set: the || of the upsert
\* (schema_service.go:319-323) keeps the keys the other one lacks.  The
\* answer shows the keys as they were sent.  A null body is what wipes a row.
HasKey(row, f) == row \notin {Nil, Null} /\ row[f] # Nil
SavedFieldsSurvive ==
    \A h \in Handlers : Replied(h, "saved") =>
        LET r == task[h].reply IN
        \A f \in Fields : r.patch[f] # Nil =>
            r.settings[f] = r.patch[f] /\ (config[r.table] = Null \/ HasKey(config[r.table], f))

\* The installed map is what the two queries of one load returned, the names
\* of one catalog and their columns in the same or a later one: columns of two
\* loads never mix, though loads overlap each other and schema changes, and as
\* long as no statement failed nothing is missing (schema_service.go:54-164).
Loaded(map, names, i, j) ==
    names = ListedTables(catalogs[i]) /\ map = FetchedMap(names, catalogs[j])
LoadedCut(map, names, i, j) ==
    names \subseteq ListedTables(catalogs[i]) /\ map \in CutShort(FetchedMap(names, catalogs[j]))
OneLoad ==
    proc = "up" =>
        \E i \in 1..Len(catalogs) : \E j \in i..Len(catalogs), names \in SUBSET Tables :
            IF faults = 0 THEN Loaded(tablesMap, names, i, j) ELSE LoadedCut(tablesMap, names, i, j)

\* A reload of which no statement failed and no row was lost answers tables read
\* since its request came in, though the schema changes and other requests fail
\* or run meanwhile (schema_service.go:219-225); unless another reload has
\* installed other tables between its own installation and its answer.
FreshReload ==
    \A h \in Handlers : Replied(h, "tables") =>
        LET r == task[h].reply IN
        (r.own # 0 /\ r.map = installed[r.own]) =>
            \E i \in r.since..Len(catalogs) : \E j \in i..Len(catalogs) :
                Loaded(r.map, ListedTables(catalogs[i]), i, j)

\* The columns a view announces are the columns of its rows, or none, although
\* they come from two lookups and the settings from a third
\* (data_service.go:399-444); unless a reload has installed other columns for
\* the table between the two lookups.
ViewHeaderMatches ==
    \A h \in Handlers : Replied(h, "view") =>
        LET r == task[h].reply
            columns(i) == installed[i][r.table]
        IN (\A i \in r.first..r.last : columns(i) = columns(r.first)) =>
               r.header \in {{}, r.rows}

\* A start-up reads settings for every table it lists, so no request is answered
\* "unknown table" for such a table as long as the service lists it, whatever
\* reloads and updates do (schema_service.go:205-217, 227-235, 305-313); unless
\* a null body has wiped its row.
UnknownIsNotListed ==
    \A h \in Handlers : Replied(h, "unknown") =>
        LET r == task[h].reply IN
        r.listed => installed[1][r.table] = Nil \/ config[r.table] = Null

\* A server that starts over a database with the admin tables, whose rows of
\* settings decode, comes up, also after stops, faults of the map and failed
\* starts (app.go:24-77).
RowsDecode == \A t \in Tables : config[t] = Nil \/ FALSE \notin Scans(config[t])
ComesUp == (adminTables /\ RowsDecode) ~> (proc = "up")

\* "Start ui web server" (pgpanel.go:229), over a database that has its tables.
ComesUpAgain == adminTables ~> (proc = "up")

\* "Start ui web server" (pgpanel.go:229): the server comes up over any
\* database it can reach, creating its tables "IF NOT EXISTS".
AlwaysComesUp == []<>(proc = "up")
=============================================================================

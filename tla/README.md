# pgpanel in TLA+

pgpanel is an admin panel for PostgreSQL: a Go server (`core/`, `api/`,
`pgpanel.go`) and a React client (`ui/`). This directory holds TLA+ models of
the parts of it in which several requests, or several statements of one
request, meet in shared state; TLC checks them on small instances, and TLAPS
proves theorems about them for every value of the constants. Paths below are
relative to the repository.

## 1. The system

| Component | State it keeps | Operations | What is hard about it |
|---|---|---|---|
| SchemaService (`core/schema_service.go`) | `tablesMap`, `tableSettingsMap` (no lock); rows of `pgpanel.settings` | load and reload of the tables, load, read and update of settings, creation of the admin tables | handlers interleave on both maps; the cache follows the row in a step of its own; the load is two queries over a schema that changes; rows may stop early |
| Start-up and serving (`core/app.go`, `pgpanel.go`) | the process, the pool | `NewApp`, `Serve`, `Close` | the order of the start-up; stops at any point; shutdown racing handlers |
| DataService, views (`core/data_service.go`, `core/data_params.go`) | none of its own | `GetRows`, `GetTableView`, `GetFormView`, insert, update and delete of rows | reads both maps several times in one request; empty filters |
| DataService, relations (`UpdateRelatedRows`) | the join table | add and delete links, in one transaction | concurrent transactions at READ COMMITTED, deadlocks, pool exhaustion, a commit whose answer is lost |
| LocalStorage (`core/local_storage.go`, `core/storage.go`) | the upload directory | upload, list, get, delete, export | name collisions, export during deletes, arithmetic of the page |
| SQL execution, backup | none | run a statement, pipe `pg_dump` / `psql` | results and scripts that stop half way |
| Admins and sessions | `pgpanel.admins` | login, add, delete, change password | little: one statement per operation |
| UI pages (`ui/src/routes`, `ui/src/lib`, `ui/src/api`) | rows, selections, edits, the address | row edits, relations page, settings form, files page | answers out of order, forms older than the data they save, keys that are missing or collide |
| UI inputs (`ui/src/components/form`, `ui/src/components/ui`) | values of their own | type digits, pick days, edit arrays, select options | copies of the form's value that follow it late or never; time zones |
| UI layout, sidebar, dialogs | open or closed | | nothing that the program reads |

Interaction: every HTTP request is a goroutine of `net/http`. Handlers
(`api/`) call the services with no queue and no lock between them. DataService
reads SchemaService's maps; SchemaService reads and writes the database;
DataService reads and writes it. The browser reaches all of it through JSON
requests. What the services share is the two maps, the pool and the database,
which other sessions also change. The client keeps copies of what it was
answered (rows, links, settings, lists of files) and sends what a user made of
such a copy, while other users change the originals.

What makes the components correct:

- settings: the cache serves only rows that were committed, whole; once no
  update is under way it agrees with the row; a save never removes a key of
  another save; a restart loses nothing;
- tables: the installed map is the result of one load; a reload's answer is not
  older than the request; a view's header and rows agree;
- start-up: the server comes up over any database it may meet;
- relations: an update applies whole or not at all and takes effect while it
  runs; both directions of a bidirectional link go together; every update is
  answered;
- rows: a delete or a save reaches the rows the user meant and no other, and
  leaves the columns that were not edited as others left them;
- files: an upload stays until it is deleted; lists, the browser's cache and an
  exported archive agree with the directory;
- pages and inputs: what the page shows (a selection, a filter, a page number, a
  time) is what it asked for, and what it will save.

PROJECT.json lists every component with its status, and the hazards of the
code with their lines and the properties that cover them.

## 2. Modules

| Module | Models | Built on |
|---|---|---|
| `SchemaService` | the service, the start-up around it, and the readers in DataService | |
| `MCSchemaService` | values of its constants for TLC | `SchemaService` |
| `RelationStore` | what an update of a relation promises (abstract) | |
| `RelatedRows` | `UpdateRelatedRows` statement by statement | instantiates `RelationStore` |
| `RelatedRowsProofs` | theorems | `RelatedRows`, TLAPS |
| `SchemaServiceProofs` | theorems | `SchemaService`, TLAPS |
| `SchemaAnswersProofs` | theorems about what requests are answered | `SchemaServiceProofs` |
| `MCRelatedRows` | values of its constants for TLC | `RelatedRows` |
| `RowEdits` | from a row on the screen to the rows that a statement changes | |
| `RowEditsProofs` | theorems | `RowEdits`, TLAPS |
| `RelationsPage` | the page that edits the links of a row, its search box and pager | the update is the one step of `RelationStore` |
| `RelationsPageProofs` | theorems | `RelationsPage`, TLAPS |
| `SettingsForm` | the form of a table's settings and what a save makes of them | |
| `SettingsFormProofs` | theorems | `SettingsForm`, TLAPS |
| `Files` | the upload directory and the page that uses it | |
| `FilesProofs` | theorems | `Files`, TLAPS |
| `TimePicker` | the time picker's arithmetic | |
| `ArrayInput` | the inputs of an array column | |
| `MultiSelect` | the selection of several options | |
| `FormInputs` | one field of the row form, of any kind that keeps a state | `TimePicker`, `ArrayInput`, `MultiSelect` |
| `FormInputsProofs` | theorems | `FormInputs`, TLAPS |
| `MCRowEdits`, `MCRelationsPage`, `MCSettingsForm`, `MCFiles`, `MCFormInputs` | values of the constants for TLC | the module each is named after |

### SchemaService

State. `tablesMap` and `settingsMap` are the fields of the struct
(schema_service.go:23-24): a function from tables to the listed columns, or
`Nil` for a table the map does not have. `config` is the rows of
`pgpanel.settings`, `adminTables` whether the schema `pgpanel` exists,
`catalog` what `information_schema` shows, `proc` the process, and `task[p]`
the control point and the local variables of each goroutine (`Main` starts the
server; every handler takes one request after another). `catalogs`, `committed`,
`installed` (the maps installed since the process started) and `behind` (tables
whose row was committed while another update of it was under way, or by one that
was answered with an error) are history the properties refer to; no action reads
them to decide anything (`since`, `own`, `first` and `last`, indices into them,
are likewise only recorded).

Data. A column is its ordinal position; column lists are sets, since every
place that uses one (`GetColumns`, `SelectColumns.ToSQL`, `TextSearch.ToSQL`)
takes the table's order. Of the settings the two lists the server itself
interprets are kept; the other three keys are opaque to it and are merged in the
same way. A JSON key that is missing is `Nil` in a row and the empty list once
decoded (`Decode`), which is what makes clearing a list visible. A request body
is any JSON object, as in handlers_schema.go:55: a key may hold a value that does
not decode (`Bad`), which is committed before `Scan` refuses it (`Scans`), and
which a later start-up refuses too (`StartupReads`). A body of `null` decodes to a
nil map. What the driver sends for it (SQL NULL or a JSON null) is not in the
repository, and neither is what it makes of such a row: the row is then `Null`,
whatever is saved later, and `Scan` of it may succeed or fail.

Actions, and what they stand for:

- `BeginReload`, `LoadNames`, `LoadColumns`, `InstallTables`, `LoadFails`,
  `AnswerTables`: `GetTablesMap(true)` and `loadTablesFromDB`. Each query is a
  step; `rows.Next` returning false on an error is `CutShort`: since the rows
  come by ordinal position, what arrived is a prefix in that order. A query that
  returns an error makes `GetTablesMap` answer the map that is there.
- `Start`, `LoadSettings`, `LoadSettingsFails`, `CreateAdminTables`,
  `StartupFails`, `Stop`: `NewApp` and the ends of the process. The settings are
  read before the admin tables are created, as in app.go:34 and 48. The SELECTs
  of `loadTableSettingsFromDB` are one step: nobody writes the settings while
  the only process starts.
- `GetSettings`, `UpsertSettings`, `UpsertFails`, `BeginStore`, `EndStore`,
  `MapFault`: reads and updates of settings. The upsert is one atomic statement,
  its row is decoded or refused, and the assignment of the cache another step, which begins and ends: a read in
  between sees the entry before or after, and may end the process, as the Go
  runtime does when it notices ("concurrent map read and map write").
- `GetTable`, `ViewTable`, `ViewSettings`, `FormSettings`, `GetRows`,
  `RowsTable`, `QueryRows`: the readers. A table view looks the table up, reads
  the settings, calls `GetRows`, which looks the table up again and runs a
  statement against the catalog of that moment.
- `AlterCatalog` (external): another session creates, alters or drops a table.

### RelatedRows and RelationStore

`RelationStore` is the promise: an update applies in one step (`Apply`), or is
dropped; a change it was asked for and does not make in that step was found made
at some moment while it ran (`present`, `absent`); "ok" means applied, "error"
may hide that it was.

`RelatedRows` is the code. `next[u]` is the statement the two loops of
`UpdateRelatedRows` are at; `PairAt` gives its pair (main direction, then the
reverse one for a bidirectional relation). `inserted` and `deleted` are the
uncommitted rows of a transaction. PostgreSQL is modelled from how the code
uses it: a DELETE waits for a transaction that deletes the same row, an INSERT
... ON CONFLICT DO NOTHING waits for the outcome of any that holds the key, a
statement sees what is committed and what its own transaction did, one of a
cycle of waiting transactions is aborted. `Begin` waits for one of `Connections`
connections, `Rollback` (the deferred one) gives it back. The refinement
mapping is `status` and the variables of the same name.

### RowEdits

State. `rows` is the table; each browser tab (`Sessions`) has a `page` and what
it was loaded with: `view` (the rows on the table page), `selected`
(`selectedRowsKeys`), `link` (the filter in the address of a row page), `shown`
(the row the form was loaded with), `updated` (`updatedRow`) and one `request`.
A tab has one request at a time and stays on its page while the answer is
awaited: a restriction of the model, since the buttons stay enabled
(RowForm.tsx:137). Two tabs stand for two requests of one user under way. `ticked` and `clicked` record what the user meant, by key,
and decide nothing.

Data. Values are numbers, 0 standing for whatever JavaScript takes for false. A
row's `pKeys` lack the key columns that are falsy or not among the columns that
the view was set to select; `uniqueKey` joins what is left, so two rows may have
one key (`MCRowEdits!CollidingRows`), and a filter may match several rows, or,
when it is empty, all of them. `DeleteRows` refuses an empty list of filters
(data_service.go:202) and cannot run an empty filter in it; `UpdateRows` has no
such guard.

Actions: those of the table page (`OpenTable`, `onRowsParamsChange`,
`onRowSelect`, `onAllRowsSelect`, `onDeleteSelected`), of the row page
(`openEditRow`, `openInsertRow`, `setUpdatedRow`, `saveChanges`), of the server
(`Serve`: one statement, or a failure before it) and of the client when the
answer is there (`ShowError`, `DeleteDone`, `UpdateDone`, `InsertDone`). The
answer of a statement that ran may be lost. `updated` is kept after a save that
succeeded: React keeps the form as long as its key (`formKey`) is the same, and
so do the edits, which the next save sends again.

### RelationsPage

State. Three copies that are refreshed at different moments: `initRelated`, what
the loader read last; `selected`, what is selected; and the controls' own state
(`q`, `sqlMode`, `pager`) beside `rowsParams`, what the rows were asked with.
`links` is the join table, which others change too (`OtherUpdate`), and
`updates` are those under way. `Bidirectional` says whether an update writes the
second direction of each pair (data_service.go:360, 376); the run has it true,
the theorems hold for both. The text of a filter is there or not there.

`main` can change under an open page: the address of every row's relations is
one route, so going back to another row's relations loads that row's links
without a new mount (`Jump`, `jumped`). `searches` are answered in any order.
`submitFilter`, `clearText`, `toggleMode` are the search box, `previousPage` ...
`refresh` the pager, `onSortChange` a header. Numbers that the pager's boxes do
not understand are `NaN`; `ServedOffset` and `ServedLimit` say what the client's
query and the server's parser make of them.

### SettingsForm

State. `config` is the row of `pgpanel.settings`, `cache` the server's decoded
copy, `form[a]` the copy in each administrator's browser, `saves` those under
way. The race between row and cache is `SchemaService`'s; here a save is one
step. `Decode` is what Go's decoding and encoding do to settings: an empty value
disappears, a payload that was not given becomes null. `Merged` is the jsonb
`||` of the upsert and the spread of the form: the keys of both, the newer
value. The defaults a table is answered before its first save go through
`Decode` too, so a table without text columns has no list of filters in them.

Actions: `Open`, `goBack`, one for each part of the form (`setViewLinkPattern`,
`toggleColumn`, `setJoinTable`, `addRelation`, `removeRelation`, `pickType`,
`updatePayload`), `saveChanges` and `UpdateTableSettings`. Of a relation's
configuration only the join table is kept, the part on which the pages can fail.

### Files

State. `dir` maps a key (a name and a second) to an inode, `content` and `mtime`
belong to inodes, so that a file being written can be unlinked, listed, served
or opened again. `up[u]` is an upload between `os.Create` and its answer; the
two chunks are two writes. `export` is the walk over the directory, one file a
step. The page has `params`, `list`, one `pending` load (the router drops an
older one), `selected`, and `batches`, the calls of `deleteSelected` that await
the answers of their deletes. `cached` is what a browser keeps of an answer
marked immutable.

Actions: `Upload`, `Copy`, `UploadAnswered`, `UploadFails`, `Tick`,
`OtherDelete`, `DeleteServed`, `ListServed`, `ListArrives`, `viewFile`,
`StartExport`, `ExportFile`, `ExportEnds`, and the page's `deleteSelected`,
`AllDeleted`, `onSelect`, `onReset`, `onSearch`, `onChange`. A stop of the
process fails the uploads under way and nothing else: the server keeps no state
but the directory.

### FormInputs, TimePicker, ArrayInput, MultiSelect

`TimePicker` has the arithmetic of `datetime-picker.tsx` as functions of a time
(`setDateByType`, `calculateNewValue`, `getArrowByType`, ...). `FormInputs` has
one field of the form: its `value`, and the state that the picker keeps beside
it (`month`, `displayDate`, `period`, `flag`, `prevIntKey`). A month has
`MonthLength` days; a date is a day and a time in the browser's zone, which is
`offset` hours ahead of UTC today and, in `ChangedMonths`, an hour more or less
(`OffsetOn`). The clock changes between months; no loaded day is next to such a
change. `loaded` records the zone of the day that a row's date was shown with.
`digitTimeout` may come at any moment after a first
digit. `ArrayInput` and `MultiSelect` are fields with state of their own:
`arrayValues` with the inputs' `own` values, `selected` with the field's.

## 3. Runs

| Run | Shows | Bounds |
|---|---|---|
| `settings` | `TypeOK`; `ServedIsCommitted`, `SavedFieldsSurvive`, `SettledUnlessBehind`; `ComesUp` under `FairSpec` | 1 table, 2 columns, 2 handlers that both save, 5 bodies of which one does not decode and one is null, 2 catalogs, 3 requests, 1 fault, 1 stop |
| `reload` | `OneLoad`, `FreshReload`, `ViewHeaderMatches`, `UnknownIsNotListed` | 2 tables of which one is created later, two handlers that reload, one of which saves, 3 catalogs, 2 requests, 1 fault |
| `relations` | `TypeOK`, `PendingOrSeen`, `SymmetricUnlessCrossed`; implements `RelationStore` (`AtomicUpdates`); `EveryUpdateAnswered` under `FairSpec` | 3 rows, 3 updates of 3 kinds, 2 connections, 1 fault |
| `row_edits` | `TypeOK`, `FormShowsClickedRow`; `DeletesWhatWasTicked`, `EditsOnlyTheShownRow`, `UneditedColumnsKept` of every write | 2 tabs, a key of 2 columns over 3 values, 3 rows of which two have one joined key, 2 writes, 2 pages opened |
| `relations_page` | `TypeOK`, `ChangesAreOwnOrUnseen`, `FilterShownIsApplied`, `PagerShownIsApplied`; `UpdateMakesSelection` of every update | 3 rows, 2 of them opened, 2 requests, updates or others' changes, any number of selections and entries |
| `settings_form` | `TypeOK`, `UnmarkedIsAutodetected`, `PagesRender`; `OnlyEditedPartsChange` of every save | 2 administrators, 2 columns (a text, an array), 2 edits, 2 saves |
| `form_inputs` | `TypeOK`, `ShownIsSaved`, `SavedDayIsShown`, `CopiesAreSaved` (of arrays and of selections); `OnePartChanges`, `TwoDigitsEnter` of every key | 4 keys or clicks on a picker, 4 edits of an array of up to 4, 6 of a selection of 3 options, 3 time zones, with summer time, 2 days that rows hold |
| `files` | `TypeOK`, `UploadsKept`, `CacheIsTrue`, `ExportComplete`, `SettledListIsFresh`; `ClearedIsGone` of every delete | 2 uploads, 2 names, 2 seconds, pages of 1 file, 2 requests, exports or others' deletes |
| `fresh_database` (violation) | `AlwaysComesUp` fails: over a database with a table and no pgpanel schema no start succeeds | 1 table |
| `two_writers` (violation) | `SettledCache` fails with two handlers that save: the cache keeps the older of two rows | 1 table, 3 requests |
| `malformed_settings` (violation) | `ComesUpAgain` fails: a body that does not decode is committed, and after a stop no start succeeds | 1 table, 1 request, 1 stop |
| `crossed_updates` (violation) | `SymmetricAlways` fails: a link added from one end and deleted from the other is left one-way | 2 updates, no fault |

Why the bounds are enough. Each of these properties is about at most two
requests of one table and what happens between their steps: two handlers and
three requests give two concurrent updates and a later read, one stop puts a
restart between any two steps, one fault a failure at any statement. A view's
two lookups and the load's two queries each need one schema change between them
(2 catalogs; the reload run has 3, so that the installed map, the load under way
and the catalog can all differ). In `relations`, three updates on two
connections make one wait for a connection while the other two wait for each
other's keys; the three bodies add, delete and replace one pair from both ends
and mix one- and two-directional relations.

`settings` runs with `IncludedTables` set and `reload` with it empty, so both
branches of schema_service.go:59 are taken. In `settings` nobody reloads, since
its properties are about rows and the cache, which a reload leaves alone; in
`reload` two handlers do, so that one may install tables between the two lookups
of the other's view, or between a load's installation and its answer. What the
code does then is what `ViewHeaderMatches` and `FreshReload` except, in those
words and no wider: an installation of other columns for the table of the view,
of another map than the one that was read.

In `row_edits`, `CollidingRows` are two rows whose joined keys are one and a row
that the filters of both reach, so that a filter is empty, matches one row, or
matches two; two writes are two sessions on one row or a write and its
repetition. In `relations_page` two events are a search and its overtaking, or
an update and another administrator's, which is what the properties relate; the
selection and the boxes are not bounded. In `settings_form` two saves are an old
form over a newer one; two edits are a type and its payload. The `files` run has
one file to a page, so that two uploads already make two pages, and a selection
outlives the page it was made on; two seconds and two names make keys that
collide and keys that do not. The pickers take the digits 0, 1, 2 and 7 (one
beyond each limit) at 11:05, 12:00 and 23:59; four keys are two digits with an
arrow, a period or another unit in between.

Deadlock is not checked: an idle server waits for a request that need not come,
and the bounds end a behaviour. Getting stuck is excluded by the liveness
properties instead.

What these runs say of the code beyond the properties, each an exception that a
property names:

- a reload between the two lookups of a view gives it the header of one load and
  the rows of another, and one between a load's installation and its answer
  makes a reload answer an older map than it read, which stays installed
  (`installed`); a table that only a reload lists has no settings until some are
  saved;
- a save that clears the selection leaves an empty list in the cache, so a view
  has rows with columns under an empty header until the next start, although
  data_params.go:142 speaks of all columns; `ViewHeaderMatches` allows it;
- a null body leaves a nil entry and a row without keys (`Null`);
- a key with a 0 or an empty text in it, or a view that hides part of the key,
  makes filters that reach other rows (`Loose`, `LooseInView`); an update with no
  key at all changes every row, and the page says "Updated" when the row is gone;
- a relation update whose answer was lost, or a second click, leaves the page
  with an older copy of the links (`unseen`); after a save the selection is not
  loaded again, so the next one undoes what others did;
- a search goes to the first page while the pager keeps its old offset
  (`searched`), and two searches under way may be shown in the wrong order
  (`overlapped`);
- a `select` saved without a payload is read again with `payload: null`, on
  which the form fails (`bareSent`), a relation without a usable join table makes
  the row form fail (`blindAdd`), and a type picked again loses its `isArray`
  (`repicked`);
- a period chosen where no time is yet has no effect before an hour is entered
  (`periodAlone`); in an empty field a date picked east of UTC is saved as another
  day, one loaded west of UTC is shown as the day before, and one picked where the
  clock is further ahead than on the loaded day (a July day in a row of January,
  in Berlin) is saved as the day before (`SavedDayIsShown`); the inputs after a removed
  array element show their old values (`lowest`); Delete on the button of one
  badge removes the last one;
- two uploads of one name in one second share a file (`Collided`); a file viewed
  while it is uploaded is kept half for a year (`early`); deletes that fail are
  not reported (`deleteFile` always has an error, since the answer has no body)
  and their files leave the selection (`kept`); an export that a delete ends
  early is kept by the browser as a success.

### Fairness

`SchemaService!BootFairness`: the process is started again when it ended (a
supervisor, or the administrator), and each step of a start-up, which waits for
nothing but the database, is taken. Nothing is assumed of requests, faults,
stops or schema changes. Faults are bounded in number; without that a start
could fail each time and no code would come up.

`RelatedRows!FairSpec`: as long as some transaction, commit or answer can go on,
one of them does. It is one weak fairness condition on the disjunction, not one
per update: the database runs statements that wait for nothing and finds every
deadlock; no request is forced to arrive. `DeadlockAbort` is part of it because
PostgreSQL's detector runs after a timeout of its own.

The models of the client have none: nobody has to press a button, and their
properties are of safety.

## 4. Theorems

In `RelatedRowsProofs`, for every `Rows`, `Updates`, `Requests`,
`InitialLinks`, `Connections` and `MaxFaults` that satisfy the three assumptions
of `RelatedRows`:

- `TypeCorrect`: `Spec => []TypeOK`;
- `NothingSkipped`: `Spec => []PendingOrSeen`;
- `SymmetryHolds`: `Spec => []SymmetricUnlessCrossed`;
- `Refinement`: `Spec => AtomicUpdates`, i.e. `RelatedRows` implements
  `RelationStore`.

The argument. The inductive invariant is `TypeOK /\ PendingOrSeen`. That a commit is a step
`Apply` of the store needs, at that moment, a proof that each requested pair that
is not in `inserted` was linked at some moment of the update, and each that
is not in `deleted` was not: `PendingOrSeen` says so for the statements that
have run, and `Commit` is enabled when all have (`CommitApplies`). It is kept by
each statement because a statement that finds nothing to do sees the committed
links of that moment, which `present` and `absent` already contain (its first
conjunct). The lemmas `PairAtType`, `CountsType` and `AddsType` bound what the
helpers return; `NextPair` says which statement number is new when `next`
advances. Each step of the code then maps to one step of the store or to a
stutter (`StepRefines`). `SymmetryHolds` needs more (`Achieved`): as long as no
addition and deletion of one pair met, the pair of each statement that has run
is still as that statement made it in what the transaction sees, so a commit leaves
the whole request applied (`CommitIsWhole`), and so both directions of it
(`RequestSymmetric`).

In `SchemaServiceProofs`, for every value of the constants of `SchemaService`
that satisfies its four assumptions (the values that stand for data differ from
`Nil`; the main goroutine is no handler; inputs have their types):

- `TypeCorrect`: `Spec => []TypeOK`. `TypeOK` is inductive as it stands; the
  proof splits it into the data, the states of the goroutines and when
  goroutines exist, and has one lemma per action. A goroutine's state is a
  record of one of several shapes, so `TaskFields` and `LoadFields` say what a
  goroutine at a given step remembers, and `HandlerMoves`, `MainMoves` and
  `LoadMoves` that a step of one goroutine disturbs no other.
- `CacheServesCommitted`: `Spec => []ServedIsCommitted`. The cache alone is not
  inductive: what an update is about to store, and the columns a start-up takes
  its defaults from, matter too. `CacheInv` adds that a row under way to the
  cache is committed, that the row of a table is, and that a map installed or
  about to be comes from a catalog. Most steps move a goroutine to where it
  holds neither (`QuietMoves`); the others have a lemma each.
- `TablesOfOneLoad`: `Spec => []OneLoad`. The installed map comes from a
  goroutine that read it over several steps, so `LoadInv` says the same of every
  load under way: the names it holds are those of one catalog of the history
  (`NamesFrom`), the map it is about to install was read from that catalog or a
  later one (`MapFrom`). Both survive a longer history and more faults
  (`NamesKept`, `MapKept`: a whole map is one of the cuts, `WholeIsCut`), which
  is why the property lets a failed statement shorten what was loaded.

In `SchemaAnswersProofs`, under the same assumptions, what a client is answered:

- `SavedStay`: `Spec => []SavedFieldsSurvive`. An update between its statement
  and its answer holds a row with the keys it sent, and the database has them
  unless a null body came (`SaveInv`); no other step takes a key away from a row
  (`KeepsKeys`).
- `HeadersOfHeldColumns`: `Spec => []ViewHeaderMatches`. A view that has looked its
  table up remembers columns that were those of the map installed then, and what
  it is about to announce are the columns of its rows if every map installed up to
  its second lookup had the same ones for the table (`HeadersInv`).
- `ListedOfStartup`: `Spec => []UnknownIsNotListed`. Once the start-up has read the
  settings, every table it listed has some, and no update but one of a null body
  takes them away (`ListedInv`).
- `FreshOfOwnLoad`: `Spec => []FreshReload`. What a load holds was read since it
  came in (`FreshInv`), and so was the map it installed, which `own` names among
  those that were installed.
- `ServedUnlessBehind`: `Spec => []SettledUnlessBehind`. The update of a table that
  is under way holds the row the database holds, or the table is behind; every
  other table is served from its row (`SettledInv`).

None of the four assumes anything of who reloads or saves: handlers, tables,
bodies, columns, faults, stops and schema changes are arbitrary. The exceptions
are in the properties, each the moment at which the code is exposed.

In `FilesProofs`, for every value of the constants of `Files` that satisfies its
two assumptions:

- `TypeCorrect`: `Spec => []TypeOK`; the part that is not immediate is that a
  list has no more than `Limit` files (`PageOfList`).
- `UploadsAreKept`: `Spec => []UploadsKept`. An upload writes to an inode, not to
  a key, and a file of another key must not share it: `KeysInv` says that the
  inode of a key was created by an upload of that key (`FilesOfKeys`) and that an
  upload under way has an inode of its own key (`InodesOfUploads`); `ContentInv`
  adds what such an inode holds after one chunk and after both.
- `CacheStaysTrue`: `Spec => []CacheIsTrue`. A file that was complete when it was
  shown can only change through an upload that met it in its key (`CacheInv`);
  no key is used twice without such a meeting (`UsedStep`, `QuietFile`).
- `ExportsAreComplete`: `Spec => []ExportComplete`. While the walk goes on, every
  owed file is either still to come, and in the directory as it was, or in the
  archive (`ExportInv`).
- `ClearedFilesAreGone`: `Spec => ClearedIsGone`. Each file that is selected while
  a batch is under way is in the batch's rest, gone, or one of the exceptions
  (`ClearInv`); it rests on keys never coming back (`ShownWereUsed`).
- `SettledListsAreFresh`: `Spec => []SettledListIsFresh`. What is shown, or the
  answer on its way, is a list of the present directory unless a load is to come
  (`FreshInv`).

In `RelationsPageProofs`, for every value of the constants of `RelationsPage`
that satisfies its four assumptions (the links at the start are from both ends
if the relation is bidirectional, as every save leaves them; the limits and bounds are numbers):

- `TypeCorrect`: `Spec => []TypeOK`. An update may carry the value of a column
  that the rows do not have, which the join table refuses; `UpdatesOK` adds that
  to the types, and `LinksOfRows` that an update which is not refused leaves
  pairs of rows.
- `FilterIsApplied` and `PagerIsApplied`: `Spec => []FilterShownIsApplied` and
  `Spec => []PagerShownIsApplied`. While no two requests met there is at most one
  under way (`OneSearch`), so what is shown or about to be has one set of
  parameters (`Latest`), and those carry the filter and the page of the controls.
- `ChangesAreOurs`: `Spec => []ChangesAreOwnOrUnseen`. The selection must be
  compared with the links that there are too, not only with those that were
  loaded, and with what updates under way may still change (`SelectInv`):
  an answer replaces the second by the first.
- `SaveLeavesSelection`: `Spec => UpdateMakesSelection`. While nothing is
  unseen the page either knows the links as they are, or has exactly one update
  of its row under way, made from the links as they still are (`SaveInv`); an
  update of another row that would touch this one counts as unseen from the
  moment the page is opened. Bidirectional links stay from both ends (`BothEnds`),
  hence the second half of the property.

In `RowEditsProofs`, for every value of the constants of `RowEdits` that satisfies
its five assumptions (key columns are no form fields; the first rows have
distinct keys; the values are numbers, 0 the falsy one):

- `TypeCorrect`: `Spec => []TypeOK`, with it that no statement leaves two rows
  with one key.
- `FormIsTheRows`: `Spec => []FormShowsClickedRow`. The address of a form is the
  key of the row that was opened and the form shows a row of that key
  (`Linked`), unless the key is `LooseInView`: a filter with the whole key
  matches at most one row, so the loader has no choice.
- `DeletesAreExact`, `SavesAreExact` and `SavesKeepColumns`:
  `Spec => DeletesWhatWasTicked`, `EditsOnlyTheShownRow` and
  `UneditedColumnsKept`. The first two need what was sent to be still what the
  page and the selection say when the statement runs (`Sending`), and every
  selected key to be that of a row that was ticked (`Selecting`): two rows whose
  joined keys collide are selected together, and `DeletedFilters` takes the
  filters from the rows of the view, not from the keys. For the third, a row
  that a save makes comes of a row whose filter it matched, and a save's fields
  are a subset of `updatedRow`, which may have grown meanwhile.

In `SettingsFormProofs`, for every value of the constants of `SettingsForm` that
satisfies its three assumptions (no table has a column twice; no OID maps to
`select`, as in pgTypes.ts; a payload is neither missing nor null):

- `TypeCorrect`: `Spec => []TypeOK`. That lists have no column twice needs that
  a box which is unticked takes away the one place where its column is, and one
  which is ticked adds a column that was not there (`ToggledIsList`); merging,
  decoding and the form's changes keep the keys and the lists (`TypeInv`). The
  bound on commits is a count: commits and saves that wait are together at most
  the saves sent.

- `UnmarkedAreAutodetected` and `PagesFailForTwoReasons`:
  `Spec => []UnmarkedIsAutodetected` and `Spec => []PagesRender`. The settings
  in the database, in the cache, in forms and on their way are all `Sound`: an
  override of a column's own type was picked, a `select` without a payload is
  one that an administrator left so, in the form (`bare`) or in a save
  (`bareSent`), and relations have usable join tables unless one was added
  blindly (`FormsInv`).
- `SavesChangeEdits`: `Spec => OnlyEditedPartsChange`. The cache is `Decode` of
  the row once there is one; a copy loaded after the last commit has every key
  of the server's answer and differs from it only in the parts edited since
  (`CopiesInv`, `Agrees`). That a save sent from it changes no other part rests
  on `Decode` being its own square (`DecodedTwice`) and on what it does to each
  part (`DecodedPart`). The invariant does not hold at the start if the defaults
  carry an empty list of text columns, which the server's answer leaves out:
  the failed proof is why `Defaults` goes through `Decode`.

In `FormInputsProofs`, for every value of the constants of `FormInputs` that
satisfies its assumption (digits are 0 to 9; time zones from 12 hours behind UTC to
14 ahead, with an hour more or less in any months but today's; months of any one
length), hence for any sequence of keys, arrows, months
and days, however long:

- `ShownTimeIsSaved` and `ShownDayIsSaved`: `Spec => []ShownIsSaved` and
  `Spec => []SavedDayIsShown`. The month shown, the button's date and the value
  are one date while there is a value (`OneDate`); the picker shows the period of
  the date unless the period alone was changed, and a unit that waits for its
  second digit shows the first (`PickerShows`, `FirstKept`); a date that was
  loaded keeps the hour that is midnight in UTC on the day it was loaded with
  (`HourLoaded`), in a zone that is at most two hours from that of any other day
  (`ZoneLoaded`, `ZoneOnDay`).
- `ControlsAreSeparate` and `DigitsEnter`: `Spec => OnePartChanges` and
  `Spec => TwoDigitsEnter`. The lemmas about `TimePicker` that they rest on say
  what `setDateByType` reads back as (`getDateByType`), what the helpers that
  clamp and wrap return, and what `convert12HourTo24Hour` does to the two
  halves of a day.
- `ShownArrayIsSaved`: `Spec => []ArrayShownIsSaved`, the half of `CopiesAreSaved`
  about arrays. The inputs of the elements and the array have one length
  and differ only from the first element on that was removed; what the form was
  told is the array but for blanks added since (`ArrayInv`).
- `CopiesAreKept`: `Spec => []CopiesAreSaved`. The badges of a selection are what
  is left of the row's values, and then options picked, each once and none of
  the former (`SelectInv`): removing a value filters both parts
  (`WithoutConcat`), and removing several one by one is removing them together
  (`WithoutTwice`).
- `TypeCorrect`: `Spec => []TypeOK`, from the parts of these invariants and a bound
  for arrays (`ArrayBound`).

The filter, `Without`, is a recursive function of a list, and what it returns is
proved for lists of any length. The library's induction theorems take an
operator as their parameter, which the provers cannot instantiate; so induction
is stated over the members of a set (`InductionOnNat`, `InductionOnSeq`), and
proved from the library's `WFMin`, whose parameter is a set. The function itself
exists because one does up to every length (`Recursion`).

Only model-checked: liveness (`ComesUp`, `EveryUpdateAnswered`), which the prover
does not reach. Every other property that a passing run checks is the statement
of a theorem.

## 5. What is not modelled

- The graceful shutdown and its timeout: a statement that fails because the pool
  was closed is a fault of `SchemaService` and `RelatedRows`.
- SQL execution and backup: one request, no state, and processes outside the
  repository; token verification and the admins: one statement per operation.
- The text of filters and of SQL, its parsing, and the quoting and URL encoding
  of the values in it (data.ts:193-201): a filter is a set of equalities; a second
  request of one tab while the first is under way; widths of integers.
- Of the client: rendering and wording; the sidebar, dialogs, menus and the other
  library components; texts, check boxes and single selections, which keep no
  state; the parts of the multiple selection that the form does not use
  (searching by request, creating, fixed options); fractions of a second. A
  column of times with a zone gets an input whose `Date` is invalid, and a text
  column whose type is overridden with a multiple selection fails to
  render: both are the type of the value, which `FormInputs` takes as given.
- The order of files of one second in a list (the sort is not stable), and the
  file server's partial reads.
- Connection failures outside the bounded faults, and transactions at isolation
  levels other than PostgreSQL's default, which the code never asks for.

## 6. Plan

The table page's use of the address for its filters and pages.

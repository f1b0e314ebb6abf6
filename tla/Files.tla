-------------------------------- MODULE Files --------------------------------
(***************************************************************************)
(* The stored files and the page that uploads, lists, views and deletes    *)
(* them (core/local_storage.go, routes/UploadPage.tsx).  The server keeps  *)
(* nothing but the directory: every request works on it with the others'.  *)
(* A file is two chunks, each marked with the upload that wrote it; a file *)
(* being written and one that is unlinked are kept apart by their inode.   *)
(* The page belongs to one administrator; others upload and delete too.    *)
(***************************************************************************)
EXTENDS Integers, FiniteSets, SequencesExt

CONSTANTS
    Uploads,   \* the uploads; an inode is named after the upload creating it
    Mine,      \* those sent from the page
    Names,     \* the names of the files that are uploaded
    Found,     \* the names that the search text matches
    Limit,     \* the number of files on a page
    None,      \* no upload, no inode, no request
    MaxTime,   \* bound: the last second of the clock
    MaxEvents  \* bound: requests of the page, exports and others' deletes

ASSUME SetsAssumption == Mine \subseteq Uploads /\ Found \subseteq Names /\ None \notin Uploads \union Names
ASSUME BoundsAssumption == Limit \in Nat \ {0} /\ MaxTime \in Nat /\ MaxEvents \in Nat

VARIABLES
    now,          \* the clock, in seconds
    dir,          \* the upload directory: the inode of each key
    content,      \* the chunks of each inode
    mtime,        \* when each inode was written last
    up,           \* the uploads, as far as they are
    export,       \* the export: the names to go to, and (auxiliary) the files the
                  \* archive owes, which are none once one was deleted meanwhile
    params, list, \* the page: what it asked for, and the files it shows
    pending,      \* the load of a list that is under way
    selected,     \* selectedFiles
    batches,      \* deleteSelected calls that await their answers
    cached,       \* what the browser keeps of the files it showed, by key
    events,       \* counter of the bound
    removed,      \* auxiliary: inodes that were unlinked
    kept,         \* auxiliary: files whose delete failed since they were ticked
    late,         \* auxiliary: files ticked while a delete was under way
    early,        \* auxiliary: keys shown while they were being written
    unannounced   \* auxiliary: a change since the last list the page asked for
                  \* that it is not told of

storage == <<dir, content, mtime, up>>
page    == <<params, list, pending>>
marks   == <<selected, batches, kept, late>>
views   == <<cached, early>>
vars    == <<now, storage, export, page, marks, views, events, removed, unannounced>>

-----------------------------------------------------------------------------
(* The directory.                                                          *)

Keys     == Names \X (0..MaxTime)
Chunks   == 1..2
Contents == [Chunks -> Uploads \union {None}]
Blank    == [c \in Chunks |-> None]
Whole(u) == [c \in Chunks |-> u]

NameOnly(name, ts)       == <<name, 0>> \* mutant: no time in the key
TsOnly(name, ts)         == <<CHOOSE n \in Names : TRUE, ts>> \* mutant: nothing but the time
FileNameWithTs(name, ts) == <<name, ts>>

KeyOf(u)   == FileNameWithTs(up[u].name, up[u].at)
Started    == {u \in Uploads : up[u].stage # "idle"}
Writing(i) == \E u \in Uploads : up[u].inode = i /\ up[u].stage \in {"open", "half"}

\* Two uploads of one name in one second.
Collided(u)  == \E v \in Started \ {u} : up[v].name = up[u].name /\ up[v].at = up[u].at
CollidedKeys == {KeyOf(u) : u \in {v \in Started : Collided(v)}}

Stored == {k \in Keys : dir[k] # None}

Unlimited(order, p) == ToSet(order) \* mutant: the whole list
Page(order, p)      == {order[k] : k \in DOMAIN order \intersect (p.offset + 1..p.offset + Limit)}

\* Newest first; files of one second come in no particular order.
Sorted(order) ==
    \A m, n \in DOMAIN order : m < n => mtime[dir[order[m]]] >= mtime[dir[order[n]]]

\* LocalStorage.List: a search leaves some names, an offset past the end none.
List(p) ==
    LET files == {k \in Stored : p.search => k[1] \in Found}
    IN  {Page(order, p) : order \in {o \in SetToSeqs(files) : Sorted(o)}}

FirstPage == [offset |-> 0, search |-> FALSE]
NoLoad    == [stage |-> "none", params |-> FirstPage, answer |-> {}]

Counted == events < MaxEvents /\ events' = events + 1

\* The page is told nothing, or learns of it by its own request's answer.
Silent(u) == unannounced' = (unannounced \/ u \notin Mine)

Tick ==
    /\ now < MaxTime /\ now' = now + 1
    /\ UNCHANGED <<storage, export, page, marks, views, events, removed, unannounced>>

-----------------------------------------------------------------------------
(* Upload: os.Create truncates a file that is there, io.Copy writes it.    *)

Upload(u, name) ==
    LET k == FileNameWithTs(name, now)
        i == IF dir[k] = None THEN u ELSE dir[k]
    IN  /\ up[u].stage = "idle"
        /\ up' = [up EXCEPT ![u] = [stage |-> "open", name |-> name, at |-> now, inode |-> i]]
        /\ dir' = [dir EXCEPT ![k] = i]
        /\ content' = [content EXCEPT ![i] = Blank]
        /\ mtime' = [mtime EXCEPT ![i] = now]
        /\ Silent(u)
        /\ UNCHANGED <<now, export, page, marks, views, events, removed>>

Copy(u) ==
    LET i == up[u].inode
        c == IF up[u].stage = "open" THEN 1 ELSE 2
    IN  /\ up[u].stage \in {"open", "half"}
        /\ up' = [up EXCEPT ![u].stage = IF c = 1 THEN "half" ELSE "written"]
        /\ content' = [content EXCEPT ![i][c] = u]
        /\ mtime' = [mtime EXCEPT ![i] = now]
        /\ Silent(u)
        /\ UNCHANGED <<now, dir, export, page, marks, views, events, removed>>

Loads(p) == pending' = [stage |-> "sent", params |-> p, answer |-> {}]

RevalidatesNothing == UNCHANGED pending \* mutant: the list is not loaded again

\* revalidate() loads the page's list again, or starts a load anew.
Revalidates == Loads(IF pending.stage = "none" THEN params ELSE pending.params)

UploadAnswered(u) ==
    /\ up[u].stage = "written"
    /\ up' = [up EXCEPT ![u].stage = "ok"]
    /\ IF u \in Mine THEN Revalidates ELSE UNCHANGED pending
    /\ UNCHANGED <<now, dir, content, mtime, export, params, list, marks, views, events, removed, unannounced>>

\* The disk is full, the server stops or the answer is lost: what was written
\* stays, and the page says that the upload failed.
UploadFails(u) ==
    /\ up[u].stage \in {"open", "half", "written"}
    /\ up' = [up EXCEPT ![u].stage = "failed"]
    /\ unannounced' = TRUE
    /\ UNCHANGED <<now, dir, content, mtime, export, page, marks, views, events, removed>>

-----------------------------------------------------------------------------
(* Deleting.  os.Remove unlinks the file; who has it open goes on with it. *)

Unlink(k) ==
    /\ dir[k] # None
    /\ dir' = [dir EXCEPT ![k] = None]
    /\ removed' = removed \union {dir[k]}
    /\ export' = [export EXCEPT !.owed = {}]

OtherDelete(k) ==
    /\ Counted /\ Unlink(k)
    /\ unannounced' = TRUE
    /\ UNCHANGED <<now, content, mtime, up, page, marks, views>>

ShownSelected == selected \intersect list \* mutant: only the files in sight
Deleted       == selected

\* One request for each selected file; the button stays while they are sent.
deleteSelected ==
    /\ selected # {} /\ Counted
    /\ batches' = batches \union {[n |-> events, left |-> Deleted]}
    /\ UNCHANGED <<now, storage, export, page, selected, kept, late, views, removed, unannounced>>

\* The answer's body is empty, so the page takes a success for an error too:
\* it looks at neither.
DeleteServed(b, k) ==
    /\ k \in b.left
    /\ batches' = (batches \ {b}) \union {[b EXCEPT !.left = @ \ {k}]}
    /\ \/ Unlink(k) /\ UNCHANGED kept
       \/ kept' = kept \union {k} /\ UNCHANGED <<dir, removed, export>>
    /\ UNCHANGED <<now, content, mtime, up, page, selected, late, views, events, unannounced>>

\* Promise.all: the whole selection is dropped, and the list loaded again.
AllDeleted(b) ==
    /\ b \in batches /\ b.left = {}
    /\ batches' = batches \ {b}
    /\ selected' = {} /\ late' = {}
    /\ Revalidates
    /\ UNCHANGED <<now, storage, export, params, list, kept, views, events, removed, unannounced>>

-----------------------------------------------------------------------------
(* The page.                                                               *)

\* Explorer: the checkbox of a file in the list.
onSelect(k) ==
    /\ k \in list
    /\ selected' = IF k \in selected THEN selected \ {k} ELSE selected \union {k}
    /\ late' = IF batches = {} THEN late \ {k} ELSE late \union {k}
    /\ kept' = kept \ {k}
    /\ UNCHANGED <<now, storage, export, page, batches, views, events, removed, unannounced>>

\* Controls: the cross beside the delete button.
onReset ==
    /\ selected # {}
    /\ selected' = {} /\ late' = {}
    /\ UNCHANGED <<now, storage, export, page, batches, kept, views, events, removed, unannounced>>

\* A navigation takes the place of a load that is under way.
navigate(p) ==
    /\ Counted
    /\ Loads(p)
    /\ UNCHANGED <<now, storage, export, params, list, marks, views, removed, unannounced>>

onSearch == \E q \in BOOLEAN : navigate([params EXCEPT !.offset = 0, !.search = q])
onChange == \E offset \in {0, Limit} : navigate([params EXCEPT !.offset = offset])

\* A list that could not be loaded is an empty one.
ListServed ==
    /\ pending.stage = "sent"
    /\ \/ \E answer \in List(pending.params) :
             pending' = [pending EXCEPT !.stage = "served", !.answer = answer]
          /\ unannounced' = FALSE
       \/ pending' = [pending EXCEPT !.stage = "served"] /\ unannounced' = TRUE
    /\ UNCHANGED <<now, storage, export, params, list, marks, views, events, removed>>

ListArrives ==
    /\ pending.stage = "served"
    /\ params' = pending.params /\ list' = pending.answer
    /\ pending' = NoLoad
    /\ UNCHANGED <<now, storage, export, marks, views, events, removed, unannounced>>

\* A file of the list is shown; the browser never asks for it again.
viewFile(k) ==
    /\ k \in list \intersect Stored /\ Counted
    /\ \A c \in cached : c[1] # k
    /\ cached' = cached \union {<<k, content[dir[k]]>>}
    /\ early' = IF Writing(dir[k]) THEN early \union {k} ELSE early
    /\ UNCHANGED <<now, storage, export, page, marks, removed, unannounced>>

-----------------------------------------------------------------------------
(* Export: filepath.Walk reads the names first, then goes to each.         *)

NoExport == [stage |-> "none", todo |-> {}, owed |-> {}]

NewestPage     == CHOOSE files \in List(FirstPage) : TRUE \* mutant: as listed
FilesToExport  == Stored

StartExport ==
    /\ export.stage # "walking" /\ Counted
    /\ export' = [stage |-> "walking", todo |-> FilesToExport,
                  owed |-> {<<k, content[dir[k]]>> : k \in {j \in Stored : ~Writing(dir[j])}}]
    /\ UNCHANGED <<now, storage, page, marks, views, removed, unannounced>>

\* A name whose file is gone ends the walk.  The archive is closed properly
\* even so and was begun with status 200: the browser keeps it either way.
ExportFile(k) ==
    /\ export.stage = "walking" /\ k \in export.todo
    /\ export' = IF dir[k] = None THEN [export EXCEPT !.stage = "kept", !.todo = {}]
                 ELSE [export EXCEPT !.todo = @ \ {k}, !.owed = @ \ {<<k, content[dir[k]]>>}]
    /\ UNCHANGED <<now, storage, page, marks, views, events, removed, unannounced>>

ExportEnds ==
    /\ export.stage = "walking" /\ export.todo = {}
    /\ export' = [export EXCEPT !.stage = "kept"]
    /\ UNCHANGED <<now, storage, page, marks, views, events, removed, unannounced>>

-----------------------------------------------------------------------------
Idle == [stage |-> "idle", name |-> None, at |-> 0, inode |-> None]

Init ==
    /\ now = 0 /\ events = 0
    /\ dir = [k \in Keys |-> None]
    /\ content = [i \in Uploads |-> Blank] /\ mtime = [i \in Uploads |-> 0]
    /\ up = [u \in Uploads |-> Idle]
    /\ export = NoExport
    /\ params = FirstPage /\ list = {} /\ pending = NoLoad
    /\ selected = {} /\ batches = {} /\ kept = {} /\ late = {}
    /\ cached = {} /\ early = {}
    /\ removed = {} /\ unannounced = FALSE

Server ==
    \/ Tick
    \/ \E u \in Uploads : Copy(u) \/ UploadAnswered(u) \/ UploadFails(u)
    \/ \E u \in Uploads, n \in Names : Upload(u, n)
    \/ \E k \in Keys : OtherDelete(k) \/ ExportFile(k)
    \/ \E b \in batches : \E k \in b.left : DeleteServed(b, k)
    \/ StartExport \/ ExportEnds
    \/ ListServed

Browser ==
    \/ \E k \in Keys : onSelect(k) \/ viewFile(k)
    \/ onReset \/ deleteSelected
    \/ \E b \in batches : AllDeleted(b)
    \/ onSearch \/ onChange \/ ListArrives

Next == Server \/ Browser

Spec == Init /\ [][Next]_vars

-----------------------------------------------------------------------------
(* Correctness.                                                            *)

ParamsType == [offset : {0, Limit}, search : BOOLEAN]
UploadType ==
    {Idle} \union [stage : {"open", "half", "written", "ok", "failed"}, name : Names,
                   at : 0..MaxTime, inode : Uploads]

\* Every variable has its type; a page never holds more than its limit.
TypeOK ==
    /\ now \in 0..MaxTime /\ events \in 0..MaxEvents
    /\ dir \in [Keys -> Uploads \union {None}]
    /\ content \in [Uploads -> Contents] /\ mtime \in [Uploads -> 0..MaxTime]
    /\ up \in [Uploads -> UploadType]
    /\ export \in [stage : {"none", "walking", "kept"}, todo : SUBSET Keys,
                  owed : SUBSET (Keys \X Contents)]
    /\ params \in ParamsType /\ list \subseteq Keys /\ Cardinality(list) <= Limit
    /\ pending \in [stage : {"none", "sent", "served"}, params : ParamsType, answer : SUBSET Keys]
    /\ Cardinality(pending.answer) <= Limit
    /\ batches \subseteq [n : 0..MaxEvents, left : SUBSET Keys]
    /\ \A k \in selected \union late \union kept \union early : k \in Keys
    /\ cached \subseteq Keys \X Contents
    /\ removed \subseteq Uploads /\ unannounced \in BOOLEAN

\* A file whose upload was answered with success is stored, whole and with
\* its own content, until somebody deletes it, whatever is uploaded, deleted
\* and exported meanwhile, unless one of the same name was uploaded in the
\* same second (FileNameWithTs, os.Create).
UploadsKept ==
    \A u \in Uploads :
        up[u].stage = "ok" /\ ~Collided(u) =>
            /\ content[up[u].inode] = Whole(u)
            /\ up[u].inode \notin removed => dir[KeyOf(u)] = up[u].inode

\* What the browser shows of a file it has shown before, without asking, is
\* what is stored (Cache-Control: immutable), unless two uploads met in one
\* key or the file was first shown while it was being uploaded.
CacheIsTrue ==
    \A c \in cached :
        c[1] \in Stored \ (early \union CollidedKeys) => c[2] = content[dir[c[1]]]

\* The archive the browser keeps has every file that was stored when the
\* export began and was not being written, as it was then, unless a file was
\* deleted meanwhile, or two uploads met in a key.
ExportComplete ==
    export.stage = "kept" => \A f \in export.owed : f[1] \in CollidedKeys

\* No upload or delete of the page's own awaits its answer.
NothingUnderWay ==
    batches = {} /\ \A u \in Mine : up[u].stage \notin {"open", "half", "written"}

\* When the page has nothing under way it shows what the server lists, unless
\* others changed that, an upload failed or a list could not be loaded.
SettledListIsFresh ==
    pending.stage = "none" /\ ~unannounced /\ NothingUnderWay => list \in List(params)

\* When the answers to a delete have come and the selection is dropped, each
\* file that was in it is gone, though some may have been selected on another
\* page or search, unless its delete failed, it was ticked during the delete
\* or an upload of its name and second wrote it anew.
ClearedIsGone ==
    [][\A b \in batches \ batches' :
          b.left = {} => \A k \in selected \ (late \union kept \union CollidedKeys) : dir[k] = None]_vars
=============================================================================

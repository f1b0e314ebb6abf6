----------------------------- MODULE FilesProofs -----------------------------
(***************************************************************************)
(* Proofs about Files, for all sets of uploads and names, every limit of a *)
(* page and any number of seconds and requests.                            *)
(***************************************************************************)
EXTENDS Files, FiniteSetTheorems, TLAPS

USE SetsAssumption, BoundsAssumption

\* A page of a list has stored files only, and no more than the limit.
LEMMA PageOfList ==
    ASSUME TypeOK, NEW p \in ParamsType, NEW answer \in List(p)
    PROVE  answer \subseteq Stored /\ answer \subseteq Keys /\ Cardinality(answer) <= Limit
<1> DEFINE files == {k \in Stored : p.search => k[1] \in Found}
           I(order) == DOMAIN order \intersect (p.offset + 1..p.offset + Limit)
<1>1. PICK order \in SetToSeqs(files) : answer = {order[k] : k \in I(order)}
  BY DEF List, Page
<1>2. order \in [1..Cardinality(files) -> files]
  BY <1>1 DEF SetToSeqs
<1>3. answer \subseteq Stored /\ answer \subseteq Keys
  BY <1>1, <1>2 DEF Stored
<1>4. p.offset \in Nat
  BY DEF ParamsType
<1>5. IsFiniteSet(p.offset + 1..p.offset + Limit) /\ Cardinality(p.offset + 1..p.offset + Limit) = Limit
  <2> DEFINE first == p.offset + 1
             last == p.offset + Limit
  <2>1. first \in Int /\ last \in Int /\ ~(first > last) /\ last - first + 1 = Limit
    BY <1>4
  <2> HIDE DEF first, last
  <2>2. IsFiniteSet(first..last) /\ Cardinality(first..last) = Limit
    BY <2>1, FS_Interval
  <2> QED
    BY <2>2 DEF first, last
<1>6. IsFiniteSet(I(order)) /\ Cardinality(I(order)) <= Limit
  <2> DEFINE window == p.offset + 1..p.offset + Limit
             J      == I(order)
  <2>1. J \in SUBSET window
    OBVIOUS
  <2>2. IsFiniteSet(window) /\ Cardinality(window) = Limit
    BY <1>5
  <2> HIDE DEF window, J
  <2>3. IsFiniteSet(J) /\ Cardinality(J) <= Limit
    BY <2>1, <2>2, FS_Subset
  <2> QED
    BY <2>3 DEF J
<1>7. [k \in I(order) |-> order[k]] \in Surjection(I(order), answer)
  BY <1>1 DEF Surjection
<1>8. IsFiniteSet(answer) /\ Cardinality(answer) <= Cardinality(I(order))
  <2> HIDE DEF I
  <2> QED BY <1>6, <1>7, FS_Surjection
<1>9. Cardinality(answer) \in Nat /\ Cardinality(I(order)) \in Nat
  BY <1>6, <1>8, FS_CardinalityType
<1> QED
  BY <1>3, <1>6, <1>8, <1>9

-----------------------------------------------------------------------------
(* Types.                                                                  *)

\* What a started upload holds.
LEMMA KeyTypes ==
    ASSUME TypeOK, NEW u \in Started
    PROVE  /\ u \in Uploads /\ up[u].stage \in {"open", "half", "written", "ok", "failed"}
           /\ up[u].name \in Names /\ up[u].at \in 0..MaxTime /\ up[u].inode \in Uploads
           /\ KeyOf(u) \in Keys /\ KeyOf(u) = <<up[u].name, up[u].at>>
  BY DEF TypeOK, Started, UploadType, Idle, KeyOf, FileNameWithTs, Keys

\* A load that is sent off has its type.
LEMMA LoadsType ==
    ASSUME NEW p \in ParamsType, Loads(p)
    PROVE  /\ pending' \in [stage : {"none", "sent", "served"}, params : ParamsType,
                            answer : SUBSET Keys]
           /\ Cardinality(pending'.answer) <= Limit
<1>1. Cardinality({}) <= Limit
  BY FS_EmptySet
<1> QED
  BY <1>1 DEF Loads

LEMMA TypeInit == Init => TypeOK
<1> SUFFICES ASSUME Init PROVE TypeOK
  OBVIOUS
<1>1. Cardinality({}) = 0
  BY FS_EmptySet
<1>2. up \in [Uploads -> UploadType]
  BY DEF Init, UploadType
<1>3. content \in [Uploads -> Contents]
  BY DEF Init, Contents, Blank
<1>4. Cardinality({}) <= Limit
  BY <1>1
<1>5. FirstPage \in ParamsType
  BY DEF FirstPage, ParamsType
<1>6. NoLoad \in [stage : {"none", "sent", "served"}, params : ParamsType, answer : SUBSET Keys]
      /\ NoLoad.answer = {}
  BY <1>5 DEF NoLoad
<1>7. NoExport \in [stage : {"none", "walking", "kept"}, todo : SUBSET Keys,
                    owed : SUBSET (Keys \X Contents)]
  BY DEF NoExport
<1>8. dir \in [Keys -> Uploads \union {None}] /\ mtime \in [Uploads -> 0..MaxTime]
  BY DEF Init
<1>9. /\ params \in ParamsType /\ list \subseteq Keys /\ Cardinality(list) <= Limit
      /\ export \in [stage : {"none", "walking", "kept"}, todo : SUBSET Keys,
                     owed : SUBSET (Keys \X Contents)]
      /\ pending \in [stage : {"none", "sent", "served"}, params : ParamsType, answer : SUBSET Keys]
  BY <1>4, <1>5, <1>6, <1>7 DEF Init
<1>10. Cardinality(pending.answer) <= Limit
  BY <1>4, <1>6 DEF Init
<1>11. /\ now \in 0..MaxTime /\ events \in 0..MaxEvents
       /\ batches \subseteq [n : 0..MaxEvents, left : SUBSET Keys]
       /\ \A k \in selected \union late \union kept \union early : k \in Keys
       /\ cached \subseteq Keys \X Contents
       /\ removed \subseteq Uploads
  <2>1. now = 0 /\ events = 0 /\ 0 \in 0..MaxTime /\ 0 \in 0..MaxEvents
    BY DEF Init
  <2>2. /\ selected = {} /\ late = {} /\ kept = {} /\ early = {} /\ batches = {}
        /\ cached = {} /\ removed = {}
    BY DEF Init
  <2> QED
    BY <2>1, <2>2
<1>12. unannounced \in BOOLEAN
  BY DEF Init
<1> QED
  BY <1>2, <1>3, <1>8, <1>9, <1>10, <1>11, <1>12 DEF TypeOK

LEMMA TypeStep == TypeOK /\ [Next]_vars => TypeOK'
<1> SUFFICES ASSUME TypeOK, [Next]_vars PROVE TypeOK'
  OBVIOUS
<1> USE DEF TypeOK
<1>1. CASE UNCHANGED vars
  BY <1>1 DEF vars, storage, page, marks, views
<1>2. CASE Tick
  BY <1>2 DEF Tick, storage, page, marks, views
<1>3. ASSUME NEW u \in Uploads, NEW name \in Names, Upload(u, name) PROVE TypeOK'
  <2> DEFINE k == <<name, now>>
             i == IF dir[k] = None THEN u ELSE dir[k]
  <2>1. k \in Keys
    BY DEF Keys
  <2>2. i \in Uploads
    BY <2>1
  <2>3. /\ up' = [up EXCEPT ![u] = [stage |-> "open", name |-> name, at |-> now, inode |-> i]]
        /\ dir' = [dir EXCEPT ![k] = i]
        /\ content' = [content EXCEPT ![i] = Blank]
        /\ mtime' = [mtime EXCEPT ![i] = now]
    BY <1>3 DEF Upload, FileNameWithTs
  <2> HIDE DEF k, i
  <2>4. [stage |-> "open", name |-> name, at |-> now, inode |-> i] \in UploadType
    BY <2>2 DEF UploadType
  <2>5. up' \in [Uploads -> UploadType]
    BY <2>3, <2>4
  <2>6. Blank \in Contents
    BY DEF Blank, Contents
  <2>7. dir' \in [Keys -> Uploads \union {None}] /\ content' \in [Uploads -> Contents]
        /\ mtime' \in [Uploads -> 0..MaxTime]
    BY <2>1, <2>2, <2>3, <2>6
  <2>8. unannounced' \in BOOLEAN
    BY <1>3 DEF Upload, Silent
  <2> QED
    BY <1>3, <2>5, <2>7, <2>8 DEF Upload, page, marks, views
<1>4. ASSUME NEW u \in Uploads, Copy(u) PROVE TypeOK'
  <2> DEFINE i == up[u].inode
             c == IF up[u].stage = "open" THEN 1 ELSE 2
             stage == IF c = 1 THEN "half" ELSE "written"
  <2>1. u \in Started
    BY <1>4 DEF Copy, Started
  <2>2. i \in Uploads /\ c \in Chunks /\ stage \in {"half", "written"}
    BY <2>1, KeyTypes DEF Chunks
  <2>3. [up[u] EXCEPT !.stage = stage] \in UploadType
    <3>1. up[u] \in UploadType /\ up[u].stage # "idle"
      BY <2>1 DEF Started
    <3>2. up[u] \in [stage : {"open", "half", "written", "ok", "failed"}, name : Names,
                     at : 0..MaxTime, inode : Uploads]
      BY <3>1 DEF UploadType, Idle
    <3> HIDE DEF stage
    <3> QED BY <2>2, <3>2 DEF UploadType
  <2>4. up' = [up EXCEPT ![u] = [up[u] EXCEPT !.stage = stage]]
        /\ content' = [content EXCEPT ![i] = [content[i] EXCEPT ![c] = u]]
        /\ mtime' = [mtime EXCEPT ![i] = now]
    BY <1>4 DEF Copy
  <2> HIDE DEF i, c, stage
  <2>5. [content[i] EXCEPT ![c] = u] \in Contents
    BY <2>2 DEF Contents
  <2>6. up' \in [Uploads -> UploadType] /\ content' \in [Uploads -> Contents]
        /\ mtime' \in [Uploads -> 0..MaxTime]
    BY <2>2, <2>3, <2>4, <2>5
  <2>7. unannounced' \in BOOLEAN
    BY <1>4 DEF Copy, Silent
  <2> QED
    BY <1>4, <2>6, <2>7 DEF Copy, page, marks, views
<1>5. ASSUME NEW u \in Uploads, UploadAnswered(u) \/ UploadFails(u) PROVE TypeOK'
  <2>1. PICK stage \in {"ok", "failed"} : up' = [up EXCEPT ![u].stage = stage]
    BY <1>5 DEF UploadAnswered, UploadFails
  <2>2. up[u] \in UploadType /\ up[u].stage # "idle"
    BY <1>5 DEF UploadAnswered, UploadFails
  <2>3. up[u] \in [stage : {"open", "half", "written", "ok", "failed"}, name : Names,
                   at : 0..MaxTime, inode : Uploads]
    BY <2>2 DEF UploadType, Idle
  <2>4. up' \in [Uploads -> UploadType]
    BY <2>1, <2>3 DEF UploadType
  <2>5. /\ pending' \in [stage : {"none", "sent", "served"}, params : ParamsType, answer : SUBSET Keys]
        /\ Cardinality(pending'.answer) <= Limit
    <3>1. (\E p \in ParamsType : Loads(p)) \/ UNCHANGED pending
      BY <1>5 DEF UploadAnswered, UploadFails, Revalidates, page
    <3> QED
      BY <3>1, LoadsType
  <2> QED
    BY <1>5, <2>4, <2>5 DEF UploadAnswered, UploadFails, page, marks, views
<1>6. ASSUME NEW k \in Keys, OtherDelete(k) PROVE TypeOK'
  <2>1. dir[k] \in Uploads
    BY <1>6 DEF OtherDelete, Unlink
  <2> QED
    BY <1>6, <2>1 DEF OtherDelete, Unlink, Counted, page, marks, views
<1>7. ASSUME NEW b \in batches, NEW k \in b.left, DeleteServed(b, k) PROVE TypeOK'
  <2>1. k \in Keys
    OBVIOUS
  <2>2. batches' \subseteq [n : 0..MaxEvents, left : SUBSET Keys]
    BY <1>7 DEF DeleteServed
  <2>3. dir' \in [Keys -> Uploads \union {None}] /\ removed' \subseteq Uploads
        /\ export' \in [stage : {"none", "walking", "kept"}, todo : SUBSET Keys,
                        owed : SUBSET (Keys \X Contents)]
        /\ \A j \in kept' : j \in Keys
    BY <1>7, <2>1 DEF DeleteServed, Unlink
  <2> QED
    BY <1>7, <2>2, <2>3 DEF DeleteServed, page, views
<1>8. CASE deleteSelected
  BY <1>8 DEF deleteSelected, Counted, Deleted, storage, page, views
<1>9. ASSUME NEW b \in batches, AllDeleted(b) PROVE TypeOK'
  BY <1>9, FS_EmptySet DEF AllDeleted, Revalidates, Loads, storage, views
<1>10. ASSUME NEW k \in Keys, onSelect(k) PROVE TypeOK'
  BY <1>10 DEF onSelect, storage, page, views
<1>11. CASE onReset
  BY <1>11 DEF onReset, storage, page, views
<1>12. CASE onSearch \/ onChange
  <2>1. PICK p \in ParamsType : navigate(p)
    <3>1. CASE onSearch
      <4>1. PICK q \in BOOLEAN : navigate([params EXCEPT !.offset = 0, !.search = q])
        BY <3>1 DEF onSearch
      <4> QED BY <4>1 DEF ParamsType
    <3>2. CASE onChange
      <4>1. PICK offset \in {0, Limit} : navigate([params EXCEPT !.offset = offset])
        BY <3>2 DEF onChange
      <4> QED BY <4>1 DEF ParamsType
    <3> QED BY <1>12, <3>1, <3>2
  <2> QED
    BY <2>1, FS_EmptySet DEF navigate, Loads, Counted, storage, marks, views
<1>13. CASE ListServed
  <2>1. \A answer \in List(pending.params) : answer \subseteq Keys /\ Cardinality(answer) <= Limit
    BY PageOfList
  <2>2. /\ pending' \in [stage : {"none", "sent", "served"}, params : ParamsType, answer : SUBSET Keys]
        /\ Cardinality(pending'.answer) <= Limit
        /\ unannounced' \in BOOLEAN
    <3>1. CASE /\ pending' = [pending EXCEPT !.stage = "served"]
               /\ unannounced' = TRUE
      BY <3>1
    <3>2. ASSUME NEW answer \in List(pending.params), unannounced' = FALSE,
                 pending' = [pending EXCEPT !.stage = "served", !.answer = answer]
          PROVE  /\ pending' \in [stage : {"none", "sent", "served"}, params : ParamsType,
                                  answer : SUBSET Keys]
                 /\ Cardinality(pending'.answer) <= Limit
                 /\ unannounced' \in BOOLEAN
      BY <2>1, <3>2
    <3> QED BY <1>13, <3>1, <3>2 DEF ListServed
  <2> QED
    BY <1>13, <2>2 DEF ListServed, storage, marks, views
<1>14. CASE ListArrives
  BY <1>14, FS_EmptySet DEF ListArrives, NoLoad, FirstPage, ParamsType, storage, marks, views
<1>15. ASSUME NEW k \in Keys, viewFile(k) PROVE TypeOK'
  <2>1. content[dir[k]] \in Contents
    BY <1>15 DEF viewFile, Stored
  <2> QED
    BY <1>15, <2>1 DEF viewFile, Counted, storage, page, marks
<1>16. CASE StartExport
  <2>1. \A k \in Stored : k \in Keys /\ content[dir[k]] \in Contents
    BY DEF Stored
  <2>2. {<<k, content[dir[k]]>> : k \in {j \in Stored : ~Writing(dir[j])}} \subseteq Keys \X Contents
    BY <2>1
  <2> QED
    BY <1>16, <2>1, <2>2 DEF StartExport, FilesToExport, Counted, storage, page, marks, views
<1>17. ASSUME NEW k \in Keys, ExportFile(k) PROVE TypeOK'
  BY <1>17 DEF ExportFile, storage, page, marks, views
<1>18. CASE ExportEnds
  BY <1>18 DEF ExportEnds, storage, page, marks, views
<1> QED
  BY <1>1, <1>2, <1>3, <1>4, <1>5, <1>6, <1>7, <1>8, <1>9, <1>10, <1>11, <1>12, <1>13, <1>14,
     <1>15, <1>16, <1>17, <1>18 DEF Next, Server, Browser

\* Every variable keeps its type, and no page of the list holds more files
\* than its limit (LocalStorage.List, UploadPage).
THEOREM TypeCorrect == Spec => []TypeOK
<1> QED
  BY TypeInit, TypeStep, PTL DEF Spec

-----------------------------------------------------------------------------
(* What the steps do to the directory and the uploads.                     *)

\* The uploads are as far as before, or further, under the same keys.
SameKeys ==
    /\ Started' = Started
    /\ \A u \in Uploads : /\ up'[u].name = up[u].name /\ up'[u].at = up[u].at
                          /\ up'[u].inode = up[u].inode

\* The key that u has after a step.
KeyAfter(u) == FileNameWithTs(up'[u].name, up'[u].at)

\* A step uploads, writes, ends an upload, unlinks, or leaves the files alone.
LEMMA Steps ==
    ASSUME TypeOK, [Next]_vars
    PROVE  \/ \E u \in Uploads, name \in Names : Upload(u, name)
           \/ \E u \in Uploads : Copy(u) \/ UploadAnswered(u) \/ UploadFails(u)
           \/ \E k \in Keys : Unlink(k) /\ UNCHANGED <<content, up>>
           \/ UNCHANGED <<dir, content, up, removed>>
<1>1. CASE UNCHANGED vars
  BY <1>1 DEF vars, storage
<1>2. CASE Server
  <2>1. CASE \E k \in Keys : OtherDelete(k)
    BY <2>1 DEF OtherDelete
  <2>2. ASSUME NEW b \in batches, NEW k \in b.left, DeleteServed(b, k)
        PROVE  (\E j \in Keys : Unlink(j) /\ UNCHANGED <<content, up>>)
               \/ UNCHANGED <<dir, content, up, removed>>
    <3>1. k \in Keys
      BY DEF TypeOK
    <3> QED BY <2>2, <3>1 DEF DeleteServed
  <2>3. CASE Tick \/ StartExport \/ ExportEnds \/ ListServed \/ \E k \in Keys : ExportFile(k)
    BY <2>3 DEF Tick, StartExport, ExportEnds, ListServed, ExportFile, storage
  <2> QED BY <1>2, <2>1, <2>2, <2>3 DEF Server
<1>3. CASE Browser
  BY <1>3 DEF Browser, onSelect, viewFile, onReset, deleteSelected, AllDeleted, onSearch, onChange,
              navigate, ListArrives, storage
<1> QED
  BY <1>1, <1>2, <1>3 DEF Next

LEMMA UnderWay ==
    ASSUME TypeOK, NEW u \in Uploads, Copy(u) \/ UploadAnswered(u) \/ UploadFails(u)
    PROVE  SameKeys
<1>1. PICK stage \in {"half", "written", "ok", "failed"} : up' = [up EXCEPT ![u].stage = stage]
  BY DEF Copy, UploadAnswered, UploadFails
<1>2. up[u].stage # "idle"
  BY DEF Copy, UploadAnswered, UploadFails
<1> QED
  BY <1>1, <1>2 DEF SameKeys, Started, TypeOK, UploadType, Idle

LEMMA KeptKeys ==
    ASSUME TypeOK, [Next]_vars, ~(\E u \in Uploads, name \in Names : Upload(u, name))
    PROVE  SameKeys
<1>1. CASE UNCHANGED up
  BY <1>1 DEF SameKeys, Started
<1> QED
  BY <1>1, UnderWay, Steps

\* Uploads that stay under their keys collide as before.
LEMMA SameCollisions ==
    ASSUME TypeOK, SameKeys
    PROVE  /\ \A u \in Started : KeyAfter(u) = KeyOf(u) /\ Collided(u)' = Collided(u)
           /\ CollidedKeys' = CollidedKeys
<1>1. \A u \in Started : u \in Uploads
  BY DEF Started
<1>2. \A u \in Started : KeyAfter(u) = KeyOf(u)
  BY <1>1 DEF SameKeys, KeyOf, KeyAfter, FileNameWithTs
<1>3. \A u \in Started : Collided(u)' <=> Collided(u)
  BY <1>1 DEF SameKeys, Collided
<1>4. CollidedKeys' = CollidedKeys
  BY <1>1, <1>2, <1>3 DEF CollidedKeys, SameKeys, KeyOf, KeyAfter
<1> QED
  BY <1>2, <1>3, <1>4 DEF Collided

\* A new upload takes its key; what collided before still does, and if its
\* key was used before it collides too.
LEMMA UploadStep ==
    ASSUME TypeOK, NEW u \in Uploads, NEW name \in Names, Upload(u, name)
    PROVE  /\ u \notin Started /\ Started' = Started \union {u}
           /\ <<name, now>> \in Keys /\ KeyAfter(u) = <<name, now>>
           /\ up'[u].inode = IF dir[<<name, now>>] = None THEN u ELSE dir[<<name, now>>]
           /\ \A v \in Started : /\ up'[v] = up[v] /\ KeyAfter(v) = KeyOf(v)
                                 /\ Collided(v) => Collided(v)'
           /\ CollidedKeys \subseteq CollidedKeys'
           /\ \A v \in Started : KeyOf(v) = <<name, now>> => <<name, now>> \in CollidedKeys'
<1> DEFINE k == <<name, now>>
<1>1. u \notin Started
  BY DEF Upload, Started
<1>2. /\ up'[u].stage = "open" /\ up'[u].name = name /\ up'[u].at = now
      /\ up'[u].inode = IF dir[k] = None THEN u ELSE dir[k]
      /\ \A v \in Uploads \ {u} : up'[v] = up[v]
  BY DEF Upload, FileNameWithTs, TypeOK
<1>3. Started' = Started \union {u}
  BY <1>2 DEF Started
<1>4. k \in Keys /\ KeyAfter(u) = k
  BY <1>2 DEF Keys, KeyAfter, FileNameWithTs, TypeOK
<1>5. \A v \in Started : v \in Uploads \ {u} /\ up'[v] = up[v] /\ KeyAfter(v) = KeyOf(v)
  BY <1>1, <1>2 DEF Started, KeyOf, KeyAfter, FileNameWithTs
<1>6. \A v \in Started : Collided(v) => Collided(v)'
  BY <1>3, <1>5 DEF Collided
<1>7. CollidedKeys \subseteq CollidedKeys'
  BY <1>3, <1>5, <1>6 DEF CollidedKeys, KeyOf, KeyAfter
<1>8. ASSUME NEW v \in Started, KeyOf(v) = k PROVE k \in CollidedKeys'
  <2>1. up'[v].name = name /\ up'[v].at = now
    BY <1>5, <1>8 DEF KeyOf, FileNameWithTs
  <2>2. Collided(u)'
    BY <1>2, <1>3, <1>5, <2>1 DEF Collided
  <2> QED BY <1>3, <1>4, <2>2 DEF CollidedKeys, KeyOf, KeyAfter
<1> QED
  BY <1>1, <1>2, <1>3, <1>4, <1>5, <1>6, <1>7, <1>8

-----------------------------------------------------------------------------
(* Every file has one key and one upload that created it.                  *)

FilesOfKeys ==
    \A k \in Stored : dir[k] \in Started /\ KeyOf(dir[k]) = k /\ up[dir[k]].inode = dir[k]

InodesOfUploads ==
    \A u \in Started :
        /\ up[u].inode \in Started /\ KeyOf(up[u].inode) = KeyOf(u)
        /\ up[u].inode \in removed \/ dir[KeyOf(u)] = up[u].inode

KeysInv == TypeOK /\ FilesOfKeys /\ InodesOfUploads /\ removed \subseteq Started

\* An upload that is alone under its key writes a file of its own.
LEMMA OwnInode ==
    ASSUME KeysInv, NEW u \in Started, ~Collided(u)
    PROVE  up[u].inode = u
  BY DEF KeysInv, InodesOfUploads, Collided, KeyOf, FileNameWithTs

LEMMA KeysInit == Init => KeysInv
  BY TypeInit DEF Init, KeysInv, FilesOfKeys, InodesOfUploads, Stored, Started, Idle

LEMMA KeysStep == KeysInv /\ [Next]_vars => KeysInv'
<1> SUFFICES ASSUME KeysInv, [Next]_vars PROVE KeysInv'
  OBVIOUS
<1>1. TypeOK /\ TypeOK'
  BY TypeStep DEF KeysInv
<1>2. ASSUME NEW u \in Uploads, NEW name \in Names, Upload(u, name)
      PROVE  FilesOfKeys' /\ InodesOfUploads' /\ (removed \subseteq Started)'
  <2> DEFINE k == <<name, now>>
             i == IF dir[k] = None THEN u ELSE dir[k]
  <2>1. /\ u \notin Started /\ Started' = Started \union {u}
        /\ k \in Keys /\ KeyAfter(u) = k /\ up'[u].inode = i
        /\ \A v \in Started : up'[v] = up[v] /\ KeyAfter(v) = KeyOf(v)
    BY <1>1, <1>2, UploadStep
  <2>2. dir' = [dir EXCEPT ![k] = i] /\ removed' = removed
    BY <1>2 DEF Upload, FileNameWithTs
  <2>3. dir' \in [Keys -> Uploads \union {None}] /\ dir \in [Keys -> Uploads \union {None}]
    BY <1>1 DEF TypeOK
  <2>4. dir[k] # None => dir[k] \in Started /\ KeyOf(dir[k]) = k /\ up[dir[k]].inode = dir[k]
    BY <2>1 DEF KeysInv, FilesOfKeys, Stored
  <2>5. i \in Started' /\ KeyAfter(i) = k /\ up'[i].inode = i
    BY <2>1, <2>4
  <2>6. FilesOfKeys'
    <3> SUFFICES ASSUME NEW j \in Stored'
                 PROVE  dir'[j] \in Started' /\ KeyAfter(dir'[j]) = j /\ up'[dir'[j]].inode = dir'[j]
      BY DEF FilesOfKeys, KeyOf, KeyAfter
    <3>1. j \in Keys
      BY DEF Stored
    <3>2. CASE j = k
      BY <2>1, <2>2, <2>3, <2>5, <3>2
    <3>3. CASE j # k
      <4>1. dir'[j] = dir[j] /\ j \in Stored
        BY <2>2, <2>3, <3>1, <3>3 DEF Stored
      <4> QED BY <2>1, <4>1 DEF KeysInv, FilesOfKeys
    <3> QED BY <3>2, <3>3
  <2>7. InodesOfUploads'
    <3> SUFFICES ASSUME NEW v \in Started'
                 PROVE  /\ up'[v].inode \in Started' /\ KeyAfter(up'[v].inode) = KeyAfter(v)
                        /\ up'[v].inode \in removed' \/ dir'[KeyAfter(v)] = up'[v].inode
      BY DEF InodesOfUploads, KeyOf, KeyAfter
    <3>1. CASE v = u
      BY <2>1, <2>2, <2>3, <2>5, <3>1
    <3>2. CASE v \in Started
      <4>1. /\ up[v].inode \in Started /\ KeyOf(up[v].inode) = KeyOf(v)
            /\ up[v].inode \in removed \/ dir[KeyOf(v)] = up[v].inode
        BY <3>2 DEF KeysInv, InodesOfUploads
      <4>2. KeyOf(v) \in Keys /\ up[v].inode \in Uploads
        BY <1>1, <3>2, KeyTypes
      <4>3. dir[KeyOf(v)] = up[v].inode => dir'[KeyOf(v)] = up[v].inode
        BY <2>2, <2>3, <4>2
      <4> QED BY <2>1, <2>2, <3>2, <4>1, <4>3
    <3> QED BY <2>1, <3>1, <3>2
  <2> QED
    BY <2>1, <2>2, <2>6, <2>7 DEF KeysInv
<1>3. ASSUME ~(\E u \in Uploads, name \in Names : Upload(u, name))
      PROVE  FilesOfKeys' /\ InodesOfUploads' /\ (removed \subseteq Started)'
  <2>1. SameKeys
    BY <1>1, <1>3, KeptKeys
  <2>2. \A u \in Started : KeyAfter(u) = KeyOf(u)
    BY <1>1, <2>1, SameCollisions
  <2>3. \A u \in Started : u \in Uploads /\ up'[u].inode = up[u].inode
    BY <2>1 DEF SameKeys, Started
  <2>4. CASE UNCHANGED <<dir, removed>>
    BY <2>1, <2>2, <2>3, <2>4 DEF KeyOf, KeyAfter, KeysInv, FilesOfKeys, InodesOfUploads, Stored, SameKeys
  <2>5. ASSUME NEW k \in Keys, Unlink(k)
        PROVE  FilesOfKeys' /\ InodesOfUploads' /\ (removed \subseteq Started)'
    <3>1. /\ dir[k] # None /\ dir' = [dir EXCEPT ![k] = None]
          /\ removed' = removed \union {dir[k]}
      BY <2>5 DEF Unlink
    <3>2. \A j \in Stored' : j \in Stored /\ dir'[j] = dir[j]
      BY <1>1, <3>1 DEF Stored, TypeOK
    <3>3. FilesOfKeys'
      BY <2>1, <2>2, <2>3, <3>2 DEF KeyOf, KeyAfter, KeysInv, FilesOfKeys, SameKeys
    <3>4. \A u \in Started : dir[KeyOf(u)] = up[u].inode =>
             dir'[KeyOf(u)] = up[u].inode \/ up[u].inode \in removed'
      BY <1>1, <3>1, KeyTypes DEF TypeOK
    <3>5. InodesOfUploads'
      BY <2>1, <2>2, <2>3, <3>1, <3>4 DEF KeyOf, KeyAfter, KeysInv, InodesOfUploads, SameKeys
    <3>6. (removed \subseteq Started)'
      BY <2>1, <3>1 DEF KeysInv, FilesOfKeys, Stored, SameKeys
    <3> QED BY <3>3, <3>5, <3>6
  <2>6. (\E u \in Uploads : Copy(u) \/ UploadAnswered(u) \/ UploadFails(u)) => UNCHANGED <<dir, removed>>
    BY DEF Copy, UploadAnswered, UploadFails
  <2> QED
    BY <1>1, <1>3, <2>4, <2>5, <2>6, Steps
<1> QED
  BY <1>1, <1>2, <1>3 DEF KeysInv

-----------------------------------------------------------------------------
(* What was uploaded alone under its key stays as it is.                   *)

ContentInv ==
    \A u \in Started : ~Collided(u) =>
        /\ up[u].stage = "half" => content[u][1] = u
        /\ up[u].stage \in {"written", "ok"} => content[u] = Whole(u)

LEMMA ContentStep ==
    ASSUME KeysInv, ContentInv, [Next]_vars
    PROVE  ContentInv'
<1>1. TypeOK /\ TypeOK' /\ KeysInv'
  BY TypeStep, KeysStep DEF KeysInv
<1>2. ASSUME NEW u \in Uploads, NEW name \in Names, Upload(u, name) PROVE ContentInv'
  <2> DEFINE k == <<name, now>>
             i == IF dir[k] = None THEN u ELSE dir[k]
  <2>1. /\ u \notin Started /\ Started' = Started \union {u} /\ up'[u].inode = i
        /\ \A v \in Started : up'[v] = up[v] /\ KeyAfter(v) = KeyOf(v) /\ (Collided(v) => Collided(v)')
        /\ KeyAfter(u) = k
    BY <1>1, <1>2, UploadStep
  <2>2. content' = [content EXCEPT ![i] = Blank] /\ up'[u].stage = "open"
    BY <1>1, <1>2 DEF Upload, FileNameWithTs, TypeOK
  <2>3. ASSUME NEW v \in Started, ~Collided(v)' PROVE content'[v] = content[v]
    <3>1. v # u /\ v \in Uploads
      BY <2>1 DEF Started
    <3>2. CASE v # i
      BY <1>1, <2>2, <3>1, <3>2 DEF TypeOK
    <3>3. CASE v = i
      <4>1. KeyAfter(v) = KeyAfter(u)
        <5>1. dir[k] = v /\ k \in Stored
          BY <1>1, <1>2, <3>1, <3>3, UploadStep DEF Stored
        <5> QED BY <2>1, <5>1 DEF KeysInv, FilesOfKeys
      <4>2. Collided(v)'
        BY <2>1, <3>1, <4>1 DEF Collided, KeyAfter, FileNameWithTs
      <4> QED BY <2>3, <4>2
    <3> QED BY <3>2, <3>3
  <2> HIDE DEF i, k
  <2> QED
    BY <2>1, <2>2, <2>3 DEF ContentInv
<1>3. ASSUME NEW u \in Uploads, Copy(u) PROVE ContentInv'
  <2> DEFINE i == up[u].inode
             c == IF up[u].stage = "open" THEN 1 ELSE 2
             stage == IF c = 1 THEN "half" ELSE "written"
  <2>1. SameKeys
    BY <1>1, <1>3, UnderWay
  <2>2. \A v \in Started : Collided(v)' = Collided(v)
    BY <1>1, <2>1, SameCollisions
  <2>3. /\ up[u].stage \in {"open", "half"} /\ u \in Started
        /\ up' = [up EXCEPT ![u].stage = stage]
        /\ content' = [content EXCEPT ![i][c] = u]
    BY <1>3 DEF Copy, Started
  <2>4. \A v \in Started \ {u} : v \in Uploads /\ up'[v] = up[v]
    BY <2>3 DEF Started
  <2>5. i \in Uploads /\ content[i] \in Contents /\ c \in Chunks
    BY <1>1, <2>3, KeyTypes DEF TypeOK, Chunks
  <2>6. up'[u].stage = stage
    BY <1>1, <2>3 DEF TypeOK, UploadType, Idle
  <2>7. content'[i] = [content[i] EXCEPT ![c] = u] /\ \A v \in Uploads \ {i} : content'[v] = content[v]
    BY <1>1, <2>3, <2>5 DEF TypeOK
  <2>8. ASSUME NEW v \in Started \ {u}, ~Collided(v) PROVE content'[v] = content[v]
    <3>1. v # i
      <4> SUFFICES ASSUME v = i PROVE FALSE
        OBVIOUS
      <4>1. KeyOf(u) = KeyOf(v)
        BY <2>3 DEF KeysInv, InodesOfUploads
      <4> QED BY <2>3, <2>8, <4>1 DEF Collided, KeyOf, FileNameWithTs
    <3> QED BY <2>4, <2>7, <3>1
  <2>9. ASSUME ~Collided(u)
        PROVE  /\ stage = "half" => content'[u][1] = u
               /\ stage = "written" => content'[u] = Whole(u)
    <3>1. i = u
      BY <2>3, <2>9, OwnInode
    <3>2. CASE c = 1
      BY <2>5, <2>7, <3>1, <3>2 DEF Contents, Chunks
    <3>3. CASE c = 2
      <4>1. content[u][1] = u
        BY <2>3, <2>9, <3>3 DEF ContentInv
      <4>2. content'[u] \in [Chunks -> Uploads \union {None}] /\ content'[u][1] = u /\ content'[u][2] = u
        BY <2>5, <2>7, <3>1, <3>3, <4>1 DEF Contents, Chunks
      <4> HIDE DEF i, c
      <4> QED BY <3>3, <4>2 DEF Whole, Chunks
    <3> QED BY <2>5, <3>2, <3>3
  <2>10. stage \in {"half", "written"}
    OBVIOUS
  <2>11. Started' = Started
    BY <2>1 DEF SameKeys
  <2> HIDE DEF i, c, stage
  <2> QED
    BY <2>2, <2>3, <2>4, <2>6, <2>8, <2>9, <2>10, <2>11 DEF ContentInv
<1>4. ASSUME ~(\E u \in Uploads, name \in Names : Upload(u, name)), ~(\E u \in Uploads : Copy(u))
      PROVE  ContentInv'
  <2>1. SameKeys /\ \A v \in Started : Collided(v)' = Collided(v)
    BY <1>1, <1>4, KeptKeys, SameCollisions
  <2>2. content' = content
    BY <1>1, <1>4, Steps DEF UploadAnswered, UploadFails
  <2>3. \A v \in Started : up'[v].stage = up[v].stage \/ up'[v].stage = "failed"
                           \/ (up'[v].stage = "ok" /\ up[v].stage = "written")
    <3>1. ASSUME NEW u \in Uploads, UploadAnswered(u) \/ UploadFails(u), NEW v \in Started
          PROVE  up'[v].stage = up[v].stage \/ up'[v].stage = "failed"
                 \/ (up'[v].stage = "ok" /\ up[v].stage = "written")
      <4>1. v \in Uploads /\ up \in [Uploads -> UploadType]
        BY <1>1 DEF Started, TypeOK
      <4>2. CASE v # u
        BY <3>1, <4>1, <4>2 DEF UploadAnswered, UploadFails
      <4>3. CASE v = u
        <5>1. up[u] \in [stage : {"open", "half", "written", "ok", "failed"}, name : Names,
                         at : 0..MaxTime, inode : Uploads]
          BY <4>1, <4>3 DEF UploadType, Idle, Started
        <5> QED BY <3>1, <4>1, <4>3, <5>1 DEF UploadAnswered, UploadFails
      <4> QED BY <4>2, <4>3
    <3>2. CASE UNCHANGED up
      BY <3>2
    <3> QED BY <1>1, <1>4, <3>1, <3>2, Steps
  <2> QED
    BY <2>1, <2>2, <2>3 DEF ContentInv, SameKeys
<1> QED
  BY <1>2, <1>3, <1>4

\* For any uploads, names and times: a file that was uploaded with success,
\* alone of its name in its second, is stored whole and with its own content
\* until somebody deletes it (FileNameWithTs, LocalStorage.Upload).
THEOREM UploadsAreKept == Spec => []UploadsKept
<1>1. Init => KeysInv /\ ContentInv
  BY KeysInit DEF Init, ContentInv, Started, Idle
<1>2. KeysInv /\ ContentInv /\ [Next]_vars => KeysInv' /\ ContentInv'
  BY KeysStep, ContentStep
<1>3. KeysInv /\ ContentInv => UploadsKept
  <2> SUFFICES ASSUME KeysInv, ContentInv, NEW u \in Uploads, up[u].stage = "ok", ~Collided(u)
               PROVE  /\ content[up[u].inode] = Whole(u)
                      /\ up[u].inode \notin removed => dir[KeyOf(u)] = up[u].inode
    BY DEF UploadsKept
  <2>1. u \in Started
    BY DEF Started
  <2>2. up[u].inode = u
    BY <2>1, OwnInode
  <2> QED
    BY <2>1, <2>2 DEF ContentInv, KeysInv, InodesOfUploads
<1> QED
  BY <1>1, <1>2, <1>3, PTL DEF Spec

-----------------------------------------------------------------------------
(* What one step leaves of the files that nobody writes.                   *)

Used == {KeyOf(u) : u \in Started}
WritingAfter(i) == \E u \in Uploads : up'[u].inode = i /\ up'[u].stage \in {"open", "half"}

\* A key that was used or collided stays so, and a key without a file gets
\* one again only by a collision.
LEMMA UsedStep ==
    ASSUME KeysInv, [Next]_vars
    PROVE  /\ Used \subseteq Used' /\ CollidedKeys \subseteq CollidedKeys'
           /\ \A k \in Used : k \in Keys /\ (dir[k] = None => k \in CollidedKeys' \/ dir'[k] = None)
<1>1. TypeOK /\ \A k \in Used : k \in Keys
  BY KeyTypes DEF KeysInv, Used
<1>2. ASSUME NEW u \in Uploads, NEW name \in Names, Upload(u, name)
      PROVE  /\ Used \subseteq Used' /\ CollidedKeys \subseteq CollidedKeys'
             /\ \A k \in Used : dir[k] = None => k \in CollidedKeys' \/ dir'[k] = None
  <2> DEFINE key == <<name, now>>
  <2>1. /\ Started' = Started \union {u} /\ CollidedKeys \subseteq CollidedKeys'
        /\ \A v \in Started : KeyAfter(v) = KeyOf(v)
        /\ \A v \in Started : KeyOf(v) = key => key \in CollidedKeys'
    BY <1>1, <1>2, UploadStep
  <2>2. \E i \in Uploads \union {None} : dir' = [dir EXCEPT ![key] = i]
    BY <1>1, <1>2 DEF Upload, FileNameWithTs, TypeOK
  <2>3. Used \subseteq Used'
    BY <2>1 DEF Used, KeyOf, KeyAfter
  <2>4. ASSUME NEW k \in Used, dir[k] = None PROVE k \in CollidedKeys' \/ dir'[k] = None
    <3>1. CASE k = key
      BY <2>1, <3>1 DEF Used
    <3>2. CASE k # key
      BY <1>1, <2>2, <2>4, <3>2 DEF TypeOK
    <3> QED BY <3>1, <3>2
  <2> QED BY <2>1, <2>3, <2>4
<1>3. ASSUME ~(\E u \in Uploads, name \in Names : Upload(u, name))
      PROVE  /\ Used \subseteq Used' /\ CollidedKeys \subseteq CollidedKeys'
             /\ \A k \in Used : dir[k] = None => k \in CollidedKeys' \/ dir'[k] = None
  <2>1. SameKeys /\ CollidedKeys' = CollidedKeys /\ \A u \in Started : KeyAfter(u) = KeyOf(u)
    BY <1>1, <1>3, KeptKeys, SameCollisions
  <2>2. Used \subseteq Used'
    BY <2>1 DEF Used, KeyOf, KeyAfter, SameKeys
  <2>3. (\E k \in Keys : dir' = [dir EXCEPT ![k] = None]) \/ dir' = dir
    BY <1>1, <1>3, Steps DEF Copy, UploadAnswered, UploadFails, Unlink
  <2> QED
    BY <1>1, <2>1, <2>2, <2>3 DEF TypeOK
<1> QED
  BY <1>1, <1>2, <1>3

\* A file that nobody writes stays as it is, unless it is deleted or another
\* upload meets it in its key.
LEMMA QuietFile ==
    ASSUME KeysInv, [Next]_vars, NEW k \in Stored, ~Writing(dir[k])
    PROVE  \/ k \in CollidedKeys'
           \/ k \notin Stored'
           \/ /\ dir'[k] = dir[k] /\ content'[dir[k]] = content[dir[k]]
              /\ ~WritingAfter(dir[k])
<1>1. TypeOK /\ k \in Keys /\ dir[k] \in Uploads /\ dir[k] \in Started /\ KeyOf(dir[k]) = k
  BY DEF KeysInv, FilesOfKeys, Stored, TypeOK, Started
<1>2. ASSUME NEW u \in Uploads, NEW name \in Names, Upload(u, name), <<name, now>> # k
      PROVE  /\ dir'[k] = dir[k] /\ content'[dir[k]] = content[dir[k]]
             /\ ~WritingAfter(dir[k])
  <2> DEFINE key == <<name, now>>
             i == IF dir[key] = None THEN u ELSE dir[key]
  <2>1. /\ u \notin Started /\ key \in Keys /\ up'[u].inode = i
    BY <1>1, <1>2, UploadStep
  <2>2. /\ dir' = [dir EXCEPT ![key] = i] /\ content' = [content EXCEPT ![i] = Blank]
        /\ \A v \in Uploads \ {u} : up'[v] = up[v]
    BY <1>1, <1>2 DEF Upload, FileNameWithTs, TypeOK
  <2>3. i # dir[k]
    <3>1. CASE dir[key] = None
      BY <1>1, <2>1, <3>1
    <3>2. CASE dir[key] # None
      BY <1>1, <1>2, <2>1, <3>2 DEF KeysInv, FilesOfKeys, Stored
    <3> QED BY <3>1, <3>2
  <2>4. dir'[k] = dir[k]
    BY <1>1, <1>2, <2>2 DEF TypeOK
  <2> HIDE DEF i
  <2> QED
    BY <1>1, <2>1, <2>2, <2>3, <2>4 DEF TypeOK, Writing, WritingAfter
<1>3. ASSUME NEW u \in Uploads, NEW name \in Names, Upload(u, name), <<name, now>> = k
      PROVE  k \in CollidedKeys'
  BY <1>1, <1>3, UploadStep
<1>4. ASSUME NEW u \in Uploads, Copy(u)
      PROVE  /\ dir'[k] = dir[k] /\ content'[dir[k]] = content[dir[k]]
             /\ ~WritingAfter(dir[k])
  <2>1. SameKeys /\ up[u].stage \in {"open", "half"} /\ dir' = dir
    BY <1>1, <1>4, UnderWay DEF Copy
  <2>2. up[u].inode # dir[k]
    BY <2>1 DEF Writing
  <2>3. content'[dir[k]] = content[dir[k]]
    BY <1>1, <1>4, <2>2 DEF Copy, TypeOK
  <2>4. \A v \in Uploads \ {u} : up'[v] = up[v]
    BY <1>1, <1>4 DEF Copy, TypeOK
  <2> QED
    BY <2>1, <2>2, <2>3, <2>4 DEF WritingAfter, Writing, SameKeys
<1>5. ASSUME NEW u \in Uploads, UploadAnswered(u) \/ UploadFails(u)
      PROVE  /\ dir'[k] = dir[k] /\ content'[dir[k]] = content[dir[k]]
             /\ ~WritingAfter(dir[k])
  <2>1. UNCHANGED <<dir, content>> /\ \E stage \in {"ok", "failed"} : up' = [up EXCEPT ![u].stage = stage]
    BY <1>5 DEF UploadAnswered, UploadFails
  <2>2. SameKeys
    BY <1>1, <1>5, UnderWay
  <2>3. \A v \in Uploads : up'[v].stage \in {"open", "half"} => up'[v] = up[v]
    <3>1. up[u] \in [stage : {"open", "half", "written", "ok", "failed"}, name : Names,
                     at : 0..MaxTime, inode : Uploads]
      BY <1>1, <1>5 DEF UploadAnswered, UploadFails, TypeOK, UploadType, Idle
    <3> QED
      BY <1>1, <2>1, <3>1 DEF TypeOK
  <2> QED
    BY <2>1, <2>2, <2>3 DEF WritingAfter, Writing
<1>6. ASSUME NEW j \in Keys, Unlink(j), UNCHANGED <<content, up>>
      PROVE  \/ k \notin Stored'
             \/ /\ dir'[k] = dir[k] /\ content'[dir[k]] = content[dir[k]]
                /\ ~WritingAfter(dir[k])
  BY <1>1, <1>6 DEF Unlink, TypeOK, Stored, Writing, WritingAfter
<1>7. CASE UNCHANGED <<dir, content, up, removed>>
  BY <1>7 DEF Writing, WritingAfter
<1> QED
  BY <1>1, <1>2, <1>3, <1>4, <1>5, <1>6, <1>7, Steps

-----------------------------------------------------------------------------
(* The browser's cache.                                                    *)

CacheInv ==
    \A c \in cached :
        /\ c[1] \in Used
        /\ c[1] \in Stored \ (early \union CollidedKeys) =>
              c[2] = content[dir[c[1]]] /\ ~Writing(dir[c[1]])

LEMMA CacheStep ==
    ASSUME KeysInv, CacheInv, [Next]_vars
    PROVE  CacheInv'
<1>1. ASSUME NEW c \in cached, early \subseteq early'
      PROVE  /\ c[1] \in Used'
             /\ c[1] \in Stored' \ (early' \union CollidedKeys') =>
                   c[2] = content'[dir'[c[1]]] /\ ~WritingAfter(dir'[c[1]])
  <2>1. c[1] \in Used' /\ c[1] \in Keys /\ CollidedKeys \subseteq CollidedKeys'
        /\ (dir[c[1]] = None => c[1] \in CollidedKeys' \/ dir'[c[1]] = None)
    BY UsedStep DEF CacheInv
  <2>2. CASE c[1] \in Stored' \ (early' \union CollidedKeys')
    <3>1. c[1] \in Stored \ (early \union CollidedKeys)
      BY <1>1, <2>1, <2>2 DEF Stored
    <3>2. c[2] = content[dir[c[1]]] /\ ~Writing(dir[c[1]])
      BY <3>1 DEF CacheInv
    <3> QED
      BY <2>1, <2>2, <3>1, <3>2, QuietFile
  <2> QED BY <2>1, <2>2
<1>2. CASE UNCHANGED views
  BY <1>1, <1>2 DEF views, CacheInv, Writing, WritingAfter
<1>3. ASSUME NEW k \in Keys, viewFile(k) PROVE CacheInv'
  <2>1. /\ k \in Stored /\ UNCHANGED <<dir, content, up>>
        /\ cached' = cached \union {<<k, content[dir[k]]>>}
        /\ early' = IF Writing(dir[k]) THEN early \union {k} ELSE early
    BY <1>3 DEF viewFile, storage
  <2>2. k \in Used' /\ \A i : WritingAfter(i) <=> Writing(i)
    <3>1. k \in Used
      BY <2>1 DEF Used, KeysInv, FilesOfKeys
    <3> QED BY <2>1, <3>1, UsedStep DEF Writing, WritingAfter
  <2> QED
    BY <1>1, <2>1, <2>2 DEF CacheInv, Writing, WritingAfter
<1>4. UNCHANGED views \/ \E k \in Keys : viewFile(k)
  <2>1. CASE Server
    BY <2>1 DEF Server, Tick, Copy, UploadAnswered, UploadFails, Upload, OtherDelete, ExportFile,
                DeleteServed, StartExport, ExportEnds, ListServed
  <2>2. CASE Browser
    BY <2>2 DEF Browser, onSelect, onReset, deleteSelected, AllDeleted, onSearch, onChange, navigate,
                ListArrives
  <2> QED BY <2>1, <2>2 DEF Next, vars
<1> QED
  BY <1>2, <1>3, <1>4

\* For any uploads, names and times: what the browser keeps of a file, and
\* will show for a year without asking, is what is stored under its key,
\* unless two uploads met there or the file was shown while it was uploaded
\* (getFile's Cache-Control, FileNameWithTs).
THEOREM CacheStaysTrue == Spec => []CacheIsTrue
<1>1. Init => KeysInv /\ CacheInv
  BY KeysInit DEF Init, CacheInv
<1>2. KeysInv /\ CacheInv /\ [Next]_vars => KeysInv' /\ CacheInv'
  BY KeysStep, CacheStep
<1>3. CacheInv => CacheIsTrue
  BY DEF CacheInv, CacheIsTrue
<1> QED
  BY <1>1, <1>2, <1>3, PTL DEF Spec

-----------------------------------------------------------------------------
(* The export.                                                             *)

\* The walk has still to come to every file that is owed, which is as it was;
\* and as long as any is owed, no name of the walk has lost its file.
ExportInv ==
    /\ export.stage = "walking" =>
          /\ \A f \in export.owed :
                \/ f[1] \in CollidedKeys
                \/ /\ f[1] \in export.todo \intersect Stored
                   /\ f[2] = content[dir[f[1]]] /\ ~Writing(dir[f[1]])
          /\ export.owed # {} => export.todo \subseteq Stored
    /\ ExportComplete

LEMMA ExportStep ==
    ASSUME KeysInv, ExportInv, [Next]_vars
    PROVE  ExportInv'
<1>1. TypeOK /\ CollidedKeys \subseteq CollidedKeys'
  BY UsedStep DEF KeysInv
<1>2. /\ export.stage \in {"none", "walking", "kept"} /\ export.todo \subseteq Keys
      /\ export.owed \subseteq Keys \X Contents
  BY <1>1 DEF TypeOK
<1>3. ASSUME export' = export, ~(\E k \in Keys : Unlink(k)) PROVE ExportInv'
  <2>1. \A k \in Stored : k \in Stored'
    <3>1. ASSUME NEW u \in Uploads, NEW name \in Names, Upload(u, name), NEW k \in Stored
          PROVE  k \in Stored'
      <4> DEFINE key == <<name, now>>
      <4>1. key \in Keys /\ dir' = [dir EXCEPT ![key] = IF dir[key] = None THEN u ELSE dir[key]]
        BY <1>1, <3>1, UploadStep DEF Upload, FileNameWithTs
      <4> QED
        BY <1>1, <4>1 DEF Stored, TypeOK
    <3>2. (\E u \in Uploads, name \in Names : Upload(u, name)) \/ dir' = dir
      BY <1>1, <1>3, Steps DEF Copy, UploadAnswered, UploadFails
    <3> QED BY <3>1, <3>2 DEF Stored
  <2>2. ASSUME export.stage = "walking", NEW f \in export.owed
        PROVE  \/ f[1] \in CollidedKeys'
               \/ /\ f[1] \in export.todo \intersect Stored'
                  /\ f[2] = content'[dir'[f[1]]] /\ ~WritingAfter(dir'[f[1]])
    <3>1. CASE f[1] \in CollidedKeys
      BY <1>1, <3>1
    <3>2. CASE f[1] \notin CollidedKeys
      <4>1. f[1] \in export.todo \intersect Stored /\ f[2] = content[dir[f[1]]] /\ ~Writing(dir[f[1]])
        BY <2>2, <3>2 DEF ExportInv
      <4> QED BY <2>1, <4>1, QuietFile
    <3> QED BY <3>1, <3>2
  <2> QED
    BY <1>1, <1>3, <2>1, <2>2 DEF ExportInv, ExportComplete, Writing, WritingAfter
<1>4. ASSUME NEW k \in Keys, Unlink(k) PROVE ExportInv'
  <2>1. export'.owed = {}
    BY <1>1, <1>4 DEF Unlink, TypeOK
  <2> QED
    BY <2>1 DEF ExportInv, ExportComplete
<1>5. CASE StartExport
  <2>1. /\ export'.stage = "walking" /\ export'.todo = Stored
        /\ export'.owed = {<<k, content[dir[k]]>> : k \in {j \in Stored : ~Writing(dir[j])}}
        /\ UNCHANGED <<dir, content, up>>
    BY <1>5 DEF StartExport, FilesToExport, storage
  <2> QED
    BY <2>1 DEF ExportInv, ExportComplete, Writing, Stored
<1>6. ASSUME NEW k \in Keys, ExportFile(k) PROVE ExportInv'
  <2>1. export.stage = "walking" /\ k \in export.todo /\ UNCHANGED <<dir, content, up>>
    BY <1>6 DEF ExportFile, storage
  <2>2. CASE dir[k] = None
    <3>1. export' = [export EXCEPT !.stage = "kept", !.todo = {}] /\ export.owed = {}
      BY <1>6, <2>1, <2>2 DEF ExportFile, ExportInv, Stored
    <3>2. export'.stage = "kept" /\ export'.owed = {}
      BY <1>1, <3>1 DEF TypeOK
    <3> QED BY <3>2 DEF ExportInv, ExportComplete
  <2>3. CASE dir[k] # None
    <3>1. export' = [export EXCEPT !.todo = @ \ {k}, !.owed = @ \ {<<k, content[dir[k]]>>}]
      BY <1>6, <2>3 DEF ExportFile
    <3>2. /\ export'.stage = "walking" /\ export'.todo = export.todo \ {k}
          /\ export'.owed = export.owed \ {<<k, content[dir[k]]>>}
      BY <1>1, <2>1, <3>1 DEF TypeOK
    <3>3. \A f \in export.owed : f[1] = k /\ f[2] = content[dir[k]] => f \notin export'.owed
      BY <1>2, <3>2
    <3>4. \A f \in export'.owed :
             \/ f[1] \in CollidedKeys
             \/ /\ f[1] \in export'.todo \intersect Stored
                /\ f[2] = content[dir[f[1]]] /\ ~Writing(dir[f[1]])
      BY <2>1, <3>2, <3>3 DEF ExportInv
    <3>5. CollidedKeys' = CollidedKeys /\ Stored' = Stored /\ \A i : WritingAfter(i) <=> Writing(i)
      BY <2>1 DEF CollidedKeys, Collided, Started, KeyOf, Stored, Writing, WritingAfter
    <3>6. export'.owed # {} => export'.todo \subseteq Stored
      BY <2>1, <3>2 DEF ExportInv
    <3> QED
      BY <2>1, <3>2, <3>4, <3>5, <3>6 DEF ExportInv, ExportComplete, Writing, WritingAfter
  <2> QED BY <2>2, <2>3
<1>7. CASE ExportEnds
  <2>1. /\ export.stage = "walking" /\ export.todo = {} /\ UNCHANGED <<dir, content, up>>
        /\ export' = [export EXCEPT !.stage = "kept"]
    BY <1>7 DEF ExportEnds, storage
  <2>2. export'.stage = "kept" /\ export'.owed = export.owed
    BY <1>1, <2>1 DEF TypeOK
  <2>3. \A f \in export.owed : f[1] \in CollidedKeys
    BY <2>1 DEF ExportInv
  <2> QED
    BY <1>1, <2>2, <2>3 DEF ExportInv, ExportComplete
<1>8. \/ export' = export \/ StartExport \/ ExportEnds
      \/ \E k \in Keys : ExportFile(k) \/ Unlink(k)
  <2>1. CASE Server
    <3>1. ASSUME NEW b \in batches, NEW k \in b.left, DeleteServed(b, k)
          PROVE  export' = export \/ \E j \in Keys : Unlink(j)
      <4>1. k \in Keys
        BY <1>1 DEF TypeOK
      <4> QED BY <3>1, <4>1 DEF DeleteServed
    <3>2. CASE \/ Tick \/ ListServed
               \/ \E u \in Uploads : Copy(u) \/ UploadAnswered(u) \/ UploadFails(u)
               \/ \E u \in Uploads, n \in Names : Upload(u, n)
      BY <3>2 DEF Tick, Copy, UploadAnswered, UploadFails, Upload, ListServed
    <3>3. CASE \E k \in Keys : OtherDelete(k)
      BY <3>3 DEF OtherDelete
    <3> QED BY <2>1, <3>1, <3>2, <3>3 DEF Server
  <2>2. CASE Browser
    BY <2>2 DEF Browser, onSelect, viewFile, onReset, deleteSelected, AllDeleted, onSearch, onChange,
                navigate, ListArrives
  <2> QED BY <2>1, <2>2 DEF Next, vars
<1> QED
  BY <1>3, <1>4, <1>5, <1>6, <1>7, <1>8

\* For any uploads, names and times: an archive of the storage, also one whose
\* walk was broken off, has each file that was there and whole when the walk
\* began, unless a file was deleted meanwhile (LocalStorage.Export).
THEOREM ExportsAreComplete == Spec => []ExportComplete
<1>1. Init => KeysInv /\ ExportInv
  <2>1. Init => export.stage = "none"
    BY DEF Init, NoExport
  <2> QED BY <2>1, KeysInit DEF ExportInv, ExportComplete
<1>2. KeysInv /\ ExportInv /\ [Next]_vars => KeysInv' /\ ExportInv'
  BY KeysStep, ExportStep
<1>3. ExportInv => ExportComplete
  BY DEF ExportInv
<1> QED
  BY <1>1, <1>2, <1>3, PTL DEF Spec

-----------------------------------------------------------------------------
(* The selection and its deletes.                                          *)

\* What the page shows or has selected was uploaded once; and what is selected
\* while a delete is under way is in it or gone, but for what was ticked late.
ClearInv ==
    /\ list \subseteq Used /\ pending.answer \subseteq Used /\ selected \subseteq Used
    /\ \A b \in batches : \A k \in selected \ (late \union kept \union CollidedKeys) :
          k \in b.left \/ dir[k] = None

\* The page's lists hold files that were stored when they were made.
LEMMA ShownWereUsed ==
    ASSUME KeysInv, ClearInv, [Next]_vars
    PROVE  (list \subseteq Used)' /\ (pending.answer \subseteq Used)'
<1>1. TypeOK /\ Used \subseteq Used'
  BY UsedStep DEF KeysInv
<1>2. Stored \subseteq Used
  BY DEF KeysInv, FilesOfKeys, Used
<1>3. \/ UNCHANGED <<list, pending>>
      \/ list' = list /\ \E p : Loads(p)
      \/ ListServed
      \/ list' = pending.answer /\ pending' = NoLoad
  <2>1. CASE Server
    BY <2>1 DEF Server, Tick, Copy, UploadAnswered, UploadFails, Upload, OtherDelete, ExportFile,
                DeleteServed, StartExport, ExportEnds, Revalidates, page
  <2>2. CASE Browser
    BY <2>2 DEF Browser, onSelect, viewFile, onReset, deleteSelected, AllDeleted, onSearch, onChange,
                navigate, ListArrives, Revalidates, page
  <2> QED BY <2>1, <2>2 DEF Next, vars, page
<1>4. CASE list' = list /\ \E p : Loads(p)
  BY <1>1, <1>4 DEF ClearInv, Loads
<1>5. CASE ListServed
  <2>1. list' = list /\ pending'.answer \subseteq Used
    <3>1. CASE pending' = [pending EXCEPT !.stage = "served"]
      BY <1>1, <1>5, <3>1 DEF ClearInv, ListServed, TypeOK
    <3>2. ASSUME NEW answer \in List(pending.params),
                 pending' = [pending EXCEPT !.stage = "served", !.answer = answer]
          PROVE  pending'.answer \subseteq Used
      <4>1. answer \subseteq Used
        BY <1>1, <1>2, PageOfList DEF TypeOK
      <4> QED BY <1>1, <3>2, <4>1 DEF TypeOK
    <3> QED BY <1>5, <3>1, <3>2 DEF ListServed
  <2> QED BY <1>1, <2>1 DEF ClearInv
<1>6. CASE list' = pending.answer /\ pending' = NoLoad
  BY <1>1, <1>6 DEF ClearInv, NoLoad
<1> QED
  BY <1>1, <1>3, <1>4, <1>5, <1>6 DEF ClearInv

LEMMA ClearStep ==
    ASSUME KeysInv, ClearInv, [Next]_vars
    PROVE  ClearInv'
<1>1. /\ TypeOK /\ Used \subseteq Used' /\ CollidedKeys \subseteq CollidedKeys'
      /\ \A k \in selected : dir[k] = None => k \in CollidedKeys' \/ dir'[k] = None
  BY UsedStep DEF KeysInv, ClearInv
<1>2. (list \subseteq Used)' /\ (pending.answer \subseteq Used)'
  BY ShownWereUsed
<1>3. CASE UNCHANGED <<selected, batches, late, kept>>
  BY <1>1, <1>2, <1>3 DEF ClearInv
<1>4. CASE deleteSelected
  <2>1. /\ UNCHANGED <<selected, late, kept>>
        /\ \A b \in batches' : b \in batches \/ b.left = selected
    BY <1>4 DEF deleteSelected, Deleted
  <2> QED
    BY <1>1, <1>2, <2>1 DEF ClearInv
<1>5. ASSUME NEW b \in batches, NEW k \in b.left, DeleteServed(b, k) PROVE ClearInv'
  <2>1. /\ k \in Keys /\ UNCHANGED <<selected, late>> /\ kept \subseteq kept'
        /\ batches' = (batches \ {b}) \union {[b EXCEPT !.left = @ \ {k}]}
        /\ k \in kept' \/ dir'[k] = None
    BY <1>1, <1>5 DEF DeleteServed, Unlink, TypeOK
  <2>2. [b EXCEPT !.left = @ \ {k}].left = b.left \ {k}
    BY <1>1 DEF TypeOK
  <2>3. \A j \in selected \ (late \union kept \union CollidedKeys) : j \in b.left \/ dir[j] = None
    BY DEF ClearInv
  <2> QED
    BY <1>1, <1>2, <2>1, <2>2, <2>3 DEF ClearInv
<1>6. CASE selected' = {}
  BY <1>2, <1>6 DEF ClearInv
<1>7. ASSUME NEW k \in Keys, onSelect(k) PROVE ClearInv'
  <2>1. /\ k \in Used /\ UNCHANGED <<dir, up, batches>> /\ kept' = kept \ {k}
        /\ selected' \ {k} = selected \ {k} /\ late' \ {k} = late \ {k}
        /\ selected' \subseteq selected \union {k}
        /\ batches # {} => k \in late'
    BY <1>7 DEF onSelect, ClearInv, storage
  <2>2. \A j \in selected' \ (late' \union kept' \union CollidedKeys') :
           batches # {} => j \in selected \ (late \union kept \union CollidedKeys)
    BY <1>1, <2>1
  <2> QED
    BY <1>1, <1>2, <2>1, <2>2 DEF ClearInv
<1>8. \/ UNCHANGED <<selected, batches, late, kept>> \/ deleteSelected \/ selected' = {}
      \/ \E b \in batches : \E k \in b.left : DeleteServed(b, k)
      \/ \E k \in Keys : onSelect(k)
  <2>1. CASE Server
    BY <2>1 DEF Server, Tick, Copy, UploadAnswered, UploadFails, Upload, OtherDelete, ExportFile,
                StartExport, ExportEnds, ListServed, marks
  <2>2. CASE Browser
    BY <2>2 DEF Browser, viewFile, onReset, AllDeleted, onSearch, onChange, navigate, ListArrives, marks
  <2> QED BY <2>1, <2>2 DEF Next, vars, marks
<1> QED
  BY <1>3, <1>4, <1>5, <1>6, <1>7, <1>8

\* For any uploads, names and times: when the page drops its selection after a
\* delete, what was in it is gone from the directory, on whatever page it was
\* ticked, but for the exceptions named (UploadPage's deleteSelected).
THEOREM ClearedFilesAreGone == Spec => ClearedIsGone
<1>1. Init => KeysInv /\ ClearInv
  <2>1. Init => list = {} /\ pending.answer = {} /\ selected = {} /\ batches = {}
    BY DEF Init, NoLoad
  <2> QED BY <2>1, KeysInit DEF ClearInv
<1>2. KeysInv /\ ClearInv /\ [Next]_vars => KeysInv' /\ ClearInv'
  BY KeysStep, ClearStep
<1>3. ClearInv => [\A b \in batches \ batches' :
          b.left = {} => \A k \in selected \ (late \union kept \union CollidedKeys) : dir[k] = None]_vars
  BY DEF ClearInv
<1> QED
  BY <1>1, <1>2, <1>3, PTL DEF Spec, ClearedIsGone

-----------------------------------------------------------------------------
(* The list that is shown.                                                 *)

\* What was answered, or is shown, is what the server would answer now.
FreshInv ==
    ~unannounced /\ NothingUnderWay =>
        /\ pending.stage = "none" => list \in List(params)
        /\ pending.stage = "served" => pending.answer \in List(pending.params)

\* An empty directory has one list, the empty one.
LEMMA EmptyList ==
    ASSUME Init
    PROVE  {} \in List(FirstPage)
<1> DEFINE files == {k \in Stored : FirstPage.search => k[1] \in Found}
           order == [n \in 1..0 |-> None]
<1>1. files = {}
  BY DEF Init, Stored
<1>2. Cardinality({}) = 0
  BY FS_EmptySet
<1>3. order \in SetToSeqs({})
  BY <1>2 DEF SetToSeqs
<1>4. DOMAIN order = {}
  OBVIOUS
<1>5. Sorted(order) /\ Page(order, FirstPage) = {}
  <2> HIDE DEF order
  <2> QED BY <1>4 DEF Sorted, Page
<1> HIDE DEF order
<1> QED
  BY <1>1, <1>3, <1>5 DEF List

LEMMA FreshStep ==
    ASSUME TypeOK, FreshInv, [Next]_vars
    PROVE  FreshInv'
<1>1. CASE UNCHANGED <<dir, mtime, up, page, batches, unannounced>>
  <2>1. List(params)' = List(params) /\ List(pending.params)' = List(pending.params)
    BY <1>1 DEF page, List, Stored, Sorted
  <2> QED
    BY <1>1, <2>1 DEF FreshInv, NothingUnderWay, page
<1>2. ASSUME NEW u \in Uploads, NEW name \in Names, Upload(u, name) PROVE FreshInv'
  <2>1. up'[u].stage = "open" /\ (u \notin Mine => unannounced')
    BY <1>2 DEF Upload, Silent, TypeOK
  <2> QED BY <2>1 DEF FreshInv, NothingUnderWay
<1>3. ASSUME NEW u \in Uploads, Copy(u) PROVE FreshInv'
  <2>1. up'[u].stage \in {"half", "written"} /\ (u \notin Mine => unannounced')
    <3>1. up[u] \in [stage : {"open", "half", "written", "ok", "failed"}, name : Names,
                     at : 0..MaxTime, inode : Uploads]
      BY <1>3 DEF Copy, TypeOK, UploadType, Idle
    <3> QED BY <1>3, <3>1 DEF Copy, Silent, TypeOK
  <2> QED BY <2>1 DEF FreshInv, NothingUnderWay
<1>4. ASSUME NEW u \in Uploads, UploadAnswered(u) PROVE FreshInv'
  <2>1. CASE u \in Mine
    BY <1>4, <2>1 DEF UploadAnswered, Revalidates, Loads, FreshInv
  <2>2. CASE u \notin Mine
    <3>1. /\ UNCHANGED <<dir, mtime, params, list, pending, batches, unannounced>>
          /\ \A v \in Mine : up'[v] = up[v]
      BY <1>4, <2>2 DEF UploadAnswered, TypeOK, marks
    <3>2. List(params)' = List(params) /\ List(pending.params)' = List(pending.params)
      BY <3>1 DEF List, Stored, Sorted
    <3> QED BY <3>1, <3>2 DEF FreshInv, NothingUnderWay
  <2> QED BY <2>1, <2>2
<1>5. CASE unannounced'
  BY <1>5 DEF FreshInv
<1>6. CASE batches' # {}
  BY <1>6 DEF FreshInv, NothingUnderWay
<1>7. CASE pending'.stage = "sent"
  BY <1>7 DEF FreshInv
<1>8. CASE ListServed
  <2>1. CASE unannounced' = TRUE
    BY <2>1 DEF FreshInv
  <2>2. ASSUME NEW answer \in List(pending.params),
               pending' = [pending EXCEPT !.stage = "served", !.answer = answer]
        PROVE  FreshInv'
    <3>1. pending'.stage = "served" /\ pending'.answer = answer /\ pending'.params = pending.params
      BY <2>2 DEF TypeOK
    <3>2. UNCHANGED <<dir, mtime>>
      BY <1>8 DEF ListServed, storage
    <3>3. List(pending.params)' = List(pending.params)
      BY <3>1, <3>2 DEF List, Stored, Sorted
    <3> QED BY <2>2, <3>1, <3>3 DEF FreshInv
  <2> QED BY <1>8, <2>1, <2>2 DEF ListServed
<1>9. CASE ListArrives
  <2>1. /\ UNCHANGED <<dir, mtime, up, batches, unannounced>> /\ pending.stage = "served"
        /\ params' = pending.params /\ list' = pending.answer /\ pending'.stage = "none"
    BY <1>9 DEF ListArrives, NoLoad, storage, marks
  <2>2. List(params)' = List(pending.params)
    BY <2>1 DEF List, Stored, Sorted
  <2> QED BY <2>1, <2>2 DEF FreshInv, NothingUnderWay
<1>10. \/ UNCHANGED <<dir, mtime, up, page, batches, unannounced>>
       \/ \E u \in Uploads, name \in Names : Upload(u, name)
       \/ \E u \in Uploads : Copy(u) \/ UploadAnswered(u)
       \/ unannounced' \/ batches' # {} \/ pending'.stage = "sent" \/ ListServed \/ ListArrives
  <2>1. CASE Server
    BY <2>1 DEF Server, Tick, UploadFails, OtherDelete, ExportFile, DeleteServed, StartExport,
                ExportEnds, storage, page, marks
  <2>2. CASE Browser
    <3>1. CASE onSearch \/ onChange \/ \E b \in batches : AllDeleted(b)
      <4>1. \E p : Loads(p)
        BY <3>1 DEF AllDeleted, onSearch, onChange, navigate, Revalidates
      <4>2. pending'.stage = "sent"
        BY <4>1 DEF Loads
      <4> QED BY <4>2
    <3>2. CASE deleteSelected
      BY <3>2 DEF deleteSelected
    <3>3. CASE onReset \/ \E k \in Keys : onSelect(k) \/ viewFile(k)
      BY <3>3 DEF onReset, onSelect, viewFile, storage, page, marks
    <3> QED BY <2>2, <3>1, <3>2, <3>3 DEF Browser
  <2>3. CASE UNCHANGED vars
    BY <2>3 DEF vars, storage, marks
  <2> QED BY <2>1, <2>2, <2>3 DEF Next
<1> QED
  BY <1>1, <1>2, <1>3, <1>4, <1>5, <1>6, <1>7, <1>8, <1>9, <1>10

\* For any uploads, names and times: once nothing of its own is under way the
\* page shows what the server lists, whatever answers came in whatever order,
\* but for the changes it is not told of (UploadPage's upload, deleteSelected
\* and onListParamsChange).
THEOREM SettledListsAreFresh == Spec => []SettledListIsFresh
<1>1. Init => TypeOK /\ FreshInv
  <2> SUFFICES ASSUME Init PROVE FreshInv
    BY TypeInit
  <2>1. list = {} /\ params = FirstPage /\ pending.stage = "none"
    BY DEF Init, NoLoad
  <2> QED BY <2>1, EmptyList DEF FreshInv
<1>2. TypeOK /\ FreshInv /\ [Next]_vars => TypeOK' /\ FreshInv'
  BY TypeStep, FreshStep
<1>3. FreshInv => SettledListIsFresh
  BY DEF FreshInv, SettledListIsFresh
<1> QED
  BY <1>1, <1>2, <1>3, PTL DEF Spec
=============================================================================

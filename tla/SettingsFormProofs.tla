------------------------- MODULE SettingsFormProofs -------------------------
(***************************************************************************)
(* Theorems about SettingsForm for every value of its constants: what the  *)
(* saved settings make the pages show, and what one save may change.       *)
(***************************************************************************)
EXTENDS SettingsForm, FiniteSetTheorems, SequenceTheorems, TLAPS

-----------------------------------------------------------------------------
(* Settings are functions of their keys.                                   *)

LEMMA MergedParts ==
    ASSUME NEW new, NEW old
    PROVE  /\ DOMAIN Merged(new, old) = DOMAIN new \union DOMAIN old
           /\ \A k \in DOMAIN new : Merged(new, old)[k] = new[k]
           /\ \A k \in DOMAIN old \ DOMAIN new : Merged(new, old)[k] = old[k]
  BY DEF Merged

LEMMA WithParts ==
    ASSUME NEW settings, NEW k, NEW v
    PROVE  /\ DOMAIN With(settings, k, v) = DOMAIN settings \union {k}
           /\ With(settings, k, v)[k] = v
           /\ \A j \in DOMAIN settings \ {k} : With(settings, k, v)[j] = settings[j]
  BY DEF With, Merged

\* What the two keys of interest are after a change of one key, ...
LEMMA WithReads ==
    ASSUME NEW settings, NEW k, NEW v
    PROVE  /\ Overrides(With(settings, k, v)) = IF k = "overriddenInputs" THEN v ELSE Overrides(settings)
           /\ Relations(With(settings, k, v)) = IF k = "relations" THEN v ELSE Relations(settings)
  <1>1. PICK after : after = With(settings, k, v)
    OBVIOUS
  <1>2. /\ DOMAIN after = DOMAIN settings \union {k} /\ after[k] = v
        /\ \A j \in DOMAIN settings : j # k => after[j] = settings[j]
    BY <1>1 DEF With, Merged
  <1>3. Overrides(after) = IF k = "overriddenInputs" THEN v ELSE Overrides(settings)
    BY <1>2 DEF Overrides, Has
  <1>4. Relations(after) = IF k = "relations" THEN v ELSE Relations(settings)
    BY <1>2 DEF Relations, Has
  <1> QED
    BY <1>1, <1>3, <1>4

\* ... after a merge, ...
LEMMA MergedReads ==
    ASSUME NEW new, NEW old
    PROVE  /\ Overrides(Merged(new, old)) =
                  IF Has(new, "overriddenInputs") THEN Overrides(new) ELSE Overrides(old)
           /\ Relations(Merged(new, old)) =
                  IF Has(new, "relations") THEN Relations(new) ELSE Relations(old)
  <1>1. PICK after : after = Merged(new, old)
    OBVIOUS
  <1>2. /\ DOMAIN after = DOMAIN new \union DOMAIN old
        /\ \A k \in DOMAIN new : after[k] = new[k]
        /\ \A k \in DOMAIN old : k \notin DOMAIN new => after[k] = old[k]
    BY <1>1 DEF Merged
  <1>3. Overrides(after) = IF Has(new, "overriddenInputs") THEN Overrides(new) ELSE Overrides(old)
    BY <1>2 DEF Overrides, Has
  <1>4. Relations(after) = IF Has(new, "relations") THEN Relations(new) ELSE Relations(old)
    BY <1>2 DEF Relations, Has
  <1> QED
    BY <1>1, <1>3, <1>4

LEMMA DecodeParts ==
    ASSUME NEW settings
    PROVE  /\ DOMAIN Decode(settings) = {k \in DOMAIN settings : settings[k] # Empty[k]}
           /\ \A k \in DOMAIN Decode(settings) :
                  k # "overriddenInputs" => Decode(settings)[k] = settings[k]
           /\ "overriddenInputs" \in DOMAIN Decode(settings) =>
                  Decode(settings)["overriddenInputs"] =
                      [c \in DOMAIN settings["overriddenInputs"] |->
                          DecodeOverride(settings["overriddenInputs"][c])]
  BY DEF Decode

\* ... and after they went through the database and Go: the same relations,
\* and the same overrides but for payloads that were not given.
LEMMA DecodeReads ==
    ASSUME NEW settings
    PROVE  /\ DOMAIN Overrides(Decode(settings)) = DOMAIN Overrides(settings)
           /\ \A c \in DOMAIN Overrides(settings) :
                  Overrides(Decode(settings))[c] = DecodeOverride(Overrides(settings)[c])
           /\ Relations(Decode(settings)) = Relations(settings)
  <1>1. Empty["overriddenInputs"] = <<>> /\ Empty["relations"] = <<>>
    BY DEF Empty, Keys, ListKeys
  <1>2. DOMAIN <<>> = {} /\ DOMAIN NoOverrides = {}
    BY DEF NoOverrides
  <1>3. CASE "overriddenInputs" \in DOMAIN Decode(settings)
    <2>1. Has(settings, "overriddenInputs") /\ Has(Decode(settings), "overriddenInputs")
      BY <1>3, DecodeParts DEF Has
    <2>2. Overrides(Decode(settings)) =
              [c \in DOMAIN Overrides(settings) |-> DecodeOverride(Overrides(settings)[c])]
      BY <1>3, <2>1, DecodeParts DEF Overrides
    <2>3. Relations(Decode(settings)) = Relations(settings)
      BY <1>1, DecodeParts DEF Relations, Has
    <2> QED
      BY <2>2, <2>3
  <1>4. CASE "overriddenInputs" \notin DOMAIN Decode(settings)
    <2>1. "overriddenInputs" \notin DOMAIN settings \/ settings["overriddenInputs"] = <<>>
      BY <1>1, <1>4, DecodeParts
    <2>2. DOMAIN Overrides(Decode(settings)) = {} /\ DOMAIN Overrides(settings) = {}
      BY <1>2, <1>4, <2>1 DEF Overrides, Has
    <2>3. Relations(Decode(settings)) = Relations(settings)
      BY <1>1, DecodeParts DEF Relations, Has
    <2> QED
      BY <2>2, <2>3
  <1> QED
    BY <1>3, <1>4

\* Decoding an override.
LEMMA DecodedOverride ==
    ASSUME NEW o \in OverrideType
    PROVE  /\ DecodeOverride(o) \in OverrideType /\ DecodeOverride(o).type = o.type
           /\ DecodeOverride(o).payload = IF o.payload = Undefined THEN Null ELSE o.payload
  BY DEF DecodeOverride, OverrideType

\* A list without one of its elements.
LEMMA RemoveAtProperties ==
    ASSUME NEW S, NEW s \in Seq(S), NEW i \in 1..Len(s)
    PROVE  /\ RemoveAt(s, i) \in Seq(S) /\ Len(RemoveAt(s, i)) = Len(s) - 1
           /\ \A j \in 1..Len(s) - 1 : RemoveAt(s, i)[j] = IF j < i THEN s[j] ELSE s[j + 1]
  <1>1. Len(s) \in Nat /\ \A j \in 1..Len(s) : s[j] \in S
    BY LenProperties, ElementOfSeq
  <1>2. PICK front : front = SubSeq(s, 1, i - 1)
    OBVIOUS
  <1>3. PICK back : back = SubSeq(s, i + 1, Len(s))
    OBVIOUS
  <1>4. front \in Seq(S) /\ Len(front) = i - 1 /\ \A j \in 1..i - 1 : front[j] = s[j]
    BY <1>1, <1>2, SubSeqProperties
  <1>5. /\ back \in Seq(S) /\ Len(back) = Len(s) - i
        /\ \A j \in 1..Len(s) - i : back[j] = s[i + j]
    BY <1>1, <1>3, SubSeqProperties
  <1>6. /\ front \o back \in Seq(S) /\ Len(front \o back) = Len(s) - 1
        /\ \A j \in 1..Len(s) - 1 : (front \o back)[j] = IF j < i THEN s[j] ELSE s[j + 1]
    <2>1. /\ front \o back \in Seq(S) /\ Len(front \o back) = Len(front) + Len(back)
          /\ \A j \in 1..Len(front) + Len(back) :
                (front \o back)[j] = IF j <= Len(front) THEN front[j] ELSE back[j - Len(front)]
      BY <1>4, <1>5, ConcatProperties
    <2>2. Len(front) + Len(back) = Len(s) - 1
      BY <1>1, <1>4, <1>5
    <2>3. ASSUME NEW j \in 1..Len(s) - 1
          PROVE  (front \o back)[j] = IF j < i THEN s[j] ELSE s[j + 1]
      <3>1. CASE j < i
        BY <1>1, <1>4, <2>1, <2>2, <3>1
      <3>2. CASE ~(j < i)
        <4>1. PICK k : k = j - (i - 1)
          OBVIOUS
        <4>2. k \in 1..Len(s) - i /\ i + k = j + 1
          BY <1>1, <3>2, <4>1
        <4>4. (front \o back)[j] = back[k]
          BY <1>1, <1>4, <2>1, <2>2, <3>2, <4>1
        <4>3. back[k] = s[i + k]
          BY <1>5, <4>2
        <4> QED
          BY <3>2, <4>2, <4>3, <4>4
      <3> QED
        BY <3>1, <3>2
    <2> QED
      BY <2>1, <2>2, <2>3
  <1> QED
    BY <1>2, <1>3, <1>6 DEF RemoveAt

-----------------------------------------------------------------------------
(* What the pages make of settings.                                        *)

\* An override that the pages can take: of a column's own type only if that
\* was picked again; a "select" without a payload only if open (in a form) or
\* sent (and null since) names it.
SoundOverride(o, c, open, sentBare, picked) ==
    /\ o \in OverrideType
    /\ o.type = AutoType[c] => c \in picked
    /\ o.type = "select" /\ o.payload = Undefined => c \in open
    /\ o.type = "select" /\ o.payload = Null => c \in sentBare

\* Settings with such overrides, and with usable relations unless blind.
Sound(settings, open, sentBare, picked, blind) ==
    /\ \A c \in DOMAIN Overrides(settings) :
          c \in ColumnNames /\ SoundOverride(Overrides(settings)[c], c, open, sentBare, picked)
    /\ Relations(settings) \in Seq(Tables \union {""})
    /\ ~blind => Relations(settings) \in Seq(JoinTables)

LEMMA SoundGrows ==
    ASSUME NEW settings, NEW open, NEW sentBare, NEW picked, NEW blind,
           NEW open2, NEW sentBare2, NEW picked2, NEW blind2,
           open \subseteq open2, sentBare \subseteq sentBare2, picked \subseteq picked2,
           blind => blind2, Sound(settings, open, sentBare, picked, blind)
    PROVE  Sound(settings, open2, sentBare2, picked2, blind2)
  BY DEF Sound, SoundOverride

\* Settings that come back: a payload that was not given is null.
LEMMA DecodeSound ==
    ASSUME NEW settings, NEW sentBare, NEW picked, NEW blind,
           Sound(settings, sentBare, sentBare, picked, blind)
    PROVE  Sound(Decode(settings), {}, sentBare, picked, blind)
  <1>1. ASSUME NEW c \in DOMAIN Overrides(Decode(settings))
        PROVE  /\ c \in ColumnNames
               /\ SoundOverride(Overrides(Decode(settings))[c], c, {}, sentBare, picked)
    <2>1. PICK o : o = Overrides(settings)[c]
      OBVIOUS
    <2>2. /\ Overrides(Decode(settings))[c] = DecodeOverride(o) /\ c \in ColumnNames
          /\ SoundOverride(o, c, sentBare, sentBare, picked)
      BY <1>1, <2>1, DecodeReads DEF Sound
    <2>3. o \in OverrideType
      BY <2>2 DEF SoundOverride
    <2>4. SoundOverride(DecodeOverride(o), c, {}, sentBare, picked)
      BY <2>2, <2>3, DecodedOverride, PayloadsAssumption DEF SoundOverride
    <2> QED
      BY <2>2, <2>4
  <1> QED
    BY <1>1, DecodeReads DEF Sound

LEMMA MergedSound ==
    ASSUME NEW new, NEW old, NEW open, NEW sentBare, NEW picked, NEW blind,
           Sound(new, open, sentBare, picked, blind), Sound(old, open, sentBare, picked, blind)
    PROVE  Sound(Merged(new, old), open, sentBare, picked, blind)
  BY MergedReads DEF Sound

\* Changes of other keys.
LEMMA WithSound ==
    ASSUME NEW settings, NEW k \in Keys \ {"overriddenInputs", "relations"}, NEW v,
           NEW open, NEW sentBare, NEW picked, NEW blind,
           Sound(settings, open, sentBare, picked, blind)
    PROVE  Sound(With(settings, k, v), open, sentBare, picked, blind)
  BY WithReads DEF Sound

\* A column without an override has its autodetected type.
LEMMA ResolvedAuto ==
    ASSUME NEW settings, NEW c \in ColumnNames, c \notin DOMAIN Overrides(settings)
    PROVE  /\ resolveInputType(c, settings).type = AutoType[c]
           /\ resolveInputType(c, settings).type # "select"
           /\ resolveInputType(c, settings).isArray = (c \in ArrayColumns)
  BY ColumnsAssumption DEF resolveInputType

\* The settings the server answers with are read as the two properties say.
LEMMA SoundReads ==
    ASSUME NEW settings, NEW sentBare, NEW picked, NEW blind,
           Sound(settings, {}, sentBare, picked, blind)
    PROVE  /\ \A c \in ColumnNames \ picked :
                  resolveInputType(c, settings).type = AutoType[c] =>
                      resolveInputType(c, settings).isArray = (c \in ArrayColumns)
           /\ PayloadFails(settings) =>
                  \E c \in sentBare : resolveInputType(c, settings).type = "select"
           /\ RowFormFails(settings) => blind
  <1>1. ASSUME NEW c \in ColumnNames \ picked, resolveInputType(c, settings).type = AutoType[c]
        PROVE  resolveInputType(c, settings).isArray = (c \in ArrayColumns)
    BY <1>1, ResolvedAuto DEF Sound, SoundOverride, resolveInputType
  <1>2. ASSUME PayloadFails(settings)
        PROVE  \E c \in sentBare : resolveInputType(c, settings).type = "select"
    <2>1. PICK c \in ColumnNames : /\ resolveInputType(c, settings).type = "select"
                                   /\ resolveInputType(c, settings).payload = Null
      BY <1>2 DEF PayloadFails
    <2>2. c \in DOMAIN Overrides(settings)
      BY <2>1, ResolvedAuto
    <2>3. c \in sentBare
      BY <2>1, <2>2 DEF Sound, SoundOverride, resolveInputType
    <2> QED
      BY <2>1, <2>3
  <1>3. ASSUME RowFormFails(settings), ~blind PROVE FALSE
    <2>1. PICK i \in DOMAIN Relations(settings) : Relations(settings)[i] \notin JoinTables
      BY <1>3 DEF RowFormFails
    <2>2. Relations(settings) \in Seq(JoinTables)
      BY <1>3 DEF Sound
    <2>3. i \in 1..Len(Relations(settings))
      BY <2>1, <2>2, LenProperties
    <2> QED
      BY <2>1, <2>2, <2>3, ElementOfSeq
  <1> QED
    BY <1>1, <1>2, <1>3
-----------------------------------------------------------------------------
(* The inductive invariant: all the settings there are, stored, cached, in *)
(* forms or on their way, are sound.  A form's columns that are a "select" *)
(* without a payload are those its administrator left so.                  *)

Domains ==
    /\ DOMAIN form = Admins /\ DOMAIN adding = Admins /\ DOMAIN bare = Admins
    /\ DOMAIN base = Admins /\ DOMAIN edited = Admins
FormsInv ==
    /\ Domains
    /\ \A a \in Admins : adding[a] \in Tables \union {""}
    /\ Sound(config, bareSent, bareSent, repicked, blindAdd)
    /\ Sound(cache, {}, bareSent, repicked, blindAdd)
    /\ \A a \in Admins : form[a] # Null => Sound(form[a], bare[a], bareSent, repicked, blindAdd)
    /\ \A u \in saves : Sound(u.settings, bareSent, bareSent, repicked, blindAdd)

\* The step of one administrator.
LEMMA FormsMove ==
    ASSUME FormsInv, NEW a \in Admins, Domains', UNCHANGED <<config, cache>>,
           \A b \in Admins : b # a =>
               form'[b] = form[b] /\ bare'[b] = bare[b] /\ adding'[b] = adding[b],
           adding'[a] \in Tables \union {""},
           bareSent \subseteq bareSent', repicked \subseteq repicked', blindAdd => blindAdd',
           form'[a] # Null => Sound(form'[a], bare'[a], bareSent', repicked', blindAdd'),
           \A u \in saves' : u \in saves \/ Sound(u.settings, bareSent', bareSent', repicked', blindAdd')
    PROVE  FormsInv'
  <1>1. \A b \in Admins : adding'[b] \in Tables \union {""}
    BY DEF FormsInv
  <1>2. ASSUME NEW settings, NEW open, NEW open2, open \subseteq open2,
               Sound(settings, open, bareSent, repicked, blindAdd)
        PROVE  Sound(settings, open2, bareSent', repicked', blindAdd')
    <2>1. ASSUME NEW c \in DOMAIN Overrides(settings)
          PROVE  c \in ColumnNames /\ SoundOverride(Overrides(settings)[c], c, open2, bareSent', repicked')
      <3>1. c \in ColumnNames /\ SoundOverride(Overrides(settings)[c], c, open, bareSent, repicked)
        BY <1>2 DEF Sound
      <3> QED
        BY <1>2, <3>1 DEF SoundOverride
    <2> QED
      BY <1>2, <2>1 DEF Sound
  <1>3. /\ Sound(config', bareSent', bareSent', repicked', blindAdd')
        /\ Sound(cache', {}, bareSent', repicked', blindAdd')
    <2>1. Sound(config, bareSent', bareSent', repicked', blindAdd')
      BY <1>2 DEF FormsInv
    <2>2. PICK none : none = {}
      OBVIOUS
    <2>3. none \subseteq none /\ Sound(cache, none, bareSent, repicked, blindAdd)
      BY <2>2 DEF FormsInv
    <2>4. Sound(cache, none, bareSent', repicked', blindAdd')
      BY <1>2, <2>3
    <2> QED
      BY <2>1, <2>2, <2>4
  <1>4. ASSUME NEW b \in Admins, form'[b] # Null
        PROVE  Sound(form'[b], bare'[b], bareSent', repicked', blindAdd')
    BY <1>2, <1>4 DEF FormsInv
  <1>5. ASSUME NEW u \in saves'
        PROVE  Sound(u.settings, bareSent', bareSent', repicked', blindAdd')
    BY <1>2, <1>5 DEF FormsInv
  <1> QED
    BY <1>1, <1>3, <1>4, <1>5 DEF FormsInv

\* A change of one key in a form.
LEMMA EditMoves ==
    ASSUME FormsInv, NEW a \in Admins, NEW k, NEW v, NEW parts, SetSettings(a, k, v, parts),
           adding' = adding, DOMAIN bare' = Admins, \A b \in Admins : b # a => bare'[b] = bare[b],
           repicked \subseteq repicked', blindAdd => blindAdd',
           Sound(With(form[a], k, v), bare'[a], bareSent, repicked', blindAdd')
    PROVE  FormsInv'
  <1>1. /\ form' = [form EXCEPT ![a] = With(form[a], k, v)]
        /\ edited' = [edited EXCEPT ![a] = @ \union parts]
        /\ UNCHANGED <<config, cache, saves, base, bareSent>>
    BY DEF SetSettings
  <1>2. Domains' /\ form'[a] = With(form[a], k, v)
        /\ \A b \in Admins : b # a => form'[b] = form[b]
    BY <1>1 DEF FormsInv, Domains
  <1>3. adding'[a] \in Tables \union {""}
    BY DEF FormsInv
  <1> QED
    BY <1>1, <1>2, <1>3, FormsMove

LEMMA ShownSound ==
    ASSUME FormsInv, NEW a \in Admins, Shown(a)
    PROVE  Sound(form[a], bare[a], bareSent, repicked, blindAdd)
  BY DEF FormsInv, Shown

\* The parts whose keys say nothing of types or relations.
LEMMA PlainEdits ==
    ASSUME FormsInv, NEW a \in Admins,
           setViewLinkPattern(a) \/ \E k \in ListKeys, c \in ColumnNames : toggleColumn(a, k, c)
    PROVE  FormsInv'
  <1>1. PICK k \in Keys \ {"overriddenInputs", "relations"} : \E v : SetSettings(a, k, v, {<<k>>})
    BY DEF setViewLinkPattern, toggleColumn, Keys, ListKeys
  <1>2. PICK v : SetSettings(a, k, v, {<<k>>})
    BY <1>1
  <1>3. UNCHANGED <<adding, bare, repicked, blindAdd>> /\ Shown(a)
    BY <1>2 DEF setViewLinkPattern, toggleColumn, SetSettings
  <1>4. Sound(With(form[a], k, v), bare'[a], bareSent, repicked', blindAdd')
    BY <1>3, ShownSound, WithSound
  <1>5. DOMAIN bare' = Admins
    BY <1>3 DEF FormsInv, Domains
  <1> QED
    BY <1>2, <1>3, <1>4, <1>5, EditMoves

\* A change of the relations.
LEMMA RelationsSound ==
    ASSUME NEW settings, NEW v \in Seq(Tables \union {""}), NEW open, NEW sentBare, NEW picked,
           NEW blind, NEW blind2, Sound(settings, open, sentBare, picked, blind),
           ~blind2 => v \in Seq(JoinTables)
    PROVE  Sound(With(settings, "relations", v), open, sentBare, picked, blind2)
  BY WithReads DEF Sound

LEMMA addRelationSound ==
    ASSUME FormsInv, NEW a \in Admins, addRelation(a)
    PROVE  FormsInv'
  <1> DEFINE v == Append(Relations(form[a]), adding[a])
  <1>1. /\ SetSettings(a, "relations", v, {<<"relations">>}) /\ Shown(a)
        /\ UNCHANGED <<adding, bare, repicked>> /\ (blindAdd => blindAdd')
        /\ (~blindAdd' => ~blindAdd /\ adding[a] \in JoinTables)
    BY DEF addRelation
  <1>2. Sound(form[a], bare[a], bareSent, repicked, blindAdd)
    BY <1>1, ShownSound
  <1>3. adding[a] \in Tables \union {""}
    BY DEF FormsInv
  <1>4. v \in Seq(Tables \union {""}) /\ (~blindAdd' => v \in Seq(JoinTables))
    BY <1>1, <1>2, <1>3, AppendProperties DEF Sound
  <1>5. Sound(With(form[a], "relations", v), bare[a], bareSent, repicked, blindAdd')
    BY <1>2, <1>4, RelationsSound
  <1>6. DOMAIN bare' = Admins
    BY <1>1 DEF FormsInv, Domains
  <1> HIDE DEF v
  <1> QED
    BY <1>1, <1>5, <1>6, EditMoves

LEMMA removeRelationSound ==
    ASSUME FormsInv, NEW a \in Admins, removeRelation(a)
    PROVE  FormsInv'
  <1>1. PICK i \in DOMAIN Relations(form[a]) :
            SetSettings(a, "relations", RemoveAt(Relations(form[a]), i), {<<"relations">>})
    BY DEF removeRelation
  <1>2. Shown(a) /\ UNCHANGED <<adding, bare, repicked, blindAdd>>
    BY DEF removeRelation
  <1>3. Sound(form[a], bare[a], bareSent, repicked, blindAdd)
    BY <1>2, ShownSound
  <1> DEFINE v == RemoveAt(Relations(form[a]), i)
  <1>4. v \in Seq(Tables \union {""}) /\ (~blindAdd => v \in Seq(JoinTables))
    <2>1. PICK relations : relations = Relations(form[a])
      OBVIOUS
    <2>2. /\ relations \in Seq(Tables \union {""}) /\ (~blindAdd => relations \in Seq(JoinTables))
          /\ i \in 1..Len(relations)
      BY <1>3, <2>1, LenProperties DEF Sound
    <2>3. RemoveAt(relations, i) \in Seq(Tables \union {""})
      BY <2>2, RemoveAtProperties
    <2>4. ~blindAdd => RemoveAt(relations, i) \in Seq(JoinTables)
      BY <2>2, RemoveAtProperties
    <2> QED
      BY <2>1, <2>3, <2>4
  <1>5. Sound(With(form[a], "relations", v), bare[a], bareSent, repicked, blindAdd)
    BY <1>3, <1>4, RelationsSound
  <1>6. DOMAIN bare' = Admins
    BY <1>2 DEF FormsInv, Domains
  <1> HIDE DEF v
  <1> QED
    BY <1>1, <1>2, <1>5, <1>6, EditMoves DEF v

\* A change of one column's override.
LEMMA OverridesSound ==
    ASSUME NEW settings, NEW v, NEW c \in ColumnNames, NEW open, NEW open2, NEW sentBare,
           NEW picked, NEW picked2, NEW blind, Sound(settings, open, sentBare, picked, blind),
           DOMAIN v \subseteq DOMAIN Overrides(settings) \union {c},
           \A d \in DOMAIN v : d # c => v[d] = Overrides(settings)[d],
           SoundOverride(v[c], c, open2, sentBare, picked2),
           open \ {c} \subseteq open2, picked \subseteq picked2
    PROVE  Sound(With(settings, "overriddenInputs", v), open2, sentBare, picked2, blind)
  <1>1. ASSUME NEW d \in DOMAIN v
        PROVE  d \in ColumnNames /\ SoundOverride(v[d], d, open2, sentBare, picked2)
    <2>1. CASE d = c
      BY <2>1
    <2>2. CASE d # c
      <3>1. d \in DOMAIN Overrides(settings) /\ v[d] = Overrides(settings)[d]
        BY <1>1, <2>2
      <3>2. d \in ColumnNames /\ SoundOverride(v[d], d, open, sentBare, picked)
        BY <3>1 DEF Sound
      <3> QED
        BY <2>2, <3>2 DEF SoundOverride
    <2> QED
      BY <2>1, <2>2
  <1>2. PICK after : after = With(settings, "overriddenInputs", v)
    OBVIOUS
  <1>3. Overrides(after) = v /\ Relations(after) = Relations(settings)
    BY <1>2, WithReads
  <1>4. Sound(after, open2, sentBare, picked2, blind)
    BY <1>1, <1>3 DEF Sound
  <1> QED
    BY <1>2, <1>4

LEMMA pickTypeSound ==
    ASSUME FormsInv, NEW a \in Admins, NEW c \in ColumnNames, NEW t \in Types, pickType(a, c, t)
    PROVE  FormsInv'
  <1> DEFINE overrides == Overrides(form[a])
  <1>1. PICK v : v = With(overrides, c, Picked(t))
    OBVIOUS
  <1>2. /\ SetSettings(a, "overriddenInputs", v, {Override(c, "type"), Override(c, "payload")})
        /\ bare' = [bare EXCEPT ![a] = IF t = "select" THEN @ \union {c} ELSE @ \ {c}]
        /\ repicked' = (IF t = AutoType[c] THEN repicked \union {c} ELSE repicked)
        /\ UNCHANGED <<adding, blindAdd>> /\ Shown(a)
    BY <1>1 DEF pickType, OverridesPicked
  <1>3. /\ DOMAIN v = DOMAIN overrides \union {c} /\ v[c] = Picked(t)
        /\ \A d \in DOMAIN v : d # c => v[d] = overrides[d]
    BY <1>1 DEF With, Merged
  <1>4. Picked(t) \in OverrideType /\ Picked(t).type = t /\ Picked(t).payload = Undefined
    BY DEF Picked, OverrideType
  <1>5. /\ DOMAIN bare' = Admins /\ \A b \in Admins : b # a => bare'[b] = bare[b]
        /\ bare[a] \ {c} \subseteq bare'[a] /\ (t = "select" => c \in bare'[a])
    BY <1>2 DEF FormsInv, Domains
  <1>6. repicked \subseteq repicked' /\ (t = AutoType[c] => c \in repicked')
    BY <1>2
  <1>7. SoundOverride(v[c], c, bare'[a], bareSent, repicked')
    BY <1>3, <1>4, <1>5, <1>6, PayloadsAssumption DEF SoundOverride
  <1>8. Sound(form[a], bare[a], bareSent, repicked, blindAdd)
    BY <1>2, ShownSound
  <1> HIDE DEF overrides
  <1>9. Sound(With(form[a], "overriddenInputs", v), bare'[a], bareSent, repicked', blindAdd)
    BY <1>3, <1>5, <1>6, <1>7, <1>8, OverridesSound DEF overrides
  <1> QED
    BY <1>2, <1>5, <1>6, <1>9, EditMoves

\* The payload that is edited is the one stored, or one not given yet.
LEMMA PayloadShown ==
    ASSUME FormsInv, NEW a \in Admins, NEW c \in ColumnNames, Shown(a),
           resolveInputType(c, form[a]).type = "select"
    PROVE  /\ c \in DOMAIN Overrides(form[a])
           /\ resolveInputType(c, form[a]) = Overrides(form[a])[c]
           /\ Overrides(form[a])[c] \in OverrideType
           /\ Overrides(form[a])[c].payload \in {Undefined} \union Payloads
  <1>1. c \in DOMAIN Overrides(form[a])
    BY ResolvedAuto
  <1>2. resolveInputType(c, form[a]) = Overrides(form[a])[c]
    BY <1>1 DEF resolveInputType
  <1>3. Overrides(form[a])[c] \in OverrideType
    BY <1>1, ShownSound DEF Sound, SoundOverride
  <1>4. resolveInputType(c, form[a]).payload # Null
    BY DEF Shown, PayloadFails
  <1>5. Overrides(form[a])[c].payload \in {Undefined, Null} \union Payloads
    BY <1>3 DEF OverrideType
  <1> QED
    BY <1>1, <1>2, <1>3, <1>4, <1>5

\* updatePayload writes one payload, and nothing else of any override.
LEMMA PayloadWritten ==
    ASSUME FormsInv, NEW a \in Admins, NEW c \in ColumnNames, updatePayload(a, c)
    PROVE  \E q, v :
              /\ q \in Payloads
              /\ SetSettings(a, "overriddenInputs", v, {Override(c, "payload")})
              /\ c \in DOMAIN Overrides(form[a]) /\ DOMAIN v = DOMAIN Overrides(form[a])
              /\ \A d \in DOMAIN v : d # c => v[d] = Overrides(form[a])[d]
              /\ v[c] \in OverrideType /\ v[c].type = Overrides(form[a])[c].type
              /\ v[c].payload = q
  <1> DEFINE overrides == Overrides(form[a])
             old == resolveInputType(c, form[a]).payload
             p == IF old = Undefined THEN [options |-> <<>>, multi |-> FALSE] ELSE old
  <1>1. Shown(a) /\ resolveInputType(c, form[a]).type = "select"
    BY DEF updatePayload
  <1>2. /\ c \in DOMAIN overrides /\ overrides[c] \in OverrideType
        /\ old \in {Undefined} \union Payloads
    BY <1>1, PayloadShown
  <1>3. p \in Payloads
    BY <1>2 DEF Payloads
  <1>4. PICK q \in {[p EXCEPT !.multi = ~@]} \union
                   {[p EXCEPT !.options = o] : o \in OptionLists \union {<<>>}} :
            SetSettings(a, "overriddenInputs", [overrides EXCEPT ![c].payload = q],
                        {Override(c, "payload")})
    BY DEF updatePayload
  <1> HIDE DEF p
  <1>5. q \in Payloads
    BY <1>3, <1>4 DEF Payloads
  <1> HIDE DEF overrides
  <1>6. PICK v : v = [overrides EXCEPT ![c].payload = q]
    OBVIOUS
  <1>7. /\ DOMAIN v = DOMAIN overrides /\ v[c] = [overrides[c] EXCEPT !.payload = q]
        /\ \A d \in DOMAIN v : d # c => v[d] = overrides[d]
    BY <1>2, <1>6
  <1>8. v[c] \in OverrideType /\ v[c].type = overrides[c].type /\ v[c].payload = q
    BY <1>2, <1>5, <1>7 DEF OverrideType
  <1>9. SetSettings(a, "overriddenInputs", v, {Override(c, "payload")})
    BY <1>4, <1>6
  <1> QED
    BY <1>2, <1>5, <1>7, <1>8, <1>9 DEF overrides

LEMMA updatePayloadSound ==
    ASSUME FormsInv, NEW a \in Admins, NEW c \in ColumnNames, updatePayload(a, c)
    PROVE  FormsInv'
  <1> DEFINE overrides == Overrides(form[a])
  <1>1. PICK q, v :
            /\ q \in Payloads
            /\ SetSettings(a, "overriddenInputs", v, {Override(c, "payload")})
            /\ c \in DOMAIN overrides /\ DOMAIN v = DOMAIN overrides
            /\ \A d \in DOMAIN v : d # c => v[d] = overrides[d]
            /\ v[c] \in OverrideType /\ v[c].type = overrides[c].type
            /\ v[c].payload = q
    BY PayloadWritten
  <1>2. bare' = [bare EXCEPT ![a] = @ \ {c}] /\ UNCHANGED <<adding, repicked, blindAdd>> /\ Shown(a)
    BY DEF updatePayload
  <1>3. Sound(form[a], bare[a], bareSent, repicked, blindAdd)
    BY <1>2, ShownSound
  <1>4. SoundOverride(v[c], c, bare'[a], bareSent, repicked)
    BY <1>1, <1>3, PayloadsAssumption DEF Sound, SoundOverride
  <1>5. /\ DOMAIN bare' = Admins /\ \A b \in Admins : b # a => bare'[b] = bare[b]
        /\ bare[a] \ {c} \subseteq bare'[a]
    BY <1>2 DEF FormsInv, Domains
  <1> HIDE DEF overrides
  <1>6. Sound(With(form[a], "overriddenInputs", v), bare'[a], bareSent, repicked, blindAdd)
    BY <1>1, <1>3, <1>4, <1>5, OverridesSound DEF overrides
  <1> QED
    BY <1>1, <1>2, <1>5, <1>6, EditMoves

\* Opening and leaving a form, choosing a table, and sending the settings.
LEMMA VisitsSound ==
    ASSUME FormsInv, NEW a \in Admins,
           \/ Open(a) \/ goBack(a) \/ saveChanges(a)
           \/ \E t \in Tables : setJoinTable(a, t)
    PROVE  FormsInv'
  <1>1. CASE Open(a)
    <2>1. /\ Domains' /\ form'[a] = cache /\ bare'[a] = {} /\ adding'[a] = ""
          /\ \A b \in Admins : b # a =>
                form'[b] = form[b] /\ bare'[b] = bare[b] /\ adding'[b] = adding[b]
      BY <1>1 DEF Open, FormsInv, Domains
    <2>2. Sound(form'[a], bare'[a], bareSent', repicked', blindAdd')
      BY <1>1, <2>1 DEF Open, FormsInv
    <2> QED
      BY <1>1, <2>1, <2>2, FormsMove DEF Open
  <1>2. CASE goBack(a)
    <2>1. /\ Domains' /\ form'[a] = Null /\ adding'[a] = ""
          /\ \A b \in Admins : b # a =>
                form'[b] = form[b] /\ bare'[b] = bare[b] /\ adding'[b] = adding[b]
      BY <1>2 DEF goBack, FormsInv, Domains
    <2> QED
      BY <1>2, <2>1, FormsMove DEF goBack
  <1>3. ASSUME NEW t \in Tables, setJoinTable(a, t) PROVE FormsInv'
    <2>1. /\ Domains' /\ adding'[a] \in Tables \union {""}
          /\ \A b \in Admins : b # a => adding'[b] = adding[b]
      BY <1>3 DEF setJoinTable, aux, FormsInv, Domains
    <2> QED
      BY <1>3, <2>1, FormsMove DEF setJoinTable, aux, FormsInv
  <1>4. CASE saveChanges(a)
    <2>1. PICK r : r = [n |-> sent, settings |-> form[a], base |-> base[a], edited |-> edited[a]]
      OBVIOUS
    <2>2. /\ saves' = saves \union {r} /\ bareSent' = bareSent \union bare[a] /\ Shown(a)
          /\ UNCHANGED <<config, cache, form, adding, base, edited, bare, repicked, blindAdd>>
      BY <1>4, <2>1 DEF saveChanges
    <2>3. Sound(form[a], bare[a], bareSent, repicked, blindAdd)
      BY <2>2, ShownSound
    <2>4. /\ Sound(form[a], bareSent', bareSent', repicked, blindAdd)
          /\ Sound(form[a], bare[a], bareSent', repicked, blindAdd)
      BY <2>2, <2>3, SoundGrows
    <2>5. Sound(r.settings, bareSent', bareSent', repicked', blindAdd')
      BY <2>1, <2>2, <2>4
    <2>6. Domains' /\ adding'[a] \in Tables \union {""}
      BY <2>2 DEF FormsInv, Domains
    <2> QED
      BY <2>2, <2>4, <2>5, <2>6, FormsMove
  <1> QED
    BY <1>1, <1>2, <1>3, <1>4

\* The server merges settings that are sound into settings that are.
LEMMA UpdateSound ==
    ASSUME FormsInv, NEW u \in saves, UpdateTableSettings(u)
    PROVE  FormsInv'
  <1>1. saves' \subseteq saves /\ UNCHANGED <<form, adding, base, edited, bare, bareSent, repicked, blindAdd>>
    BY DEF UpdateTableSettings, aux
  <1>2. \/ config' = Merged(u.settings, config) /\ cache' = Decode(config')
        \/ UNCHANGED <<config, cache>>
    BY DEF UpdateTableSettings
  <1>3. Sound(config', bareSent, bareSent, repicked, blindAdd)
    BY <1>2, MergedSound DEF FormsInv
  <1>4. Sound(cache', {}, bareSent, repicked, blindAdd)
    BY <1>2, <1>3, DecodeSound DEF FormsInv
  <1>5. Domains'
    BY <1>1 DEF FormsInv, Domains
  <1> QED
    BY <1>1, <1>3, <1>4, <1>5 DEF FormsInv

\* What the server starts with has no overrides and no relations.
LEMMA PlainSound ==
    ASSUME NEW settings, DOMAIN settings \subseteq ListKeys
    PROVE  Sound(settings, {}, {}, {}, FALSE)
  <1>1. Overrides(settings) = NoOverrides /\ Relations(settings) = <<>>
    BY DEF Overrides, Relations, Has, ListKeys
  <1>2. DOMAIN NoOverrides = {}
    BY DEF NoOverrides
  <1> QED
    BY <1>1, <1>2, EmptySeq DEF Sound

LEMMA FormsHold == Spec => []FormsInv
  <1>1. Init => FormsInv
    <2> SUFFICES ASSUME Init PROVE FormsInv
      OBVIOUS
    <2>1. config = <<>> /\ bareSent = {} /\ repicked = {} /\ blindAdd = FALSE
      BY DEF Init
    <2>5. DOMAIN config \subseteq ListKeys
      BY <2>1
    <2>6. Sound(config, bareSent, bareSent, repicked, blindAdd)
      BY <2>1, <2>5, PlainSound
    <2>2. PICK lists : lists = [k \in ListKeys |->
                                   IF k = "tableViewSelectColumns" THEN Columns ELSE TextColumns]
      OBVIOUS
    <2>3. Sound(lists, {}, {}, {}, FALSE) /\ cache = Decode(lists)
      BY <2>2, PlainSound DEF Init, Defaults
    <2>4. Sound(cache, {}, bareSent, repicked, blindAdd)
      BY <2>1, <2>3, DecodeSound
    <2> QED
      BY <2>4, <2>6 DEF Init, FormsInv, Domains
  <1>2. FormsInv /\ [Next]_vars => FormsInv'
    <2> SUFFICES ASSUME FormsInv, [Next]_vars
                 PROVE  FormsInv'
      OBVIOUS
    <2>1. CASE UNCHANGED vars
      BY <2>1 DEF vars, aux, FormsInv, Domains
    <2>2. ASSUME NEW a \in Admins, Open(a) \/ goBack(a) \/ Edits(a) \/ saveChanges(a)
          PROVE  FormsInv'
      BY <2>2, VisitsSound, PlainEdits, addRelationSound, removeRelationSound, pickTypeSound,
         updatePayloadSound DEF Edits
    <2> QED
      BY <2>1, <2>2, UpdateSound DEF Next
  <1> QED
    BY <1>1, <1>2, PTL DEF Spec

\* A column that no list marks as overridden is edited as what it is, array or
\* not, unless its own type was picked again, whatever the administrators do
\* and in whatever order their saves are served (FieldTypesSelect.tsx:52-59).
THEOREM UnmarkedAreAutodetected == Spec => []UnmarkedIsAutodetected
  <1>1. FormsInv => UnmarkedIsAutodetected
    BY SoundReads DEF FormsInv, UnmarkedIsAutodetected
  <1> QED
    BY <1>1, FormsHold, PTL

\* Settings that the pages fail on come only of a "select" saved before its
\* payload was entered, or of a relation added without a usable join table
\* (Payload.tsx:13-16, RowForm.tsx:73-134).
THEOREM PagesFailForTwoReasons == Spec => []PagesRender
  <1>1. FormsInv => PagesRender
    <2> SUFFICES ASSUME FormsInv PROVE PagesRender
      OBVIOUS
    <2>1. Sound(cache, {}, bareSent, repicked, blindAdd)
      BY DEF FormsInv
    <2>2. PayloadFails(cache) => \E c \in bareSent : resolveInputType(c, cache).type = "select"
      BY <2>1, SoundReads
    <2>3. RowFormFails(cache) => blindAdd
      BY <2>1, SoundReads
    <2> QED
      BY <2>2, <2>3 DEF PagesRender
  <1> QED
    BY <1>1, FormsHold, PTL
-----------------------------------------------------------------------------
(* What one save changes, part by part.                                    *)

\* A part names a key other than the overrides, or a field of one of these.
LEMMA PartKinds ==
    ASSUME NEW p \in Parts
    PROVE  \/ Len(p) = 1 /\ p = <<p[1]>> /\ p[1] \in Keys \ {"overriddenInputs"}
           \/ /\ Len(p) # 1 /\ p = Override(p[2], p[3])
              /\ p[1] = "overriddenInputs" /\ p[3] \in {"type", "payload"}
  <1>1. CASE p \in {<<k>> : k \in Keys \ {"overriddenInputs"}}
    BY <1>1
  <1>2. CASE p \in {Override(c, f) : c \in ColumnNames, f \in {"type", "payload"}}
    <2>1. PICK c \in ColumnNames, f \in {"type", "payload"} : p = <<"overriddenInputs", c, f>>
      BY <1>2 DEF Override
    <2> QED
      BY <2>1 DEF Override
  <1> QED
    BY <1>1, <1>2 DEF Parts

\* A merge takes each part from one of the two.
LEMMA PartMerged ==
    ASSUME NEW new, NEW old, NEW p \in Parts
    PROVE  Part(Merged(new, old), p) = IF Has(new, p[1]) THEN Part(new, p) ELSE Part(old, p)
  <1>1. PICK after : after = Merged(new, old)
    OBVIOUS
  <1>2. /\ DOMAIN after = DOMAIN new \union DOMAIN old
        /\ \A k \in DOMAIN new : after[k] = new[k]
        /\ \A k \in DOMAIN old : k \notin DOMAIN new => after[k] = old[k]
    BY <1>1 DEF Merged
  <1>3. Overrides(after) = IF Has(new, "overriddenInputs") THEN Overrides(new) ELSE Overrides(old)
    BY <1>1, MergedReads
  <1>4. Part(after, p) = IF Has(new, p[1]) THEN Part(new, p) ELSE Part(old, p)
    <2>1. CASE Len(p) = 1
      BY <1>2, <2>1 DEF Part, Has
    <2>2. CASE Len(p) # 1
      <3>1. p[1] = "overriddenInputs"
        BY <2>2, PartKinds
      <3> QED
        BY <1>3, <2>2, <3>1 DEF Part
    <2> QED
      BY <2>1, <2>2
  <1> QED
    BY <1>1, <1>4

\* What a part becomes on its way through the database and Go.
DecodedPart(value, p) ==
    IF value = <<>> THEN <<>>
    ELSE IF Len(p) = 1 THEN (IF value[1] = Empty[p[1]] THEN <<>> ELSE value)
    ELSE IF p[3] = "payload" /\ value[1] = Undefined THEN <<Null>> ELSE value

Typed(settings) ==
    \A c \in DOMAIN Overrides(settings) : Overrides(settings)[c] \in OverrideType

LEMMA PartDecoded ==
    ASSUME NEW settings, Typed(settings), NEW p \in Parts
    PROVE  Part(Decode(settings), p) = DecodedPart(Part(settings, p), p)
  <1>1. CASE Len(p) = 1
    <2>1. p[1] # "overriddenInputs"
      BY <1>1, PartKinds
    <2>2. Has(Decode(settings), p[1]) <=> Has(settings, p[1]) /\ settings[p[1]] # Empty[p[1]]
      <3>1. DOMAIN Decode(settings) = {k \in DOMAIN settings : settings[k] # Empty[k]}
        BY DecodeParts
      <3> QED
        BY <3>1 DEF Has
    <2>3. Has(Decode(settings), p[1]) => Decode(settings)[p[1]] = settings[p[1]]
      BY <2>1, DecodeParts DEF Has
    <2>4. CASE Has(settings, p[1])
      <3>1. Part(settings, p) = <<settings[p[1]]>>
        BY <1>1, <2>4 DEF Part
      <3>2. Part(Decode(settings), p) = IF settings[p[1]] # Empty[p[1]] THEN <<settings[p[1]]>> ELSE <<>>
        BY <1>1, <2>2, <2>3, <2>4 DEF Part
      <3> QED
        BY <1>1, <3>1, <3>2 DEF DecodedPart
    <2>5. CASE ~Has(settings, p[1])
      BY <1>1, <2>2, <2>5 DEF Part, DecodedPart
    <2> QED
      BY <2>4, <2>5
  <1>2. CASE Len(p) # 1
    <2>1. p[3] \in {"type", "payload"}
      BY <1>2, PartKinds
    <2>2. CASE p[2] \in DOMAIN Overrides(settings)
      <3>1. PICK o \in OverrideType : o = Overrides(settings)[p[2]]
        BY <2>2 DEF Typed
      <3>2. Part(settings, p) = <<o[p[3]]>>
        BY <1>2, <2>2, <3>1 DEF Part
      <3>3. Part(Decode(settings), p) = <<DecodeOverride(o)[p[3]]>>
        BY <1>2, <2>2, <3>1, DecodeReads DEF Part
      <3>4. DecodeOverride(o)[p[3]] =
                IF p[3] = "payload" /\ o[p[3]] = Undefined THEN Null ELSE o[p[3]]
        BY <2>1, DecodedOverride
      <3> QED
        BY <1>2, <3>2, <3>3, <3>4 DEF DecodedPart
    <2>3. CASE p[2] \notin DOMAIN Overrides(settings)
      BY <1>2, <2>3, DecodeReads DEF Part, DecodedPart
    <2> QED
      BY <2>2, <2>3
  <1> QED
    BY <1>1, <1>2

LEMMA DecodedTwice ==
    ASSUME NEW value, NEW p
    PROVE  DecodedPart(DecodedPart(value, p), p) = DecodedPart(value, p)
  BY PayloadsAssumption DEF DecodedPart

\* What the server answers with is what it would answer after a save of it.
LEMMA DecodedStays ==
    ASSUME NEW settings, Typed(settings), NEW p \in Parts
    PROVE  DecodedPart(Part(Decode(settings), p), p) = Part(Decode(settings), p)
  BY PartDecoded, DecodedTwice

LEMMA SoundTyped ==
    ASSUME NEW settings, NEW open, NEW sentBare, NEW picked, NEW blind,
           Sound(settings, open, sentBare, picked, blind)
    PROVE  Typed(settings)
  BY DEF Sound, SoundOverride, Typed

(* The inductive invariant: the cache is what the row says, once there is  *)
(* a row; a form, or a save, that was loaded after the last commit has all *)
(* the keys the server answered with and differs from it only where its    *)
(* administrator edited it.                                                *)
Agrees(settings, loaded, parts, answer, now) ==
    /\ loaded \in 0..now
    /\ loaded = now =>
          /\ DOMAIN answer \subseteq DOMAIN settings
          /\ \A p \in Parts \ parts : Part(settings, p) = Part(answer, p)

CopiesInv ==
    /\ commits \in Nat
    /\ \/ commits = 0 /\ DOMAIN config = {} /\ cache = Defaults
       \/ commits > 0 /\ cache = Decode(config)
    /\ \A a \in Admins : form[a] # Null => Agrees(form[a], base[a], edited[a], cache, commits)
    /\ \A u \in saves : Agrees(u.settings, u.base, u.edited, cache, commits)

\* A change of these parts and no other.
LEMMA AgreesStill ==
    ASSUME NEW settings, NEW k, NEW v, NEW parts, NEW before, NEW loaded, NEW answer, NEW now,
           Agrees(settings, loaded, before, answer, now),
           \A p \in Parts \ parts : Part(With(settings, k, v), p) = Part(settings, p)
    PROVE  Agrees(With(settings, k, v), loaded, before \union parts, answer, now)
  <1>1. DOMAIN With(settings, k, v) = DOMAIN settings \union {k}
    BY WithParts
  <1> QED
    BY <1>1 DEF Agrees

LEMMA CopiesEdit ==
    ASSUME CopiesInv, Domains, NEW a \in Admins, NEW k, NEW v, NEW parts,
           SetSettings(a, k, v, parts),
           \A p \in Parts \ parts : Part(With(form[a], k, v), p) = Part(form[a], p)
    PROVE  CopiesInv'
  <1>1. /\ form' = [form EXCEPT ![a] = With(form[a], k, v)]
        /\ edited' = [edited EXCEPT ![a] = @ \union parts]
        /\ UNCHANGED <<config, cache, saves, commits, base>> /\ form[a] # Null
    BY DEF SetSettings, Shown
  <1>2. Agrees(form[a], base[a], edited[a], cache, commits)
    BY <1>1 DEF CopiesInv
  <1>3. Agrees(With(form[a], k, v), base[a], edited[a] \union parts, cache, commits)
    BY <1>2, AgreesStill
  <1>4. /\ form'[a] = With(form[a], k, v) /\ edited'[a] = edited[a] \union parts
        /\ \A b \in Admins : b # a => form'[b] = form[b] /\ edited'[b] = edited[b]
    BY <1>1 DEF Domains
  <1>5. ASSUME NEW b \in Admins, form'[b] # Null
        PROVE  Agrees(form'[b], base[b], edited'[b], cache, commits)
    BY <1>3, <1>4, <1>5 DEF CopiesInv
  <1> QED
    BY <1>1, <1>5 DEF CopiesInv

\* The other keys' parts, ...
LEMMA PartsOfOtherKeys ==
    ASSUME NEW settings, NEW k, NEW v, NEW p \in Parts, p[1] # k
    PROVE  Part(With(settings, k, v), p) = Part(settings, p)
  <1>1. PICK new : new = [j \in {k} |-> v]
    OBVIOUS
  <1>2. ~Has(new, p[1])
    BY <1>1 DEF Has
  <1>3. Part(Merged(new, settings), p) = Part(settings, p)
    BY <1>2, PartMerged
  <1> QED
    BY <1>1, <1>3 DEF With

\* ... and the other fields of the overrides.
LEMMA PartsOfOtherFields ==
    ASSUME NEW settings, NEW v, NEW c, NEW parts, NEW p \in Parts \ parts,
           DOMAIN v = DOMAIN Overrides(settings) \union {c},
           \A d \in DOMAIN v : d # c => v[d] = Overrides(settings)[d],
           \A f \in {"type", "payload"} :
               \/ Override(c, f) \in parts
               \/ c \in DOMAIN Overrides(settings) /\ v[c][f] = Overrides(settings)[c][f]
    PROVE  Part(With(settings, "overriddenInputs", v), p) = Part(settings, p)
  <1>1. CASE Len(p) = 1
    BY <1>1, PartKinds, PartsOfOtherKeys
  <1>2. CASE Len(p) # 1
    <2>1. p = Override(p[2], p[3]) /\ p[3] \in {"type", "payload"}
      BY <1>2, PartKinds
    <2>2. PICK after : after = With(settings, "overriddenInputs", v)
      OBVIOUS
    <2>3. Overrides(after) = v
      BY <2>2, WithReads
    <2>4. CASE p[2] # c
      BY <1>2, <2>3, <2>4, <2>2 DEF Part
    <2>5. CASE p[2] = c
      <3>1. c \in DOMAIN Overrides(settings) /\ v[c][p[3]] = Overrides(settings)[c][p[3]]
        BY <2>1, <2>5
      <3>2. Part(after, p) = Part(settings, p)
        BY <1>2, <2>3, <2>5, <3>1 DEF Part
      <3> QED
        BY <2>2, <3>2
    <2> QED
      BY <2>4, <2>5
  <1> QED
    BY <1>1, <1>2
LEMMA PlainCopies ==
    ASSUME CopiesInv, Domains, NEW a \in Admins,
           \/ setViewLinkPattern(a)
           \/ \E k \in ListKeys, c \in ColumnNames : toggleColumn(a, k, c)
           \/ addRelation(a) \/ removeRelation(a)
    PROVE  CopiesInv'
  <1>1. PICK k \in Keys \ {"overriddenInputs"} : \E v : SetSettings(a, k, v, {<<k>>})
    BY DEF setViewLinkPattern, toggleColumn, addRelation, removeRelation, Keys, ListKeys
  <1>2. PICK v : SetSettings(a, k, v, {<<k>>})
    BY <1>1
  <1>3. ASSUME NEW p \in Parts \ {<<k>>}
        PROVE  Part(With(form[a], k, v), p) = Part(form[a], p)
    <2>1. p[1] # k
      BY <1>3, PartKinds
    <2> QED
      BY <2>1, PartsOfOtherKeys
  <1> QED
    BY <1>2, <1>3, CopiesEdit

LEMMA pickTypeCopies ==
    ASSUME CopiesInv, Domains, NEW a \in Admins, NEW c \in ColumnNames, NEW t, pickType(a, c, t)
    PROVE  CopiesInv'
  <1> DEFINE parts == {Override(c, "type"), Override(c, "payload")}
  <1>1. PICK v : v = With(Overrides(form[a]), c, Picked(t))
    OBVIOUS
  <1>2. SetSettings(a, "overriddenInputs", v, parts)
    BY <1>1 DEF pickType, OverridesPicked
  <1>3. /\ DOMAIN v = DOMAIN Overrides(form[a]) \union {c}
        /\ \A d \in DOMAIN v : d # c => v[d] = Overrides(form[a])[d]
    BY <1>1 DEF With, Merged
  <1>4. \A f \in {"type", "payload"} : Override(c, f) \in parts
    OBVIOUS
  <1> HIDE DEF parts
  <1>5. \A p \in Parts \ parts : Part(With(form[a], "overriddenInputs", v), p) = Part(form[a], p)
    BY <1>3, <1>4, PartsOfOtherFields
  <1> QED
    BY <1>2, <1>5, CopiesEdit

LEMMA updatePayloadCopies ==
    ASSUME CopiesInv, FormsInv, NEW a \in Admins, NEW c \in ColumnNames, updatePayload(a, c)
    PROVE  CopiesInv'
  <1> DEFINE parts == {Override(c, "payload")}
  <1>1. PICK q, v :
            /\ q \in Payloads
            /\ SetSettings(a, "overriddenInputs", v, parts)
            /\ c \in DOMAIN Overrides(form[a]) /\ DOMAIN v = DOMAIN Overrides(form[a])
            /\ \A d \in DOMAIN v : d # c => v[d] = Overrides(form[a])[d]
            /\ v[c] \in OverrideType /\ v[c].type = Overrides(form[a])[c].type
            /\ v[c].payload = q
    BY PayloadWritten
  <1>2. /\ DOMAIN v = DOMAIN Overrides(form[a]) \union {c}
        /\ \A f \in {"type", "payload"} :
              \/ Override(c, f) \in parts
              \/ c \in DOMAIN Overrides(form[a]) /\ v[c][f] = Overrides(form[a])[c][f]
        /\ \A d \in DOMAIN v : d # c => v[d] = Overrides(form[a])[d]
    BY <1>1
  <1>3. SetSettings(a, "overriddenInputs", v, parts) /\ Domains
    BY <1>1 DEF FormsInv
  <1> HIDE DEF parts
  <1>4. ASSUME NEW p \in Parts \ parts
        PROVE  Part(With(form[a], "overriddenInputs", v), p) = Part(form[a], p)
    BY <1>2, PartsOfOtherFields
  <1> QED
    BY <1>3, <1>4, CopiesEdit

LEMMA VisitsCopies ==
    ASSUME CopiesInv, Domains, NEW a \in Admins,
           \/ Open(a) \/ goBack(a) \/ saveChanges(a)
           \/ \E t \in Tables : setJoinTable(a, t)
    PROVE  CopiesInv'
  <1>1. CASE Open(a)
    <2>1. /\ form'[a] = cache /\ base'[a] = commits /\ edited'[a] = {}
          /\ \A b \in Admins : b # a =>
                form'[b] = form[b] /\ base'[b] = base[b] /\ edited'[b] = edited[b]
          /\ UNCHANGED <<config, cache, saves, commits>>
      BY <1>1 DEF Open, Domains
    <2>2. Agrees(cache, commits, {}, cache, commits)
      BY DEF Agrees, CopiesInv
    <2>3. ASSUME NEW b \in Admins, form'[b] # Null
          PROVE  Agrees(form'[b], base'[b], edited'[b], cache, commits)
      BY <2>1, <2>2, <2>3 DEF CopiesInv
    <2> QED
      BY <2>1, <2>3 DEF CopiesInv
  <1>2. CASE goBack(a)
    <2>1. /\ form'[a] = Null
          /\ \A b \in Admins : b # a =>
                form'[b] = form[b] /\ base'[b] = base[b] /\ edited'[b] = edited[b]
          /\ UNCHANGED <<config, cache, saves, commits>>
      BY <1>2 DEF goBack, Domains
    <2>2. ASSUME NEW b \in Admins, form'[b] # Null
          PROVE  Agrees(form'[b], base'[b], edited'[b], cache, commits)
      BY <2>1, <2>2 DEF CopiesInv
    <2> QED
      BY <2>1, <2>2 DEF CopiesInv
  <1>3. ASSUME NEW t \in Tables, setJoinTable(a, t) PROVE CopiesInv'
    BY <1>3 DEF setJoinTable, aux, CopiesInv
  <1>4. CASE saveChanges(a)
    <2>1. PICK r : r = [n |-> sent, settings |-> form[a], base |-> base[a], edited |-> edited[a]]
      OBVIOUS
    <2>2. /\ saves' = saves \union {r} /\ form[a] # Null
          /\ UNCHANGED <<config, cache, form, commits, base, edited>>
      BY <1>4, <2>1 DEF saveChanges, Shown
    <2>3. Agrees(r.settings, r.base, r.edited, cache, commits)
      BY <2>1, <2>2 DEF CopiesInv
    <2> QED
      BY <2>2, <2>3 DEF CopiesInv
  <1> QED
    BY <1>1, <1>2, <1>3, <1>4

\* After a commit every copy that there is was loaded before it.
LEMMA UpdateCopies ==
    ASSUME CopiesInv, NEW u \in saves, UpdateTableSettings(u)
    PROVE  CopiesInv'
  <1>1. saves' \subseteq saves /\ UNCHANGED <<form, base, edited>>
    BY DEF UpdateTableSettings, aux
  <1>2. CASE UNCHANGED <<config, cache, commits>>
    BY <1>1, <1>2 DEF CopiesInv
  <1>3. CASE cache' = Decode(config') /\ commits' = commits + 1
    <2>1. commits' \in Nat /\ commits' > 0
      BY <1>3 DEF CopiesInv
    <2>2. \A settings, loaded, parts : Agrees(settings, loaded, parts, cache, commits)
              => Agrees(settings, loaded, parts, cache', commits')
      BY <1>3 DEF Agrees, CopiesInv
    <2>3. ASSUME NEW b \in Admins, form[b] # Null
          PROVE  Agrees(form[b], base[b], edited[b], cache', commits')
      BY <2>2, <2>3 DEF CopiesInv
    <2>4. ASSUME NEW w \in saves
          PROVE  Agrees(w.settings, w.base, w.edited, cache', commits')
      BY <2>2 DEF CopiesInv
    <2> QED
      BY <1>1, <1>3, <2>1, <2>3, <2>4 DEF CopiesInv
  <1> QED
    BY <1>2, <1>3 DEF UpdateTableSettings

LEMMA CopiesHold == Spec => []CopiesInv
  <1>1. Init => CopiesInv
    <2> SUFFICES ASSUME Init PROVE CopiesInv
      OBVIOUS
    <2>1. commits = 0 /\ config = <<>> /\ cache = Defaults
      BY DEF Init
    <2>2. saves = {} /\ \A a \in Admins : form[a] = Null
      BY DEF Init
    <2> QED
      BY <2>1, <2>2 DEF CopiesInv
  <1>2. FormsInv /\ CopiesInv /\ [Next]_vars => CopiesInv'
    <2> SUFFICES ASSUME FormsInv, CopiesInv, [Next]_vars
                 PROVE  CopiesInv'
      OBVIOUS
    <2>1. CASE UNCHANGED vars
      BY <2>1 DEF vars, aux, CopiesInv
    <2>2. Domains
      BY DEF FormsInv
    <2>3. ASSUME NEW a \in Admins, Open(a) \/ goBack(a) \/ Edits(a) \/ saveChanges(a)
          PROVE  CopiesInv'
      BY <2>2, <2>3, VisitsCopies, PlainCopies, pickTypeCopies, updatePayloadCopies DEF Edits
    <2> QED
      BY <2>1, <2>3, UpdateCopies DEF Next
  <1> QED
    BY <1>1, <1>2, FormsHold, PTL DEF Spec

LEMMA CommitChanges ==
    ASSUME FormsInv, CopiesInv, NEW u \in saves,
           config' = Merged(u.settings, config), cache' = Decode(config'),
           NEW p \in Parts, p \notin u.edited, Part(cache', p) # Part(cache, p)
    PROVE  u.base # commits /\ Has(u.settings, p[1])
  <1>1. /\ Typed(u.settings) /\ Typed(config) /\ Typed(Merged(u.settings, config))
    BY SoundTyped, MergedSound DEF FormsInv
  <1>2. Part(cache', p) =
            DecodedPart(IF Has(u.settings, p[1]) THEN Part(u.settings, p) ELSE Part(config, p), p)
    BY <1>1, PartDecoded, PartMerged
  <1>3. Agrees(u.settings, u.base, u.edited, cache, commits)
    BY DEF CopiesInv
  <1>4. CASE commits > 0 /\ cache = Decode(config)
    <2>1. DecodedPart(Part(config, p), p) = Part(cache, p)
      BY <1>1, <1>4, PartDecoded
    <2>2. DecodedPart(Part(cache, p), p) = Part(cache, p)
      BY <1>1, <1>4, DecodedStays
    <2>3. Has(u.settings, p[1])
      BY <1>2, <2>1
    <2>4. u.base # commits
      BY <1>2, <1>3, <2>2, <2>3 DEF Agrees
    <2> QED
      BY <2>3, <2>4
  <1>5. CASE commits = 0 /\ DOMAIN config = {} /\ cache = Defaults
    <2>1. PICK lists : /\ cache = Decode(lists) /\ DOMAIN lists = ListKeys
      BY <1>5 DEF Defaults
    <2>2. Typed(lists)
      BY <2>1, PlainSound, SoundTyped
    <2>3. DecodedPart(Part(cache, p), p) = Part(cache, p)
      BY <2>1, <2>2, DecodedStays
    <2>4. u.base = commits
      BY <1>3, <1>5 DEF Agrees
    <2>5. DOMAIN cache \subseteq DOMAIN u.settings /\ Part(u.settings, p) = Part(cache, p)
      BY <1>3, <2>4 DEF Agrees
    <2>6. ~Has(u.settings, p[1])
      BY <1>2, <2>3, <2>5
    <2>7. ~Has(cache, p[1]) /\ ~Has(config, p[1])
      BY <1>5, <2>5, <2>6 DEF Has
    <2>8. Part(cache, p) = <<>> /\ Part(config, p) = <<>>
      <3>1. DOMAIN NoOverrides = {}
        BY DEF NoOverrides
      <3>2. Len(p) # 1 => p[1] = "overriddenInputs"
        BY PartKinds
      <3> QED
        BY <2>7, <3>1, <3>2 DEF Part, Overrides
    <2> QED
      BY <1>2, <2>6, <2>8 DEF DecodedPart
  <1> QED
    BY <1>4, <1>5 DEF CopiesInv

\* Whatever several administrators edit and save, and in whatever order the
\* saves are served, a save changes only the parts of the stored settings that
\* its administrator edited, or parts of the keys its form had, when another
\* save was served since that form was loaded (schema_service.go:319-323,
\* TableSettingsForm.tsx:65-67).
THEOREM SavesChangeEdits == Spec => OnlyEditedPartsChange
  <1>1. FormsInv /\ CopiesInv /\ [Next]_vars =>
          [\A u \in saves \ saves' : \A p \in Parts :
              Part(cache', p) # Part(cache, p) =>
                  \/ p \in u.edited
                  \/ u.base # commits /\ Has(u.settings, p[1])]_vars
    <2> DEFINE Changes ==
          \A u \in saves \ saves' : \A p \in Parts :
              Part(cache', p) # Part(cache, p) =>
                  \/ p \in u.edited
                  \/ u.base # commits /\ Has(u.settings, p[1])
    <2> SUFFICES ASSUME FormsInv, CopiesInv, [Next]_vars, vars' # vars
                 PROVE  Changes
      OBVIOUS
    <2>1. ASSUME NEW a \in Admins, Open(a) \/ goBack(a) \/ Edits(a) \/ saveChanges(a)
          PROVE  saves \subseteq saves'
      BY <2>1 DEF Open, goBack, Edits, saveChanges, SetSettings, setViewLinkPattern,
         toggleColumn, setJoinTable, addRelation, removeRelation, pickType, updatePayload
    <2>2. ASSUME NEW u \in saves, UpdateTableSettings(u)
          PROVE  Changes
      <3>1. \A w \in saves \ saves' : w = u
        BY <2>2 DEF UpdateTableSettings
      <3>2. CASE cache' = cache
        BY <3>2
      <3>3. CASE config' = Merged(u.settings, config) /\ cache' = Decode(config')
        <4>1. ASSUME NEW p \in Parts, Part(cache', p) # Part(cache, p), p \notin u.edited
              PROVE  u.base # commits /\ Has(u.settings, p[1])
          BY <3>3, <4>1, CommitChanges
        <4> QED
          BY <3>1, <4>1
      <3> QED
        BY <2>2, <3>2, <3>3 DEF UpdateTableSettings
    <2> QED
      BY <2>1, <2>2 DEF Next
  <1> QED
    BY <1>1, FormsHold, CopiesHold, PTL DEF Spec, OnlyEditedPartsChange
-----------------------------------------------------------------------------
(* Types.  What the other invariants leave open of SettingsOK: which keys  *)
(* settings have, and that their lists have no column twice.               *)

List == {s \in Seq(ColumnNames) : IsInjective(s)}
ListsOK(settings) ==
    /\ DOMAIN settings \subseteq Keys
    /\ \A k \in ListKeys : Has(settings, k) => settings[k] \in List

LEMMA SoundListsAreOK ==
    ASSUME NEW settings, NEW open, NEW sentBare, NEW picked, NEW blind,
           Sound(settings, open, sentBare, picked, blind), ListsOK(settings)
    PROVE  SettingsOK(settings)
  <1>1. PICK relations : relations = Relations(settings)
    OBVIOUS
  <1>2. relations \in Seq(Tables \union {""})
    BY <1>1 DEF Sound
  <1>3. \A i \in DOMAIN relations : relations[i] \in Tables \union {""}
    BY <1>2, LenProperties, ElementOfSeq
  <1> QED
    BY <1>1, <1>3 DEF Sound, SoundOverride, ListsOK, List, SettingsOK

\* A list without the only occurrence of a column, or with one it lacks.
LEMMA RemovedIsList ==
    ASSUME NEW s \in List, NEW c \in ToSet(s)
    PROVE  RemoveFirst(s, c) \in List
  <1>1. s \in Seq(ColumnNames) /\ IsInjective(s) /\ Len(s) \in Nat /\ DOMAIN s = 1..Len(s)
    BY LenProperties DEF List
  <1>2. PICK i \in 1..Len(s) : s[i] = c
    BY <1>1 DEF ToSet
  <1>3. {j \in 1..Len(s) : s[j] = c} = {i}
    BY <1>1, <1>2 DEF IsInjective
  <1>4. SelectInSeq(s, LAMBDA d : d = c) = i
    BY <1>1, <1>3 DEF SelectInSeq, Min
  <1>5. PICK after : after = RemoveAt(s, i)
    OBVIOUS
  <1>6. RemoveFirst(s, c) = after
    BY <1>2, <1>4, <1>5 DEF RemoveFirst
  <1>7. /\ after \in Seq(ColumnNames) /\ DOMAIN after = 1..Len(s) - 1
        /\ \A j \in 1..Len(s) - 1 : after[j] = IF j < i THEN s[j] ELSE s[j + 1]
    <2>1. /\ after \in Seq(ColumnNames) /\ Len(after) = Len(s) - 1
          /\ \A j \in 1..Len(s) - 1 : after[j] = IF j < i THEN s[j] ELSE s[j + 1]
      BY <1>1, <1>5, RemoveAtProperties
    <2> QED
      BY <2>1, LenProperties
  <1>8. ASSUME NEW j \in 1..Len(s) - 1, NEW k \in 1..Len(s) - 1, after[j] = after[k] PROVE j = k
    <2>1. PICK m : m = IF j < i THEN j ELSE j + 1
      OBVIOUS
    <2>2. PICK n : n = IF k < i THEN k ELSE k + 1
      OBVIOUS
    <2>3. m \in 1..Len(s) /\ n \in 1..Len(s) /\ (m = n => j = k)
      BY <1>1, <2>1, <2>2
    <2>4. s[m] = s[n]
      BY <1>7, <1>8, <2>1, <2>2
    <2>5. m = n
      BY <1>1, <2>3, <2>4 DEF IsInjective
    <2> QED
      BY <2>3, <2>5
  <1> QED
    BY <1>6, <1>7, <1>8 DEF List, IsInjective

LEMMA AppendedIsList ==
    ASSUME NEW s \in List, NEW c \in ColumnNames, c \notin ToSet(s)
    PROVE  Append(s, c) \in List
  <1>1. s \in Seq(ColumnNames) /\ IsInjective(s) /\ Len(s) \in Nat /\ DOMAIN s = 1..Len(s)
    BY LenProperties DEF List
  <1>2. \A i \in 1..Len(s) : s[i] # c
    BY <1>1 DEF ToSet
  <1>3. PICK after : after = Append(s, c)
    OBVIOUS
  <1>4. /\ after \in Seq(ColumnNames) /\ DOMAIN after = 1..Len(s) + 1
        /\ after[Len(s) + 1] = c /\ \A i \in 1..Len(s) : after[i] = s[i]
    BY <1>1, <1>3, AppendProperties, LenProperties
  <1>5. ASSUME NEW j \in 1..Len(s) + 1, NEW k \in 1..Len(s) + 1, after[j] = after[k] PROVE j = k
    BY <1>1, <1>2, <1>4, <1>5 DEF IsInjective
  <1> QED
    BY <1>3, <1>4, <1>5 DEF List, IsInjective

LEMMA ToggledIsList ==
    ASSUME NEW s \in List, NEW c \in ColumnNames
    PROVE  Toggled(s, c) \in List
  BY RemovedIsList, AppendedIsList DEF Toggled

\* Settings after the change of a key, a merge, and the way to Go and back.
LEMMA ListsWith ==
    ASSUME NEW settings, ListsOK(settings), NEW k \in Keys, NEW v, k \in ListKeys => v \in List
    PROVE  ListsOK(With(settings, k, v))
  <1>1. PICK after : after = With(settings, k, v)
    OBVIOUS
  <1>2. /\ DOMAIN after = DOMAIN settings \union {k} /\ after[k] = v
        /\ \A j \in DOMAIN settings : j # k => after[j] = settings[j]
    BY <1>1 DEF With, Merged
  <1>3. ASSUME NEW j \in ListKeys, j \in DOMAIN after PROVE after[j] \in List
    BY <1>2, <1>3 DEF ListsOK, Has
  <1> QED
    BY <1>1, <1>2, <1>3 DEF ListsOK, Has

LEMMA ListsMerged ==
    ASSUME NEW new, NEW old, ListsOK(new), ListsOK(old)
    PROVE  ListsOK(Merged(new, old))
  <1>1. PICK after : after = Merged(new, old)
    OBVIOUS
  <1>2. /\ DOMAIN after = DOMAIN new \union DOMAIN old
        /\ \A k \in DOMAIN new : after[k] = new[k]
        /\ \A k \in DOMAIN old : k \notin DOMAIN new => after[k] = old[k]
    BY <1>1 DEF Merged
  <1>3. ASSUME NEW j \in ListKeys, j \in DOMAIN after PROVE after[j] \in List
    BY <1>2, <1>3 DEF ListsOK, Has
  <1> QED
    BY <1>1, <1>2, <1>3 DEF ListsOK, Has

LEMMA ListsDecoded ==
    ASSUME NEW settings, ListsOK(settings)
    PROVE  ListsOK(Decode(settings))
  <1>1. \A k \in ListKeys : k # "overriddenInputs"
    BY DEF ListKeys
  <1> QED
    BY <1>1, DecodeParts DEF ListsOK, Has

\* The inductive invariant; a save that was not served is one not committed.
TypeInv ==
    /\ ListsOK(config) /\ ListsOK(cache)
    /\ \A a \in Admins : form[a] # Null => ListsOK(form[a])
    /\ \A u \in saves : ListsOK(u.settings) /\ u.n \in Nat /\ u.n < sent
    /\ edits \in 0..MaxEdits /\ sent \in 0..MaxSaves /\ commits \in Nat
    /\ IsFiniteSet(saves) /\ commits + Cardinality(saves) <= sent

LEMMA TypesEdit ==
    ASSUME TypeInv, Domains, NEW a \in Admins, NEW k \in Keys, NEW v, NEW parts,
           SetSettings(a, k, v, parts), k \in ListKeys => v \in List
    PROVE  TypeInv'
  <1>1. /\ form' = [form EXCEPT ![a] = With(form[a], k, v)] /\ form[a] # Null
        /\ UNCHANGED <<config, cache, saves, sent, commits>>
        /\ edits < MaxEdits /\ edits' = edits + 1
    BY DEF SetSettings, Shown
  <1>2. ListsOK(With(form[a], k, v))
    BY <1>1, ListsWith DEF TypeInv
  <1>3. \A b \in Admins : form'[b] = IF b = a THEN With(form[a], k, v) ELSE form[b]
    BY <1>1 DEF Domains
  <1>4. edits' \in 0..MaxEdits
    BY <1>1, BoundsAssumption DEF TypeInv
  <1> QED
    BY <1>1, <1>2, <1>3, <1>4 DEF TypeInv

\* Every edit of a form writes one key, and a list of columns as such.
LEMMA EditsKeepTypes ==
    ASSUME TypeInv, FormsInv, NEW a \in Admins, Edits(a)
    PROVE  TypeInv'
  <1>1. Domains
    BY DEF FormsInv
  <1>2. CASE setViewLinkPattern(a)
    <2>1. PICK p \in Patterns \union {""} :
              SetSettings(a, "viewLinkPattern", p, {<<"viewLinkPattern">>})
      BY <1>2 DEF setViewLinkPattern
    <2>2. "viewLinkPattern" \in Keys /\ "viewLinkPattern" \notin ListKeys
      BY DEF Keys, ListKeys
    <2> QED
      BY <1>1, <2>1, <2>2, TypesEdit
  <1>3. ASSUME NEW k \in ListKeys, NEW c \in ColumnNames, toggleColumn(a, k, c)
        PROVE  TypeInv'
    <2>1. PICK old : old = IF Has(form[a], k) THEN form[a][k] ELSE Columns
      OBVIOUS
    <2>2. SetSettings(a, k, Toggled(old, c), {<<k>>}) /\ Shown(a)
      BY <1>3, <2>1 DEF toggleColumn
    <2>3. old \in List
      BY <2>1, <2>2, ColumnsAssumption DEF TypeInv, ListsOK, List, Shown
    <2>4. Toggled(old, c) \in List /\ k \in Keys
      BY <2>3, ToggledIsList DEF Keys
    <2> QED
      BY <1>1, <2>2, <2>4, TypesEdit
  <1>4. ASSUME NEW t \in Tables, setJoinTable(a, t)
        PROVE  TypeInv'
    BY <1>4 DEF setJoinTable, TypeInv
  <1>5. CASE addRelation(a) \/ removeRelation(a)
    <2>1. PICK v : SetSettings(a, "relations", v, {<<"relations">>})
      BY <1>5 DEF addRelation, removeRelation
    <2>2. "relations" \in Keys /\ "relations" \notin ListKeys
      BY DEF Keys, ListKeys
    <2> QED
      BY <1>1, <2>1, <2>2, TypesEdit
  <1>6. ASSUME NEW c \in ColumnNames, updatePayload(a, c) \/ \E t \in Types : pickType(a, c, t)
        PROVE  TypeInv'
    <2>1. PICK v, parts : SetSettings(a, "overriddenInputs", v, parts)
      BY <1>6 DEF updatePayload, pickType
    <2>2. "overriddenInputs" \in Keys /\ "overriddenInputs" \notin ListKeys
      BY DEF Keys, ListKeys
    <2> QED
      BY <1>1, <2>1, <2>2, TypesEdit
  <1> QED
    BY <1>2, <1>3, <1>4, <1>5, <1>6 DEF Edits

LEMMA VisitsKeepTypes ==
    ASSUME TypeInv, Domains, NEW a \in Admins, Open(a) \/ goBack(a)
    PROVE  TypeInv'
  <1>1. /\ UNCHANGED <<config, cache, saves, edits, sent, commits>>
        /\ form' = [form EXCEPT ![a] = cache] \/ form' = [form EXCEPT ![a] = Null]
    BY DEF Open, goBack
  <1>2. \A b \in Admins : form'[b] # Null => form'[b] = form[b] \/ form'[b] = cache
    BY <1>1 DEF Domains
  <1> QED
    BY <1>1, <1>2 DEF TypeInv

\* A save sent is one more than those that wait, one served is one less.
LEMMA saveChangesTypes ==
    ASSUME TypeInv, NEW a \in Admins, saveChanges(a)
    PROVE  TypeInv'
  <1>1. PICK r : r = [n |-> sent, settings |-> form[a], base |-> base[a], edited |-> edited[a]]
    OBVIOUS
  <1>2. /\ saves' = saves \union {r} /\ form[a] # Null /\ sent < MaxSaves /\ sent' = sent + 1
        /\ UNCHANGED <<config, cache, form, edits, commits>>
    BY <1>1 DEF saveChanges, Shown
  <1>3. r.n = sent /\ ListsOK(r.settings)
    BY <1>1, <1>2 DEF TypeInv
  <1>4. sent \in Nat /\ sent' \in 0..MaxSaves
    BY <1>2, BoundsAssumption DEF TypeInv
  <1>5. r \notin saves
    BY <1>3, <1>4 DEF TypeInv
  <1>6. IsFiniteSet(saves') /\ Cardinality(saves') = Cardinality(saves) + 1
    BY <1>2, <1>5, FS_AddElement DEF TypeInv
  <1>7. Cardinality(saves) \in Nat
    BY FS_CardinalityType DEF TypeInv
  <1>8. commits' + Cardinality(saves') <= sent'
    BY <1>2, <1>4, <1>6, <1>7 DEF TypeInv
  <1>9. ASSUME NEW u \in saves'
        PROVE  ListsOK(u.settings) /\ u.n \in Nat /\ u.n < sent'
    <2>1. CASE u = r
      BY <1>2, <1>3, <1>4, <2>1
    <2>2. CASE u \in saves
      <3>1. ListsOK(u.settings) /\ u.n \in Nat /\ u.n < sent
        BY <2>2 DEF TypeInv
      <3> QED
        BY <1>2, <1>4, <3>1
    <2> QED
      BY <1>2, <2>1, <2>2
  <1> QED
    BY <1>2, <1>4, <1>6, <1>8, <1>9 DEF TypeInv

LEMMA UpdateTypes ==
    ASSUME TypeInv, NEW u \in saves, UpdateTableSettings(u)
    PROVE  TypeInv'
  <1>1. saves' = saves \ {u} /\ UNCHANGED <<form, edits, sent>>
    BY DEF UpdateTableSettings
  <1>2. /\ IsFiniteSet(saves') /\ Cardinality(saves') = Cardinality(saves) - 1
        /\ Cardinality(saves) \in Nat
    BY <1>1, FS_RemoveElement, FS_CardinalityType DEF TypeInv
  <1>3. CASE /\ config' = Merged(u.settings, config) /\ cache' = Decode(config')
             /\ commits' = commits + 1
    <2>1. ListsOK(config')
      BY <1>3, ListsMerged DEF TypeInv
    <2>2. ListsOK(cache')
      BY <1>3, <2>1, ListsDecoded
    <2> QED
      BY <1>1, <1>2, <1>3, <2>1, <2>2 DEF TypeInv
  <1>4. CASE UNCHANGED <<config, cache, commits>>
    <2>1. commits' + Cardinality(saves') <= sent'
      BY <1>1, <1>2, <1>4 DEF TypeInv
    <2> QED
      BY <1>1, <1>2, <1>4, <2>1 DEF TypeInv
  <1> QED
    BY <1>3, <1>4 DEF UpdateTableSettings

LEMMA TypesHold == Spec => []TypeInv
  <1>1. Init => TypeInv
    <2> SUFFICES ASSUME Init PROVE TypeInv
      OBVIOUS
    <2>1. PICK lists : lists = [k \in ListKeys |->
                                   IF k = "tableViewSelectColumns" THEN Columns ELSE TextColumns]
      OBVIOUS
    <2>2. DOMAIN lists = ListKeys /\ \A k \in ListKeys : lists[k] \in List
      BY <2>1, ColumnsAssumption DEF List
    <2>3. ListsOK(lists)
      BY <2>2 DEF ListsOK, Keys
    <2>4. ListsOK(cache)
      BY <2>1, <2>3, ListsDecoded DEF Init, Defaults
    <2>5. ListsOK(config)
      <3>1. config = <<>>
        BY DEF Init
      <3>2. DOMAIN config = {}
        BY <3>1
      <3> QED
        BY <3>2 DEF ListsOK, Has
    <2>6. saves = {} /\ IsFiniteSet(saves) /\ Cardinality(saves) = 0
      BY FS_EmptySet DEF Init
    <2>7. edits = 0 /\ sent = 0 /\ commits = 0 /\ \A a \in Admins : form[a] = Null
      BY DEF Init
    <2> QED
      BY <2>4, <2>5, <2>6, <2>7, BoundsAssumption DEF TypeInv
  <1>2. FormsInv /\ TypeInv /\ [Next]_vars => TypeInv'
    <2> SUFFICES ASSUME FormsInv, TypeInv, [Next]_vars
                 PROVE  TypeInv'
      OBVIOUS
    <2>1. CASE UNCHANGED vars
      BY <2>1 DEF vars, TypeInv
    <2>2. ASSUME NEW a \in Admins, Open(a) \/ goBack(a) \/ Edits(a) \/ saveChanges(a)
          PROVE  TypeInv'
      <3>1. Domains
        BY DEF FormsInv
      <3> QED
        BY <2>2, <3>1, VisitsKeepTypes, EditsKeepTypes, saveChangesTypes
    <2> QED
      BY <2>1, <2>2, UpdateTypes DEF Next
  <1> QED
    BY <1>1, <1>2, FormsHold, PTL DEF Spec

\* Whatever is edited and saved, the settings that are stored, answered, in a
\* form or sent are ones both sides agree on: known keys, lists in which no
\* column is twice, well-formed overrides of columns, relations by tables, and
\* there is at most one commit for each save (tableSettings.ts:5-18).
THEOREM TypeCorrect == Spec => []TypeOK
  <1>1. FormsInv /\ TypeInv => TypeOK
    <2> SUFFICES ASSUME FormsInv, TypeInv PROVE TypeOK
      OBVIOUS
    <2>1. SettingsOK(config) /\ SettingsOK(cache)
      BY SoundListsAreOK DEF FormsInv, TypeInv
    <2>2. \A a \in Admins : form[a] = Null \/ SettingsOK(form[a])
      BY SoundListsAreOK DEF FormsInv, TypeInv
    <2>3. \A u \in saves : SettingsOK(u.settings)
      BY SoundListsAreOK DEF FormsInv, TypeInv
    <2>4. commits \in 0..sent
      BY FS_CardinalityType DEF TypeInv
    <2> QED
      BY <2>1, <2>2, <2>3, <2>4 DEF TypeInv, TypeOK
  <1> QED
    BY <1>1, FormsHold, TypesHold, PTL
=============================================================================

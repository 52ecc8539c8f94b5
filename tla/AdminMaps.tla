----------------------------- MODULE AdminMaps -----------------------------
(***************************************************************************)
(* The administration of maps: a page of maps of one status, drafts of      *)
(* their status, authors and tiers that outlive the page they were made on, *)
(* one button that sends them all, one call per map and per course; and the *)
(* editor of a pronunciation.                                               *)
(***************************************************************************)
EXTENDS Integers, FiniteSets

CONSTANTS
    Maps,        \* map ids; each has one course
    PAGE_SIZE,
    MaxActs      \* bound on what people do and what goes wrong

VARIABLES
    part,                \* "maps", or "voice" for the pronunciation editor
    server,              \* [Maps -> [validated, authors, tier]]
    validatedFilter, pageIndex,
    data, request,       \* the rows held for the page, or NoPage; "none" or "asked"
    editingMapId,        \* 0 for none
    tiers,               \* [Maps -> the tier last read for the dialog, or None]
    mapValidationDrafts, mapAuthorDrafts, courseTierDrafts,
    isPending,           \* the save is under way
    calls,               \* its calls not answered yet, those of a failed save included
    wish,                \* history: what the administrator asked for, per map and field
    excused,             \* history: maps whose wish was skipped, outdated or overtaken
    open, voice, fetching, held, text, asked, edited, \* the editor: opened, the server's text, the query,
                         \* its last answer, the text shown, a generation under way, typed in
    acts                 \* counts towards MaxActs

page == <<validatedFilter, pageIndex, data, request, editingMapId, tiers>>
drafts == <<mapValidationDrafts, mapAuthorDrafts, courseTierDrafts>>
saving == <<isPending, calls>>
history == <<wish, excused>>
editor == <<open, voice, fetching, held, text, asked, edited>>
vars == <<part, server, page, drafts, saving, history, editor, acts>>

None == -1
NoDraft == [original |-> None, value |-> None]
NoPage == {[id |-> 0, validated |-> 0, authors |-> 0]}

Listed(f) == {m \in Maps : server[m].validated = f}
Rows(f, p) ==
    {[id |-> m, validated |-> server[m].validated, authors |-> server[m].authors] :
        m \in {x \in Listed(f) : LET k == Cardinality({y \in Listed(f) : y < x}) IN k >= p * PAGE_SIZE /\ k < (p + 1) * PAGE_SIZE}}

tableData == IF data = NoPage THEN {} ELSE data
mapsById(m) == CHOOSE r \in tableData : r.id = m
OnPage == {r.id : r \in tableData}

-----------------------------------------------------------------------------
(* Drafts.  A draft equal to the row it was made on is no draft.            *)

BugmapChanges == {m \in OnPage : mapValidationDrafts[m].value # mapValidationDrafts[m].original}

mapChanges == {m \in Maps : mapValidationDrafts[m].value # mapValidationDrafts[m].original}

courseTierChanges == {m \in Maps : courseTierDrafts[m].value # courseTierDrafts[m].original}

(* The authors of a map count only while the map is on the page.            *)
mapAuthorChanges == {m \in OnPage : mapAuthorDrafts[m] \notin {None, mapsById(m).authors}}

hasUnsavedChanges == mapChanges \cup courseTierChanges \cup mapAuthorChanges # {}

Init ==
    /\ part \in {"maps", "voice"}
    /\ server = [m \in Maps |-> [validated |-> 0, authors |-> 0, tier |-> 0]]
    /\ validatedFilter = 0 /\ pageIndex = 0 /\ data = NoPage /\ request = "asked" /\ editingMapId = 0
    /\ tiers = [m \in Maps |-> None]
    /\ mapValidationDrafts = [m \in Maps |-> NoDraft] /\ courseTierDrafts = [m \in Maps |-> NoDraft]
    /\ mapAuthorDrafts = [m \in Maps |-> None]
    /\ isPending = FALSE /\ calls = {}
    /\ wish = [m \in Maps |-> [validated |-> None, authors |-> None, tier |-> None]] /\ excused = {}
    /\ open = FALSE /\ voice = 0 /\ fetching = FALSE /\ held = None /\ text = None /\ asked = FALSE /\ edited = FALSE
    /\ acts = 0

Acts == acts < MaxActs /\ acts' = acts + 1
Maintaining == Acts /\ part = "maps"

(* Another filter, sort, search or page is another query; the dialog closes.*)
Turn(f, p) ==
    /\ validatedFilter' = f /\ pageIndex' = p /\ data' = NoPage /\ request' = "asked" /\ editingMapId' = 0
    /\ UNCHANGED <<part, server, tiers, drafts, saving, history, editor>>

updateValidatedFilter == Maintaining /\ editingMapId = 0 /\ Turn(1 - validatedFilter, 0)

onPageChange ==
    /\ Maintaining /\ editingMapId = 0 /\ data # NoPage
    /\ \E p \in 0 .. (Cardinality(Maps) - 1) \div PAGE_SIZE :
        p # pageIndex /\ p * PAGE_SIZE < Cardinality(Listed(validatedFilter)) /\ Turn(validatedFilter, p)

Answer ==
    /\ request = "asked" /\ request' = "none"
    /\ data' = Rows(validatedFilter, pageIndex)
    /\ UNCHANGED <<part, server, validatedFilter, pageIndex, editingMapId, tiers, drafts, saving, history, editor, acts>>

Fail ==
    /\ Maintaining /\ request = "asked" /\ request' = "none"
    /\ UNCHANGED <<part, server, validatedFilter, pageIndex, data, editingMapId, tiers, drafts, saving, history, editor>>

(* The dialog of a map reads the tiers of its courses.                      *)
OpenMap ==
    /\ Maintaining /\ editingMapId = 0
    /\ \E m \in OnPage : editingMapId' = m /\ tiers' = [tiers EXCEPT ![m] = server[m].tier]
    /\ UNCHANGED <<part, server, validatedFilter, pageIndex, data, request, drafts, saving, history, editor>>

CloseMap ==
    /\ editingMapId # 0 /\ editingMapId' = 0
    /\ UNCHANGED <<part, server, validatedFilter, pageIndex, data, request, tiers, drafts, saving, history, editor, acts>>

Wished(m, field, v, current) ==
    /\ wish' = [wish EXCEPT ![m][field] = v]
    /\ excused' = IF current /\ \A c \in calls : c.map # m THEN excused ELSE excused \cup {m}

BugsetMapValidationDraft(m, row, v) ==
    mapValidationDrafts' = [mapValidationDrafts EXCEPT ![m] = IF v = 0 THEN NoDraft ELSE [original |-> row, value |-> v]]

setMapValidationDraft(m, row, v) ==
    mapValidationDrafts' = [mapValidationDrafts EXCEPT ![m] = IF v = row THEN NoDraft ELSE [original |-> row, value |-> v]]

SwitchValidated ==
    /\ Maintaining /\ editingMapId = 0 /\ ~isPending
    /\ \E r \in tableData :
        LET v == IF mapValidationDrafts[r.id] = NoDraft THEN r.validated ELSE mapValidationDrafts[r.id].value
        IN  /\ setMapValidationDraft(r.id, r.validated, 1 - v)
            /\ Wished(r.id, "validated", 1 - v, r.validated = server[r.id].validated)
    /\ UNCHANGED <<part, server, page, mapAuthorDrafts, courseTierDrafts, saving, editor>>

InDialog == Maintaining /\ editingMapId \in OnPage /\ ~isPending

(* The editors of the dialog show the draft, or else what was read.         *)
AuthorsShown(r) == IF mapAuthorDrafts[r.id] = None THEN r.authors ELSE mapAuthorDrafts[r.id]

TierShown(m) == IF courseTierDrafts[m] = NoDraft THEN tiers[m] ELSE courseTierDrafts[m].value

setMapAuthorDraft ==
    /\ InDialog
    /\ LET r == mapsById(editingMapId)
           shown == AuthorsShown(r)
       IN  /\ mapAuthorDrafts' = [mapAuthorDrafts EXCEPT ![r.id] = IF 1 - shown = r.authors THEN None ELSE 1 - shown]
           /\ Wished(r.id, "authors", 1 - shown, r.authors = server[r.id].authors)
    /\ UNCHANGED <<part, server, page, mapValidationDrafts, courseTierDrafts, saving, editor>>

setCourseTierDraft ==
    /\ InDialog
    /\ LET m == editingMapId
           shown == TierShown(m)
       IN  /\ courseTierDrafts' = [courseTierDrafts EXCEPT ![m] = IF 1 - shown = tiers[m] THEN NoDraft ELSE [original |-> tiers[m], value |-> 1 - shown]]
           /\ Wished(m, "tier", 1 - shown, tiers[m] = server[m].tier)
    /\ UNCHANGED <<part, server, page, mapValidationDrafts, mapAuthorDrafts, saving, editor>>

(* The calls of a save: one per map on the page that has a change, with the *)
(* status of the row when only the authors change; one per course.          *)
mapUpdatesById ==
    {[map |-> m, field |-> "map",
      validated |-> IF m \in mapChanges THEN mapValidationDrafts[m].value ELSE mapsById(m).validated,
      authors |-> IF m \in mapAuthorChanges THEN mapAuthorDrafts[m] ELSE None, tier |-> None] :
        m \in (mapChanges \cap OnPage) \cup mapAuthorChanges}

TierUpdates ==
    {[map |-> m, field |-> "tier", validated |-> None, authors |-> None, tier |-> courseTierDrafts[m].value] : m \in courseTierChanges}

save ==
    /\ Maintaining /\ ~isPending /\ hasUnsavedChanges
    /\ isPending' = TRUE
    /\ calls' = calls \cup mapUpdatesById \cup TierUpdates
    /\ excused' = excused \cup (mapChanges \ OnPage)
                          \cup {m \in Maps \ OnPage : mapAuthorDrafts[m] # None}
                          \cup {c.map : c \in calls}
                          \cup {m \in mapAuthorChanges : mapsById(m).validated # server[m].validated}
    /\ UNCHANGED <<part, server, page, drafts, wish, editor>>

Updated(m, c) ==
    [validated |-> IF c.validated = None THEN server[m].validated ELSE c.validated,
     authors |-> IF c.authors = None THEN server[m].authors ELSE c.authors,
     tier |-> IF c.tier = None THEN server[m].tier ELSE c.tier]

(* The queries of the page and of the open dialog are read again.           *)
onSettled ==
    /\ request' = "asked"
    /\ tiers' = [m \in Maps |-> IF m = editingMapId THEN server'[m].tier ELSE None]

(* A call is carried out.  With the last one the save succeeds, and every   *)
(* draft goes, those of other pages too.                                    *)
CallSucceeds ==
    \E c \in calls :
        /\ calls' = calls \ {c}
        /\ server' = [server EXCEPT ![c.map] = Updated(c.map, c)]
        /\ IF isPending /\ calls' = {}
           THEN /\ isPending' = FALSE
                /\ mapValidationDrafts' = [m \in Maps |-> NoDraft] /\ mapAuthorDrafts' = [m \in Maps |-> None]
                /\ courseTierDrafts' = [m \in Maps |-> NoDraft]
                /\ onSettled
           ELSE UNCHANGED <<isPending, drafts, request, tiers>>
        /\ UNCHANGED <<part, validatedFilter, pageIndex, data, editingMapId, history, editor, acts>>

(* The first failure ends the save; its other calls go on.                  *)
CallFails ==
    /\ \E c \in calls : calls' = calls \ {c}
    /\ isPending' = FALSE
    /\ UNCHANGED <<part, server, validatedFilter, pageIndex, data, editingMapId, drafts, history, editor, acts>>
    /\ IF isPending THEN onSettled ELSE UNCHANGED <<request, tiers>>

OtherAdmin ==
    /\ Maintaining
    /\ \E m \in Maps : server' = [server EXCEPT ![m].validated = 1 - @] /\ excused' = excused \cup {m}
    /\ UNCHANGED <<part, page, drafts, saving, wish, editor>>

-----------------------------------------------------------------------------
(* The editor of a pronunciation: opened, it reads the text anew; the form  *)
(* is shown when the answer is there.                                       *)

Voice == Acts /\ part = "voice"
loaded == held # None /\ ~fetching

changeOpen ==
    /\ Voice
    /\ IF open
       THEN open' = FALSE /\ UNCHANGED <<text, fetching, edited>>
       ELSE open' = TRUE /\ fetching' = TRUE /\ text' = (IF held # None THEN held ELSE text) /\ edited' = FALSE
    /\ UNCHANGED <<part, server, page, drafts, saving, history, voice, held, asked>>

(* An answer that is new fills the form; one that equals the last does not. *)
VoiceAnswers ==
    /\ fetching /\ fetching' = FALSE
    /\ \/ held' = voice /\ text' = (IF open /\ voice # held THEN voice ELSE text)
          /\ edited' = (edited /\ (voice = held \/ ~open)) /\ UNCHANGED acts
       \/ Acts /\ UNCHANGED <<held, text, edited>>
    /\ UNCHANGED <<part, server, page, drafts, saving, history, open, voice, asked>>

Retry ==
    /\ open /\ held = None /\ ~fetching /\ fetching' = TRUE
    /\ UNCHANGED <<part, server, page, drafts, saving, history, open, voice, held, text, asked, edited, acts>>

Reconnect ==
    /\ Voice /\ open /\ ~fetching /\ fetching' = TRUE
    /\ UNCHANGED <<part, server, page, drafts, saving, history, open, voice, held, text, asked, edited>>

Type ==
    /\ Voice /\ open /\ loaded /\ ~asked
    /\ text' \in {0, 1, 2} \ {text} /\ edited' = TRUE
    /\ UNCHANGED <<part, server, page, drafts, saving, history, open, voice, fetching, held, asked>>

regenerate ==
    /\ open /\ loaded /\ ~asked /\ text # None /\ asked' = TRUE
    /\ UNCHANGED <<part, server, page, drafts, saving, history, open, voice, fetching, held, text, edited, acts>>

(* Success closes the editor and plays the new voice.                       *)
Regenerated ==
    /\ asked /\ asked' = FALSE
    /\ \/ voice' = text /\ open' = FALSE /\ UNCHANGED acts
       \/ Acts /\ UNCHANGED <<voice, open>>
    /\ UNCHANGED <<part, server, page, drafts, saving, history, fetching, held, text, edited>>

OtherVoice ==
    /\ Voice /\ voice' \in {0, 1, 2} \ {voice}
    /\ UNCHANGED <<part, server, page, drafts, saving, history, open, fetching, held, text, asked, edited>>

Next ==
    \/ updateValidatedFilter \/ onPageChange \/ Answer \/ Fail \/ OpenMap \/ CloseMap
    \/ SwitchValidated \/ setMapAuthorDraft \/ setCourseTierDraft \/ save \/ CallSucceeds \/ CallFails \/ OtherAdmin
    \/ changeOpen \/ VoiceAnswers \/ Retry \/ Reconnect \/ Type \/ regenerate \/ Regenerated \/ OtherVoice

Spec == Init /\ [][Next]_vars

TypeOK ==
    /\ part \in {"maps", "voice"}
    /\ server \in [Maps -> [validated : {0, 1}, authors : {0, 1}, tier : {0, 1}]]
    /\ validatedFilter \in {0, 1} /\ pageIndex \in 0 .. Cardinality(Maps) /\ editingMapId \in Maps \cup {0}
    /\ \A m \in Maps : mapAuthorDrafts[m] \in {None, 0, 1} /\ mapValidationDrafts[m].value \in {None, 0, 1}
    /\ request \in {"none", "asked"} /\ isPending \in BOOLEAN /\ held \in -1 .. 2 /\ text \in -1 .. 2

(* What the administrator asked for is on the server or still a draft once  *)
(* nothing is under way, unless the map was off the page when the save was  *)
(* made, was edited on an outdated row, by somebody else, or while a call of*)
(* a failed save was still under way.                                       *)
WishesAreKept ==
    calls = {} => \A m \in Maps \ excused :
        /\ wish[m].validated \in {None, server[m].validated, mapValidationDrafts[m].value}
        /\ wish[m].authors \in {None, server[m].authors, mapAuthorDrafts[m]}
        /\ wish[m].tier \in {None, server[m].tier, courseTierDrafts[m].value}

(* A row off the page has no unsaved work that leaving the page would lose  *)
(* without a question, except authors, which count on their page only.      *)
LeavingAsks ==
    \A m \in Maps \ excused :
        wish[m].validated \notin {None, server[m].validated} /\ calls = {} => hasUnsavedChanges

(* The text that is generated was typed, or is one the server had.          *)
TextIsFresh == open /\ loaded /\ ~edited => text = held
=============================================================================

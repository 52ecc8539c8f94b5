---------------------------- MODULE SavedPresets ----------------------------
(***************************************************************************)
(* The presets of filters a visitor keeps in the browser, and the default  *)
(* view.  Every tab reads the list once, when its page is mounted, and     *)
(* writes back the whole list; the tabs share the browser's storage.       *)
(***************************************************************************)
EXTENDS Naturals, Sequences, FiniteSets, SequencesExt

CONSTANTS
    Tabs,
    Names,       \* 1 .. n: name k is "Preset k" in any case of letters
    Views,       \* filters and sort order, numbers; 0 is the initial view
    MAX_PRESETS,
    MaxActs      \* bound on what the visitor does

VARIABLES
    stored,      \* PRESET_STORAGE_KEY: a sequence of presets
    default,     \* the stored default view: {} or one view
    presets,     \* per tab: the list its menu shows
    view,        \* per tab: currentSettings
    open,        \* per tab: "page", "menu" or "save" (the dialog)
    presetName,  \* per tab: the text of the dialog; Blank is none
    hasDefault,  \* per tab: the menu offers to clear the default
    wanted,      \* history: what the visitor has saved last under a name and not deleted
    overrun,     \* history: a tab has written over what another tab had saved
    dropped,     \* history: an old preset has made room for a new one
    acts         \* counts towards MaxActs

tabs == <<presets, view, open, presetName, hasDefault>>
storage == <<stored, default>>
history == <<wanted, overrun, dropped>>
vars == <<storage, tabs, history, acts>>

Blank == 0
Preset(n, v, readable) == [name |-> n, settings |-> v, readable |-> readable]
Content(list) == {Preset(list[i].name, list[i].settings, TRUE) : i \in DOMAIN list}

(* An entry this version of the page cannot parse is left out.              *)
parseViewState(preset) == preset.readable
readSavedPresets == SelectSeq(stored, parseViewState)

(* The name offered: the first "Preset n" not in use.                       *)
getNextPresetName(list) ==
    LET unused == {n \in Names : \A i \in DOMAIN list : list[i].name # n}
    IN  IF unused = {} THEN Blank ELSE CHOOSE n \in unused : \A m \in unused : n <= m

readDefaultView == IF default = {} THEN 0 ELSE CHOOSE v \in default : TRUE

Init ==
    /\ stored = <<Preset(1, 1, FALSE)>> /\ default = {}
    /\ presets = [t \in Tabs |-> <<>>] /\ view = [t \in Tabs |-> 0]
    /\ open = [t \in Tabs |-> "page"] /\ presetName = [t \in Tabs |-> Blank]
    /\ hasDefault = [t \in Tabs |-> FALSE]
    /\ wanted = {} /\ overrun = FALSE /\ dropped = FALSE /\ acts = 0

Acts == acts < MaxActs /\ acts' = acts + 1

(* A page that is opened again reads the list and starts in the default.    *)
Mount(t) ==
    /\ Acts /\ open[t] = "page"
    /\ presets' = [presets EXCEPT ![t] = readSavedPresets]
    /\ view' = [view EXCEPT ![t] = readDefaultView]
    /\ UNCHANGED <<storage, open, presetName, hasDefault, history>>

(* The menu's last part is mounted as it opens, and looks up the default.   *)
OpenMenu(t) ==
    /\ open[t] = "page"
    /\ open' = [open EXCEPT ![t] = "menu"]
    /\ hasDefault' = [hasDefault EXCEPT ![t] = default # {}]
    /\ UNCHANGED <<storage, presets, view, presetName, history, acts>>

Close(t) ==
    /\ open[t] # "page" /\ open' = [open EXCEPT ![t] = "page"]
    /\ UNCHANGED <<storage, presets, view, presetName, hasDefault, history, acts>>

SetFilter(t) ==
    /\ Acts /\ open[t] = "page"
    /\ \E v \in Views : view[t] # v /\ view' = [view EXCEPT ![t] = v]
    /\ UNCHANGED <<storage, presets, open, presetName, hasDefault, history>>

(* A preset, or the reset to the initial view.                              *)
onApply(t) ==
    /\ Acts /\ open[t] = "menu"
    /\ \E v \in {0} \cup {presets[t][i].settings : i \in DOMAIN presets[t]} : view' = [view EXCEPT ![t] = v]
    /\ open' = [open EXCEPT ![t] = "page"]
    /\ UNCHANGED <<storage, presets, presetName, hasDefault, history>>

(* updateDefault: the default is set, or cleared where the menu offers it.  *)
updateDefault(t, clear) ==
    /\ Acts /\ open[t] = "menu" /\ (clear => hasDefault[t])
    /\ \/ default' = IF clear THEN {} ELSE {view[t]}
       \/ default' = default          \* the browser refuses the write
    /\ open' = [open EXCEPT ![t] = "page"]
    /\ UNCHANGED <<stored, presets, view, presetName, hasDefault, history>>

openSaveDialog(t) ==
    /\ open[t] = "menu"
    /\ open' = [open EXCEPT ![t] = "save"]
    /\ presetName' = [presetName EXCEPT ![t] = getNextPresetName(presets[t])]
    /\ UNCHANGED <<storage, presets, view, hasDefault, history, acts>>

setPresetName(t) ==
    /\ Acts /\ open[t] = "save"
    /\ \E n \in Names \cup {Blank} : presetName[t] # n /\ presetName' = [presetName EXCEPT ![t] = n]
    /\ UNCHANGED <<storage, presets, view, open, hasDefault, history>>

(* A write that succeeds: the list shown is the list stored.                *)
writeSavedPresets(t, list) ==
    /\ stored' = list
    /\ presets' = [presets EXCEPT ![t] = list]
    /\ overrun' = (overrun \/ presets[t] # readSavedPresets)

Newest(list) == SubSeq(list, IF Len(list) > MAX_PRESETS THEN Len(list) - MAX_PRESETS + 1 ELSE 1, Len(list))

BugNextPresets(list, preset) == Newest(Append(list, preset))

(* A preset of the same name is replaced in its place; otherwise the new    *)
(* one goes last and the oldest makes room.                                 *)
NextPresets(list, preset) ==
    IF \E i \in DOMAIN list : list[i].name = preset.name
    THEN [i \in DOMAIN list |-> IF list[i].name = preset.name THEN preset ELSE list[i]]
    ELSE Newest(Append(list, preset))

handleSave(t) ==
    /\ Acts /\ open[t] = "save" /\ presetName[t] # Blank
    /\ LET preset == Preset(presetName[t], view[t], TRUE)
           next == NextPresets(presets[t], preset)
       IN  /\ writeSavedPresets(t, next)
           /\ wanted' = {p \in wanted : p.name # preset.name} \cup {preset}
           /\ dropped' = (dropped \/ ~(Content(presets[t]) \subseteq Content(next) \cup {p \in Content(presets[t]) : p.name = preset.name}))
    /\ presetName' = [presetName EXCEPT ![t] = Blank]
    /\ open' = [open EXCEPT ![t] = "page"]
    /\ UNCHANGED <<default, view, hasDefault>>

BughandleDelete(t) ==
    /\ Acts /\ open[t] = "menu"
    /\ \E i \in DOMAIN presets[t] :
        /\ writeSavedPresets(t, SelectSeq(presets[t], LAMBDA p : p.settings # presets[t][i].settings))
        /\ wanted' = {p \in wanted : p.name # presets[t][i].name}
    /\ UNCHANGED <<default, view, open, presetName, hasDefault, dropped>>

handleDelete(t) ==
    /\ Acts /\ open[t] = "menu"
    /\ \E i \in DOMAIN presets[t] :
        /\ writeSavedPresets(t, RemoveAt(presets[t], i))
        /\ wanted' = {p \in wanted : p.name # presets[t][i].name}
    /\ UNCHANGED <<default, view, open, presetName, hasDefault, dropped>>

(* The browser refuses the write: nothing changes, the dialog stays open.   *)
saveError(t) ==
    /\ Acts /\ open[t] \in {"menu", "save"}
    /\ UNCHANGED <<storage, tabs, history>>

Next ==
    \E t \in Tabs :
        \/ Mount(t) \/ OpenMenu(t) \/ Close(t) \/ SetFilter(t) \/ onApply(t)
        \/ \E clear \in BOOLEAN : updateDefault(t, clear)
        \/ openSaveDialog(t) \/ setPresetName(t) \/ handleSave(t) \/ handleDelete(t) \/ saveError(t)

Spec == Init /\ [][Next]_vars

TypeOK ==
    /\ \A t \in Tabs : presets[t] \in Seq([name : Names, settings : Views, readable : BOOLEAN])
    /\ view \in [Tabs -> Views] /\ open \in [Tabs -> {"page", "menu", "save"}]
    /\ presetName \in [Tabs -> Names \cup {Blank}] /\ hasDefault \in [Tabs -> BOOLEAN]
    /\ default \subseteq Views /\ acts \in 0 .. MaxActs

(* The last filters saved under a name can be chosen again: in the storage  *)
(* is what the visitor saved and did not delete, and nothing under a name   *)
(* twice, unless two tabs wrote in turn or the list was full.               *)
PresetsAreKept ==
    /\ overrun \/ dropped \/ wanted \subseteq Content(stored)
    /\ \A t \in Tabs : Cardinality({presets[t][i].name : i \in DOMAIN presets[t]}) = Len(presets[t])
    /\ \A t \in Tabs : Len(presets[t]) <= MAX_PRESETS
=============================================================================

-------------------------- MODULE AccountSettings --------------------------
(***************************************************************************)
(* What people set about themselves and the site: the form of the profile,  *)
(* notifications, webhooks, the appearance, which every tab of the browser   *)
(* keeps a copy of, and the settings and the secret of the administrators.   *)
(***************************************************************************)
EXTENDS Integers, FiniteSets, FiniteSetsExt, TLC

CONSTANT MaxActs \* bound on what people do and what goes wrong

VARIABLES
    part,        \* "profile", "notes", "hooks", "look" or "site"
    profile, settings, reading,           \* alias and country: of the server, of the cache; a read under way
    inputs, isEditing, typed, saving, answer, \* the form; the fields typed in; those of a save, and its answer
    newest, unread, notes, bell,          \* notifications 1..newest and the unread of them; the page held, and the number
    pageIndex, pageSize, asked, brought, \* reads under way, and what the server has read for them
    known, behind, marks,                 \* queries that have data; those that know less than the server; calls
    hooks, cachedHooks, ids, add, editing, hookCalls, test, hooksRead, \* webhooks: id -> [url, enabled]; dialogs; calls
    mine, stray,                          \* history: the id the form created; an answer that met another dialog or tab
    stored, tabs, chosen, reverted,       \* preferences: in storage, in each tab, as last chosen; undone by a stale tab
    theme, dark, worn, press,             \* the theme, what the system prefers, what the page wears; the theme button
    secret, shownSecret, status, confirm, secretCalls, usurped, \* the secret, the one in sight, the dialog, calls
    app, cachedApp, appRead, appCalls, overlap, \* the two switches, as read; calls side by side, or one lost
    acts

profileVars == <<profile, settings, reading, inputs, isEditing, typed, saving, answer>>
noteVars == <<newest, unread, notes, bell, pageIndex, pageSize, asked, brought, known, behind, marks>>
hookVars == <<hooks, cachedHooks, ids, add, editing, hookCalls, test, hooksRead, mine, stray>>
lookVars == <<stored, tabs, chosen, reverted, theme, dark, worn, press>>
siteVars == <<secret, shownSecret, status, confirm, secretCalls, usurped, app, cachedApp, appRead, appCalls, overlap>>
vars == <<part, profileVars, noteVars, hookVars, lookVars, siteVars, acts>>

FieldNames == {"alias", "country"}
NoSettings == [alias |-> 0, country |-> 0]
NoFields == [f \in {} |-> 0]
NoPage == [rows |-> {}, unread |-> {}, total |-> 0]
NoHooks == [h \in {} |-> [url |-> 0, enabled |-> FALSE]]
NoTest == [id |-> 0, row |-> [url |-> 0, enabled |-> FALSE]]
ClosedAdd == [open |-> FALSE, url |-> 0, created |-> 0, sent |-> FALSE]
ClosedEdit == [id |-> 0, url |-> 0]
Defaults == [flag |-> 1, icon |-> 1]
Released == [state |-> "up", longPress |-> FALSE, menu |-> FALSE, held |-> FALSE, slipped |-> FALSE]
Unset == -1
NoApp == [links |-> Unset, sync |-> Unset]
NothingRead == [list |-> NoPage, count |-> Unset]

Init ==
    /\ part \in {"profile", "notes", "hooks", "look", "site"}
    /\ profile = [alias |-> 1, country |-> 1] /\ settings = NoSettings /\ reading = TRUE
    /\ inputs = NoSettings /\ isEditing = FALSE /\ typed = {} /\ saving = NoFields /\ answer = NoSettings
    /\ newest = 3 /\ unread = {1, 3} /\ notes = NoPage /\ bell = 0 /\ pageIndex = 0 /\ pageSize = 2
    /\ asked = {"list", "count"} /\ brought = NothingRead /\ known = {} /\ behind = {} /\ marks = {}
    /\ hooks = (1 :> [url |-> 1, enabled |-> TRUE]) /\ cachedHooks = NoHooks /\ ids = 1 /\ add = ClosedAdd
    /\ editing = ClosedEdit /\ hookCalls = {} /\ test = NoTest /\ hooksRead = "asked" /\ mine = 0 /\ stray = FALSE
    /\ stored = Defaults /\ tabs = [t \in 1..2 |-> Defaults] /\ chosen = Defaults /\ reverted = FALSE
    /\ theme = "dark" /\ dark = TRUE /\ worn = "dark" /\ press = Released
    /\ secret = [now |-> 1, made |-> 1] /\ shownSecret = 0 /\ status = [configured |-> TRUE, asked |-> FALSE]
    /\ confirm = "none" /\ secretCalls = {} /\ usurped = FALSE
    /\ app = [links |-> 0, sync |-> 0] /\ cachedApp = NoApp /\ appRead = app /\ appCalls = {} /\ overlap = FALSE
    /\ acts = 0

Acts(p) == part = p /\ acts < MaxActs /\ acts' = acts + 1
Only(p) == part = p /\ UNCHANGED acts
Profile == UNCHANGED <<part, noteVars, hookVars, lookVars, siteVars>>
Notes == UNCHANGED <<part, profileVars, hookVars, lookVars, siteVars>>
Hooks == UNCHANGED <<part, profileVars, noteVars, lookVars, siteVars>>
Look == UNCHANGED <<part, profileVars, noteVars, hookVars, siteVars>>
Site == UNCHANGED <<part, profileVars, noteVars, hookVars, lookVars>>

-----------------------------------------------------------------------------
(* The form of the profile.  An alias is 1 or 2, 0 when it is blank or not   *)
(* allowed, and 3 when it is 1 with blanks around it.                        *)

trim(v) == IF v = 3 THEN 1 ELSE v

invalid(f) == trim(inputs[f]) = 0

BugEffect(next) == IF next = settings \/ isEditing THEN UNCHANGED <<inputs, isEditing, typed>> ELSE inputs' = next /\ isEditing' = FALSE /\ typed' = {}

(* A cache that is given what it holds keeps it, and the effect sleeps.      *)
Effect(next) ==
    IF next = settings
    THEN UNCHANGED <<inputs, isEditing, typed>>
    ELSE inputs' = next /\ isEditing' = FALSE /\ typed' = {}

readCurrentPlayerSettings ==
    /\ Only("profile") /\ reading /\ reading' = FALSE
    /\ settings' = profile /\ Effect(profile)
    /\ UNCHANGED <<profile, saving, answer>> /\ Profile

setIsEditing ==
    /\ Acts("profile") /\ settings # NoSettings /\ ~isEditing /\ isEditing' = TRUE
    /\ UNCHANGED <<profile, settings, reading, inputs, typed, saving, answer>> /\ Profile

onChangeField ==
    /\ Acts("profile") /\ isEditing /\ saving = NoFields
    /\ \E f \in FieldNames : \E v \in 0..IF f = "alias" THEN 3 ELSE 2 :
        v # inputs[f] /\ inputs' = [inputs EXCEPT ![f] = v] /\ typed' = typed \cup {f}
    /\ UNCHANGED <<profile, settings, reading, isEditing, saving, answer>> /\ Profile

cancel ==
    /\ Only("profile") /\ isEditing /\ saving = NoFields
    /\ inputs' = settings /\ isEditing' = FALSE /\ typed' = {}
    /\ UNCHANGED <<profile, settings, reading, saving, answer>> /\ Profile

ReadonlyField == inputs

dirty == {f \in FieldNames : inputs[f] # settings[f]}

mutationFn ==
    /\ Only("profile") /\ isEditing /\ saving = NoFields /\ dirty # {}
    /\ IF \E f \in dirty : invalid(f)
       THEN reading' = TRUE /\ UNCHANGED saving
       ELSE saving' = [f \in dirty |-> trim(inputs[f])] /\ UNCHANGED reading
    /\ UNCHANGED <<profile, settings, inputs, isEditing, typed, answer>> /\ Profile

updateCurrentPlayerSettings ==
    /\ Only("profile") /\ saving # NoFields /\ answer = NoSettings
    /\ profile' = [f \in FieldNames |-> IF f \in DOMAIN saving THEN saving[f] ELSE profile[f]]
    /\ answer' = profile'
    /\ UNCHANGED <<settings, reading, inputs, isEditing, typed, saving>> /\ Profile

onSuccessProfile ==
    /\ Only("profile") /\ answer # NoSettings /\ answer' = NoSettings /\ saving' = NoFields /\ reading' = TRUE
    /\ settings' = answer /\ isEditing' = FALSE
    /\ IF answer = settings THEN UNCHANGED <<inputs, typed>> ELSE inputs' = answer /\ typed' = {}
    /\ UNCHANGED profile /\ Profile

onErrorProfile ==
    /\ Acts("profile") /\ saving # NoFields /\ saving' = NoFields /\ answer' = NoSettings /\ reading' = TRUE
    /\ UNCHANGED <<profile, settings, inputs, isEditing, typed>> /\ Profile

SetElsewhere ==
    /\ Acts("profile") /\ \E f \in FieldNames : profile' = [profile EXCEPT ![f] = 3 - @]
    /\ UNCHANGED <<settings, reading, inputs, isEditing, typed, saving, answer>> /\ Profile

RefocusProfile ==
    /\ Acts("profile") /\ ~reading /\ reading' = TRUE
    /\ UNCHANGED <<profile, settings, inputs, isEditing, typed, saving, answer>> /\ Profile

-----------------------------------------------------------------------------
(* Notifications: a page of them, and the number of the unread, which the    *)
(* bell and the sidebar ask for every minute on their own.                   *)

Row(i) == newest - i
readCurrentPlayerNotifications ==
    /\ Only("notes") /\ "list" \in asked /\ brought.list = NoPage
    /\ LET rows == {Row(i) : i \in pageIndex * pageSize .. pageIndex * pageSize + pageSize - 1} \cap 1..newest
       IN brought' = [brought EXCEPT !.list = [rows |-> rows, unread |-> rows \cap unread, total |-> newest]]
    /\ behind' = behind \ {"list"}
    /\ UNCHANGED <<newest, unread, notes, bell, pageIndex, pageSize, asked, known, marks>> /\ Notes

readCurrentPlayerNotificationUnreadCount ==
    /\ Only("notes") /\ "count" \in asked /\ brought.count = Unset
    /\ brought' = [brought EXCEPT !.count = Cardinality(unread)] /\ behind' = behind \ {"count"}
    /\ UNCHANGED <<newest, unread, notes, bell, pageIndex, pageSize, asked, known, marks>> /\ Notes

(* The query of a page; that of the number is one.                           *)
PageKey == <<pageIndex, pageSize>>
BellKey == <<0, 0>>
KeyOf(q) == IF q = "list" THEN PageKey ELSE BellKey

NotificationsArrive ==
    /\ Only("notes") /\ brought.list # NoPage
    /\ notes' = brought.list /\ known' = known \cup {PageKey}
    /\ brought' = [brought EXCEPT !.list = NoPage] /\ asked' = asked \ {"list"}
    /\ UNCHANGED <<newest, unread, bell, pageIndex, pageSize, behind, marks>> /\ Notes

CountArrives ==
    /\ Only("notes") /\ brought.count # Unset
    /\ bell' = brought.count /\ known' = known \cup {BellKey}
    /\ brought' = [brought EXCEPT !.count = Unset] /\ asked' = asked \ {"count"}
    /\ UNCHANGED <<newest, unread, notes, pageIndex, pageSize, behind, marks>> /\ Notes

(* A page that cannot be read counts none: the reader is taken to the first. *)
NotificationsFail ==
    /\ Acts("notes") /\ "list" \in asked /\ behind' = behind \cup {"list"}
    /\ brought' = [brought EXCEPT !.list = NoPage]
    /\ IF PageKey \in known THEN asked' = asked \ {"list"} /\ UNCHANGED <<notes, pageIndex>>
       ELSE /\ notes' = NoPage /\ pageIndex' = 0
            /\ asked' = IF pageIndex = 0 THEN asked \ {"list"} ELSE asked
    /\ UNCHANGED <<newest, unread, bell, pageSize, known, marks>> /\ Notes

CountFails ==
    /\ Acts("notes") /\ "count" \in asked /\ asked' = asked \ {"count"} /\ behind' = behind \cup {"count"}
    /\ brought' = [brought EXCEPT !.count = Unset]
    /\ UNCHANGED <<newest, unread, notes, bell, pageIndex, pageSize, known, marks>> /\ Notes

refetchInterval ==
    /\ Acts("notes") /\ "count" \notin asked /\ asked' = asked \cup {"count"}
    /\ UNCHANGED <<newest, unread, notes, bell, pageIndex, pageSize, brought, known, behind, marks>> /\ Notes

NotificationArrives ==
    /\ Acts("notes") /\ newest' = newest + 1 /\ unread' = unread \cup {newest + 1} /\ behind' = {"list", "count"}
    /\ UNCHANGED <<notes, bell, pageIndex, pageSize, asked, brought, known, marks>> /\ Notes

pageCount == Max({1, (notes.total + pageSize - 1) \div pageSize})

setPageIndex ==
    /\ Acts("notes") /\ \E p \in 0..pageCount - 1 : p # pageIndex /\ pageIndex' = p
    /\ asked' = asked \cup {"list"} /\ brought' = [brought EXCEPT !.list = NoPage]
    /\ UNCHANGED <<newest, unread, notes, bell, pageSize, known, behind, marks>> /\ Notes

onPageSizeChange ==
    /\ Acts("notes") /\ pageSize' = 3 - pageSize /\ pageIndex' = 0 /\ asked' = asked \cup {"list"}
    /\ brought' = [brought EXCEPT !.list = NoPage]
    /\ UNCHANGED <<newest, unread, notes, bell, known, behind, marks>> /\ Notes

handleNotificationClick ==
    /\ Acts("notes") /\ \E n \in notes.unread : marks' = marks \cup {[what |-> n, done |-> FALSE]}
    /\ UNCHANGED <<newest, unread, notes, bell, pageIndex, pageSize, asked, brought, known, behind>> /\ Notes

markAllRead ==
    /\ Acts("notes") /\ bell # 0 /\ ~\E m \in marks : m.what = 0
    /\ marks' = marks \cup {[what |-> 0, done |-> FALSE]}
    /\ UNCHANGED <<newest, unread, notes, bell, pageIndex, pageSize, asked, brought, known, behind>> /\ Notes

Execute(m, left) ==
    /\ ~m.done /\ unread' = left /\ marks' = (marks \ {m}) \cup {[m EXCEPT !.done = TRUE]}
    /\ UNCHANGED <<newest, notes, bell, pageIndex, pageSize, asked, brought, known, behind>> /\ Notes

markCurrentPlayerNotificationRead == Only("notes") /\ \E m \in marks : m.what # 0 /\ Execute(m, unread \ {m.what})

markAllCurrentPlayerNotificationsRead == Only("notes") /\ \E m \in marks : m.what = 0 /\ Execute(m, {})

BuginvalidateNotifications == {"count"}

invalidateNotifications == {"list", "count"}

(* A read under way starts anew, but for the first one of a query: it is     *)
(* kept, with what the server may have read for it before the mark.          *)
Kept == {q \in invalidateNotifications \cap asked : KeyOf(q) \notin known}

MarkSucceeds ==
    /\ Only("notes") /\ \E m \in marks : m.done /\ marks' = marks \ {m}
    /\ asked' = asked \cup invalidateNotifications
    /\ brought' = [q \in {"list", "count"} |-> IF q \in invalidateNotifications \ Kept THEN NothingRead[q] ELSE brought[q]]
    /\ behind' = behind \cup {q \in Kept : brought[q] # NothingRead[q]}
    /\ UNCHANGED <<newest, unread, notes, bell, pageIndex, pageSize, known>> /\ Notes

(* A refused mark says nothing and asks for nothing, nor does one whose      *)
(* answer is lost.                                                           *)
MarkFails ==
    /\ Acts("notes")
    /\ \E m \in marks :
        marks' = marks \ {m} /\ behind' = IF m.done THEN {"list", "count"} ELSE behind
    /\ UNCHANGED <<newest, unread, notes, bell, pageIndex, pageSize, asked, brought, known>> /\ Notes

-----------------------------------------------------------------------------
(* Webhooks.  The three kinds of change run side by side, each one at a      *)
(* time; their answers are the list of the server.                           *)

readCurrentPlayerWebhooks ==
    /\ Only("hooks") /\ hooksRead = "asked" /\ hooksRead' = "fresh" /\ cachedHooks' = hooks
    /\ UNCHANGED <<hooks, ids, add, editing, hookCalls, test, mine, stray>> /\ Hooks

WebhooksFail ==
    /\ Acts("hooks") /\ hooksRead = "asked" /\ hooksRead' = "behind"
    /\ UNCHANGED <<hooks, cachedHooks, ids, add, editing, hookCalls, test, mine, stray>> /\ Hooks

RefocusHooks ==
    /\ Acts("hooks") /\ hooksRead # "asked" /\ hooksRead' = "asked"
    /\ UNCHANGED <<hooks, cachedHooks, ids, add, editing, hookCalls, test, mine, stray>> /\ Hooks

Pending(kind) == \E c \in hookCalls : c.kind = kind
NoDialog == ~add.open /\ editing = ClosedEdit
busy == hookCalls # {}

Send(kind, id, url) ==
    /\ hookCalls' = hookCalls \cup {[kind |-> kind, id |-> id, url |-> url, state |-> "sent", list |-> NoHooks]}
    /\ UNCHANGED <<hooks, cachedHooks, ids, editing, test, hooksRead, mine, stray>> /\ Hooks

setIsAddDialogOpen ==
    /\ Acts("hooks") /\ NoDialog /\ add' = [add EXCEPT !.open = TRUE]
    /\ UNCHANGED <<hooks, cachedHooks, ids, editing, hookCalls, test, hooksRead, mine, stray>> /\ Hooks

setNewWebhookUrl ==
    /\ Acts("hooks") /\ add.open /\ ~Pending("create") /\ add' = [add EXCEPT !.url = 2]
    /\ UNCHANGED <<hooks, cachedHooks, ids, editing, hookCalls, test, hooksRead, mine, stray>> /\ Hooks

BugresetAddDialog == [ClosedAdd EXCEPT !.created = add.created]

resetAddDialog == ClosedAdd

closeAdd ==
    /\ Only("hooks") /\ add.open /\ add' = resetAddDialog
    /\ UNCHANGED <<hooks, cachedHooks, ids, editing, hookCalls, test, hooksRead, mine, stray>> /\ Hooks

submitAdd ==
    /\ Only("hooks") /\ add.open /\ add.url # 0 /\ add.created = 0 /\ ~Pending("create")
    /\ add' = [add EXCEPT !.sent = TRUE] /\ Send("create", 0, add.url)

onEdit ==
    /\ Acts("hooks") /\ NoDialog /\ ~busy
    /\ \E h \in DOMAIN cachedHooks : editing' = [id |-> h, url |-> cachedHooks[h].url]
    /\ UNCHANGED <<hooks, cachedHooks, ids, add, hookCalls, test, hooksRead, mine, stray>> /\ Hooks

setEditingUrl ==
    /\ Acts("hooks") /\ editing.id # 0 /\ ~Pending("update") /\ editing' = [editing EXCEPT !.url = 3]
    /\ UNCHANGED <<hooks, cachedHooks, ids, add, hookCalls, test, hooksRead, mine, stray>> /\ Hooks

closeEdit ==
    /\ Only("hooks") /\ editing.id # 0 /\ editing' = ClosedEdit
    /\ UNCHANGED <<hooks, cachedHooks, ids, add, hookCalls, test, hooksRead, mine, stray>> /\ Hooks

submitEdit ==
    /\ Only("hooks") /\ editing.id # 0 /\ ~Pending("update") /\ test.id = 0
    /\ Send("update", editing.id, editing.url) /\ UNCHANGED add

onToggle ==
    /\ Acts("hooks") /\ NoDialog /\ ~busy
    /\ \E h \in DOMAIN cachedHooks : Send("update", h, 0)
    /\ UNCHANGED add

onDelete ==
    /\ Acts("hooks") /\ NoDialog /\ ~busy
    /\ \E h \in DOMAIN cachedHooks : Send("delete", h, 0)
    /\ UNCHANGED add

Clash(c) == c.url # 0 /\ \E h \in DOMAIN hooks : h # c.id /\ hooks[h].url = c.url
Unknown(c) == c.kind # "create" /\ c.id \notin DOMAIN hooks

createCurrentPlayerWebhook ==
    /\ Only("hooks") /\ \E c \in hookCalls :
        /\ c.kind = "create" /\ c.state = "sent" /\ ~Clash(c)
        /\ hooks' = (ids + 1 :> [url |-> c.url, enabled |-> TRUE]) @@ hooks /\ ids' = ids + 1 /\ mine' = ids + 1
        /\ hookCalls' = (hookCalls \ {c}) \cup {[c EXCEPT !.state = "done"]}
    /\ UNCHANGED <<cachedHooks, add, editing, test, hooksRead, stray>> /\ Hooks

updateCurrentPlayerWebhook ==
    /\ Only("hooks") /\ \E c \in hookCalls :
        /\ c.kind = "update" /\ c.state = "sent" /\ ~Unknown(c) /\ ~Clash(c)
        /\ hooks' = IF c.url = 0 THEN [hooks EXCEPT ![c.id].enabled = ~@] ELSE [hooks EXCEPT ![c.id].url = c.url]
        /\ hookCalls' = (hookCalls \ {c}) \cup {[c EXCEPT !.state = "done"]}
    /\ UNCHANGED <<cachedHooks, ids, add, editing, test, hooksRead, mine, stray>> /\ Hooks

deleteCurrentPlayerWebhook ==
    /\ Only("hooks") /\ \E c \in hookCalls :
        /\ c.kind = "delete" /\ c.state = "sent" /\ ~Unknown(c)
        /\ hooks' = [h \in DOMAIN hooks \ {c.id} |-> hooks[h]]
        /\ hookCalls' = (hookCalls \ {c}) \cup {[c EXCEPT !.state = "done"]}
    /\ UNCHANGED <<cachedHooks, ids, add, editing, test, hooksRead, mine, stray>> /\ Hooks

Listed ==
    /\ Only("hooks") /\ \E c \in hookCalls :
        c.state = "done" /\ hookCalls' = (hookCalls \ {c}) \cup {[c EXCEPT !.state = "listed", !.list = hooks]}
    /\ UNCHANGED <<hooks, cachedHooks, ids, add, editing, test, hooksRead, mine, stray>> /\ Hooks

(* The webhook the dialog then tests is the last of the answer, whatever the *)
(* dialog was used for in the meantime.                                      *)
onSuccessHooks ==
    /\ Only("hooks") /\ \E c \in hookCalls :
        /\ c.state = "listed" /\ hookCalls' = hookCalls \ {c} /\ cachedHooks' = c.list /\ hooksRead' = "asked"
        /\ IF c.kind = "create"
           THEN /\ add' = [add EXCEPT !.created = Max(DOMAIN c.list \cup {0})]
                /\ stray' = (stray \/ ~add.sent)
           ELSE UNCHANGED <<add, stray>>
        /\ editing' = IF c.kind = "update" THEN ClosedEdit ELSE editing
    /\ UNCHANGED <<hooks, ids, test, mine>> /\ Hooks

handleErrorHooks ==
    /\ part = "hooks"
    /\ \E c \in hookCalls :
        /\ c.state = "sent" /\ hookCalls' = hookCalls \ {c}
        /\ IF Clash(c) \/ Unknown(c) THEN UNCHANGED acts ELSE Acts("hooks")
    /\ hooksRead' = "asked"
    /\ UNCHANGED <<hooks, cachedHooks, ids, add, editing, test, mine, stray>> /\ Hooks

TestTarget == IF add.open THEN add.created ELSE editing.id
sendTest ==
    /\ Acts("hooks") /\ test = NoTest /\ TestTarget # 0 /\ (editing.id # 0 => ~Pending("update"))
    /\ test' = [NoTest EXCEPT !.id = TestTarget]
    /\ UNCHANGED <<hooks, cachedHooks, ids, add, editing, hookCalls, hooksRead, mine, stray>> /\ Hooks

testCurrentPlayerWebhook ==
    /\ Only("hooks") /\ test.id \in DOMAIN hooks /\ test.row = NoTest.row
    /\ test' = [test EXCEPT !.row = hooks[test.id]]
    /\ UNCHANGED <<hooks, cachedHooks, ids, add, editing, hookCalls, hooksRead, mine, stray>> /\ Hooks

BugAfterTest == hooksRead

AfterTest == "asked"

testMutation ==
    /\ Only("hooks") /\ test.id # 0 /\ (test.row # NoTest.row \/ test.id \notin DOMAIN hooks)
    /\ cachedHooks' = [h \in DOMAIN cachedHooks |-> IF h = test.id /\ test.row # NoTest.row THEN test.row ELSE cachedHooks[h]]
    /\ test' = NoTest /\ hooksRead' = AfterTest
    /\ UNCHANGED <<hooks, ids, add, editing, hookCalls, mine, stray>> /\ Hooks

Committing == \E c \in hookCalls : c.kind = "create" /\ c.state = "done"
OtherTab ==
    /\ Acts("hooks")
    /\ \/ /\ hooks' = (ids + 1 :> [url |-> ids + 4, enabled |-> TRUE]) @@ hooks /\ ids' = ids + 1
          /\ stray' = (stray \/ Committing)
       \/ \E h \in DOMAIN hooks : hooks' = [g \in DOMAIN hooks \ {h} |-> hooks[g]] /\ stray' = (stray \/ h = mine) /\ UNCHANGED ids
    /\ hooksRead' = IF hooksRead = "asked" THEN "asked" ELSE "behind"
    /\ UNCHANGED <<cachedHooks, add, editing, hookCalls, test, mine>> /\ Hooks

-----------------------------------------------------------------------------
(* The appearance.  A tab reads the stored preferences once, and writes all  *)
(* of its copy when one of them is changed.                                  *)

BugupdatePreferences(t, f) == [Defaults EXCEPT ![f] = 1 - tabs[t][f]]

updatePreferences(t, f) == [tabs[t] EXCEPT ![f] = 1 - @]

setPreference ==
    /\ Acts("look") /\ \E t \in DOMAIN tabs, f \in {"flag", "icon"} :
        /\ tabs' = [tabs EXCEPT ![t] = updatePreferences(t, f)] /\ stored' = tabs'[t]
        /\ chosen' = [chosen EXCEPT ![f] = 1 - tabs[t][f]]
        /\ reverted' = (reverted \/ tabs[t] # stored)
    /\ UNCHANGED <<theme, dark, worn, press>> /\ Look

readStoredPreferences ==
    /\ Acts("look") /\ \E t \in DOMAIN tabs : tabs' = [tabs EXCEPT ![t] = stored]
    /\ UNCHANGED <<stored, chosen, reverted, theme, dark, worn, press>> /\ Look

getResolvedTheme(th, d) == IF th = "system" THEN (IF d THEN "dark" ELSE "light") ELSE th

SetTheme(th) == theme' = th /\ worn' = getResolvedTheme(th, dark)

setTheme ==
    /\ Acts("look") /\ \E th \in {"light", "dark", "system"} : th # theme /\ SetTheme(th)
    /\ press' = IF press.menu THEN [press EXCEPT !.menu = FALSE, !.longPress = FALSE, !.held = FALSE] ELSE press
    /\ UNCHANGED <<stored, tabs, chosen, reverted, dark>> /\ Look

BughandleChange(d) == getResolvedTheme("system", d)

handleChange(d) == IF theme = "system" THEN getResolvedTheme("system", d) ELSE worn

PreferenceOfSystem ==
    /\ Acts("look") /\ dark' = ~dark /\ worn' = handleChange(~dark)
    /\ UNCHANGED <<stored, tabs, chosen, reverted, theme, press>> /\ Look

Press(next) == press' = next /\ UNCHANGED <<stored, tabs, chosen, reverted, theme, dark, worn>> /\ Look

handlePointerDown ==
    /\ Acts("look") /\ press.state = "up"
    /\ Press([press EXCEPT !.state = "down", !.longPress = FALSE, !.held = FALSE])

Opened == [press EXCEPT !.state = IF @ = "down" THEN "held" ELSE @, !.longPress = TRUE, !.menu = TRUE, !.held = TRUE]

LongPress == Only("look") /\ press.state = "down" /\ Press(Opened)

handleContextMenu == Acts("look") /\ press.state # "click" /\ Press(Opened)

BughandlePointerUp == [press EXCEPT !.state = "click", !.longPress = FALSE]

handlePointerUp == [press EXCEPT !.state = "click"]

PointerUp == Only("look") /\ press.state \in {"down", "held"} /\ Press(handlePointerUp)

handlePointerCancel == Only("look") /\ press.state \in {"down", "held"} /\ Press([press EXCEPT !.state = "up"])

handleClick ==
    /\ Only("look") /\ press.state = "click"
    /\ IF press.longPress
       THEN press' = [press EXCEPT !.state = "up", !.longPress = FALSE] /\ UNCHANGED <<theme, worn>>
       ELSE /\ SetTheme(IF worn = "dark" THEN "light" ELSE "dark")
            /\ press' = [press EXCEPT !.state = "up", !.menu = FALSE, !.slipped = @ \/ press.held]
    /\ UNCHANGED <<stored, tabs, chosen, reverted, dark>> /\ Look

closeMenu ==
    /\ Only("look") /\ press.menu
    /\ Press([press EXCEPT !.menu = FALSE, !.longPress = FALSE, !.held = FALSE])

-----------------------------------------------------------------------------
(* The settings of the site: a secret, and two switches.                     *)

App == UNCHANGED <<app, cachedApp, appRead, appCalls, overlap>>
Secret == UNCHANGED <<secret, shownSecret, status, confirm, secretCalls, usurped>>

readAdminQqBindingSecretStatus ==
    /\ Only("site") /\ status.asked /\ status' = [configured |-> secret.now # 0, asked |-> FALSE]
    /\ UNCHANGED <<secret, shownSecret, confirm, secretCalls, usurped>> /\ App /\ Site

RefocusSite ==
    /\ Acts("site") /\ ~status.asked /\ appRead = NoApp /\ status' = [status EXCEPT !.asked = TRUE] /\ appRead' = app
    /\ overlap' = (overlap \/ appCalls # {})
    /\ UNCHANGED <<secret, shownSecret, confirm, secretCalls, usurped, app, cachedApp, appCalls>> /\ Site

Calling(kind) == \E c \in secretCalls : c.kind = kind

Ask(kind) ==
    /\ ~Calling(kind) /\ secretCalls' = secretCalls \cup {[kind |-> kind, got |-> Unset]}
    /\ UNCHANGED <<secret, shownSecret, status, confirm, usurped>> /\ App /\ Site

generate == Acts("site") /\ ~status.configured /\ confirm = "none" /\ Ask("generate")

reveal == Acts("site") /\ status.configured /\ shownSecret = 0 /\ confirm = "none" /\ Ask("reveal")

setConfirmationAction ==
    /\ Acts("site") /\ status.configured /\ secretCalls = {} /\ confirm' \in {"rotate", "revoke"}
    /\ UNCHANGED <<secret, shownSecret, status, secretCalls, usurped>> /\ App /\ Site

ConfirmAction ==
    /\ Only("site") /\ confirm # "none" /\ ~Calling("rotate") /\ ~Calling("revoke") /\ Ask(confirm)

closeConfirmation ==
    /\ Only("site") /\ confirm # "none" /\ confirm' = "none"
    /\ UNCHANGED <<secret, shownSecret, status, secretCalls, usurped>> /\ App /\ Site

(* What was answered before the change and arrives after it is out of date.  *)
Seen == \E c \in secretCalls : c.got # Unset

Change(c, now) ==
    /\ secret' = [now |-> now, made |-> IF now = 0 THEN secret.made ELSE now]
    /\ secretCalls' = (secretCalls \ {c}) \cup {[c EXCEPT !.got = now]}
    /\ usurped' = (usurped \/ Seen)
    /\ UNCHANGED <<shownSecret, status, confirm>> /\ App /\ Site

Waiting(kind) == {c \in secretCalls : c.kind = kind /\ c.got = Unset}

generateAdminQqBindingSecret == Only("site") /\ secret.now = 0 /\ \E c \in Waiting("generate") : Change(c, secret.made + 1)

rotateAdminQqBindingSecret == Only("site") /\ secret.now # 0 /\ \E c \in Waiting("rotate") : Change(c, secret.made + 1)

revokeAdminQqBindingSecret == Only("site") /\ secret.now # 0 /\ \E c \in Waiting("revoke") : Change(c, 0)

revealAdminQqBindingSecret ==
    /\ Only("site") /\ secret.now # 0 /\ \E c \in Waiting("reveal") :
        secretCalls' = (secretCalls \ {c}) \cup {[c EXCEPT !.got = secret.now]}
    /\ UNCHANGED <<secret, shownSecret, status, confirm, usurped>> /\ App /\ Site

BugSetSecret(c) == IF c.kind = "revoke" THEN shownSecret ELSE c.got

SetSecret(c) == c.got

SecretAnswers ==
    /\ Only("site") /\ \E c \in secretCalls :
        /\ c.got # Unset /\ secretCalls' = secretCalls \ {c} /\ shownSecret' = SetSecret(c)
        /\ confirm' = IF c.kind \in {"rotate", "revoke"} THEN "none" ELSE confirm
        /\ status' = IF c.kind = "reveal" THEN status ELSE [status EXCEPT !.asked = TRUE]
    /\ UNCHANGED <<secret, usurped>> /\ App /\ Site

SecretRefused ==
    /\ Acts("site") /\ \E c \in secretCalls :
        /\ secretCalls' = secretCalls \ {c}
        /\ usurped' = (usurped \/ (c.kind # "reveal" /\ c.got # Unset))
    /\ UNCHANGED <<secret, shownSecret, status, confirm>> /\ App /\ Site

OtherAdmin ==
    /\ Acts("site") /\ secret' \in {[now |-> 0, made |-> secret.made], [now |-> secret.made + 1, made |-> secret.made + 1]}
    /\ usurped' = TRUE
    /\ UNCHANGED <<shownSecret, status, confirm, secretCalls>> /\ App /\ Site

readAdminAppSettings ==
    /\ Only("site") /\ appRead # NoApp /\ appRead' = NoApp /\ cachedApp' = appRead
    /\ UNCHANGED <<app, appCalls, overlap>> /\ Secret /\ Site

Flip(field) ==
    /\ Acts("site") /\ cachedApp # NoApp /\ ~\E c \in appCalls : c.field = field
    /\ appCalls' = appCalls \cup {[field |-> field, value |-> 1 - cachedApp[field], got |-> NoApp]}
    /\ overlap' = (overlap \/ appCalls # {} \/ appRead # NoApp)
    /\ UNCHANGED <<app, cachedApp, appRead>> /\ Secret /\ Site

communityLinks == Flip("links")

recordsSync == Flip("sync")

AppSettingsFail ==
    /\ Acts("site") /\ appRead # NoApp /\ appRead' = NoApp
    /\ UNCHANGED <<app, cachedApp, appCalls, overlap>> /\ Secret /\ Site

updateAdminAppSettings ==
    /\ Only("site") /\ \E c \in appCalls :
        /\ c.got = NoApp /\ app' = [app EXCEPT ![c.field] = c.value]
        /\ appCalls' = (appCalls \ {c}) \cup {[c EXCEPT !.got = app']}
    /\ UNCHANGED <<cachedApp, appRead, overlap>> /\ Secret /\ Site

BugSetQueryData(c) == IF c.field = "sync" THEN cachedApp ELSE c.got

SetQueryData(c) == c.got

onSuccessApp ==
    /\ Only("site") /\ \E c \in appCalls : c.got # NoApp /\ appCalls' = appCalls \ {c} /\ cachedApp' = SetQueryData(c)
    /\ UNCHANGED <<app, appRead, overlap>> /\ Secret /\ Site

onErrorApp ==
    /\ Acts("site") /\ \E c \in appCalls : appCalls' = appCalls \ {c} /\ overlap' = (overlap \/ c.got # NoApp)
    /\ UNCHANGED <<app, cachedApp, appRead>> /\ Secret /\ Site

-----------------------------------------------------------------------------

Progress ==
    \/ readCurrentPlayerSettings \/ updateCurrentPlayerSettings \/ onSuccessProfile
    \/ readCurrentPlayerNotifications \/ readCurrentPlayerNotificationUnreadCount \/ NotificationsArrive \/ CountArrives
    \/ markCurrentPlayerNotificationRead \/ markAllCurrentPlayerNotificationsRead \/ MarkSucceeds
    \/ readCurrentPlayerWebhooks \/ createCurrentPlayerWebhook \/ updateCurrentPlayerWebhook
    \/ deleteCurrentPlayerWebhook \/ Listed \/ onSuccessHooks \/ testCurrentPlayerWebhook \/ testMutation
    \/ readAdminQqBindingSecretStatus \/ generateAdminQqBindingSecret \/ rotateAdminQqBindingSecret
    \/ revokeAdminQqBindingSecret \/ revealAdminQqBindingSecret \/ SecretAnswers
    \/ readAdminAppSettings \/ updateAdminAppSettings \/ onSuccessApp

Failures == NotificationsFail \/ CountFails \/ WebhooksFail \/ AppSettingsFail \/ onErrorProfile \/ MarkFails \/ handleErrorHooks \/ SecretRefused \/ onErrorApp

People ==
    \/ setIsEditing \/ onChangeField \/ cancel \/ mutationFn \/ SetElsewhere \/ RefocusProfile
    \/ refetchInterval \/ NotificationArrives \/ setPageIndex \/ onPageSizeChange
    \/ handleNotificationClick \/ markAllRead
    \/ RefocusHooks \/ setIsAddDialogOpen \/ setNewWebhookUrl \/ closeAdd \/ submitAdd \/ onEdit
    \/ setEditingUrl \/ closeEdit \/ submitEdit \/ onToggle \/ onDelete \/ sendTest \/ OtherTab
    \/ setPreference \/ readStoredPreferences \/ setTheme \/ PreferenceOfSystem \/ handlePointerDown
    \/ LongPress \/ handleContextMenu \/ PointerUp \/ handlePointerCancel \/ handleClick \/ closeMenu
    \/ RefocusSite \/ generate \/ reveal \/ setConfirmationAction \/ ConfirmAction \/ closeConfirmation
    \/ OtherAdmin \/ communityLinks \/ recordsSync

Next == Progress \/ Failures \/ People

Spec == Init /\ [][Next]_vars

-----------------------------------------------------------------------------

TypeOK ==
    /\ saving \in [DOMAIN saving -> 1..2] /\ DOMAIN saving \subseteq FieldNames /\ typed \subseteq FieldNames
    /\ profile \in [FieldNames -> 1..2] /\ settings \in [FieldNames -> 0..2] /\ inputs \in [FieldNames -> 0..3]
    /\ isEditing \in BOOLEAN /\ reading \in BOOLEAN /\ answer \in [FieldNames -> 0..2]
    /\ unread \subseteq 1..newest /\ notes.unread \subseteq notes.rows /\ notes.rows \subseteq 1..newest
    /\ asked \subseteq {"list", "count"} /\ behind \subseteq {"list", "count"} /\ pageIndex \in Nat /\ pageSize \in 1..2
    /\ DOMAIN hooks \subseteq 1..ids /\ DOMAIN cachedHooks \subseteq 1..ids /\ add.created \in 0..ids /\ test.id \in 0..ids
    /\ hooksRead \in {"fresh", "asked", "behind"} /\ mine \in 0..ids /\ stray \in BOOLEAN
    /\ stored \in [{"flag", "icon"} -> 0..1] /\ worn \in {"light", "dark"} /\ press.state \in {"up", "down", "held", "click"}
    /\ secret.now \in 0..secret.made /\ shownSecret \in 0..secret.made /\ confirm \in {"none", "rotate", "revoke"}
    /\ app \in [{"links", "sync"} -> 0..1] /\ overlap \in BOOLEAN /\ usurped \in BOOLEAN /\ reverted \in BOOLEAN

(* A save would send the fields that were typed in since the form was last   *)
(* filled, and no others: what another tab set in the meantime is not put    *)
(* back to what this one had read.                                           *)
SavesAreMine == isEditing /\ saving = NoFields => dirty \subseteq typed

(* While nothing is being edited the card shows what the server said last,   *)
(* but for blanks around an alias that came to nothing.                      *)
CardTellsTruth ==
    ~isEditing /\ saving = NoFields => trim(ReadonlyField.alias) = settings.alias /\ ReadonlyField.country = settings.country

(* Once nothing is under way the page shows the unread as the server has     *)
(* them, and the bell their number: but for notifications that came since, a *)
(* last read that failed, and a first read that a mark met under way.        *)
BellIsTrue ==
    marks = {} =>
        /\ "list" \notin asked \cup behind => notes.unread = notes.rows \cap unread
        /\ "count" \notin asked \cup behind => bell = Cardinality(unread)

(* Once nothing is under way the webhooks are those of the server, the state *)
(* a late answer of a test brings included, unless another tab has changed   *)
(* them or the last read has failed.                                         *)
WebhooksTellTruth == hookCalls = {} /\ test.id = 0 /\ hooksRead = "fresh" => cachedHooks = hooks

(* The dialog offers to test the webhook it created: unless it was closed    *)
(* before the answer, or another tab had its part in that answer.            *)
TestsItsOwn == add.created # 0 /\ ~stray => add.open /\ add.sent /\ add.created = mine

(* What was last chosen is what is stored, unless a tab with an old copy of  *)
(* the preferences wrote it back.                                            *)
ChoicesAreKept == reverted \/ stored = chosen

(* The page wears the theme that was chosen, and that of the system only as  *)
(* long as this is the choice.                                               *)
PageWearsTheme == worn = getResolvedTheme(theme, dark)

(* A press that opened the menu of the themes does not change the theme too. *)
HoldingKeepsTheme == ~press.slipped

(* A secret in sight is one the bot can use, unless it was replaced elsewhere*)
(* or shown by an answer that was older, or its change has no answer yet.     *)
ShownSecretIsLive ==
    \/ shownSecret \in {0, secret.now} \/ usurped
    \/ \E c \in secretCalls : c.kind # "reveal" /\ c.got # Unset

(* The switches stand as the server has them, unless two calls ran side by   *)
(* side, as each answer brings both switches and the last to arrive wins, or *)
(* an answer was lost: nothing is asked again.                               *)
SwitchesTellTruth == appCalls = {} /\ appRead = NoApp /\ ~overlap /\ cachedApp # NoApp => cachedApp = app

=============================================================================

----------------------------- MODULE AdminDesk -----------------------------
(***************************************************************************)
(* The desks of the administrators: tables of players, users, social links  *)
(* and achievements, each row with an editor that starts from the row of    *)
(* the table and sends some of its fields; and the search for second        *)
(* accounts among the player sessions.                                      *)
(***************************************************************************)
EXTENDS Integers, FiniteSets

CONSTANTS
    Rows,        \* the rows of a table, numbered from 1
    MaxActs      \* bound on what people do and what goes wrong

VARIABLES
    part,        \* "players", "users", "links", "tournaments", "achievements" or "alts"
    server,      \* [Rows -> [a, b]]: alias and country, roles and activity, url and verified, placement
    data, request, searching, missed, \* the rows held; the read under way; a search is typed; a change not asked for
    open, captured, form,             \* the row being edited, as it was when opened, and its fields as they stand
    touched, typed, stale,            \* the fields typed in, what was typed, and whether the row was out of date
    calls,                            \* changes sent and not answered: [kind, row, a, b]
    wish, excused,                    \* history: what each field was last set to; rows where the code has a loss
    altsOpen, selectedPlayer, searchInput, box, days, \* the dialog; the box is the text in sight
    lookup, result, dropped,          \* the lookup under way and its result; the box lost its text
    acts

table == <<data, request, searching, missed>>
editor == <<open, captured, form, touched, typed, stale>>
history == <<wish, excused>>
alts == <<altsOpen, selectedPlayer, searchInput, box, days, lookup, result, dropped>>
vars == <<part, server, table, editor, calls, history, alts, acts>>

None == -1
NoRow == [a |-> None, b |-> None]
Blank == [a |-> 0, b |-> 0]
NoData == [r \in {} |-> NoRow]
Quiet == [stage |-> "none", rows |-> NoData]
Asked == [stage |-> "asked", rows |-> NoData]
Brings(rows) == [stage |-> "read", rows |-> rows]
NoLookup == [who |-> 0, days |-> 0]
Gone == [a |-> 9, b |-> 9]

Init ==
    /\ part \in {"players", "users", "links", "tournaments", "achievements", "alts"}
    /\ server = [r \in Rows |-> Blank]
    /\ data = NoData /\ request = Asked /\ searching = FALSE /\ missed = FALSE
    /\ open = 0 /\ captured = NoRow /\ form = NoRow /\ touched = {} /\ typed = NoRow /\ stale = FALSE
    /\ calls = {} /\ wish = server /\ excused = {}
    /\ altsOpen = FALSE /\ selectedPlayer = 0 /\ searchInput = 0 /\ box = 0 /\ days = 1
    /\ lookup = NoLookup /\ result = NoLookup /\ dropped = FALSE
    /\ acts = 0

Acts == acts < MaxActs /\ acts' = acts + 1
At(p) == Acts /\ part = p

-----------------------------------------------------------------------------
(* The tables.  The form of a player follows its row; the others keep the   *)
(* row they were opened on.                                                 *)

Reset(row) == form' = row /\ touched' = {} /\ typed' = NoRow

PlayerChanged(rows) == part = "players" /\ open # 0 /\ rows[open] # captured

(* The server reads the rows, and the table takes them when they are there. *)
Read(rows) ==
    /\ request = Asked /\ request' = Brings(rows) /\ missed' = FALSE
    /\ UNCHANGED <<part, server, data, searching, editor, calls, history, alts, acts>>

Arrive ==
    /\ request.stage = "read" /\ request' = Quiet /\ data' = request.rows
    /\ IF PlayerChanged(request.rows)
       THEN Reset(request.rows[open]) /\ captured' = request.rows[open]
       ELSE UNCHANGED <<form, touched, typed, captured>>
    /\ UNCHANGED <<part, server, searching, missed, open, stale, calls, history, alts, acts>>

Everything == [r \in {x \in Rows : server[x] # Gone} |-> server[r]]

readPlayers == part = "players" /\ ~searching /\ Read(Everything)

searchPlayers == part = "players" /\ searching /\ Read(Everything)

readUsers == part = "users" /\ ~searching /\ Read(Everything)

(* The users of a search are read one by one, and one that fails is left out*)
searchUsers == part = "users" /\ searching /\ \E S \in SUBSET Rows : Read([r \in S |-> server[r]])

readAdminPlayerSocialLinks == part = "links" /\ Read(Everything)

readAdminTournaments == part \in {"tournaments", "achievements"} /\ Read(Everything)

Fail ==
    /\ Acts /\ part # "alts" /\ request = Asked /\ request' = Quiet /\ missed' = TRUE
    /\ UNCHANGED <<part, server, data, searching, editor, calls, history, alts>>

(* A search has a query of its own.                                         *)
setSearchInput ==
    /\ part \in {"players", "users"} /\ open = 0
    /\ searching' = ~searching /\ data' = NoData /\ request' = Asked /\ missed' = FALSE
    /\ UNCHANGED <<part, server, editor, calls, history, alts, acts>>

Refocus ==
    /\ Acts /\ part # "alts" /\ request = Quiet /\ request' = Asked
    /\ UNCHANGED <<part, server, data, searching, missed, editor, calls, history, alts>>

OtherAdministrator ==
    /\ Acts /\ part # "alts"
    /\ \E r \in Rows, f \in {"a", "b"} :
        /\ server[r] # Gone
        /\ server' = [server EXCEPT ![r][f] = 1 - @] /\ excused' = excused \cup {r}
    /\ missed' = TRUE
    /\ UNCHANGED <<part, data, request, searching, editor, calls, wish, alts>>

-----------------------------------------------------------------------------
(* The editors.                                                             *)

OpenOn(r) ==
    /\ open = 0 /\ open' = r /\ captured' = data[r]
    /\ Reset(data[r])
    /\ stale' = (data[r] # server[r] \/ \E c \in calls : c.row = r)
    /\ UNCHANGED <<part, server, table, calls, history, alts>>

EditPlayer == At("players") /\ \E r \in DOMAIN data : OpenOn(r)

EditUser == At("users") /\ \E r \in DOMAIN data : OpenOn(r)

setDialogState == At("links") /\ \E r \in DOMAIN data : OpenOn(r)

setAchievementDialogState == At("achievements") /\ \E r \in DOMAIN data : OpenOn(r)

setTournamentDialogState == At("tournaments") /\ \E r \in DOMAIN data : OpenOn(r)

Fields == IF part \in {"players", "users", "tournaments"} THEN {"a", "b"} ELSE {"a"}

onChange ==
    /\ Acts /\ open # 0
    /\ \E f \in Fields :
        /\ form' = [form EXCEPT ![f] = 1 - @] /\ typed' = [typed EXCEPT ![f] = 1 - form[f]]
        /\ touched' = touched \cup {f}
    /\ UNCHANGED <<part, server, table, open, captured, stale, calls, history, alts>>

setIsOpen ==
    /\ open # 0 /\ open' = 0 /\ Reset(NoRow) /\ captured' = NoRow /\ stale' = FALSE
    /\ UNCHANGED <<part, server, table, calls, history, alts, acts>>

(* The dialog of an achievement starts again when the list of tournaments   *)
(* it chooses from is another one: what was typed is gone.                  *)
tournamentsChange ==
    /\ At("achievements") /\ open # 0 /\ Reset(captured)
    /\ UNCHANGED <<part, server, table, open, captured, stale, calls, history, alts>>

Send(kind, r, a, b, wished) ==
    /\ calls' = calls \cup {[kind |-> kind, row |-> r, a |-> a, b |-> b]}
    /\ wish' = [wish EXCEPT ![r] = [f \in {"a", "b"} |-> IF f \in DOMAIN wished THEN wished[f] ELSE @[f]]]

Typed == [f \in touched |-> form[f]]

Disputed == IF stale \/ \E c \in calls : c.row = open THEN excused \cup {open} ELSE excused

SaveAll ==
    /\ open # 0 /\ \A c \in calls : c.row # open
    /\ Send("save", open, form.a, form.b, Typed) /\ excused' = Disputed
    /\ UNCHANGED <<part, server, table, editor, alts>>

onSubmitPlayer == At("players") /\ SaveAll

onSubmitUser == At("users") /\ SaveAll

OneAtATime == open # 0 /\ \A c \in calls : c.kind # "save"

updateTournament ==
    /\ At("tournaments") /\ OneAtATime
    /\ Send("save", open, form.a, form.b, Typed) /\ excused' = Disputed
    /\ UNCHANGED <<part, server, table, editor, alts>>

BugupdateAchievement ==
    /\ At("achievements") /\ OneAtATime
    /\ Send("save", open, captured.a, None, Typed) /\ excused' = Disputed
    /\ UNCHANGED <<part, server, table, editor, alts>>

(* Only the placement of an achievement can be changed.                     *)
updateAchievement ==
    /\ At("achievements") /\ OneAtATime
    /\ Send("save", open, form.a, None, Typed) /\ excused' = Disputed
    /\ UNCHANGED <<part, server, table, editor, alts>>

(* The editor of a link sends its verification too, which it does not show. *)
submitLink ==
    /\ At("links") /\ OneAtATime
    /\ Send("save", open, form.a, form.b, Typed) /\ excused' = Disputed
    /\ UNCHANGED <<part, server, table, editor, alts>>

toggleVerified ==
    /\ At("links") /\ open = 0
    /\ \E r \in DOMAIN data :
        /\ server[r] # Gone
        /\ Send("toggle", r, None, 1 - data[r].b, [b |-> 1 - data[r].b])
        /\ excused' = IF \E c \in calls : c.row = r THEN excused \cup {r} ELSE excused
    /\ UNCHANGED <<part, server, table, editor, alts>>

deleteRow ==
    /\ Acts /\ part \in {"links", "tournaments", "achievements"} /\ open = 0
    /\ \E r \in DOMAIN data : calls' = calls \cup {[kind |-> "delete", row |-> r, a |-> None, b |-> None]} /\ excused' = excused \cup {r}
    /\ UNCHANGED <<part, server, table, editor, wish, alts>>

-----------------------------------------------------------------------------
(* The answers.                                                             *)

Value(sent, old) == IF sent = None THEN old ELSE sent

Applied(c) ==
    IF server[c.row] = Gone \/ c.kind = "delete" THEN Gone
    ELSE [a |-> Value(c.a, server[c.row].a), b |-> Value(c.b, server[c.row].b)]

BuginvalidateQueries == missed' = FALSE /\ UNCHANGED request

(* A search is not among the queries that a save asks again, and a first    *)
(* read is kept with what the server has read for it before the save.       *)
invalidateQueries ==
    IF searching \/ (data = NoData /\ request.stage = "read")
    THEN missed' = TRUE /\ UNCHANGED request
    ELSE missed' = FALSE /\ request' = Asked

(* The dialog of a link and that of an achievement close whatever they show *)
(* by then; that of a player or a user is the row's own.                    *)
Closes(c) == c.kind = "save" /\ (part \notin {"players", "users"} \/ c.row = open)

onSuccess ==
    /\ \E c \in calls :
        /\ calls' = calls \ {c} /\ server' = [server EXCEPT ![c.row] = Applied(c)]
        /\ IF Closes(c)
           THEN open' = 0 /\ captured' = NoRow /\ Reset(NoRow) /\ stale' = FALSE
           ELSE UNCHANGED <<open, captured, form, touched, typed>> /\ stale' = (stale \/ c.row = open)
    /\ invalidateQueries
    /\ UNCHANGED <<part, data, searching, history, alts, acts>>

onError ==
    /\ Acts
    /\ \E c \in calls : calls' = calls \ {c} /\ excused' = excused \cup {c.row}
    /\ IF part \in {"tournaments", "achievements"} THEN UNCHANGED <<request, missed>> ELSE invalidateQueries
    /\ UNCHANGED <<part, server, data, searching, editor, wish, alts>>

-----------------------------------------------------------------------------
(* The search for second accounts.                                          *)

Who == IF selectedPlayer # 0 THEN selectedPlayer ELSE searchInput
clampInt(v, min, max) == IF v < min THEN min ELSE IF v > max THEN max ELSE v
canLookup == Who # 0
ResetLookup == lookup' = NoLookup /\ result' = NoLookup

(* The button starts a lookup of the player the table is filtered by.  The  *)
(* box is mounted anew: it shows the player, but not what was typed before. *)
FindAlts ==
    /\ At("alts") /\ ~altsOpen /\ altsOpen' = TRUE
    /\ \E initialPlayer \in 0 .. 2 :
        IF initialPlayer # 0
        THEN /\ selectedPlayer' = initialPlayer /\ box' = initialPlayer /\ dropped' = FALSE
             /\ lookup' = [who |-> initialPlayer, days |-> clampInt(days, 1, 2)] /\ result' = NoLookup
        ELSE /\ box' = selectedPlayer /\ dropped' = (selectedPlayer = 0 /\ searchInput # 0)
             /\ UNCHANGED <<selectedPlayer, lookup, result>>
    /\ UNCHANGED <<part, server, table, editor, calls, history, searchInput, days>>

InAlts == At("alts") /\ altsOpen /\ UNCHANGED <<part, server, table, editor, calls, history>>

CloseAlts == InAlts /\ altsOpen' = FALSE /\ UNCHANGED <<selectedPlayer, searchInput, box, days, lookup, result, dropped>>

handleSelectPlayer ==
    /\ InAlts /\ selectedPlayer = 0
    /\ \E p \in 1 .. 2 : selectedPlayer' = p /\ box' = p
    /\ ResetLookup /\ dropped' = FALSE
    /\ UNCHANGED <<altsOpen, searchInput, days>>

BugclearSelectedPlayer ==
    /\ InAlts /\ selectedPlayer # 0 /\ selectedPlayer' = 0 /\ searchInput' = 0 /\ box' = 0
    /\ UNCHANGED <<altsOpen, days, dropped, lookup, result>>

clearSelectedPlayer ==
    /\ InAlts /\ selectedPlayer # 0 /\ selectedPlayer' = 0 /\ searchInput' = 0 /\ box' = 0
    /\ ResetLookup
    /\ UNCHANGED <<altsOpen, days, dropped>>

(* Typing over a chosen player clears it, and the effect of that clears the *)
(* box again: the text is searched for and not seen.                        *)
onSearchChange ==
    /\ InAlts /\ searchInput' = 3
    /\ box' = (IF selectedPlayer # 0 THEN 0 ELSE 3) /\ dropped' = (selectedPlayer # 0)
    /\ selectedPlayer' = 0 /\ ResetLookup
    /\ UNCHANGED <<altsOpen, days>>

NumberField ==
    /\ InAlts /\ \E d \in (0 .. 3) \ {days} : days' = d
    /\ ResetLookup
    /\ UNCHANGED <<altsOpen, selectedPlayer, searchInput, box, dropped>>

lookupMutation ==
    /\ InAlts /\ canLookup /\ lookup = NoLookup
    /\ lookup' = [who |-> Who, days |-> clampInt(days, 1, 2)] /\ result' = NoLookup
    /\ UNCHANGED <<altsOpen, selectedPlayer, searchInput, box, days, dropped>>

LookupAnswers ==
    /\ lookup # NoLookup /\ lookup' = NoLookup /\ result' \in {lookup, NoLookup}
    /\ UNCHANGED <<part, server, table, editor, calls, history, altsOpen, selectedPlayer, searchInput, box, days, dropped, acts>>

Next ==
    \/ readPlayers \/ searchPlayers \/ readUsers \/ searchUsers \/ readAdminPlayerSocialLinks \/ readAdminTournaments \/ Arrive \/ Fail \/ Refocus \/ setSearchInput \/ OtherAdministrator \/ EditPlayer \/ EditUser \/ setDialogState \/ setAchievementDialogState \/ setTournamentDialogState
    \/ onChange \/ setIsOpen \/ tournamentsChange \/ onSubmitPlayer \/ onSubmitUser \/ updateTournament \/ updateAchievement \/ submitLink \/ toggleVerified \/ deleteRow
    \/ onSuccess \/ onError \/ FindAlts \/ CloseAlts \/ handleSelectPlayer \/ clearSelectedPlayer \/ onSearchChange \/ NumberField \/ lookupMutation \/ LookupAnswers

Spec == Init /\ [][Next]_vars

Progress == readPlayers \/ searchPlayers \/ readUsers \/ searchUsers \/ readAdminPlayerSocialLinks \/ readAdminTournaments \/ Arrive \/ onSuccess \/ LookupAnswers

-----------------------------------------------------------------------------
(* Every variable keeps its type.                                           *)
TypeOK ==
    /\ request \in {Quiet, Asked, Brings(request.rows)} /\ open \in Rows \cup {0} /\ touched \subseteq {"a", "b"}
    /\ \A r \in Rows : server[r] = Gone \/ (server[r].a \in {0, 1} /\ server[r].b \in {0, 1})
    /\ \A c \in calls : c.kind \in {"save", "toggle", "delete"} /\ c.row \in Rows
    /\ days \in 0 .. 3 /\ box \in 0 .. 3 /\ excused \subseteq Rows

(* A table with nothing under way shows the rows of the server, unless they *)
(* were changed by someone else, under a search, which no save asks again,  *)
(* or under a first read, or the last read has failed.                      *)
DeskIsCurrent == request = Quiet /\ calls = {} /\ ~missed => \A r \in DOMAIN data : data[r] = server[r]

(* Once every change is answered, each field is what an administrator last  *)
(* set it to, even when a form sends more fields than were typed in: unless *)
(* the form was opened on a row that was out of date or being changed.      *)
FieldsAreKept ==
    calls = {} => \A r \in Rows \ excused : server[r] = wish[r]

(* What was typed in the open form is still in it.                          *)
TypedIsKept == open # 0 => \A f \in touched : form[f] = typed[f]

(* The accounts listed are those of the player and the limits in the dialog.*)
AltsMatchInputs == result # NoLookup => result = [who |-> Who, days |-> clampInt(days, 1, 2)]

(* The box shows what a lookup would look for, unless a chosen player was   *)
(* typed over or the dialog was opened again on a typed text.               *)
BoxIsTrue == altsOpen /\ ~dropped => box = Who
=============================================================================

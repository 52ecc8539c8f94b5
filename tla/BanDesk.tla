------------------------------ MODULE BanDesk ------------------------------
(***************************************************************************)
(* The bans: a page of them, the dialogs that add and edit one, and the    *)
(* dialog that reports a player.  The dialog of an edit copies the ban it is*)
(* opened on; what it saves is computed from the copy and from the length   *)
(* the moderator sees, which is recognised from two instants.               *)
(***************************************************************************)
EXTENDS Integers, FiniteSets

CONSTANTS
    Ids,         \* bans, 1 .. n, the newest last
    MaxActs      \* bound on what people do and what goes wrong

VARIABLES
    part,        \* "bans" or "report"
    bans,        \* [Ids -> ban or Gone]: the server's
    status,      \* the filter
    pageIndex,
    list,        \* the page held: bans with their ids, or NoPage
    request,     \* the read under way: Quiet, Asked or Read(<the page it brings>)
    failed,      \* the query is in error: the alert stands in place of the page
    edit,        \* [ban, seen, length, input, notes] of the dialog, or Closed
    saving,      \* the call of the dialog under way: [op, id, ban, touched, own] or None
    add,         \* [ready, length] of the other dialog
    creating,    \* the ban being created, or Gone
    report,      \* "closed", "open" or "confirm"
    sending,     \* a report is under way
    sent,        \* reports the server has, since the dialog was opened
    slipped,     \* history: a late success has closed another edit
    unseen,      \* history: bans were changed elsewhere since the page was read,
                 \*   or by a save while its first read was under way
    emptied,     \* history: the last ban of a page has gone
    acts         \* counts towards MaxActs

page == <<status, pageIndex, list, request, failed>>
dialogs == <<edit, saving, add, creating>>
reports == <<report, sending, sent>>
history == <<slipped, unseen, emptied>>
vars == <<part, bans, page, dialogs, reports, history, acts>>

(* Instants: a minute has two.  0 is no expiry; a ban is issued at Issued.   *)
Never == 0
Issued == 11
Now == 14
Day == 4
Minute(t) == t - (t % 2)

Lengths == {"permanent", "1_week", "1_month"}
Span(length) == IF length = "1_week" THEN 8 ELSE 16

Gone == [expires |-> -1, notes |-> 0]
Closed == [ban |-> 0, seen |-> Gone, length |-> "", input |-> 0, notes |-> 0]
None == [op |-> "", id |-> 0, ban |-> Gone, touched |-> FALSE, own |-> FALSE]
NotAdding == [ready |-> FALSE, length |-> ""]
NoPage == {[id |-> 0, ban |-> Gone, badge |-> ""]}
Quiet == [stage |-> "none", page |-> NoPage]
Asked == [stage |-> "asked", page |-> NoPage]
Read(p) == [stage |-> "read", page |-> p]

getBanStatus(b) ==
    CASE b.expires = Never -> "permanent"
      [] b.expires # Never /\ b.expires <= Issued -> "unbanned"
      [] b.expires > Issued /\ b.expires < Now -> "expired"
      [] b.expires > Issued /\ b.expires >= Now -> "active"

getUnbanExpiresAtIso == Issued - Day

getBanExpiryIsoFromDate(base, length) == IF length = "permanent" THEN Never ELSE base + Span(length)

BuggetBanLengthValueForExpiry(expires) ==
    IF expires \in {getBanExpiryIsoFromDate(Issued, l) : l \in Lengths \ {"permanent"}}
    THEN CHOOSE l \in Lengths : getBanExpiryIsoFromDate(Issued, l) = expires
    ELSE "permanent"

(* A length is recognised by the very instant it gives.                     *)
getBanLengthValueForExpiry(expires) ==
    IF expires \in {getBanExpiryIsoFromDate(Issued, l) : l \in Lengths}
    THEN CHOOSE l \in Lengths : getBanExpiryIsoFromDate(Issued, l) = expires
    ELSE "custom"

Selected(bs, s) == {i \in Ids : bs[i] # Gone /\ (s = "all" \/ getBanStatus(bs[i]) = s)}
(* A row shows a ban and the badge of its status.                           *)
StatusBadge(b) == getBanStatus(b)

Row(bs, i) == [id |-> i, ban |-> bs[i], badge |-> StatusBadge(bs[i])]

PageOf(bs, s, p) ==
    {Row(bs, i) : i \in {j \in Selected(bs, s) : Cardinality({k \in Selected(bs, s) : k > j}) = p}}

(* Another page or filter is a query of its own.                            *)
Turn(s, p) ==
    /\ status' = s /\ pageIndex' = p /\ list' = NoPage /\ request' = Asked
    /\ unseen' = FALSE /\ UNCHANGED failed

Init ==
    /\ part \in {"bans", "report"}
    /\ bans = [i \in Ids |-> IF i = 1 THEN [expires |-> Issued + Span("1_week") + 2, notes |-> 0]
                             ELSE IF i = 2 THEN [expires |-> Never, notes |-> 0] ELSE Gone]
    /\ status = "all" /\ pageIndex = 0 /\ list = NoPage /\ request = Asked /\ failed = FALSE
    /\ edit = Closed /\ saving = None /\ add = NotAdding /\ creating = Gone
    /\ report = "closed" /\ sending = FALSE /\ sent = 0
    /\ slipped = FALSE /\ unseen = FALSE /\ emptied = FALSE
    /\ acts = 0

Acts == acts < MaxActs /\ acts' = acts + 1
Browsing == Acts /\ part = "bans" /\ ~failed /\ edit = Closed /\ add = NotAdding

handleStatusChange ==
    /\ Browsing
    /\ \E s \in {"all", "unbanned", "active"} \ {status} : Turn(s, 0)
    /\ emptied' = FALSE
    /\ UNCHANGED <<part, bans, dialogs, reports, slipped>>

SetPage ==
    /\ Browsing /\ list # NoPage
    /\ \E p \in 0 .. Cardinality(Selected(bans, status)) - 1 : p # pageIndex /\ Turn(status, p)
    /\ emptied' = FALSE
    /\ UNCHANGED <<part, bans, dialogs, reports, slipped>>

(* The server reads the page.                                               *)
Respond ==
    /\ request = Asked /\ request' = Read(PageOf(bans, status, pageIndex))
    /\ unseen' = FALSE
    /\ UNCHANGED <<part, bans, status, pageIndex, list, failed, dialogs, reports, slipped, emptied, acts>>

Answer ==
    /\ request.stage = "read" /\ request' = Quiet
    /\ list' = request.page /\ failed' = FALSE
    /\ UNCHANGED <<part, bans, status, pageIndex, dialogs, reports, history, acts>>

Opened(r) ==
    [ban |-> r.id, seen |-> r.ban, length |-> getBanLengthValueForExpiry(r.ban.expires),
     input |-> Minute(r.ban.expires), notes |-> r.ban.notes]

(* A page that cannot be read takes the place of everything: the dialogs    *)
(* come back with the page, as they were opened.                            *)
Fail ==
    /\ Acts /\ request = Asked /\ request' = Quiet /\ failed' = TRUE
    /\ edit' = IF edit = Closed THEN Closed ELSE Opened([id |-> edit.ban, ban |-> edit.seen])
    /\ add' = IF add = NotAdding THEN NotAdding ELSE [ready |-> FALSE, length |-> "permanent"]
    /\ saving' = [saving EXCEPT !.own = FALSE]
    /\ UNCHANGED <<part, bans, status, pageIndex, list, creating, reports, slipped, unseen, emptied>>

Retry ==
    /\ failed /\ request = Quiet /\ request' = Asked
    /\ failed' = (list # NoPage)
    /\ UNCHANGED <<part, bans, status, pageIndex, list, dialogs, reports, history, acts>>

(* The dialog of a ban.                                                     *)
OpenEdit ==
    /\ Browsing
    /\ \E r \in list \ NoPage : edit' = Opened(r)
    /\ UNCHANGED <<part, bans, page, saving, add, creating, reports, history>>

Editing == Acts /\ ~failed /\ edit # Closed

Draft ==
    /\ Editing
    /\ \/ \E l \in Lengths \cup {"custom"} : l # edit.length /\ edit' = [edit EXCEPT !.length = l]
       \/ edit.length = "custom" /\ edit' = [edit EXCEPT !.input = Minute(Now)]
       \/ edit.notes = edit.seen.notes /\ edit' = [edit EXCEPT !.notes = @ + 1]
    /\ UNCHANGED <<part, bans, page, saving, add, creating, reports, history>>

Touched == edit.length # getBanLengthValueForExpiry(edit.seen.expires) \/ edit.input # Minute(edit.seen.expires)

(* The minutes shown for a length of one's own have lost the seconds; the   *)
(* length of a list is counted from the issue of the ban.                   *)
Expiry == IF edit.length = "custom" THEN edit.input ELSE getBanExpiryIsoFromDate(Issued, edit.length)

submit ==
    /\ Editing /\ saving = None
    /\ edit.length = "custom" => edit.input > 0
    /\ saving' = [op |-> "save", id |-> edit.ban, ban |-> [expires |-> Expiry, notes |-> edit.notes], touched |-> Touched, own |-> TRUE]
    /\ UNCHANGED <<part, bans, page, edit, add, creating, reports, history>>

unban ==
    /\ Editing /\ saving = None
    /\ saving' = [op |-> "save", id |-> edit.ban, ban |-> [expires |-> getUnbanExpiresAtIso, notes |-> edit.notes], touched |-> TRUE, own |-> TRUE]
    /\ UNCHANGED <<part, bans, page, edit, add, creating, reports, history>>

deleteBan ==
    /\ Editing /\ saving = None
    /\ saving' = [op |-> "delete", id |-> edit.ban, ban |-> Gone, touched |-> TRUE, own |-> TRUE]
    /\ UNCHANGED <<part, bans, page, edit, add, creating, reports, history>>

(* The escape key closes the dialog while its call is under way; one call is *)
(* followed at a time.                                                      *)
CloseEdit ==
    /\ ~failed /\ edit # Closed /\ edit' = Closed
    /\ saving' = [saving EXCEPT !.own = FALSE]
    /\ UNCHANGED <<part, bans, page, add, creating, reports, history, acts>>


(* A read under way starts anew, but for the first one of a page: it is     *)
(* kept, with what the server may have read for it before the change.       *)
Invalidate ==
    IF list = NoPage /\ request.stage = "read"
    THEN unseen' = TRUE /\ UNCHANGED request
    ELSE request' = Asked /\ UNCHANGED unseen

(* Success closes the dialog, whichever ban it is open on.                  *)
Saved ==
    /\ saving # None /\ saving' = None
    /\ IF bans[saving.id] = Gone
       THEN UNCHANGED <<bans, edit, slipped, emptied>>
       ELSE /\ bans' = [bans EXCEPT ![saving.id] = saving.ban]
            /\ edit' = Closed
            /\ slipped' = (slipped \/ (edit # Closed /\ ~saving.own))
            /\ emptied' = (emptied \/ PageOf(bans', status, pageIndex) = {})
    /\ Invalidate
    /\ UNCHANGED <<part, status, pageIndex, list, failed, add, creating, reports, acts>>

(* A call that was carried out fails as well when its answer is lost.       *)
SaveFails ==
    /\ Acts /\ saving # None /\ saving' = None
    /\ \/ UNCHANGED <<bans, emptied>>
       \/ /\ bans[saving.id] # Gone /\ bans' = [bans EXCEPT ![saving.id] = saving.ban]
          /\ emptied' = (emptied \/ PageOf(bans', status, pageIndex) = {})
    /\ Invalidate
    /\ UNCHANGED <<part, status, pageIndex, list, failed, edit, add, creating, reports, slipped>>

(* Add ban: player and type are required; the length is counted from now.   *)
OpenAdd ==
    /\ Browsing /\ creating = Gone
    /\ add' = [ready |-> FALSE, length |-> "permanent"]
    /\ UNCHANGED <<part, bans, page, edit, saving, creating, reports, history>>

FillAdd ==
    /\ Acts /\ ~failed /\ add # NotAdding
    /\ \/ add' = [add EXCEPT !.ready = TRUE]
       \/ add' = [add EXCEPT !.length = "1_week"]
    /\ UNCHANGED <<part, bans, page, edit, saving, creating, reports, history>>

createBan ==
    /\ add.ready /\ ~failed /\ creating = Gone
    /\ creating' = [expires |-> getBanExpiryIsoFromDate(Issued + 1, add.length), notes |-> 0]
    /\ UNCHANGED <<part, bans, page, edit, saving, add, reports, history, acts>>

Created ==
    /\ creating # Gone /\ creating' = Gone
    /\ \E i \in {j \in Ids : bans[j] = Gone} : bans' = [bans EXCEPT ![i] = creating]
    /\ add' = NotAdding
    /\ Invalidate
    /\ UNCHANGED <<part, status, pageIndex, list, failed, edit, saving, reports, slipped, emptied, acts>>

CreateFails ==
    /\ creating # Gone /\ creating' = Gone
    /\ (Acts \/ (Gone \notin {bans[i] : i \in Ids} /\ UNCHANGED acts))
    /\ Invalidate
    /\ UNCHANGED <<part, bans, status, pageIndex, list, failed, edit, saving, add, reports, slipped, emptied>>

CloseAdd ==
    /\ ~failed /\ add # NotAdding /\ add' = NotAdding
    /\ UNCHANGED <<part, bans, page, edit, saving, creating, reports, history, acts>>

(* Another moderator changes a ban.                                         *)
OtherModerator ==
    /\ Acts /\ part = "bans"
    /\ \E i \in Ids : bans[i] # Gone /\ bans' = [bans EXCEPT ![i].notes = 1 - @]
    /\ unseen' = TRUE
    /\ UNCHANGED <<part, page, dialogs, reports, slipped, emptied>>

(* The report of a player: written, confirmed and sent.                     *)
OpenReport ==
    /\ Acts /\ part = "report" /\ report = "closed" /\ report' = "open" /\ sent' = 0
    /\ UNCHANGED <<part, bans, page, dialogs, sending, history>>

Confirm ==
    /\ report = "open" /\ ~sending /\ report' = "confirm"
    /\ UNCHANGED <<part, bans, page, dialogs, sending, sent, history, acts>>

BugMaySend == report = "confirm"

MaySend == report = "confirm" /\ ~sending

createPlayerReport ==
    /\ MaySend /\ sending' = TRUE /\ sent' = IF sent < 2 THEN sent + 1 ELSE sent
    /\ UNCHANGED <<part, bans, page, dialogs, report, history, acts>>

ReportAnswers ==
    /\ sending /\ sending' = FALSE
    /\ \/ report' = "closed" /\ UNCHANGED <<sent, acts>>
       \/ Acts /\ sent' = (IF sent > 0 THEN sent - 1 ELSE 0) /\ UNCHANGED report
    /\ UNCHANGED <<part, bans, page, dialogs, history>>

LeaveReport ==
    /\ Acts /\ report # "closed" /\ report' \in {"closed", "open"} \ {report}
    /\ UNCHANGED <<part, bans, page, dialogs, sending, sent, history>>

Next ==
    \/ handleStatusChange \/ SetPage \/ Respond \/ Answer \/ Fail \/ Retry
    \/ OpenEdit \/ Draft \/ submit \/ unban \/ deleteBan \/ CloseEdit \/ Saved \/ SaveFails
    \/ OpenAdd \/ FillAdd \/ createBan \/ Created \/ CreateFails \/ CloseAdd \/ OtherModerator
    \/ OpenReport \/ Confirm \/ createPlayerReport \/ ReportAnswers \/ LeaveReport

Spec == Init /\ [][Next]_vars

TypeOK ==
    /\ part \in {"bans", "report"} /\ pageIndex \in 0 .. Cardinality(Ids)
    /\ \A i \in Ids : bans[i].expires \in -1 .. 40 /\ bans[i].notes \in 0 .. 2
    /\ request \in {Quiet, Asked, Read(request.page)}
    /\ report \in {"closed", "open", "confirm"}

(* A save that leaves the length alone moves the expiry of the ban by less  *)
(* than a minute, and does not turn one kind of ban into another.           *)
ExpiryIsKept ==
    saving.op = "save" /\ ~saving.touched /\ saving.own =>
        /\ saving.ban.expires \in {edit.seen.expires, Minute(edit.seen.expires)}
        /\ getBanStatus(saving.ban) = getBanStatus(edit.seen)

(* The page shows the bans there are once it has been read, and has some if *)
(* there are any, unless its last one has just gone.                        *)
ListIsTrue ==
    list # NoPage /\ ~failed /\ request = Quiet =>
        /\ list = PageOf(bans, status, pageIndex) \/ unseen
        /\ Selected(bans, status) # {} => list # {} \/ emptied \/ unseen

(* One confirmation sends one report.                                       *)
OneReport == sent <= 1 \/ report = "closed"
=============================================================================

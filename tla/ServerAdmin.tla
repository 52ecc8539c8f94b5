---------------------------- MODULE ServerAdmin ----------------------------
(***************************************************************************)
(* The administrators' lists of GlobalAPI servers, of public servers and of*)
(* server groups: rows are edited in a dialog or in place, selected,       *)
(* deleted, and a group's API key is regenerated.  Any request may still be*)
(* under way when the administrator turns to the next row.                 *)
(***************************************************************************)
EXTENDS Integers, FiniteSets

CONSTANTS
    Tabs,        \* lists to be shown, among "globalapi", "public" and "groups"
    Ids,         \* rows, 1 .. n
    MaxMark,     \* bound of the number below
    MaxActs      \* bound on what this and other administrators do

VARIABLES
    tab,         \* the list shown
    mayApprove,  \* access has arrived and lets set the approval (and the owner)
    server,      \* [Ids -> row]: a group and a mark, which is the approval, the status or the API key
    list,        \* the rows the list holds
    loaded,      \* the list has been read once
    request,     \* "idle", "asked" or "read": the list's query
    answer,      \* what the query has read
    editing,     \* the row whose draft is open: an id, New or None
    draft,       \* its fields
    regenerating, \* the group whose key is about to be regenerated, or None
    selected,    \* ids to be exported
    calls,       \* mutations: [op, id, row, phase, here], here unless the tab has been left since
    copied,      \* history: [id, key] on the clipboard when the list was current
    typed,       \* history: <<id, fields>> of the draft as typed, until saved or given up
    unseen,      \* history: rows have changed since they were read, and the page does not ask again
    unread,      \* history: the last read of the list was given up
    crossed,     \* history: a success has closed a draft that it did not save
    acts         \* counts towards MaxActs

query == <<list, loaded, request, answer>>
dialogs == <<editing, draft, regenerating, selected>>
history == <<copied, typed, unseen, unread, crossed>>
vars == <<tab, mayApprove, server, query, dialogs, calls, history, acts>>

None == -1
New == 0
Gone == [group |-> None, mark |-> None]
Row(g, m) == [group |-> g, mark |-> m]
Live(rows) == {i \in Ids : rows[i] # Gone}
Marks == 0 .. MaxMark
Call(op, i, row) == [op |-> op, id |-> i, row |-> row, phase |-> "sent", here |-> TRUE]

(* A mutation belongs to the tab, that of the groups to the dialog that     *)
(* creates or the one that edits.                                           *)
SameDialog(i, j) == tab = "groups" => (i = New <=> j = New)
Pending(op) == \E c \in calls : c.op = op /\ c.here /\ (op = "save" => SameDialog(c.id, editing))

Init ==
    /\ tab \in Tabs /\ mayApprove = FALSE
    /\ server = [i \in Ids |-> IF i = 1 \/ tab # "groups" THEN Row(0, 0) ELSE Gone]
    /\ list = [i \in Ids |-> Gone] /\ loaded = FALSE /\ request = "asked" /\ answer = list
    /\ editing = None /\ draft = Row(0, 0) /\ regenerating = None /\ selected = {}
    /\ calls = {}
    /\ copied = <<>> /\ typed = <<>> /\ unseen = FALSE /\ unread = FALSE /\ crossed = FALSE
    /\ acts = 0

Acts == acts < MaxActs /\ acts' = acts + 1

AccessArrives == ~mayApprove /\ mayApprove' = TRUE /\ UNCHANGED <<tab, server, query, dialogs, calls, history, acts>>

Read ==
    /\ request = "asked" /\ request' = "read" /\ answer' = server
    /\ unseen' = FALSE
    /\ UNCHANGED <<tab, mayApprove, server, list, loaded, dialogs, calls, copied, typed, unread, crossed, acts>>

Arrive ==
    /\ request = "read" /\ request' = "idle" /\ list' = answer /\ loaded' = TRUE
    /\ unread' = FALSE
    /\ UNCHANGED <<tab, mayApprove, server, answer, dialogs, calls, copied, typed, unseen, crossed, acts>>

(* A read that fails, or whose answer is lost, is tried again, and after    *)
(* some times given up: what was read before stays, and nothing is shown of *)
(* the failure.                                                             *)
ReadFails ==
    /\ request # "idle"
    /\ \/ request' = "asked" /\ UNCHANGED unread
       \/ request' = "idle" /\ unread' = TRUE
    /\ UNCHANGED <<tab, mayApprove, server, list, loaded, answer, dialogs, calls, copied, typed, unseen, crossed, acts>>

(* The tab is left and opened again: drafts are gone, the list is read, and *)
(* what is under way goes on without the dialogs it was sent from.          *)
Remount ==
    /\ Acts
    /\ editing' = None /\ draft' = Row(0, 0) /\ regenerating' = None /\ selected' = {}
    /\ typed' = <<>>
    /\ calls' = {[c EXCEPT !.here = FALSE] : c \in calls}
    /\ request' = IF request = "idle" THEN "asked" ELSE request
    /\ UNCHANGED <<tab, mayApprove, server, list, loaded, answer, copied, unseen, unread, crossed>>

(* A dialog covers the other rows; a row edited in place does not.          *)
RowsReachable == regenerating = None /\ (tab = "public" \/ editing = None)

OpenEdit ==
    /\ Acts /\ RowsReachable
    /\ \/ \E i \in Live(list) : editing' = i /\ editing # i /\ draft' = list[i]
       \/ tab = "groups" /\ editing' = New /\ draft' = Row(0, 0)
    /\ typed' = <<>>
    /\ UNCHANGED <<tab, mayApprove, server, query, regenerating, selected, calls, copied, unseen, unread, crossed>>

(* A row that is edited in place is edited where the list has it.           *)
DraftShown == editing # None /\ (tab = "public" => editing \in Live(list))

(* The approval can be set by those who may, the status by all; an API key  *)
(* is not a field.                                                          *)
setDraft ==
    /\ Acts /\ DraftShown
    /\ \/ \E g \in {0, 1} : draft' = [draft EXCEPT !.group = g]
       \/ \E m \in {0, 1} :
            /\ tab = "public" \/ (tab = "globalapi" /\ mayApprove)
            /\ draft' = [draft EXCEPT !.mark = m]
    /\ draft' # draft /\ typed' = <<editing, draft'>>
    /\ UNCHANGED <<tab, mayApprove, server, query, editing, regenerating, selected, calls, copied, unseen, unread, crossed>>

(* The cancel button is off while a save is under way, the escape key and   *)
(* the place around the dialog are not.                                     *)
closeEdit ==
    /\ DraftShown /\ editing' = None
    /\ typed' = <<>>
    /\ UNCHANGED <<tab, mayApprove, server, query, draft, regenerating, selected, calls, copied, unseen, unread, crossed, acts>>

Save ==
    /\ Acts /\ DraftShown /\ ~Pending("save")
    /\ calls' = calls \cup {Call("save", editing, draft)}
    /\ UNCHANGED <<tab, mayApprove, server, query, dialogs, history>>

Delete ==
    /\ Acts /\ RowsReachable /\ tab # "globalapi" /\ ~Pending("delete")
    /\ \E i \in Live(list) : calls' = calls \cup {Call("delete", i, Gone)}
    /\ UNCHANGED <<tab, mayApprove, server, query, dialogs, history>>

openRegenerate ==
    /\ Acts /\ tab = "groups" /\ RowsReachable /\ ~Pending("rotate")
    /\ regenerating' \in Live(list)
    /\ UNCHANGED <<tab, mayApprove, server, query, editing, draft, selected, calls, history>>

closeRegenerate ==
    /\ regenerating # None /\ regenerating' = None
    /\ UNCHANGED <<tab, mayApprove, server, query, editing, draft, selected, calls, history, acts>>

Regenerate ==
    /\ Acts /\ regenerating # None /\ ~Pending("rotate")
    /\ calls' = calls \cup {Call("rotate", regenerating, Gone)}
    /\ UNCHANGED <<tab, mayApprove, server, query, dialogs, history>>

(* The list has been read, and every change the page was told of with it.   *)
ListIsCurrent == request = "idle" /\ loaded /\ ~unseen /\ ~unread /\ \A c \in calls : c.phase # "done"

handleCopyApiKey ==
    /\ Acts /\ tab = "groups" /\ RowsReachable
    /\ \E i \in Live(list) : copied' = IF ListIsCurrent THEN <<list[i].mark, server[i].mark>> ELSE <<>>
    /\ UNCHANGED <<tab, mayApprove, server, query, dialogs, calls, typed, unseen, unread, crossed>>

(* A row, or all the rows shown; rows of other pages stay selected.         *)
Select ==
    /\ Acts /\ tab = "globalapi" /\ RowsReachable
    /\ \E ids \in {{i} : i \in Live(list)} \cup {Live(list)} :
        selected' \in {selected \cup ids, selected \ ids} /\ selected' # selected
    /\ UNCHANGED <<tab, mayApprove, server, query, editing, draft, regenerating, calls, history>>

downloadGokzLocalDbRecords ==
    /\ Acts /\ RowsReachable /\ selected # {} /\ ~Pending("export")
    /\ calls' = calls \cup {Call("export", None, Gone)}
    /\ UNCHANGED <<tab, mayApprove, server, query, dialogs, history>>

(* The answer arrives, or is lost: then the page takes it for a failure.    *)
Respond(c) ==
    \E phase \in {"done", "failed"} :
        /\ calls' = (calls \ {c}) \cup {[c EXCEPT !.phase = phase]}
        /\ unseen' = (unseen \/ (phase = "failed" /\ c.op # "export"))

(* The server carries out a request, or refuses it.  An approval is sent    *)
(* only by those who may set it, and a key is never sent.                   *)
Serve ==
    \E c \in {d \in calls : d.phase = "sent"} :
        \/ /\ c.op = "save" /\ c.id # New /\ server[c.id] # Gone
           /\ LET row == IF tab = "public" \/ (tab = "globalapi" /\ mayApprove) THEN c.row ELSE [c.row EXCEPT !.mark = server[c.id].mark]
              IN  server' = [server EXCEPT ![c.id] = row]
           /\ Respond(c)
        \/ /\ c.op = "save" /\ c.id = New
           /\ \E i \in Ids : server[i] = Gone /\ server' = [server EXCEPT ![i] = c.row]
           /\ Respond(c)
        \/ /\ c.op = "delete" /\ server[c.id] # Gone
           /\ server' = [server EXCEPT ![c.id] = Gone]
           /\ Respond(c)
        \/ /\ c.op = "rotate" /\ server[c.id] # Gone /\ server[c.id].mark < MaxMark
           /\ server' = [server EXCEPT ![c.id].mark = @ + 1]
           /\ Respond(c)
        \/ c.op = "export" /\ Respond(c) /\ UNCHANGED server
        \/ calls' = (calls \ {c}) \cup {[c EXCEPT !.phase = "failed"]} /\ UNCHANGED <<server, unseen>>

ServeCall ==
    /\ Serve
    /\ UNCHANGED <<tab, mayApprove, query, dialogs, copied, typed, unread, crossed, acts>>

BugInvalidated(c) == IF request = "idle" THEN request ELSE "asked"

(* Every success but the export's reads the list anew, also when a query is *)
(* under way: but a first read, which has no data yet, is kept.             *)
Invalidated(c) == IF c.op = "export" \/ (~loaded /\ request # "idle") THEN request ELSE "asked"

(* The success of a save closes the draft, whichever is open in its dialog, *)
(* the success of a regeneration the question, a tab that has been left     *)
(* nothing; a failure leaves both as they are.                              *)
onSuccess ==
    \E c \in {d \in calls : d.phase = "done"} :
        LET closes == c.op = "save" /\ c.here /\ SameDialog(c.id, editing)
        IN  /\ calls' = calls \ {c}
            /\ request' = Invalidated(c)
            /\ unseen' = (unseen \/ (c.op # "export" /\ request' = "read"))
            /\ editing' = IF closes THEN None ELSE editing
            /\ typed' = IF closes /\ typed = <<c.id, c.row>> THEN <<>> ELSE typed
            /\ crossed' = (crossed \/ (closes /\ typed' # <<>>))
            /\ regenerating' = IF c.op = "rotate" /\ c.here THEN None ELSE regenerating
            /\ UNCHANGED <<tab, mayApprove, server, list, loaded, answer, draft, selected, copied, unread, acts>>

BugonError ==
    \E c \in {d \in calls : d.phase = "failed"} :
        /\ calls' = calls \ {c} /\ editing' = None
        /\ UNCHANGED <<tab, mayApprove, server, query, draft, regenerating, selected, history, acts>>

onError ==
    \E c \in {d \in calls : d.phase = "failed"} :
        /\ calls' = calls \ {c}
        /\ UNCHANGED <<tab, mayApprove, server, query, dialogs, history, acts>>

OtherAdministrator ==
    /\ Acts /\ unseen' = TRUE
    /\ \E i \in Ids, g \in {0, 1} : server[i] # Gone /\ server[i].group # g /\ server' = [server EXCEPT ![i].group = g]
    /\ UNCHANGED <<tab, mayApprove, query, dialogs, calls, copied, typed, unread, crossed>>

Next ==
    \/ AccessArrives \/ Read \/ Arrive \/ ReadFails \/ Remount
    \/ OpenEdit \/ setDraft \/ closeEdit \/ Save \/ Delete
    \/ openRegenerate \/ closeRegenerate \/ Regenerate \/ handleCopyApiKey
    \/ Select \/ downloadGokzLocalDbRecords
    \/ ServeCall \/ onSuccess \/ onError \/ OtherAdministrator

Spec == Init /\ [][Next]_vars

TypeOK ==
    /\ \A rows \in {server, list, answer} : \A i \in Ids : rows[i] = Gone \/ rows[i] \in [group : {0, 1}, mark : Marks]
    /\ editing \in Ids \cup {New, None} /\ regenerating \in Ids \cup {None}
    /\ selected \subseteq Ids /\ request \in {"idle", "asked", "read"}

(* When nothing is under way the list is what the server has, unless rows   *)
(* have changed since they were read - by another administrator, by a       *)
(* request whose answer was lost, or by one that succeeded while the first  *)
(* read was under way - or the last read was given up; a key copied from    *)
(* such a list is valid.                                                    *)
ListIsTrue ==
    /\ ListIsCurrent /\ calls = {} => list = server
    /\ copied # <<>> => copied[1] = copied[2]

(* What was typed into a draft stays there until it is saved or given up:   *)
(* no failure, refresh or other success takes it away, unless the success of*)
(* another save in the same dialog has closed it.                           *)
DraftIsKept == typed # <<>> /\ ~crossed => editing = typed[1] /\ draft = typed[2]
=============================================================================

---------------------------- MODULE SocialLinks ----------------------------
(***************************************************************************)
(* The social links of the settings.  Links are added by address or by a   *)
(* login; those of Twitch and YouTube are verified by a login in a popup   *)
(* that reports back by a message, those of Bilibili by a code in the text *)
(* of the profile.  The address of a link, its platform with it, can be    *)
(* changed at any time.                                                    *)
(***************************************************************************)
EXTENDS Naturals, FiniteSets, TLAPS

CONSTANTS
    Sites,      \* platforms whose links are verified by a login
    Accounts,   \* account identifiers, alike on every platform
    MaxStored,  \* bound on the links there at first
    MaxLinks,   \* bound on the links ever created
    MaxCalls,   \* bound on the requests and popups at a time
    MaxActs     \* bound on the requests, lost answers, failed reads and closed popups

VARIABLES
    links,      \* at the server: [id, platform, account, verified, show]
    created,    \* number of links created so far
    shown,      \* <<the cached list>>, NoData before the first answer
    request,    \* <<the list in the answer under way>>, or what it waits for
    dialog,     \* NoDialog, Add or the id being edited
    mismatch,   \* [id, token] per site: the link whose other account is to be confirmed
    bilibili,   \* [id, token, verified] of the verification dialog, id 0 if closed
    calls,      \* requests and popups under way: [op, platform, on, token, out]
    crossed,    \* history: a dialog was replaced while its link was confirmed
    astray,     \* history: news of a change were lost, and the list was not read since
    acts        \* counts towards MaxActs

Platforms == Sites \cup {"bilibili"}
NoData == <<>>
Idle == <<>>
Asked == <<{}, {}>>
NoDialog == 0
Add == MaxLinks + 1
NoToken == <<>>
NoMismatch == [id |-> 0, token |-> NoToken]
Closed == [id |-> 0, token |-> NoToken, verified |-> FALSE]

server == <<links, created>>
list == <<shown, request, astray>>
dialogs == <<dialog, mismatch, bilibili>>
vars == <<server, list, dialogs, calls, crossed, acts>>

Link(id, p, a, verified, show) ==
    [id |-> id, platform |-> p, account |-> a, verified |-> verified, show |-> show]

FirstAccount == CHOOSE a \in Accounts : TRUE

(* The links of earlier visits, one per platform; which account one has is  *)
(* told apart only from those it may get later.                             *)
Init ==
    /\ created \in 0 .. MaxStored
    /\ \E p \in [1 .. created -> Platforms], v \in [1 .. created -> BOOLEAN] :
          /\ \A i, j \in 1 .. created : p[i] = p[j] => i = j
          /\ links = {Link(i, p[i], FirstAccount, v[i], TRUE) : i \in 1 .. created}
    /\ shown = NoData /\ request = Asked
    /\ dialog = NoDialog /\ bilibili = Closed
    /\ mismatch = [s \in Sites |-> NoMismatch]
    /\ calls = {} /\ crossed = FALSE /\ astray = FALSE /\ acts = 0

Acts == acts < MaxActs /\ acts' = acts + 1
Rows == IF shown = NoData THEN {} ELSE shown[1]
Linked(p) == \E l \in Rows : l.platform = p
IsPending(op) == \E c \in calls : c.op = op
Edits == {"create", "update"}
Toggles == {"show", "hide"}
Verifying == IsPending("start") \/ \E c \in calls : c.op = "login" /\ c.on # 0

(* The dialogs are modal: the rows are reached when none is open.           *)
RowsReachable ==
    dialog = NoDialog /\ bilibili = Closed /\ \A s \in Sites : mismatch[s] = NoMismatch

Call(op, p, on, token, out) ==
    [op |-> op, platform |-> p, on |-> on, token |-> token, out |-> out]

Send(op, p, on, token) ==
    /\ Acts
    /\ \A c \in calls : <<c.op, c.platform, c.on>> # <<op, p, on>>
    /\ Cardinality(calls) < MaxCalls
    /\ calls' = calls \cup {Call(op, p, on, token, "sent")}
    /\ UNCHANGED <<server, list, dialogs, crossed>>

OpenDialog ==
    /\ RowsReachable
    /\ dialog' \in {Add} \cup {l.id : l \in Rows}
    /\ UNCHANGED <<server, list, mismatch, bilibili, calls, crossed, acts>>

CloseDialog ==
    /\ \/ dialog' = NoDialog /\ dialog # NoDialog /\ UNCHANGED <<mismatch, bilibili>>
       \/ bilibili' = Closed /\ bilibili # Closed /\ UNCHANGED <<dialog, mismatch>>
       \/ \E s \in Sites : /\ mismatch[s] # NoMismatch
                           /\ mismatch' = [mismatch EXCEPT ![s] = NoMismatch]
                           /\ UNCHANGED <<dialog, bilibili>>
    /\ UNCHANGED <<server, list, calls, crossed, acts>>

(* The address names any platform.  The Enter key does not look at what is  *)
(* pending.                                                                 *)
Submit ==
    \E p \in Platforms :
       \/ dialog = Add /\ Send("create", p, 0, NoToken)
       \/ dialog \notin {NoDialog, Add} /\ Send("update", p, dialog, NoToken)

AddButton ==
    /\ dialog = Add
    /\ \/ \E s \in Sites : ~ Linked(s) /\ Send("login", s, 0, NoToken)
       \/ ~ Linked("bilibili") /\ Send("quick", "bilibili", 0, NoToken)

RowButton(l) ==
    /\ RowsReachable
    /\ \/ /\ ~ l.verified /\ ~ Verifying
          /\ Send(IF l.platform \in Sites THEN "login" ELSE "start", l.platform, l.id, NoToken)
       \/ l.verified /\ Send(IF l.show THEN "hide" ELSE "show", l.platform, l.id, NoToken)
       \/ ~ IsPending("delete") /\ Send("delete", l.platform, l.id, NoToken)

BilibiliButton ==
    /\ bilibili # Closed /\ ~ bilibili.verified
    /\ \/ ~ IsPending("start") /\ Send("start", "bilibili", bilibili.id, NoToken)
       \/ ~ IsPending("confirm") /\ Send("confirm", "bilibili", bilibili.id, bilibili.token)

ReplaceAndVerify ==
    \E s \in Sites :
       /\ mismatch[s] # NoMismatch
       /\ \A c \in calls : ~ (c.op = "replace" /\ c.platform = s)
       /\ Send("replace", s, mismatch[s].id, mismatch[s].token)

-----------------------------------------------------------------------------
(* A token names the account a link must still have, and the one it gets.   *)
Reported(c, out, token) ==
    calls' = (calls \ {c}) \cup {Call(c.op, c.platform, c.on, token, out)}
Served(c, out) == Reported(c, out, c.token)
Stored(id) == {l \in links : l.id = id}
Unverified(id, p) == {l \in Stored(id) : l.platform = p /\ ~ l.verified}
Changed(l, new) == links' = (links \ {l}) \cup {new} /\ UNCHANGED created

(* One link per platform.                                                   *)
Create(p, a, verified) ==
    /\ created < MaxLinks
    /\ \A l \in links : l.platform # p
    /\ created' = created + 1
    /\ links' = links \cup {Link(created', p, a, verified, TRUE)}

(* A new address says nothing of whether the link is verified.              *)
Update(id, p, a) ==
    \E l \in Stored(id) :
       /\ \A k \in links \ {l} : k.platform # p
       /\ Changed(l, Link(id, p, a, l.verified, l.show))

Toggle(id, show) == \E l \in Stored(id) : Changed(l, [l EXCEPT !.show = show])

Verify(id, p, token) ==
    \E l \in Unverified(id, p) :
       /\ l.account = token[1]
       /\ Changed(l, Link(id, p, token[2], TRUE, l.show))

(* The player has logged in with account a, and the popup returns.          *)
Return(c, a) ==
    \/ c.on = 0 /\ Create(c.platform, a, TRUE) /\ Served(c, "ok")
    \/ Verify(c.on, c.platform, <<a, a>>) /\ Served(c, "ok")
    \/ \E l \in Unverified(c.on, c.platform) :
          l.account # a /\ Reported(c, "mismatch", <<l.account, a>>) /\ UNCHANGED server

(* What the server may do with a request; everything can also be refused,   *)
(* and a change that would leave a platform with two links is.              *)
Serve(c) ==
    /\ c.out = "sent"
    /\ UNCHANGED <<list, dialogs, crossed, acts>>
    /\ \/ c.op = "create" /\ (\E a \in Accounts : Create(c.platform, a, FALSE)) /\ Served(c, "ok")
       \/ c.op = "update" /\ (\E a \in Accounts : Update(c.on, c.platform, a)) /\ Served(c, "ok")
       \/ c.op \in Toggles /\ Toggle(c.on, c.op = "show") /\ Served(c, "ok")
       \/ c.op = "delete" /\ links' = links \ Stored(c.on) /\ Served(c, "ok") /\ UNCHANGED created
       \/ /\ c.op = "quick" /\ \E a \in Accounts : Create("bilibili", a, FALSE)
          /\ calls' = (calls \ {c}) \cup {Call("start quick", "bilibili", created', NoToken, "sent")}
       \/ c.op \in {"confirm", "replace"} /\ Verify(c.on, c.platform, c.token) /\ Served(c, "ok")
       \/ c.op = "popup" /\ \E a \in Accounts : Return(c, a)
       \/ c.op = "login" /\ Served(c, "ok") /\ UNCHANGED server
             /\ IF c.on = 0 THEN \A l \in links : l.platform # c.platform ELSE Unverified(c.on, c.platform) # {}
       \/ c.op \in {"start", "start quick"} /\ UNCHANGED server
             /\ \E l \in Unverified(c.on, "bilibili") : Reported(c, "ok", <<l.account, l.account>>)
       \/ Served(c, "failed") /\ UNCHANGED server

LoseAnswer(c) ==
    /\ Acts
    /\ c.op # "popup" /\ c.out = "ok" /\ Served(c, "failed")
    /\ UNCHANGED <<server, list, dialogs, crossed>>

-----------------------------------------------------------------------------
(* A first read that is under way is kept, whatever it has read: only a     *)
(* list that is there is asked again.                                       *)
refreshLinks ==
    IF shown = NoData /\ request # Idle
    THEN astray' = (astray \/ request # Asked) /\ UNCHANGED request
    ELSE request' = Asked /\ UNCHANGED astray

BugSettle(c) ==
    /\ c.op \in Edits \cup Toggles \cup {"delete"} /\ c.out # "sent"
    /\ calls' = calls \ {c}
    /\ dialog' = IF c.out = "ok" /\ c.op \in Edits THEN NoDialog ELSE dialog
    /\ IF c.out = "ok" THEN refreshLinks ELSE UNCHANGED <<request, astray>>
    /\ UNCHANGED <<server, shown, mismatch, bilibili, crossed, acts>>

(* The success of an edit closes whatever dialog is open by then.           *)
Settle(c) ==
    /\ c.op \in Edits \cup Toggles \cup {"delete"} /\ c.out # "sent"
    /\ calls' = calls \ {c}
    /\ dialog' = IF c.out = "ok" /\ c.op \in Edits THEN NoDialog ELSE dialog
    /\ refreshLinks
    /\ UNCHANGED <<server, shown, mismatch, bilibili, crossed, acts>>

(* The popup opens after an answer, so the browser may block it.            *)
LoginStarted(c) ==
    /\ c.op = "login" /\ c.out # "sent"
    /\ \/ /\ c.out = "ok"
          /\ calls' = (calls \ {c}) \cup {Call("popup", c.platform, c.on, NoToken, "sent")}
          /\ dialog' = IF c.on = 0 THEN NoDialog ELSE dialog
       \/ calls' = calls \ {c} /\ UNCHANGED dialog
    /\ UNCHANGED <<server, list, mismatch, bilibili, crossed, acts>>

(* The page the popup returns to sends its result to the settings.          *)
handleVerificationResult(c) ==
    /\ c.op = "popup" /\ c.out # "sent"
    /\ calls' = calls \ {c}
    /\ mismatch' = [mismatch EXCEPT ![c.platform] =
                       IF c.out = "mismatch" THEN [id |-> c.on, token |-> c.token] ELSE NoMismatch]
    /\ dialog' = IF c.out = "failed" THEN dialog ELSE NoDialog
    /\ IF c.out = "mismatch" THEN UNCHANGED <<request, astray>> ELSE refreshLinks
    /\ UNCHANGED <<server, shown, bilibili, crossed, acts>>

ClosePopup(c) ==
    /\ Acts
    /\ c.op = "popup" /\ calls' = calls \ {c}
    /\ astray' = (astray \/ c.out = "ok")
    /\ UNCHANGED <<server, shown, request, dialogs, crossed>>

BilibiliStarted(c) ==
    /\ c.op \in {"start", "quick", "start quick"} /\ c.out # "sent"
    /\ calls' = calls \ {c}
    /\ IF c.out = "ok"
       THEN /\ dialog' = NoDialog /\ bilibili' = [id |-> c.on, token |-> c.token, verified |-> FALSE]
            /\ crossed' = (crossed \/ \E d \in calls : d.op = "confirm" /\ d.on # c.on)
       ELSE UNCHANGED <<dialog, bilibili, crossed>>
    /\ IF c.op = "start" THEN UNCHANGED <<request, astray>> ELSE refreshLinks
    /\ UNCHANGED <<server, shown, mismatch, acts>>

BugBilibiliConfirmed(c) ==
    /\ c.op = "confirm" /\ c.out # "sent"
    /\ calls' = calls \ {c}
    /\ bilibili' = IF bilibili # Closed THEN [bilibili EXCEPT !.verified = TRUE] ELSE bilibili
    /\ refreshLinks
    /\ UNCHANGED <<server, shown, dialog, mismatch, crossed, acts>>

(* Marks the dialog that is open now, whichever link it is of.              *)
BilibiliConfirmed(c) ==
    /\ c.op = "confirm" /\ c.out # "sent"
    /\ calls' = calls \ {c}
    /\ bilibili' = IF c.out = "ok" /\ bilibili # Closed THEN [bilibili EXCEPT !.verified = TRUE] ELSE bilibili
    /\ refreshLinks
    /\ UNCHANGED <<server, shown, dialog, mismatch, crossed, acts>>

Replaced(c) ==
    /\ c.op = "replace" /\ c.out # "sent"
    /\ calls' = calls \ {c}
    /\ mismatch' = IF c.out = "ok" THEN [mismatch EXCEPT ![c.platform] = NoMismatch] ELSE mismatch
    /\ refreshLinks
    /\ UNCHANGED <<server, shown, dialog, bilibili, crossed, acts>>

(* The server reads the list: what was lost before is in it.                *)
Respond ==
    /\ request = Asked /\ request' = <<links>> /\ astray' = FALSE
    /\ UNCHANGED <<server, shown, dialogs, calls, crossed, acts>>

Resolve ==
    /\ request \notin {Idle, Asked} /\ shown' = request /\ request' = Idle
    /\ UNCHANGED <<server, astray, dialogs, calls, crossed, acts>>

(* The read is given up after its retries: the list before it stays.        *)
ReadFails ==
    /\ Acts
    /\ request # Idle /\ request' = Idle /\ astray' = TRUE
    /\ UNCHANGED <<server, shown, dialogs, calls, crossed>>

Click == OpenDialog \/ CloseDialog \/ Submit \/ AddButton \/ BilibiliButton \/ ReplaceAndVerify \/ \E l \in Rows : RowButton(l)
Arrive(c) == Settle(c) \/ LoginStarted(c) \/ handleVerificationResult(c) \/ BilibiliStarted(c) \/ BilibiliConfirmed(c) \/ Replaced(c)
Next ==
    \/ Click \/ Respond \/ Resolve \/ ReadFails
    \/ \E c \in calls : Serve(c) \/ LoseAnswer(c) \/ ClosePopup(c) \/ Arrive(c)

Spec == Init /\ [][Next]_vars
-----------------------------------------------------------------------------
TypeOK ==
    /\ created \in 0 .. MaxLinks
    /\ \A k, l \in links : k.platform = l.platform => k = l
    /\ bilibili.id \in 0 .. MaxLinks
    /\ \A s \in Sites : mismatch[s].id \in 0 .. MaxLinks

(* When no request and no popup is under way, the list shows the links of   *)
(* the server, whatever was added, edited, switched, verified and deleted   *)
(* in whatever order, unless news of a change were lost and the list has    *)
(* not been read since: a popup closed before it reported, a read given up, *)
(* a first read that was answered before the change.                        *)
ListTellsTruth == (calls = {} /\ request = Idle /\ ~ astray /\ shown # NoData) => Rows = links

(* "Verification succeeded" stands in the dialog of a link the server has   *)
(* verified (or that has been deleted since), unless the dialog of another  *)
(* link was opened while a confirmation was under way.                      *)
SuccessIsTrue ==
    (bilibili.verified /\ ~ crossed) => \A l \in links : l.id = bilibili.id => l.verified
-----------------------------------------------------------------------------
(* Proofs, for any platforms, links, calls and acts.  Ids are given in      *)
(* order, and everything but the dialog of an edit names one that has been  *)
(* given.                                                                   *)
Given(n, id) == id \in Nat /\ id <= n

IsLink(l) ==
    /\ l = Link(l.id, l.platform, l.account, l.verified, l.show)
    /\ l.id \in Nat \ {0}

IsCall(c) == c = Call(c.op, c.platform, c.on, c.token, c.out)

KnownCall(c) == IsCall(c) /\ (c.op # "update" => Given(created, c.on))

Distinct(L) == \A k, l \in L : k.platform = l.platform \/ k.id = l.id => k = l

IdsKnown ==
    /\ created \in Nat
    /\ \A l \in links : IsLink(l) /\ Given(created, l.id)
    /\ Distinct(links)
    /\ \A l \in Rows : Given(created, l.id)
    /\ request \notin {Idle, Asked} => \A l \in request[1] : Given(created, l.id)
    /\ \A c \in calls : KnownCall(c)
    /\ DOMAIN mismatch = Sites /\ mismatch = [s \in Sites |-> mismatch[s]]
    /\ \A s \in Sites : Given(created, mismatch[s].id)
    /\ bilibili = [id |-> bilibili.id, token |-> bilibili.token, verified |-> bilibili.verified]
    /\ Given(created, bilibili.id)

(* The calls whose answer will make the page ask for the list: the server   *)
(* has changed the links for them, and the page has not heard of it.        *)
Owes(c) ==
    \/ c.op = "start quick"
    \/ c.op = "popup" /\ c.out = "ok"
    \/ c.op \in Edits \cup Toggles \cup {"delete", "confirm", "replace"} /\ c.out # "sent"

Fresh ==
    /\ shown # NoData /\ request = Idle => Rows = links
    /\ request \notin {Idle, Asked} => request = <<links>>

(* Unless a call owes a question, what is shown or on its way is true.      *)
NothingOwed == (\A c \in calls : ~ Owes(c)) /\ ~ astray => Fresh

Confirmed(L, id) == \A l \in L : l.id = id => l.verified

(* A confirmation belongs to the dialog that is open, and its success to a  *)
(* link that is verified.                                                   *)
Confirming ==
    /\ \A c \in calls : c.op = "confirm" /\ c.out = "ok" => Confirmed(links, c.on)
    /\ bilibili # Closed /\ ~ crossed => \A c \in calls : c.op = "confirm" => c.on = bilibili.id
    /\ bilibili.verified /\ ~ crossed => Confirmed(links, bilibili.id)

LinksInv == IdsKnown /\ NothingOwed /\ Confirming

LEMMA InitLinks == MaxStored \in Nat /\ Init => LinksInv
  <1> SUFFICES ASSUME MaxStored \in Nat, Init
               PROVE  LinksInv
    OBVIOUS
  <1>1. /\ created \in Nat /\ shown = NoData /\ request = Asked /\ calls = {}
        /\ bilibili = Closed /\ mismatch = [s \in Sites |-> NoMismatch]
    BY DEF Init
  <1>2. PICK p \in [1 .. created -> Platforms], v \in [1 .. created -> BOOLEAN] :
           /\ \A i, j \in 1 .. created : p[i] = p[j] => i = j
           /\ links = {Link(i, p[i], FirstAccount, v[i], TRUE) : i \in 1 .. created}
    BY DEF Init
  <1>3. ASSUME NEW l \in links
        PROVE  \E i \in 1 .. created : IsLink(l) /\ l.id = i /\ l.platform = p[i]
    <2>1. PICK i \in 1 .. created : l = Link(i, p[i], FirstAccount, v[i], TRUE)
      BY <1>2
    <2> QED BY <1>1, <2>1 DEF IsLink, Link
  <1>4. \A l \in links : IsLink(l) /\ Given(created, l.id)
    BY <1>1, <1>3 DEF Given
  <1>5. Distinct(links)
    <2> SUFFICES ASSUME NEW k \in links, NEW l \in links, k.platform = l.platform \/ k.id = l.id
                 PROVE  k = l
      BY DEF Distinct
    <2>1. PICK i \in 1 .. created : k = Link(i, p[i], FirstAccount, v[i], TRUE)
      BY <1>2
    <2>2. PICK j \in 1 .. created : l = Link(j, p[j], FirstAccount, v[j], TRUE)
      BY <1>2
    <2>3. k.id = i /\ k.platform = p[i] /\ l.id = j /\ l.platform = p[j]
      BY <2>1, <2>2 DEF Link
    <2> QED BY <1>2, <2>1, <2>2, <2>3
  <1>6. NoMismatch.id = 0 /\ Closed = [id |-> 0, token |-> NoToken, verified |-> FALSE]
    BY DEF NoMismatch, Closed
  <1>7. IdsKnown
    BY <1>1, <1>4, <1>5, <1>6 DEF IdsKnown, Given, Rows, Asked, NoData
  <1> QED BY <1>1, <1>6, <1>7 DEF LinksInv, NothingOwed, Confirming, Fresh, Asked, Idle, NoData

(* A click sends a call that nothing is owed for yet.                       *)
Clicked(op, on, token) ==
    /\ op # "start quick"
    /\ op # "update" => Given(created, on)
    /\ op = "confirm" => on = bilibili.id

LEMMA SendKeeps ==
    ASSUME LinksInv, NEW op, NEW p, NEW on, NEW token, Clicked(op, on, token), Send(op, p, on, token)
    PROVE  LinksInv'
  <1> DEFINE new == Call(op, p, on, token, "sent")
  <1>1. /\ calls' = calls \cup {new}
        /\ UNCHANGED <<links, created, shown, request, dialog, mismatch, bilibili, crossed, astray>>
    BY DEF Send, server, list, dialogs
  <1>2. /\ new.op = op /\ new.on = on /\ new.out = "sent" /\ IsCall(new)
        /\ ~ Owes(new) /\ KnownCall(new)
    BY DEF Call, IsCall, Owes, KnownCall, Clicked
  <1>6. op = "confirm" => on = bilibili.id
    BY DEF Clicked
  <1> HIDE DEF new
  <1>3. IdsKnown'
    BY <1>1, <1>2 DEF LinksInv, IdsKnown, KnownCall, Given, Rows
  <1>4. NothingOwed'
    BY <1>1, <1>2 DEF LinksInv, NothingOwed, Fresh, Rows, Owes
  <1>5. Confirming'
    BY <1>1, <1>2, <1>6 DEF LinksInv, Confirming, Confirmed
  <1> QED BY <1>3, <1>4, <1>5 DEF LinksInv

(* Dialogs open and close over what is known.                               *)
LEMMA DialogsKeep ==
    ASSUME LinksInv,
           UNCHANGED <<links, created, shown, request, calls, crossed, astray>>,
           mismatch' = mismatch \/ \E s \in Sites : mismatch' = [mismatch EXCEPT ![s] = NoMismatch],
           bilibili' = bilibili \/ bilibili' = Closed
    PROVE  LinksInv'
  <1>1. /\ Closed = [id |-> Closed.id, token |-> Closed.token, verified |-> Closed.verified]
        /\ Closed.id = 0 /\ Closed.verified = FALSE /\ NoMismatch.id = 0
    BY DEF Closed, NoMismatch
  <1>2. \A s \in Sites : mismatch'[s] = mismatch[s] \/ mismatch'[s] = NoMismatch
    BY DEF LinksInv, IdsKnown
  <1>3. DOMAIN mismatch' = Sites /\ mismatch' = [s \in Sites |-> mismatch'[s]]
    BY DEF LinksInv, IdsKnown
  <1>4. IdsKnown'
    BY <1>1, <1>2, <1>3 DEF LinksInv, IdsKnown, Given, KnownCall, Rows
  <1>5. NothingOwed'
    BY DEF LinksInv, NothingOwed, Fresh, Rows
  <1>6. Confirming'
    BY <1>1 DEF LinksInv, Confirming
  <1> QED BY <1>4, <1>5, <1>6 DEF LinksInv

LEMMA ClickKeeps == LinksInv /\ Click => LinksInv'
  <1> SUFFICES ASSUME LinksInv, Click
               PROVE  LinksInv'
    OBVIOUS
  <1>1. CASE OpenDialog
    BY <1>1, DialogsKeep DEF OpenDialog, server, list
  <1>2. CASE CloseDialog
    BY <1>2, DialogsKeep DEF CloseDialog, server, list
  <1>0. /\ Given(created, 0) /\ Given(created, bilibili.id)
        /\ \A s \in Sites : Given(created, mismatch[s].id)
        /\ \A l \in Rows : Given(created, l.id)
    BY DEF LinksInv, IdsKnown, Given
  <1>3. CASE Submit
    <2>1. Clicked("create", 0, NoToken) /\ Clicked("update", dialog, NoToken)
      BY <1>0 DEF Clicked
    <2> QED BY <1>3, <2>1, SendKeeps DEF Submit
  <1>4. CASE AddButton
    <2>1. Clicked("login", 0, NoToken) /\ Clicked("quick", 0, NoToken)
      BY <1>0 DEF Clicked
    <2> QED BY <1>4, <2>1, SendKeeps DEF AddButton
  <1>5. CASE BilibiliButton
    <2>1. Clicked("start", bilibili.id, NoToken) /\ Clicked("confirm", bilibili.id, bilibili.token)
      BY <1>0 DEF Clicked
    <2> QED BY <1>5, <2>1, SendKeeps DEF BilibiliButton
  <1>6. CASE ReplaceAndVerify
    <2>1. PICK s \in Sites : Send("replace", s, mismatch[s].id, mismatch[s].token)
      BY <1>6 DEF ReplaceAndVerify
    <2>2. Clicked("replace", mismatch[s].id, mismatch[s].token)
      BY <1>0 DEF Clicked
    <2> QED BY <2>1, <2>2, SendKeeps
  <1>7. ASSUME NEW l \in Rows, RowButton(l)
        PROVE  LinksInv'
    <2>1. \A op \in {"login", "start", "show", "hide", "delete"} : Clicked(op, l.id, NoToken)
      BY <1>0 DEF Clicked
    <2>2. \E op \in {"login", "start", "show", "hide", "delete"} : Send(op, l.platform, l.id, NoToken)
      BY <1>7 DEF RowButton
    <2> QED BY <2>1, <2>2, SendKeeps
  <1> QED BY <1>1, <1>2, <1>3, <1>4, <1>5, <1>6, <1>7 DEF Click

-----------------------------------------------------------------------------
(* What the server does to the links: one is added under the next id, one is*)
(* changed, or some go.  None that was verified becomes unverified.         *)
Follows(l, k) == k.id = l.id /\ (k.verified => l.verified)

LinksMove ==
    /\ created' \in {created, created + 1}
    /\ \A l \in links' :
          /\ IsLink(l)
          /\ (\E k \in links : Follows(l, k)) \/ (created' = created + 1 /\ l.id = created')
    /\ Distinct(links')

LEMMA CreateMoves ==
    ASSUME IdsKnown, NEW p, NEW a, NEW v, Create(p, a, v)
    PROVE  LinksMove
  <1> DEFINE new == Link(created', p, a, v, TRUE)
  <1>1. /\ links' = links \cup {new} /\ created' = created + 1
        /\ \A l \in links : l.platform # p
    BY DEF Create
  <1>2. IsLink(new) /\ new.id = created' /\ new.platform = p
    BY <1>1 DEF IsLink, IdsKnown, Link
  <1> HIDE DEF new
  <1>3. \A l \in links : IsLink(l) /\ l.id # new.id /\ l.platform # new.platform
    BY <1>1, <1>2 DEF IdsKnown, Given
  <1>4. Distinct(links')
    BY <1>1, <1>3 DEF IdsKnown, Distinct
  <1> QED BY <1>1, <1>2, <1>3, <1>4 DEF LinksMove, Follows

(* A link is changed in place.                                              *)
LEMMA ChangeMoves ==
    ASSUME IdsKnown, NEW l \in links, NEW new, IsLink(new), Follows(new, l), Changed(l, new),
           \A k \in links \ {l} : k.platform # new.platform
    PROVE  LinksMove
  BY DEF Changed, LinksMove, IdsKnown, Distinct, Follows

LEMMA UpdateMoves ==
    ASSUME IdsKnown, NEW id, NEW p, NEW a, Update(id, p, a)
    PROVE  LinksMove
  <1>1. PICK l \in Stored(id) :
           /\ \A k \in links \ {l} : k.platform # p
           /\ Changed(l, Link(id, p, a, l.verified, l.show))
    BY DEF Update
  <1> DEFINE new == Link(id, p, a, l.verified, l.show)
  <1>2. l \in links /\ IsLink(l) /\ l.id = id
    BY DEF Stored, IdsKnown
  <1>3. IsLink(new) /\ Follows(new, l) /\ new.platform = p
    BY <1>2 DEF IsLink, Follows, Link
  <1> HIDE DEF new
  <1>4. Changed(l, new)
    BY <1>1 DEF new
  <1> QED BY <1>1, <1>2, <1>3, <1>4, ChangeMoves

LEMMA ToggleMoves ==
    ASSUME IdsKnown, NEW id, NEW show, Toggle(id, show)
    PROVE  LinksMove
  <1>1. PICK l \in Stored(id) : Changed(l, [l EXCEPT !.show = show])
    BY DEF Toggle
  <1> DEFINE new == [l EXCEPT !.show = show]
  <1>2. l \in links /\ IsLink(l) /\ l.id = id
    BY DEF Stored, IdsKnown
  <1>3. IsLink(new) /\ Follows(new, l) /\ new.platform = l.platform
    BY <1>2 DEF IsLink, Follows, Link
  <1> HIDE DEF new
  <1>4. Changed(l, new)
    BY <1>1 DEF new
  <1>5. \A k \in links \ {l} : k.platform # new.platform
    BY <1>2, <1>3 DEF IdsKnown, Distinct
  <1> QED BY <1>2, <1>3, <1>4, <1>5, ChangeMoves

LEMMA VerifyMoves ==
    ASSUME IdsKnown, NEW id, NEW p, NEW token, Verify(id, p, token)
    PROVE  LinksMove /\ Confirmed(links', id)
  <1>1. PICK l \in Unverified(id, p) : Changed(l, Link(id, p, token[2], TRUE, l.show))
    BY DEF Verify
  <1> DEFINE new == Link(id, p, token[2], TRUE, l.show)
  <1>2. l \in links /\ IsLink(l) /\ l.id = id /\ l.platform = p
    BY DEF Unverified, Stored, IdsKnown
  <1>3. IsLink(new) /\ Follows(new, l) /\ new.platform = l.platform /\ new.verified
    BY <1>2 DEF IsLink, Follows, Link
  <1> HIDE DEF new
  <1>4. Changed(l, new)
    BY <1>1 DEF new
  <1>5. \A k \in links \ {l} : k.platform # new.platform
    BY <1>2, <1>3 DEF IdsKnown, Distinct
  <1>7. LinksMove
    BY <1>2, <1>3, <1>4, <1>5, ChangeMoves
  <1> QED BY <1>2, <1>3, <1>4, <1>7 DEF Confirmed, Changed, IdsKnown, Distinct, Follows

LEMMA MoveKeeps ==
    ASSUME IdsKnown, LinksMove
    PROVE  /\ created' \in Nat /\ \A id : Given(created, id) => Given(created', id)
           /\ \A l \in links' : IsLink(l) /\ Given(created', l.id)
           /\ Distinct(links')
           /\ \A id : Given(created, id) /\ Confirmed(links, id) => Confirmed(links', id)
  <1>1. created \in Nat /\ created' \in Nat /\ created <= created'
    BY DEF IdsKnown, LinksMove
  <1>2. \A id : Given(created, id) => Given(created', id)
    BY <1>1 DEF Given
  <1>3. \A l \in links' : IsLink(l) /\ Given(created', l.id)
    BY <1>1, <1>2 DEF IdsKnown, LinksMove, Given, Follows
  <1>4. \A id : Given(created, id) /\ Confirmed(links, id) => Confirmed(links', id)
    BY <1>1 DEF IdsKnown, LinksMove, Given, Confirmed, Follows
  <1> QED BY <1>1, <1>2, <1>3, <1>4 DEF LinksMove

(* A call that is carried out changes its outcome; a quick start becomes the*)
(* second of its two requests.                                              *)
Answered(c, d) ==
    /\ IsCall(d)
    /\ c.out = "sent"
    /\ \/ d.op = c.op /\ d.on = c.on
       \/ c.op = "quick" /\ d.op = "start quick" /\ Given(created', d.on)

Taken(c, d) ==
    /\ calls' = (calls \ {c}) \cup {d}
    /\ Answered(c, d)
    /\ links' = links \/ Owes(d)
    /\ d.op = "confirm" /\ d.out = "ok" => Confirmed(links', d.on)

LEMMA ReportedIs ==
    ASSUME LinksInv, NEW c \in calls, c.out = "sent", NEW out, NEW token, Reported(c, out, token)
    PROVE  \E d : /\ calls' = (calls \ {c}) \cup {d}
                  /\ Answered(c, d)
                  /\ d.op = c.op /\ d.on = c.on /\ d.out = out
  <1> DEFINE d == Call(c.op, c.platform, c.on, token, out)
  <1>1. IsCall(d) /\ d.op = c.op /\ d.on = c.on /\ d.out = out
    BY DEF IsCall, Call
  <1>2. calls' = (calls \ {c}) \cup {d}
    BY DEF Reported
  <1> HIDE DEF d
  <1> QED BY <1>1, <1>2 DEF Answered

LEMMA ServeFacts ==
    ASSUME LinksInv, NEW c \in calls, Serve(c)
    PROVE  LinksMove /\ \E d : Taken(c, d)
  <1>1. KnownCall(c) /\ IdsKnown /\ c.out = "sent"
    BY DEF LinksInv, IdsKnown, Serve
  <1>2. UNCHANGED server => LinksMove /\ links' = links
    BY <1>1 DEF server, LinksMove, IdsKnown, Follows
  <1>3. ASSUME NEW out, NEW token, Reported(c, out, token), c.op = "confirm" => out # "ok",
               links' = links \/ \A d : d.op = c.op /\ d.out = out => Owes(d)
        PROVE  \E d : Taken(c, d)
    BY <1>1, <1>3, ReportedIs DEF Taken
  <1>4. ASSUME NEW p, NEW a, NEW v, Create(p, a, v), Served(c, "ok"), c.op \in {"create", "popup"}
        PROVE  LinksMove /\ \E d : Taken(c, d)
    <2>1. LinksMove
      BY <1>1, <1>4, CreateMoves
    <2>2. \A d : d.op = c.op /\ d.out = "ok" => Owes(d)
      BY <1>4 DEF Owes, Edits
    <2> QED BY <1>3, <1>4, <2>1, <2>2 DEF Served
  <1>5. ASSUME NEW a, Update(c.on, c.platform, a), Served(c, "ok"), c.op = "update"
        PROVE  LinksMove /\ \E d : Taken(c, d)
    <2>1. LinksMove
      BY <1>1, <1>5, UpdateMoves
    <2>2. \A d : d.op = c.op /\ d.out = "ok" => Owes(d)
      BY <1>5 DEF Owes, Edits
    <2> QED BY <1>3, <1>5, <2>1, <2>2 DEF Served
  <1>6. CASE c.op \in Toggles /\ Toggle(c.on, c.op = "show") /\ Served(c, "ok")
    <2>1. LinksMove
      BY <1>1, <1>6, ToggleMoves
    <2>2. c.op # "confirm" /\ \A d : d.op = c.op /\ d.out = "ok" => Owes(d)
      BY <1>6 DEF Owes, Toggles
    <2> QED BY <1>3, <1>6, <2>1, <2>2 DEF Served
  <1>7. CASE c.op = "delete" /\ links' = links \ Stored(c.on) /\ Served(c, "ok") /\ UNCHANGED created
    <2>1. LinksMove
      BY <1>1, <1>7 DEF LinksMove, IdsKnown, Distinct, Follows
    <2>2. c.op # "confirm" /\ \A d : d.op = c.op /\ d.out = "ok" => Owes(d)
      BY <1>7 DEF Owes
    <2> QED BY <1>3, <1>7, <2>1, <2>2 DEF Served
  <1>8. ASSUME NEW a, Create("bilibili", a, FALSE), c.op = "quick",
               calls' = (calls \ {c}) \cup {Call("start quick", "bilibili", created', NoToken, "sent")}
        PROVE  LinksMove /\ \E d : Taken(c, d)
    <2> DEFINE d == Call("start quick", "bilibili", created', NoToken, "sent")
    <2>1. LinksMove
      BY <1>1, <1>8, CreateMoves
    <2>2. created' \in Nat
      BY <2>1, <1>1, MoveKeeps
    <2>3. Given(created', created')
      BY <2>2 DEF Given
    <2>4. Answered(c, d) /\ Owes(d) /\ d.op # "confirm"
      BY <1>1, <1>8, <2>3 DEF Answered, Owes, IsCall, Call
    <2>5. calls' = (calls \ {c}) \cup {d}
      BY <1>8
    <2> HIDE DEF d
    <2>6. Taken(c, d)
      BY <2>4, <2>5 DEF Taken
    <2> QED BY <2>1, <2>6
  <1>9. ASSUME NEW token, c.op \in {"popup", "confirm", "replace"}, Verify(c.on, c.platform, token),
               Served(c, "ok")
        PROVE  LinksMove /\ \E d : Taken(c, d)
    <2>1. LinksMove /\ Confirmed(links', c.on)
      BY <1>1, <1>9, VerifyMoves
    <2>2. PICK d : /\ calls' = (calls \ {c}) \cup {d} /\ Answered(c, d)
                   /\ d.op = c.op /\ d.on = c.on /\ d.out = "ok"
      BY <1>1, <1>9, ReportedIs DEF Served
    <2>3. Owes(d)
      BY <1>9, <2>2 DEF Owes
    <2> QED BY <2>1, <2>2, <2>3 DEF Taken
  <1>10. CASE c.op = "popup" /\ \E a \in Accounts : Return(c, a)
    <2>1. PICK a \in Accounts : Return(c, a)
      BY <1>10
    <2>2. CASE Create(c.platform, a, TRUE) /\ Served(c, "ok")
      BY <1>4, <1>10, <2>2
    <2>3. CASE Verify(c.on, c.platform, <<a, a>>) /\ Served(c, "ok")
      BY <1>9, <1>10, <2>3
    <2>4. CASE UNCHANGED server /\ \E token : Reported(c, "mismatch", token)
      BY <1>2, <1>3, <1>10, <2>4
    <2> QED BY <2>1, <2>2, <2>3, <2>4 DEF Return
  <1>11. ASSUME NEW out, NEW token, Reported(c, out, token), c.op = "confirm" => out # "ok",
                UNCHANGED server
         PROVE  LinksMove /\ \E d : Taken(c, d)
    BY <1>2, <1>3, <1>11
  <1>12. CASE Served(c, "failed") /\ UNCHANGED server
    BY <1>11, <1>12 DEF Served
  <1>13. CASE c.op = "login" /\ Served(c, "ok") /\ UNCHANGED server
    BY <1>11, <1>13 DEF Served
  <1>14. CASE c.op \in {"start", "start quick"} /\ UNCHANGED server /\ \E token : Reported(c, "ok", token)
    BY <1>11, <1>14
  <1>15. CASE c.op \in {"confirm", "replace"} /\ Verify(c.on, c.platform, c.token) /\ Served(c, "ok")
    BY <1>9, <1>15
  <1>16. CASE c.op = "create" /\ (\E a \in Accounts : Create(c.platform, a, FALSE)) /\ Served(c, "ok")
    BY <1>4, <1>16
  <1>17. CASE c.op = "update" /\ (\E a \in Accounts : Update(c.on, c.platform, a)) /\ Served(c, "ok")
    BY <1>5, <1>17
  <1>18. CASE /\ c.op = "quick" /\ \E a \in Accounts : Create("bilibili", a, FALSE)
              /\ calls' = (calls \ {c}) \cup {Call("start quick", "bilibili", created', NoToken, "sent")}
    BY <1>8, <1>18
  <1> QED BY <1>6, <1>7, <1>10, <1>12, <1>13, <1>14, <1>15, <1>16, <1>17, <1>18 DEF Serve

(* The server owes a question for what it has changed, and an answer that is*)
(* lost stays owed.                                                         *)
LEMMA ServeKeeps ==
    ASSUME LinksInv, NEW c \in calls, Serve(c)
    PROVE  LinksInv'
  <1>1. /\ UNCHANGED <<shown, request, mismatch, bilibili, crossed, astray>>
        /\ LinksMove
    BY ServeFacts DEF Serve, list, dialogs
  <1>0. PICK d : Taken(c, d)
    BY ServeFacts
  <1>2. /\ calls' = (calls \ {c}) \cup {d}
        /\ Answered(c, d)
        /\ links' = links \/ Owes(d)
        /\ d.op = "confirm" /\ d.out = "ok" => Confirmed(links', d.on)
    BY <1>0 DEF Taken
  <1>3. /\ created' \in Nat /\ \A id : Given(created, id) => Given(created', id)
        /\ \A l \in links' : IsLink(l) /\ Given(created', l.id)
        /\ Distinct(links')
        /\ \A id : Given(created, id) /\ Confirmed(links, id) => Confirmed(links', id)
    BY <1>1, MoveKeeps DEF LinksInv
  <1>4. Rows' = Rows
    BY <1>1 DEF Rows
  <1>5. KnownCall(c) /\ \A e \in calls : KnownCall(e)
    BY DEF LinksInv, IdsKnown
  <1>6. IsCall(d) /\ (d.op # "update" => Given(created', d.on))
    BY <1>2, <1>3, <1>5 DEF Answered, KnownCall
  <1>7. \A e \in calls' : KnownCall(e)'
    BY <1>2, <1>3, <1>5, <1>6 DEF KnownCall
  <1>8. IdsKnown'
    BY <1>1, <1>3, <1>4, <1>7 DEF LinksInv, IdsKnown
  <1>9. NothingOwed'
    <2>1. CASE links' = links
      <3>3. Owes(c) => c.op = "start quick"
        BY <1>2 DEF Owes, Answered
      <3>4. c.op = "start quick" => d.op = "start quick"
        BY <1>2 DEF Answered
      <3>1. Owes(c) => Owes(d)
        BY <3>3, <3>4 DEF Owes
      <3>2. Fresh => Fresh'
        BY <1>1, <1>4, <2>1 DEF Fresh
      <3> QED BY <1>1, <1>2, <3>1, <3>2 DEF LinksInv, NothingOwed, Owes
    <2>2. CASE Owes(d)
      BY <1>2, <2>2 DEF NothingOwed, Owes
    <2> QED BY <1>2, <2>1, <2>2
  <1>10. Confirming'
    <2>1. \A e \in calls' : e.op = "confirm" /\ e.out = "ok" => Confirmed(links', e.on)
      BY <1>2, <1>3, <1>5 DEF LinksInv, Confirming, KnownCall
    <2>2. d.op = "confirm" => c.op = "confirm" /\ d.on = c.on
      BY <1>2 DEF Answered
    <2>3. bilibili # Closed /\ ~ crossed => \A e \in calls' : e.op = "confirm" => e.on = bilibili.id
      BY <1>2, <2>2 DEF LinksInv, Confirming
    <2>4. bilibili.verified /\ ~ crossed => Confirmed(links', bilibili.id)
      BY <1>3 DEF LinksInv, Confirming, IdsKnown
    <2> QED BY <1>1, <2>1, <2>3, <2>4 DEF Confirming
  <1> QED BY <1>8, <1>9, <1>10 DEF LinksInv

(* An answer that is lost or not waited for.                                *)
LEMMA LoseKeeps ==
    ASSUME LinksInv, NEW c \in calls, LoseAnswer(c)
    PROVE  LinksInv'
  <1> DEFINE d == Call(c.op, c.platform, c.on, c.token, "failed")
  <1>1. KnownCall(c) /\ c.op # "popup"
    BY DEF LinksInv, IdsKnown, LoseAnswer
  <1>2. calls' = (calls \ {c}) \cup {d}
    BY DEF LoseAnswer, Served, Reported
  <1>3. UNCHANGED <<links, created, shown, request, mismatch, bilibili, crossed, astray>>
    BY DEF LoseAnswer, server, list, dialogs
  <1>4. d.op = c.op /\ d.on = c.on /\ d.out = "failed" /\ IsCall(d)
    BY DEF IsCall, Call
  <1> HIDE DEF d
  <1>5. KnownCall(d)
    BY <1>1, <1>4 DEF KnownCall
  <1>6. Owes(c) => Owes(d)
    BY <1>1, <1>4 DEF Owes
  <1>7. IdsKnown'
    BY <1>2, <1>3, <1>5 DEF LinksInv, IdsKnown, KnownCall, Rows
  <1>8. NothingOwed'
    BY <1>2, <1>3, <1>6 DEF LinksInv, NothingOwed, Fresh, Rows, Owes
  <1>9. Confirming'
    BY <1>2, <1>3, <1>4 DEF LinksInv, Confirming
  <1> QED BY <1>7, <1>8, <1>9 DEF LinksInv

(* A call has been answered and is gone.  If it owed a question, the page   *)
(* has asked, or knows that it is astray; a dialog that opens is for a link *)
(* that is known, and closes those before it.                               *)
Gone(c) ==
    /\ c \in calls
    /\ UNCHANGED <<links, created, shown>>
    /\ astray => astray'
    /\ request' = request \/ request' = Asked
    /\ Owes(c) => astray' \/ request' = Asked

Replacing(c) ==
    \/ calls' = calls \ {c}
    \/ \E d : calls' = (calls \ {c}) \cup {d} /\ KnownCall(d) /\ d.op = "popup" /\ ~ Owes(d)

Naming ==
    mismatch' = mismatch \/ \E s \in Sites : \E m : Given(created, m.id) /\ mismatch' = [mismatch EXCEPT ![s] = m]

Opening(c) ==
    \/ bilibili' = bilibili /\ crossed' = crossed
    \/ /\ \E id, token : Given(created, id) /\ bilibili' = [id |-> id, token |-> token, verified |-> FALSE]
       /\ crossed' = (crossed \/ \E d \in calls : d.op = "confirm" /\ d.on # bilibili'.id)
    \/ /\ crossed' = crossed /\ bilibili # Closed
       /\ bilibili' = [id |-> bilibili.id, token |-> bilibili.token, verified |-> TRUE]
       /\ c.op = "confirm" /\ c.out = "ok"

LEMMA ArrivalKeeps ==
    ASSUME LinksInv, NEW c, Gone(c), Replacing(c), Naming, Opening(c)
    PROVE  LinksInv'
  <1>1. /\ c \in calls
        /\ UNCHANGED <<links, created, shown>>
        /\ astray => astray'
        /\ request' = request \/ request' = Asked
        /\ Owes(c) => astray' \/ request' = Asked
    BY DEF Gone
  <1>2. \A e \in calls' : e \in calls \/ (KnownCall(e) /\ e.op = "popup" /\ ~ Owes(e))
    BY DEF Replacing
  <1>3. \A e \in calls : e \in calls' \/ e = c
    BY DEF Replacing
  <1>4. IdsKnown'
    <2>1. \A e \in calls' : KnownCall(e)'
      BY <1>1, <1>2 DEF LinksInv, IdsKnown, KnownCall
    <2>2. Rows' = Rows
      BY <1>1 DEF Rows
    <2>3. bilibili' = [id |-> bilibili'.id, token |-> bilibili'.token, verified |-> bilibili'.verified] /\ Given(created, bilibili'.id)
      BY DEF LinksInv, IdsKnown, Opening
    <2>4. /\ DOMAIN mismatch' = Sites /\ mismatch' = [s \in Sites |-> mismatch'[s]]
          /\ \A s \in Sites : Given(created, mismatch'[s].id)
      BY DEF LinksInv, IdsKnown, Naming
    <2> QED BY <1>1, <2>1, <2>2, <2>3, <2>4 DEF LinksInv, IdsKnown
  <1>5. NothingOwed'
    <2>1. Owes(c) => NothingOwed'
      BY <1>1 DEF NothingOwed, Fresh, Asked, Idle
    <2>2. ASSUME ~ Owes(c), \A e \in calls' : ~ Owes(e), ~ astray'
          PROVE  Fresh'
      <3>1. Fresh
        BY <1>1, <1>3, <2>2 DEF LinksInv, NothingOwed
      <3>2. Rows' = Rows
        BY <1>1 DEF Rows
      <3>3. Asked # Idle
        BY DEF Asked, Idle
      <3> QED BY <1>1, <3>1, <3>2, <3>3 DEF Fresh
    <2> QED BY <2>1, <2>2 DEF NothingOwed, Owes
  <1>6. Confirming'
    <2>1. \A e \in calls' : e.op = "confirm" => e \in calls
      BY <1>2
    <2>2. \A e \in calls' : e.op = "confirm" /\ e.out = "ok" => Confirmed(links', e.on)
      BY <1>1, <2>1 DEF LinksInv, Confirming
    <2>3. CASE bilibili' = bilibili /\ crossed' = crossed
      BY <1>1, <2>1, <2>2, <2>3 DEF LinksInv, Confirming
    <2>4. CASE /\ \E id, token : Given(created, id) /\ bilibili' = [id |-> id, token |-> token, verified |-> FALSE]
               /\ crossed' = (crossed \/ \E d \in calls : d.op = "confirm" /\ d.on # bilibili'.id)
      <3>1. bilibili'.verified = FALSE
        BY <2>4
      <3>2. ~ crossed' => \A e \in calls' : e.op = "confirm" => e.on = bilibili'.id
        BY <2>1, <2>4
      <3> QED BY <2>2, <3>1, <3>2 DEF Confirming
    <2>5. CASE /\ crossed' = crossed /\ bilibili # Closed
               /\ bilibili' = [id |-> bilibili.id, token |-> bilibili.token, verified |-> TRUE]
               /\ c.op = "confirm" /\ c.out = "ok"
      <3>1. bilibili'.id = bilibili.id
        BY <2>5
      <3>2. ~ crossed => c.on = bilibili.id
        BY <1>1, <2>5 DEF LinksInv, Confirming
      <3>3. Confirmed(links, c.on)
        BY <1>1, <2>5 DEF LinksInv, Confirming
      <3> QED BY <1>1, <2>1, <2>2, <2>5, <3>1, <3>2, <3>3 DEF LinksInv, Confirming
    <2> QED BY <2>3, <2>4, <2>5 DEF Opening
  <1> QED BY <1>4, <1>5, <1>6 DEF LinksInv

LEMMA RefreshAsks ==
    ASSUME refreshLinks
    PROVE  /\ astray => astray'
           /\ request' = request \/ request' = Asked
           /\ astray' \/ request' = Asked
  BY DEF refreshLinks, Asked

LEMMA ArriveKeeps ==
    ASSUME LinksInv, NEW c \in calls, Arrive(c)
    PROVE  LinksInv'
  <1>0. /\ Given(created, 0) /\ NoMismatch.id = 0
        /\ IsCall(c) /\ (c.op # "update" => Given(created, c.on))
    BY DEF LinksInv, IdsKnown, KnownCall, Given, NoMismatch
  <1>1. CASE Settle(c)
    <2>1. Gone(c)
      BY <1>1, RefreshAsks DEF Settle, Gone, server
    <2>2. Replacing(c) /\ Naming /\ Opening(c)
      BY <1>1 DEF Settle, Replacing, Opening, Naming
    <2> QED BY <1>0, <2>1, <2>2, ArrivalKeeps
  <1>2. CASE LoginStarted(c)
    <2> DEFINE d == Call("popup", c.platform, c.on, NoToken, "sent")
    <2>1. /\ UNCHANGED <<links, created, shown, request, mismatch, bilibili, crossed, astray>>
          /\ c.op = "login"
          /\ calls' = calls \ {c} \/ calls' = (calls \ {c}) \cup {d}
      BY <1>2 DEF LoginStarted, server, list
    <2>2. IsCall(d) /\ d.op = "popup" /\ d.on = c.on /\ d.out = "sent"
      BY DEF IsCall, Call
    <2> HIDE DEF d
    <2>3. KnownCall(d) /\ ~ Owes(d)
      BY <1>0, <2>1, <2>2 DEF KnownCall, Owes
    <2>4. Gone(c) /\ Opening(c) /\ Naming
      BY <2>1 DEF Gone, Owes, Opening, Naming, Edits, Toggles
    <2>5. Replacing(c)
      BY <2>1, <2>2, <2>3 DEF Replacing
    <2> QED BY <1>0, <2>1, <2>4, <2>5, ArrivalKeeps
  <1>3. CASE handleVerificationResult(c)
    <2>1. Gone(c)
      BY <1>3, RefreshAsks DEF handleVerificationResult, Gone, server, Owes, Edits, Toggles
    <2>2. Replacing(c) /\ Opening(c)
      BY <1>3 DEF handleVerificationResult, Replacing, Opening
    <2>3. Naming
      <3> DEFINE m == IF c.out = "mismatch" THEN [id |-> c.on, token |-> c.token] ELSE NoMismatch
      <3>1. c.op = "popup" /\ mismatch' = [mismatch EXCEPT ![c.platform] = m]
        BY <1>3 DEF handleVerificationResult
      <3>2. Given(created, m.id)
        BY <1>0, <3>1
      <3>3. c.platform \notin Sites => mismatch' = mismatch
        BY <3>1 DEF LinksInv, IdsKnown
      <3> HIDE DEF m
      <3> QED BY <3>1, <3>2, <3>3 DEF Naming
    <2> QED BY <2>1, <2>2, <2>3, ArrivalKeeps
  <1>4. CASE BilibiliStarted(c)
    <2>1. Gone(c)
      BY <1>4, RefreshAsks DEF BilibiliStarted, Gone, server, Owes, Edits, Toggles
    <2>2. Replacing(c) /\ Naming
      BY <1>4 DEF BilibiliStarted, Replacing, Naming
    <2>3. Opening(c)
      <3>1. CASE c.out = "ok"
        <4>1. /\ bilibili' = [id |-> c.on, token |-> c.token, verified |-> FALSE]
              /\ crossed' = (crossed \/ \E d \in calls : d.op = "confirm" /\ d.on # c.on)
          BY <1>4, <3>1 DEF BilibiliStarted
        <4>2. Given(created, c.on) /\ bilibili'.id = c.on
          BY <1>0, <1>4, <4>1 DEF BilibiliStarted
        <4> QED BY <4>1, <4>2 DEF Opening
      <3>2. CASE c.out # "ok"
        BY <1>4, <3>2 DEF BilibiliStarted, Opening
      <3> QED BY <3>1, <3>2
    <2> QED BY <1>0, <2>1, <2>2, <2>3, ArrivalKeeps
  <1>5. CASE BilibiliConfirmed(c)
    <2>1. Gone(c)
      BY <1>5, RefreshAsks DEF BilibiliConfirmed, Gone, server
    <2>2. Replacing(c) /\ Naming
      BY <1>5 DEF BilibiliConfirmed, Replacing, Naming
    <2>3. Opening(c)
      <3>1. CASE c.out = "ok" /\ bilibili # Closed
        <4>1. bilibili = [id |-> bilibili.id, token |-> bilibili.token, verified |-> bilibili.verified]
          BY DEF LinksInv, IdsKnown
        <4>2. bilibili' = [bilibili EXCEPT !.verified = TRUE] /\ crossed' = crossed /\ c.op = "confirm"
          BY <1>5, <3>1 DEF BilibiliConfirmed
        <4>3. bilibili' = [id |-> bilibili.id, token |-> bilibili.token, verified |-> TRUE]
          BY <4>1, <4>2
        <4> QED BY <3>1, <4>2, <4>3 DEF Opening
      <3>2. CASE ~ (c.out = "ok" /\ bilibili # Closed)
        BY <1>5, <3>2 DEF BilibiliConfirmed, Opening
      <3> QED BY <3>1, <3>2
    <2> QED BY <1>0, <2>1, <2>2, <2>3, ArrivalKeeps
  <1>6. CASE Replaced(c)
    <2>1. Gone(c)
      BY <1>6, RefreshAsks DEF Replaced, Gone, server
    <2>2. Replacing(c) /\ Opening(c)
      BY <1>6 DEF Replaced, Replacing, Opening
    <2>3. mismatch' \in {mismatch, [mismatch EXCEPT ![c.platform] = NoMismatch]}
      BY <1>6 DEF Replaced
    <2>4. c.platform \notin Sites => mismatch' = mismatch
      BY <2>3 DEF LinksInv, IdsKnown
    <2>5. Naming
      BY <1>0, <2>3, <2>4 DEF Naming
    <2> QED BY <2>1, <2>2, <2>5, ArrivalKeeps
  <1> QED BY <1>1, <1>2, <1>3, <1>4, <1>5, <1>6 DEF Arrive

LEMMA NextLinks == LinksInv /\ [Next]_vars => LinksInv'
  <1> SUFFICES ASSUME LinksInv, [Next]_vars
               PROVE  LinksInv'
    OBVIOUS
  <1>1. ASSUME NEW c \in calls, ClosePopup(c)
        PROVE  LinksInv'
    <2>1. Gone(c)
      BY <1>1 DEF ClosePopup, Gone, server, Owes, Edits, Toggles
    <2>2. Replacing(c) /\ Naming /\ Opening(c)
      BY <1>1 DEF ClosePopup, dialogs, Replacing, Opening, Naming
    <2> QED BY <2>1, <2>2, ArrivalKeeps DEF LinksInv, IdsKnown
  <1>2. CASE Respond
    <2>1. /\ request' = <<links>>
          /\ UNCHANGED <<links, created, shown, mismatch, bilibili, calls, crossed>>
      BY <1>2 DEF Respond, server, dialogs
    <2>2. request'[1] = links /\ request' # Idle
      BY <2>1 DEF Idle
    <2>3. IdsKnown'
      BY <2>1, <2>2 DEF LinksInv, IdsKnown, KnownCall, Rows
    <2>4. NothingOwed'
      BY <2>1, <2>2 DEF NothingOwed, Fresh
    <2> QED BY <2>1, <2>3, <2>4 DEF LinksInv, Confirming
  <1>3. CASE Resolve
    <2>1. /\ shown' = request /\ request' = Idle /\ request \notin {Idle, Asked}
          /\ UNCHANGED <<links, created, mismatch, bilibili, calls, crossed, astray>>
      BY <1>3 DEF Resolve, server, dialogs
    <2>2. Rows' = request[1]
      BY <2>1 DEF Rows, NoData, Idle
    <2>3. IdsKnown'
      BY <2>1, <2>2 DEF LinksInv, IdsKnown, KnownCall
    <2>4. NothingOwed'
      <3>1. Fresh => request[1] = links
        BY <2>1 DEF Fresh
      <3>2. Fresh => Fresh'
        BY <2>1, <2>2, <3>1 DEF Fresh
      <3> QED BY <2>1, <3>2 DEF LinksInv, NothingOwed, Owes
    <2> QED BY <2>1, <2>3, <2>4 DEF LinksInv, Confirming
  <1>5. CASE ReadFails
    <2>1. /\ request' = Idle /\ astray' = TRUE
          /\ UNCHANGED <<links, created, shown, mismatch, bilibili, calls, crossed>>
      BY <1>5 DEF ReadFails, server, dialogs
    <2>2. IdsKnown' /\ NothingOwed'
      BY <2>1 DEF LinksInv, IdsKnown, KnownCall, Rows, NothingOwed
    <2> QED BY <2>1, <2>2 DEF LinksInv, Confirming
  <1>4. CASE UNCHANGED vars
    BY <1>4 DEF vars, server, list, dialogs, LinksInv, IdsKnown, NothingOwed, Confirming, KnownCall, Rows, Fresh
  <1> QED BY <1>1, <1>2, <1>3, <1>4, <1>5, ClickKeeps, ServeKeeps, LoseKeeps, ArriveKeeps DEF Next

LEMMA LinksInvariant == ASSUME MaxStored \in Nat PROVE Spec => []LinksInv
  BY InitLinks, NextLinks, PTL DEF Spec

(* However additions, edits, switches, deletions, verifications, popups and *)
(* answers cross, and whichever reads fail, a list of links that is at rest *)
(* is the server's when it has been read since the last news that were lost *)
(* (SocialLinksSettings.tsx 543-671 and 901-1151).                          *)
THEOREM ListTellsTruthHolds == ASSUME MaxStored \in Nat PROVE Spec => []ListTellsTruth
  <1>1. LinksInv => ListTellsTruth
    BY DEF LinksInv, NothingOwed, Fresh, ListTellsTruth
  <1> QED BY <1>1, LinksInvariant, PTL

(* A message of success stands in the dialog of a link that is verified: no *)
(* edit, switch or second verification takes that from a link.              *)
THEOREM SuccessIsTrueHolds == ASSUME MaxStored \in Nat PROVE Spec => []SuccessIsTrue
  <1>1. LinksInv => SuccessIsTrue
    BY DEF LinksInv, Confirming, Confirmed, SuccessIsTrue
  <1> QED BY <1>1, LinksInvariant, PTL

(* A platform has one link, also when the address of a link is changed to   *)
(* another platform, and no more links are created than the bound.          *)
THEOREM TypesHold == ASSUME MaxStored \in Nat, MaxLinks \in Nat, MaxStored <= MaxLinks PROVE Spec => []TypeOK
  <1> DEFINE B == created \in 0 .. MaxLinks
  <1>1. Init => B
    BY DEF Init
  <1>2. LinksInv /\ B /\ [Next]_vars => B'
    <2> SUFFICES ASSUME LinksInv, B, [Next]_vars
                 PROVE  B'
      OBVIOUS
    <2>1. ASSUME NEW c \in calls, Serve(c)
          PROVE  B'
      <3>1. created' = created \/ (created < MaxLinks /\ created' = created + 1)
        BY <2>1 DEF Serve, server, Create, Update, Toggle, Changed, Verify, Return
      <3> QED BY <3>1
    <2>2. ASSUME NEW op, NEW p, NEW on, NEW token, Send(op, p, on, token)
          PROVE  B'
      BY <2>2 DEF Send, server
    <2>3. ASSUME Click
          PROVE  B'
      BY <2>2, <2>3 DEF Click, OpenDialog, CloseDialog, Submit, AddButton, BilibiliButton,
                        ReplaceAndVerify, RowButton, server
    <2>4. ASSUME NEW c \in calls, LoseAnswer(c) \/ ClosePopup(c) \/ Arrive(c)
          PROVE  B'
      BY <2>4 DEF LoseAnswer, ClosePopup, Arrive, Settle, LoginStarted, handleVerificationResult,
                  BilibiliStarted, BilibiliConfirmed, Replaced, server
    <2> QED BY <2>1, <2>3, <2>4 DEF Next, Respond, Resolve, ReadFails, vars, server
  <1>3. LinksInv /\ B => TypeOK
    BY DEF LinksInv, IdsKnown, Given, TypeOK, Distinct
  <1> QED BY <1>1, <1>2, <1>3, LinksInvariant, PTL DEF Spec
=============================================================================

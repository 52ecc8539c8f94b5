------------------------------- MODULE Polls -------------------------------
(***************************************************************************)
(* A poll and its voters: the options ticked are a draft kept per poll, a   *)
(* vote that cannot be changed is confirmed first; and the editor, whose    *)
(* options are saved by their position over those of the server, where they *)
(* may be voted for by then.                                                *)
(***************************************************************************)
EXTENDS Integers, Sequences, FiniteSets, SequencesExt

CONSTANTS
    MAX_POLL_OPTIONS,
    MaxActs      \* bound on what people do and what goes wrong

VARIABLES
    part,        \* "vote" or "edit": what the user has come for
    offset,      \* the hours from UTC to the time of the browser
    server,      \* the poll: closed, ends, max_selections, allow_vote_change, options, mine, others
    openPoll, request,       \* the answer held, or none; "none" or "asked"
    selections, pendingVote, vote,   \* the ticks, or None; the vote to be confirmed; the vote under way
    editor, options, endsAt, save,   \* the poll the editor was opened on, its drafts, the save under way
    pendingAction, lifecycle,        \* the action to be confirmed, and under way
    sent, missed,            \* history: the vote cast last and not touched since; changes not asked for yet
    meant, wishedEnd, excused,       \* history: the text each option was voted for or renamed to; the end meant
    acts

poll == <<openPoll, request>>
voting == <<selections, pendingVote, vote>>
drafts == <<editor, options, endsAt, save>>
admin == <<pendingAction, lifecycle>>
history == <<sent, missed, meant, wishedEnd, excused>>
vars == <<part, offset, server, poll, voting, drafts, admin, history, acts>>

None == {-1}
NoEnd == 0
Blank == 0
NoPoll == [closed |-> TRUE, ends |-> NoEnd, max_selections |-> 0, allow_vote_change |-> FALSE, options |-> <<>>, mine |-> {}, others |-> {}]
NoSave == [options |-> <<>>, ends |-> NoEnd]

Ids(p) == {p.options[i].id : i \in DOMAIN p.options}
has_voted(p) == p.mine # {}
total_votes(p) == (IF p.mine = {} THEN 0 ELSE 1) + (IF p.others = {} THEN 0 ELSE 1)
maxSelections(p) == IF p.max_selections = 0 THEN Len(p.options) ELSE p.max_selections

(* The results are shown in the order of the votes, the letter of an option *)
(* is its place in the poll.                                                *)
can_view_results(p) == p.closed \/ has_voted(p)
Votes(p, o) == (IF o \in p.mine THEN 1 ELSE 0) + (IF o \in p.others THEN 1 ELSE 0)
BuggetDisplayedOptions(p) == SetToSortSeq(Ids(p), LAMBDA a, b : IF ~can_view_results(p) THEN a < b ELSE Votes(p, a) < Votes(p, b) \/ (Votes(p, a) = Votes(p, b) /\ a < b))

getDisplayedOptions(p) ==
    SetToSortSeq(Ids(p), LAMBDA a, b : IF ~can_view_results(p) THEN a < b ELSE Votes(p, a) > Votes(p, b) \/ (Votes(p, a) = Votes(p, b) /\ a < b))

selected == IF selections = None THEN openPoll.mine ELSE selections

Init ==
    /\ part \in {"vote", "edit"} /\ offset \in {0, 1}
    /\ \E allow \in BOOLEAN, m \in {0, 1}, o \in {{}, {1}}, e \in {NoEnd, 5}, k \in {2, 3} :
        server = [closed |-> FALSE, ends |-> e, max_selections |-> m, allow_vote_change |-> allow,
                  options |-> [i \in 1 .. k |-> [id |-> i, text |-> i]], mine |-> {}, others |-> o]
    /\ part = "vote" => server.ends = NoEnd /\ offset = 0 /\ Len(server.options) = 2
    /\ part = "edit" => server.allow_vote_change /\ server.max_selections = 0 /\ (server.ends = NoEnd => offset = 0) /\ (Len(server.options) = 3 => server.ends = NoEnd)
    /\ openPoll = NoPoll /\ request = "asked"
    /\ selections = None /\ pendingVote = None /\ vote = None
    /\ editor = NoPoll /\ options = <<>> /\ endsAt = NoEnd /\ save = NoSave
    /\ pendingAction = "none" /\ lifecycle = "none"
    /\ sent = None /\ missed = FALSE
    /\ meant = [o \in 1 .. 4 |-> IF o \in server.others THEN o ELSE Blank]
    /\ wishedEnd = server.ends /\ excused = FALSE
    /\ acts = 0

Acts == acts < MaxActs /\ acts' = acts + 1
Voting == Acts /\ part = "vote"
Editing == Acts /\ part = "edit"

invalidateQueries == request' = "asked" /\ missed' = FALSE

Answer ==
    /\ request = "asked" /\ request' = "none" /\ openPoll' = server
    /\ missed' = FALSE
    /\ UNCHANGED <<part, offset, server, voting, drafts, admin, sent, meant, wishedEnd, excused, acts>>

Fail ==
    /\ Acts /\ request = "asked" /\ request' = "none" /\ missed' = TRUE
    /\ UNCHANGED <<part, offset, server, openPoll, voting, drafts, admin, sent, meant, wishedEnd, excused>>

-----------------------------------------------------------------------------
(* Voting.                                                                  *)

Locked == openPoll.closed \/ (~openPoll.allow_vote_change /\ has_voted(openPoll))

Bugdisabled(o) == Locked \/ (o \notin selected /\ Cardinality(selected) > maxSelections(openPoll))

disabled(o) == Locked \/ (o \notin selected /\ Cardinality(selected) >= maxSelections(openPoll))

setSelections ==
    /\ Voting /\ openPoll # NoPoll /\ pendingVote = None
    /\ \E o \in Ids(openPoll) :
        /\ ~disabled(o)
        /\ selections' = IF o \in selected THEN selected \ {o} ELSE selected \cup {o}
    /\ sent' = None
    /\ UNCHANGED <<part, offset, server, poll, pendingVote, vote, drafts, admin, missed, meant, wishedEnd, excused>>

submitVote ==
    /\ Voting /\ openPoll # NoPoll /\ ~Locked /\ selected # {} /\ vote = None /\ pendingVote = None
    /\ IF ~openPoll.allow_vote_change /\ ~has_voted(openPoll)
       THEN pendingVote' = selected /\ UNCHANGED vote
       ELSE vote' = selected /\ UNCHANGED pendingVote
    /\ sent' = None
    /\ UNCHANGED <<part, offset, server, poll, selections, drafts, admin, missed, meant, wishedEnd, excused>>

ConfirmVote ==
    /\ pendingVote # None /\ vote = None
    /\ vote' = pendingVote /\ pendingVote' = None
    /\ UNCHANGED <<part, offset, server, poll, selections, drafts, admin, history, acts>>

setPendingVote ==
    /\ Voting /\ pendingVote # None /\ pendingVote' = None
    /\ UNCHANGED <<part, offset, server, poll, selections, vote, drafts, admin, history>>

(* The server takes only options of the poll, as many as allowed, and one   *)
(* vote where it may not be changed.                                        *)
Accepted(ids) ==
    /\ ~server.closed /\ ids \subseteq Ids(server)
    /\ server.max_selections = 0 \/ Cardinality(ids) <= server.max_selections
    /\ has_voted(server) => server.allow_vote_change

BugVoted == missed' = FALSE /\ UNCHANGED request

Voted == invalidateQueries

VoteSucceeds ==
    /\ vote # None /\ Accepted(vote)
    /\ server' = [server EXCEPT !.mine = vote]
    /\ vote' = None /\ sent' = (IF selected = vote THEN vote ELSE None)
    /\ Voted
    /\ UNCHANGED <<part, offset, openPoll, selections, pendingVote, drafts, admin, meant, wishedEnd, excused, acts>>

(* A vote that is refused leaves the ticks, and the poll as it was read.    *)
VoteRefused ==
    /\ vote # None /\ ~Accepted(vote) /\ vote' = None /\ sent' = None
    /\ UNCHANGED <<part, offset, server, poll, selections, pendingVote, drafts, admin, missed, meant, wishedEnd, excused, acts>>

(* The call may also break off before or after the server has taken it.     *)
VoteFails ==
    /\ Voting /\ vote # None /\ vote' = None /\ sent' = None
    /\ \/ UNCHANGED <<server, missed>>
       \/ Accepted(vote) /\ server' = [server EXCEPT !.mine = vote] /\ missed' = TRUE
    /\ UNCHANGED <<part, offset, poll, selections, pendingVote, drafts, admin, meant, wishedEnd, excused>>

(* Another tab of the voter, the administrator, the clock.                  *)
Elsewhere ==
    /\ Voting
    /\ \/ server' = [server EXCEPT !.mine = {2}] /\ Accepted({2})
       \/ ~server.closed /\ server' = [server EXCEPT !.closed = TRUE]
       \/ server.allow_vote_change /\ server' = [server EXCEPT !.allow_vote_change = FALSE]
       \/ total_votes(server) = 0 /\ 1 \in Ids(server)
          /\ server' = [server EXCEPT !.options = <<[id |-> 3, text |-> 1], [id |-> 4, text |-> 2]>>]
    /\ missed' = TRUE /\ sent' = None
    /\ UNCHANGED <<part, offset, poll, voting, drafts, admin, meant, wishedEnd, excused>>

-----------------------------------------------------------------------------
(* The editor.  The end is shown in UTC and taken for local time.           *)

openEditor ==
    /\ Editing /\ openPoll # NoPoll /\ editor = NoPoll /\ pendingAction = "none"
    /\ editor' = openPoll /\ endsAt' = openPoll.ends
    /\ options' = [i \in DOMAIN openPoll.options |-> openPoll.options[i].text]
    /\ UNCHANGED <<part, offset, server, poll, voting, save, admin, history>>

setEditor ==
    /\ Editing /\ editor # NoPoll /\ editor' = NoPoll
    /\ UNCHANGED <<part, offset, server, poll, voting, options, endsAt, save, admin, history>>

setOptions ==
    /\ Editing /\ editor # NoPoll
    /\ \/ \E i \in DOMAIN options, t \in {Blank, 7} : options[i] # t /\ options' = [options EXCEPT ![i] = t]
       \/ Len(options) < MAX_POLL_OPTIONS /\ options' = Append(options, 8)
    /\ UNCHANGED <<part, offset, server, poll, voting, editor, endsAt, save, admin, history>>

setEndsAt ==
    /\ Editing /\ editor # NoPoll /\ endsAt # 9 /\ endsAt' = 9
    /\ UNCHANGED <<part, offset, server, poll, voting, editor, options, save, admin, history>>

editorHasVotes == total_votes(editor) > 0

BughasBlankExistingOption == FALSE

hasBlankExistingOption == editorHasVotes /\ \E i \in DOMAIN editor.options : options[i] = Blank

mutationFn ==
    /\ Editing /\ editor # NoPoll /\ save = NoSave /\ ~hasBlankExistingOption
    /\ Cardinality({i \in DOMAIN options : options[i] # Blank}) >= 2
    /\ save' = [options |-> SelectSeq(options, LAMBDA t : t # Blank), ends |-> IF endsAt = NoEnd THEN NoEnd ELSE endsAt - offset]
    /\ meant' = [o \in DOMAIN meant |->
                    IF meant[o] # Blank /\ o <= Len(editor.options) /\ options[o] # Blank THEN options[o] ELSE meant[o]]
    /\ wishedEnd' = (IF endsAt = 9 THEN 9 - offset ELSE editor.ends)
    /\ excused' = (excused \/ total_votes(editor) # total_votes(server))
    /\ UNCHANGED <<part, offset, server, poll, voting, editor, options, endsAt, admin, sent, missed>>

(* update_poll: without votes the options are made anew, with votes they    *)
(* are renamed in their order and never fewer.                              *)
Fresh(p) == Max({0} \cup Ids(p)) + 1
Renamed ==
    IF total_votes(server) = 0
    THEN [i \in DOMAIN save.options |-> [id |-> i, text |-> save.options[i]]]
    ELSE [i \in DOMAIN save.options |-> [id |-> IF i <= Len(server.options) THEN server.options[i].id ELSE Fresh(server) + i - Len(server.options) - 1, text |-> save.options[i]]]
Taken == total_votes(server) = 0 \/ Len(save.options) >= Len(server.options)

SaveSucceeds ==
    /\ save # NoSave /\ Taken
    /\ server' = [server EXCEPT !.options = Renamed, !.ends = save.ends]
    /\ save' = NoSave /\ editor' = NoPoll /\ invalidateQueries
    /\ UNCHANGED <<part, offset, openPoll, voting, options, endsAt, admin, sent, meant, wishedEnd, excused, acts>>

(* A save that is refused leaves the editor open with its drafts.           *)
SaveRefused ==
    /\ save # NoSave /\ ~Taken
    /\ save' = NoSave /\ excused' = TRUE
    /\ UNCHANGED <<part, offset, server, poll, voting, editor, options, endsAt, admin, sent, missed, meant, wishedEnd, acts>>

(* The first vote, or another one.                                          *)
SomeoneVotes ==
    /\ Editing /\ server.others = {} /\ ~server.closed
    /\ server' = [server EXCEPT !.others = {1}]
    /\ meant' = [meant EXCEPT ![1] = server.options[1].text]
    /\ excused' = (excused \/ save # NoSave) /\ missed' = TRUE
    /\ UNCHANGED <<part, offset, poll, voting, drafts, admin, sent, wishedEnd>>

-----------------------------------------------------------------------------
(* Closing, opening again and deleting are confirmed.                       *)

setPendingAction ==
    /\ Editing /\ openPoll # NoPoll /\ editor = NoPoll
    /\ pendingAction' = IF pendingAction # "none" THEN "none" ELSE IF openPoll.closed THEN "reopen" ELSE "close"
    /\ UNCHANGED <<part, offset, server, poll, voting, drafts, lifecycle, history>>

Confirm ==
    /\ pendingAction # "none" /\ lifecycle = "none"
    /\ lifecycle' = pendingAction /\ pendingAction' = "none"
    /\ UNCHANGED <<part, offset, server, poll, voting, drafts, history, acts>>

(* The success leaves the page of the poll for the list of polls.           *)
LifecycleSucceeds ==
    /\ lifecycle # "none" /\ lifecycle' = "none"
    /\ server' = [server EXCEPT !.closed = lifecycle = "close"]
    /\ invalidateQueries
    /\ UNCHANGED <<part, offset, openPoll, voting, drafts, pendingAction, sent, meant, wishedEnd, excused, acts>>

Next ==
    \/ Answer \/ Fail \/ setSelections \/ submitVote \/ ConfirmVote \/ setPendingVote \/ VoteSucceeds \/ VoteRefused \/ VoteFails \/ Elsewhere
    \/ openEditor \/ setEditor \/ setOptions \/ setEndsAt \/ mutationFn \/ SaveSucceeds \/ SaveRefused \/ SomeoneVotes
    \/ setPendingAction \/ Confirm \/ LifecycleSucceeds

Spec == Init /\ [][Next]_vars

Progress == Answer \/ ConfirmVote \/ VoteSucceeds \/ VoteRefused \/ SaveSucceeds \/ SaveRefused \/ LifecycleSucceeds

-----------------------------------------------------------------------------
(* Every variable keeps its type.                                           *)
TypeOK ==
    /\ request \in {"none", "asked"} /\ pendingAction \in {"none", "close", "reopen"} /\ lifecycle \in {"none", "close", "reopen"}
    /\ selections = None \/ selections \subseteq 1 .. 4
    /\ vote = None \/ vote \subseteq 1 .. 4
    /\ \A i \in DOMAIN server.options : server.options[i].id \in 1 .. 4
    /\ missed \in BOOLEAN /\ excused \in BOOLEAN

(* When nothing is under way, the poll shown is that of the server unless   *)
(* it changed elsewhere or the last call has failed, and a vote cast and    *)
(* not touched since is both the one ticked and the one recorded.           *)
MyVoteIsShown ==
    request = "none" /\ vote = None /\ ~missed /\ openPoll # NoPoll =>
        /\ openPoll = server
        /\ sent # None => sent = server.mine /\ selected = sent

(* No more is ever ticked than the poll shown allows, as long as the poll   *)
(* did not change elsewhere.                                                *)
TicksAreAllowed ==
    openPoll # NoPoll /\ selections # None /\ selections \subseteq Ids(openPoll) /\ selections # openPoll.mine =>
        Cardinality(selections) <= maxSelections(openPoll)

(* An option that was voted for keeps the text it was voted for until it is *)
(* renamed on purpose, unless votes came in while the editor was open.      *)
LabelsFollowVotes ==
    save = NoSave /\ ~excused =>
        \A i \in DOMAIN server.options : meant[server.options[i].id] # Blank => server.options[i].text = meant[server.options[i].id]

(* The end of a poll is the one last meant, or earlier by the offset of the *)
(* browser from UTC where the last save left the end as it was: the one     *)
(* loss the code has.                                                       *)
EndIsKept ==
    save = NoSave /\ ~excused =>
        server.ends = wishedEnd \/ (offset # 0 /\ wishedEnd # NoEnd /\ server.ends = wishedEnd - offset)

(* Where results are shown an option never stands below one with fewer      *)
(* votes.                                                                   *)
ResultsAreInOrder ==
    openPoll # NoPoll /\ can_view_results(openPoll) =>
        LET s == getDisplayedOptions(openPoll) IN \A i, j \in DOMAIN s : i < j => Votes(openPoll, s[i]) >= Votes(openPoll, s[j])
=============================================================================

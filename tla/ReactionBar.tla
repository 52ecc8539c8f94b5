---------------------------- MODULE ReactionBar ----------------------------
(***************************************************************************)
(* The reactions to one item: a summary that the page hands down, changed  *)
(* before the server answers and put back when it refuses.  The page reads  *)
(* its summaries while the user clicks: one may have been read before the  *)
(* server handled a click and be handed down after it was answered.  A bar  *)
(* that is left with its request under way is not followed.                *)
(*                                                                         *)
(* The proofs, for any emojis and any number of acts, are at the end.      *)
(***************************************************************************)
EXTENDS Integers, TLAPS

CONSTANTS
    Emojis,
    MaxActs     \* bound on what is clicked, done elsewhere or handed down

VARIABLES
    mine,       \* emojis that the user has put, at the server
    others,     \* emojis that another user has put
    wire,       \* summaries that the page reads, until and after they arrive:
                \* [groups, for_me, fresh], fresh (history) until mine changes
    summary,    \* each emoji: how often, whether by the user, and with an id
    previous,   \* the context of the mutation
    mutation,   \* the request under way
    given,      \* history: the last summary the bar had from the server
    overtaken,  \* history: it was handed down during the request
    reverted,   \* history: and a refusal has put an older one in its place
    astray,     \* history: the summary may not know the user's reactions
    acts        \* counts towards MaxActs

server == <<mine, others>>
counted == <<given, overtaken, reverted>>
vars == <<server, wire, summary, previous, mutation, counted, astray, acts>>

Group(n, me, id) == [count |-> n, me |-> me, id |-> id]
Count(b) == IF b THEN 1 ELSE 0

(* The summary as the server makes it, for the user or for anyone           *)
Served(for_me, m, o) ==
    [e \in Emojis |-> Group(Count(e \in m) + Count(e \in o), for_me /\ e \in m, for_me /\ e \in m)]

Idle == mutation.st = "idle"
Request(st, put, e) == [st |-> st, put |-> put, emoji |-> e,
                        answer |-> Served(FALSE, {}, {}), fresh |-> TRUE]
None == Request("idle", FALSE, CHOOSE e \in Emojis : TRUE)

Init ==
    /\ mine \in SUBSET Emojis /\ others \in SUBSET Emojis
    /\ summary = Served(TRUE, mine, others) /\ previous = summary
    /\ wire = {[groups |-> summary, for_me |-> TRUE, fresh |-> TRUE]}
    /\ mutation = None
    /\ given = summary /\ overtaken = FALSE /\ reverted = FALSE
    /\ astray = FALSE /\ acts = 0

Acts == acts < MaxActs /\ acts' = acts + 1

OptimisticAdd(s, e) ==
    IF s[e].me THEN s ELSE [s EXCEPT ![e] = Group(@.count + 1, TRUE, FALSE)]

OptimisticRemove(s, e) ==
    IF ~ s[e].me THEN s ELSE [s EXCEPT ![e] = Group(@.count - 1, FALSE, FALSE)]

Toggled(s, e) == IF s[e].me THEN OptimisticRemove(s, e) ELSE OptimisticAdd(s, e)

(* onMutate. The buttons are disabled while a request is under way. A group *)
(* without an id is put once more.                                          *)
Toggle(e) ==
    /\ Acts
    /\ Idle
    /\ mutation' = Request("sent", ~ (summary[e].me /\ summary[e].id), e)
    /\ previous' = summary
    /\ summary' = Toggled(summary, e)
    /\ overtaken' = FALSE
    /\ UNCHANGED <<server, wire, given, reverted, astray>>

(* What was read of the user's reactions before they changed is old.        *)
Outdated == {[w EXCEPT !.fresh = FALSE] : w \in wire}

(* putReaction may be repeated; deleteReaction of a reaction that is gone is*)
(* an error.                                                                *)
Handle ==
    /\ mutation.st = "sent"
    /\ LET e == mutation.emoji
       IN  /\ mine' = IF mutation.put THEN mine \cup {e} ELSE mine \ {e}
           /\ mutation' = IF mutation.put \/ e \in mine
                          THEN [mutation EXCEPT !.st = "done", !.answer = Served(TRUE, mine', others)]
                          ELSE [mutation EXCEPT !.st = "refused"]
    /\ wire' = IF mine' = mine THEN wire ELSE Outdated
    /\ UNCHANGED <<others, summary, previous, counted, astray, acts>>

Refuse ==
    /\ mutation.st = "sent" /\ mutation' = [mutation EXCEPT !.st = "refused"]
    /\ UNCHANGED <<server, wire, summary, previous, counted, astray, acts>>

(* The answer is lost: an error as well.                                    *)
Lose ==
    /\ Acts
    /\ mutation.st = "done" /\ mutation' = [mutation EXCEPT !.st = "refused"]
    /\ astray' = TRUE
    /\ UNCHANGED <<server, wire, summary, previous, counted>>

(* onSuccess                                                                *)
Succeed ==
    /\ mutation.st = "done" /\ mutation' = None
    /\ summary' = mutation.answer /\ given' = summary'
    /\ overtaken' = FALSE /\ reverted' = FALSE
    /\ astray' = ~ mutation.fresh
    /\ UNCHANGED <<server, wire, previous, acts>>

BugFail ==
    /\ mutation.st = "refused" /\ mutation' = None
    /\ UNCHANGED <<server, wire, summary, previous, counted, astray, acts>>

(* onError puts back what was shown when the button was clicked, older than *)
(* what may have been handed down since.                                    *)
Fail ==
    /\ mutation.st = "refused" /\ mutation' = None
    /\ summary' = previous
    /\ reverted' = (reverted \/ overtaken) /\ overtaken' = FALSE
    /\ UNCHANGED <<server, wire, previous, given, astray, acts>>

OtherUser(e) ==
    /\ Acts
    /\ others' = IF e \in others THEN others \ {e} ELSE others \cup {e}
    /\ UNCHANGED <<mine, wire, summary, previous, mutation, counted, astray>>

OtherTab(e) ==
    /\ Acts
    /\ mine' = IF e \in mine THEN mine \ {e} ELSE mine \cup {e}
    /\ wire' = Outdated /\ mutation' = [mutation EXCEPT !.fresh = FALSE]
    /\ astray' = TRUE
    /\ UNCHANGED <<others, summary, previous, counted>>

(* The server answers the page's query, for the user, or makes a snapshot   *)
(* that a socket brings to everybody alike.                                 *)
Read(for_me) ==
    /\ Acts
    /\ wire' = wire \cup {[groups |-> Served(for_me, mine, others), for_me |-> for_me, fresh |-> TRUE]}
    /\ UNCHANGED <<server, summary, previous, mutation, counted, astray>>

(* The reactions are counted before those of the user are looked up: a      *)
(* summary under way, or an answer, can tell his later ones beside the      *)
(* counts of before.                                                        *)
Marked(s) ==
    [e \in Emojis |-> LET me == e \in mine /\ s[e].count # 0 IN Group(s[e].count, me, me)]

LookUp ==
    /\ Acts
    /\ \/ \E w \in wire : /\ w.for_me /\ ~ w.fresh
                        /\ wire' = wire \cup {[w EXCEPT !.groups = Marked(@)]}
          /\ UNCHANGED mutation
       \/ /\ mutation.st = "done" /\ ~ mutation.fresh
          /\ mutation' = [mutation EXCEPT !.answer = Marked(@)]
          /\ UNCHANGED wire
    /\ UNCHANGED <<server, summary, previous, counted, astray>>

(* The effect on the property: what was read comes, however late, or comes  *)
(* again from the page's cache.                                             *)
HandDown ==
    /\ Acts
    /\ \E w \in wire :
        /\ summary' = w.groups /\ given' = w.groups
        /\ astray' = IF Idle THEN ~ (w.for_me /\ w.fresh) ELSE astray
    /\ overtaken' = ~ Idle /\ reverted' = FALSE
    /\ UNCHANGED <<server, wire, previous, mutation>>

Next ==
    \/ \E e \in Emojis : Toggle(e) \/ OtherUser(e) \/ OtherTab(e)
    \/ Handle \/ Refuse \/ Lose \/ Succeed \/ Fail
    \/ (\E for_me \in BOOLEAN : Read(for_me)) \/ LookUp \/ HandDown

Spec == Init /\ [][Next]_vars
-----------------------------------------------------------------------------
TypeOK ==
    /\ mine \subseteq Emojis /\ others \subseteq Emojis
    /\ \A e \in Emojis : summary[e].count \in 0 .. 3 /\ (summary[e].id => summary[e].me)
    /\ mutation.st \in {"idle", "sent", "done", "refused"}

(* With no request under way the bar shows exactly the user's reactions,    *)
(* unless another tab or a lost answer has led it astray, or a summary that *)
(* was made for everybody, or read before the reactions changed.            *)
MyReactionsAreShown ==
    Idle /\ ~ astray => {e \in Emojis : summary[e].me} = mine

(* With no request under way the bar shows the last summary it had from the *)
(* server, and during one differs from it by one reaction of the emoji      *)
(* clicked, unless a refusal has put back one older than what was handed    *)
(* down meanwhile.                                                          *)
CountsAreServed ==
    ~ reverted =>
        /\ Idle => summary = given
        /\ \A e \in Emojis : summary[e] # given[e] =>
            e = mutation.emoji /\ summary[e].count \in {given[e].count - 1, given[e].count + 1}
-----------------------------------------------------------------------------
(* Summaries whose groups count n at most: an id is the user's reaction,    *)
(* and the user's reaction is counted.                                      *)
Groups(n) == {g \in [count : 0 .. n, me : BOOLEAN, id : BOOLEAN] :
                (g.id => g.me) /\ (g.me => g.count # 0)}

Summaries(n) == [Emojis -> Groups(n)]

(* The emojis that a summary shows as put by the user.                      *)
Shown(s) == {e \in Emojis : s[e].me}

Mutations == [st : {"idle", "sent", "done", "refused"}, put : BOOLEAN, emoji : Emojis \cup {None.emoji},
              answer : Summaries(2), fresh : BOOLEAN]

(* The summary is one more than the server's only while a request that adds *)
(* is under way; what it is put back to is not.                             *)
Types ==
    /\ mine \subseteq Emojis /\ others \subseteq Emojis
    /\ wire \subseteq [groups : Summaries(2), for_me : BOOLEAN, fresh : BOOLEAN]
    /\ summary \in Summaries(3) /\ previous \in Summaries(2) /\ given \in Summaries(2)
    /\ Idle => summary \in Summaries(2)
    /\ mutation \in Mutations /\ (~ Idle => mutation.emoji \in Emojis)
    /\ astray \in BOOLEAN /\ overtaken \in BOOLEAN /\ reverted \in BOOLEAN

(* What was read for the user, and the answer to his click, tell his        *)
(* reactions until these change.                                            *)
WireIsTrue == \A w \in wire : w.for_me /\ w.fresh => Shown(w.groups) = mine
AnswerIsTrue == mutation.st = "done" /\ mutation.fresh => Shown(mutation.answer) = mine

(* A request that has not been carried out, or was refused, has left the    *)
(* user's reactions as they were shown when the button was clicked.         *)
BackIsTrue == mutation.st \in {"sent", "refused"} /\ ~ astray => Shown(previous) = mine

Mine == WireIsTrue /\ AnswerIsTrue /\ BackIsTrue /\ MyReactionsAreShown

(* During a request the bar shows the click on top of what it was given, or *)
(* what was handed down since.                                              *)
Counted ==
    ~ reverted =>
        /\ Idle \/ overtaken => summary = given
        /\ ~ Idle /\ ~ overtaken => previous = given /\ summary = Toggled(given, mutation.emoji)

Inv == Types /\ Mine /\ Counted

LEMMA ServedIsSummary ==
    ASSUME NEW b \in BOOLEAN, NEW m \in SUBSET Emojis, NEW o \in SUBSET Emojis
    PROVE  /\ Served(b, m, o) \in Summaries(2)
           /\ Shown(Served(b, m, o)) = IF b THEN m ELSE {}
<1>1. ASSUME NEW e \in Emojis PROVE Served(b, m, o)[e] \in Groups(2)
  <2> DEFINE own == b /\ e \in m
             count == Count(e \in m) + Count(e \in o)
  <2>1. own \in BOOLEAN /\ count \in 0 .. 2 /\ (own => count # 0)
        BY DEF Count
  <2>2. Served(b, m, o)[e] = Group(count, own, own)
        BY DEF Served
  <2> HIDE DEF own, count
  <2> QED BY <2>1, <2>2 DEF Group, Groups
<1>2. Served(b, m, o) \in Summaries(2)
      BY <1>1 DEF Served, Summaries
<1>3. \A e \in Emojis : Served(b, m, o)[e].me = (b /\ e \in m)
      BY DEF Served, Group
<1> QED BY <1>2, <1>3 DEF Shown

LEMMA SmallerSummaries == Summaries(2) \subseteq Summaries(3)
BY DEF Summaries, Groups

LEMMA NoneIsIdle == None \in Mutations /\ None.st = "idle"
BY ServedIsSummary DEF None, Request, Mutations

(* What a click adds to or takes off a summary leaves a summary.            *)
LEMMA OptimisticIsSummary ==
    ASSUME NEW s \in Summaries(2), NEW e \in Emojis
    PROVE  OptimisticAdd(s, e) \in Summaries(3) /\ OptimisticRemove(s, e) \in Summaries(3)
<1>1. /\ s[e].count \in 0 .. 2 /\ s[e].me \in BOOLEAN
      /\ s[e].me => s[e].count # 0
      BY DEF Summaries, Groups
<1>2. Group(s[e].count + 1, TRUE, FALSE) \in Groups(3)
      BY <1>1 DEF Group, Groups
<1>3. s[e].me => Group(s[e].count - 1, FALSE, FALSE) \in Groups(3)
      BY <1>1 DEF Group, Groups
<1>4. s \in [Emojis -> Groups(3)]
      BY SmallerSummaries DEF Summaries
<1> QED BY <1>2, <1>3, <1>4 DEF OptimisticAdd, OptimisticRemove, Summaries

(* A click changes nothing but the emoji clicked, by one.                   *)
LEMMA ToggledByOne ==
    ASSUME NEW s \in Summaries(2), NEW e \in Emojis
    PROVE  /\ Toggled(s, e) \in Summaries(3)
           /\ \A f \in Emojis : Toggled(s, e)[f] # s[f] =>
                f = e /\ Toggled(s, e)[f].count \in {s[f].count - 1, s[f].count + 1}
<1>1. Toggled(s, e) \in Summaries(3)
      BY OptimisticIsSummary DEF Toggled
<1>2. \A f \in Emojis : f # e => Toggled(s, e)[f] = s[f]
      BY DEF Toggled, OptimisticAdd, OptimisticRemove, Summaries
<1>3. Toggled(s, e)[e].count \in {s[e].count - 1, s[e].count + 1}
      BY DEF Toggled, OptimisticAdd, OptimisticRemove, Group, Summaries
<1> QED BY <1>1, <1>2, <1>3

LEMMA InitInv == Init => Inv
<1> SUFFICES ASSUME Init PROVE Inv
    OBVIOUS
<1>1. summary \in Summaries(2) /\ Shown(summary) = mine
      BY ServedIsSummary DEF Init
<1>2. /\ wire \subseteq [groups : Summaries(2), for_me : BOOLEAN, fresh : BOOLEAN]
      /\ \A w \in wire : w.groups = summary
  <2> DEFINE first == [groups |-> summary, for_me |-> TRUE, fresh |-> TRUE]
  <2>1. first \in [groups : Summaries(2), for_me : BOOLEAN, fresh : BOOLEAN] /\ first.groups = summary
        BY <1>1
  <2>2. wire = {first}
        BY DEF Init
  <2> HIDE DEF first
  <2> QED BY <2>1, <2>2
<1>3. mutation \in Mutations /\ mutation.st = "idle"
      BY NoneIsIdle DEF Init
<1>4. Types
      BY <1>1, <1>2, <1>3, SmallerSummaries DEF Init, Types, Idle
<1>5. Mine
  <2>1. WireIsTrue
        BY <1>1, <1>2 DEF WireIsTrue
  <2> QED BY <1>1, <1>3, <2>1 DEF Mine, AnswerIsTrue, BackIsTrue, MyReactionsAreShown, Shown
<1>6. Counted
      BY NoneIsIdle DEF Init, Counted, Idle
<1> QED BY <1>4, <1>5, <1>6 DEF Inv

LEMMA ToggleInv ==
    ASSUME Inv, NEW e \in Emojis, Toggle(e)
    PROVE  Inv'
<1> USE DEF Inv, Types
<1>1. /\ mutation'.st = "sent" /\ previous' = summary /\ overtaken' = FALSE
      /\ UNCHANGED <<mine, others, wire, given, reverted, astray>>
      BY DEF Toggle, Request, server
<1>2. summary \in Summaries(2) /\ Idle
      BY DEF Toggle
<1>3. summary' = Toggled(summary, e) /\ summary' \in Summaries(3)
      BY <1>2, ToggledByOne DEF Toggle
<1>4. mutation' \in Mutations /\ mutation'.emoji = e
  <2> DEFINE put == ~ (summary[e].me /\ summary[e].id)
  <2>1. put \in BOOLEAN
        OBVIOUS
  <2>2. mutation' = Request("sent", put, e)
        BY DEF Toggle
  <2> HIDE DEF put
  <2> QED BY <2>1, <2>2, ServedIsSummary DEF Request, Mutations
<1>5. Types'
      BY <1>1, <1>2, <1>3, <1>4 DEF Idle
<1>6. Mine'
      BY <1>1, <1>2 DEF Mine, WireIsTrue, AnswerIsTrue, BackIsTrue, MyReactionsAreShown, Shown, Idle
<1>7. Counted'
      BY <1>1, <1>2, <1>3, <1>4 DEF Counted, Idle
<1> QED BY <1>5, <1>6, <1>7

(* A reaction that is taken off and was not there leaves nothing changed.   *)
LEMMA HandleInv ==
    ASSUME Inv, Handle
    PROVE  Inv'
<1> USE DEF Inv, Types
<1>1. /\ mutation.st = "sent" /\ mutation.emoji \in Emojis /\ ~ Idle
      /\ UNCHANGED <<others, summary, previous, given, overtaken, reverted, astray>>
      BY DEF Handle, Idle, counted
<1>2. mine' \in SUBSET Emojis
      BY <1>1 DEF Handle
<1>3. /\ Served(TRUE, mine', others) \in Summaries(2)
      /\ Shown(Served(TRUE, mine', others)) = mine'
      BY <1>2, ServedIsSummary
<1>4. /\ mutation' \in Mutations
      /\ mutation'.emoji = mutation.emoji
      /\ mutation'.st \in {"done", "refused"}
      /\ mutation'.st = "refused" => mine' = mine
      /\ mutation'.st = "done" => Shown(mutation'.answer) = mine'
      BY <1>1, <1>3 DEF Handle, Mutations
<1>5. /\ wire' \subseteq [groups : Summaries(2), for_me : BOOLEAN, fresh : BOOLEAN]
      /\ (wire' = wire /\ mine' = mine) \/ (\A w \in wire' : ~ w.fresh)
      BY DEF Handle, Outdated
<1>6. Types'
      BY <1>1, <1>2, <1>4, <1>5 DEF Idle
<1>7. Mine'
      BY <1>1, <1>4, <1>5 DEF Mine, WireIsTrue, AnswerIsTrue, BackIsTrue, MyReactionsAreShown, Idle, Shown
<1>8. Counted'
      BY <1>1, <1>4 DEF Counted, Idle
<1> QED BY <1>6, <1>7, <1>8

LEMMA RefuseInv ==
    ASSUME Inv, Refuse \/ Lose
    PROVE  Inv'
<1> USE DEF Inv, Types
<1>1. /\ ~ Idle /\ UNCHANGED <<mine, others, wire, summary, previous, given, overtaken, reverted>>
      /\ mutation' = [mutation EXCEPT !.st = "refused"]
      /\ astray' = TRUE \/ (mutation.st = "sent" /\ astray' = astray)
      BY DEF Refuse, Lose, Idle, server, counted
<1>2. mutation' \in Mutations /\ mutation'.st = "refused" /\ mutation'.emoji = mutation.emoji
      BY <1>1 DEF Mutations
<1>3. Types'
      BY <1>1, <1>2 DEF Idle
<1>4. Mine'
      BY <1>1, <1>2 DEF Mine, WireIsTrue, AnswerIsTrue, BackIsTrue, MyReactionsAreShown, Idle
<1>5. Counted'
      BY <1>1, <1>2 DEF Counted, Idle
<1> QED BY <1>3, <1>4, <1>5

(* The bar shows what the answer brings, or what it was put back to.        *)
LEMMA SettleInv ==
    ASSUME Inv, Succeed \/ Fail
    PROVE  Inv'
<1> USE DEF Inv, Types
<1>1. UNCHANGED <<mine, others, wire, previous>> /\ mutation' = None /\ Idle' /\ ~ Idle /\ overtaken' = FALSE
      BY NoneIsIdle DEF Succeed, Fail, Idle, server
<1>2. summary' \in Summaries(2) /\ given' \in Summaries(2) /\ astray' \in BOOLEAN /\ reverted' \in BOOLEAN
      BY DEF Succeed, Fail, Mutations
<1>3. ~ astray' => Shown(summary') = mine
      BY DEF Succeed, Fail, Mine, BackIsTrue, AnswerIsTrue, Mutations
<1>4. ~ reverted' => summary' = given'
      BY <1>1 DEF Succeed, Fail, Counted
<1>5. Types'
      BY <1>1, <1>2, NoneIsIdle, SmallerSummaries
<1>6. Mine'
      BY <1>1, <1>3, NoneIsIdle DEF Mine, WireIsTrue, AnswerIsTrue, BackIsTrue, MyReactionsAreShown, Shown
<1>7. Counted'
      BY <1>1, <1>4 DEF Counted
<1> QED BY <1>5, <1>6, <1>7

LEMMA OtherInv ==
    ASSUME Inv, NEW e \in Emojis, OtherUser(e) \/ OtherTab(e)
    PROVE  Inv'
<1> USE DEF Inv, Types
<1>1. UNCHANGED <<summary, previous, given, overtaken, reverted>>
      BY DEF OtherUser, OtherTab, counted
<1>2. mine' \subseteq Emojis /\ others' \subseteq Emojis
      BY DEF OtherUser, OtherTab
<1>3. /\ mutation' \in Mutations /\ mutation'.st = mutation.st /\ mutation'.emoji = mutation.emoji
      /\ wire' \subseteq [groups : Summaries(2), for_me : BOOLEAN, fresh : BOOLEAN]
      /\ \/ UNCHANGED <<mine, wire, mutation, astray>>
         \/ astray' = TRUE /\ mutation'.fresh = FALSE /\ \A w \in wire' : ~ w.fresh
  <2>1. CASE OtherUser(e)
        BY <2>1 DEF OtherUser
  <2>2. CASE OtherTab(e)
    <3>1. /\ mutation' \in Mutations /\ mutation'.st = mutation.st /\ mutation'.emoji = mutation.emoji
          /\ mutation'.fresh = FALSE
          BY <2>2 DEF OtherTab, Mutations
    <3>2. /\ wire' \subseteq [groups : Summaries(2), for_me : BOOLEAN, fresh : BOOLEAN]
          /\ \A w \in wire' : ~ w.fresh
          BY <2>2 DEF OtherTab, Outdated
    <3> QED BY <2>2, <3>1, <3>2 DEF OtherTab
  <2> QED BY <2>1, <2>2
<1>4. Types'
      BY <1>1, <1>2, <1>3 DEF Idle
<1>5. Mine'
      BY <1>1, <1>3 DEF Mine, WireIsTrue, AnswerIsTrue, BackIsTrue, MyReactionsAreShown, Shown, Idle
<1>6. Counted'
      BY <1>1, <1>3 DEF Counted, Idle
<1> QED BY <1>4, <1>5, <1>6

LEMMA ReadInv ==
    ASSUME Inv, NEW for_me \in BOOLEAN, Read(for_me)
    PROVE  Inv'
<1> USE DEF Inv, Types
<1> DEFINE w == [groups |-> Served(for_me, mine, others), for_me |-> for_me, fresh |-> TRUE]
<1>1. /\ UNCHANGED <<mine, others, summary, previous, mutation, given, overtaken, reverted, astray>>
      /\ wire' = wire \cup {w}
      BY DEF Read, server, counted
<1>2. /\ w \in [groups : Summaries(2), for_me : BOOLEAN, fresh : BOOLEAN]
      /\ w.for_me => Shown(w.groups) = mine
      BY ServedIsSummary
<1> HIDE DEF w
<1>3. Types'
      BY <1>1, <1>2 DEF Idle
<1>4. Mine'
      BY <1>1, <1>2 DEF Mine, WireIsTrue, AnswerIsTrue, BackIsTrue, MyReactionsAreShown, Shown, Idle
<1>5. Counted'
      BY <1>1 DEF Counted, Idle
<1> QED BY <1>3, <1>4, <1>5

(* Only what is outdated is marked anew.                                    *)
LEMMA LookUpInv ==
    ASSUME Inv, LookUp
    PROVE  Inv'
<1> USE DEF Inv, Types
<1>1. UNCHANGED <<mine, others, summary, previous, given, overtaken, reverted, astray>>
      BY DEF LookUp, server, counted
<1>2. ASSUME NEW s \in Summaries(2) PROVE Marked(s) \in Summaries(2)
  <2>1. ASSUME NEW e \in Emojis PROVE Marked(s)[e] \in Groups(2)
    <3> DEFINE me == e \in mine /\ s[e].count # 0
    <3>1. me \in BOOLEAN /\ s[e].count \in 0 .. 2 /\ (me => s[e].count # 0)
          BY DEF Summaries, Groups
    <3>2. Marked(s)[e] = Group(s[e].count, me, me)
          BY DEF Marked
    <3> HIDE DEF me
    <3> QED BY <3>1, <3>2 DEF Group, Groups
  <2> QED BY <2>1 DEF Marked, Summaries
<1>3. /\ wire' \subseteq [groups : Summaries(2), for_me : BOOLEAN, fresh : BOOLEAN]
      /\ \A w \in wire' : w \in wire \/ ~ w.fresh
      /\ mutation' \in Mutations /\ mutation'.st = mutation.st /\ mutation'.emoji = mutation.emoji
      /\ mutation' = mutation \/ ~ mutation'.fresh
  <2>1. CASE UNCHANGED wire
        BY <2>1, <1>2 DEF LookUp, Mutations
  <2>2. CASE UNCHANGED mutation
    <3>1. CASE UNCHANGED wire
          BY <3>1, <2>2
    <3>2. CASE \E w \in wire : ~ w.fresh /\ wire' = wire \cup {[w EXCEPT !.groups = Marked(@)]}
      <4>1. PICK w \in wire : ~ w.fresh /\ wire' = wire \cup {[w EXCEPT !.groups = Marked(@)]}
            BY <3>2
      <4>2. w \in [groups : Summaries(2), for_me : BOOLEAN, fresh : BOOLEAN] /\ Marked(w.groups) \in Summaries(2)
            BY <1>2
      <4>3. /\ [w EXCEPT !.groups = Marked(@)] \in [groups : Summaries(2), for_me : BOOLEAN, fresh : BOOLEAN]
            /\ ~ [w EXCEPT !.groups = Marked(@)].fresh
            BY <4>1, <4>2
      <4> QED BY <2>2, <4>1, <4>3
    <3> QED BY <3>1, <3>2 DEF LookUp
  <2> QED BY <2>1, <2>2 DEF LookUp
<1>4. Types'
      BY <1>1, <1>3 DEF Idle
<1>5. Mine'
      BY <1>1, <1>3 DEF Mine, WireIsTrue, AnswerIsTrue, BackIsTrue, MyReactionsAreShown, Shown, Idle
<1>6. Counted'
      BY <1>1, <1>3 DEF Counted, Idle
<1> QED BY <1>4, <1>5, <1>6

LEMMA HandDownInv ==
    ASSUME Inv, HandDown
    PROVE  Inv'
<1> USE DEF Inv, Types
<1>1. /\ UNCHANGED <<mine, others, wire, previous, mutation>>
      /\ overtaken' = ~ Idle /\ reverted' = FALSE
      BY DEF HandDown, server
<1>2. PICK w \in wire : /\ summary' = w.groups /\ given' = w.groups
                        /\ astray' = IF Idle THEN ~ (w.for_me /\ w.fresh) ELSE astray
      BY DEF HandDown
<1>3. summary' \in Summaries(2) /\ given' = summary'
      BY <1>2
<1>4. /\ w.for_me \in BOOLEAN /\ w.fresh \in BOOLEAN
      /\ w.for_me /\ w.fresh => Shown(w.groups) = mine
      BY DEF Mine, WireIsTrue
<1>5. astray' \in BOOLEAN /\ (Idle /\ ~ astray' => Shown(summary') = mine) /\ (~ Idle => astray' = astray)
      BY <1>2, <1>4
<1>6. Types'
      BY <1>1, <1>3, <1>5, SmallerSummaries DEF Idle
<1>7. Mine'
      BY <1>1, <1>5 DEF Mine, WireIsTrue, AnswerIsTrue, BackIsTrue, MyReactionsAreShown, Shown, Idle
<1>8. Counted'
      BY <1>1, <1>3 DEF Counted, Idle
<1> QED BY <1>6, <1>7, <1>8

LEMMA NextInv == Inv /\ [Next]_vars => Inv'
<1> SUFFICES ASSUME Inv, [Next]_vars PROVE Inv'
    OBVIOUS
<1>1. CASE UNCHANGED vars
      BY <1>1 DEF vars, server, counted, Inv, Types, Mine, WireIsTrue, AnswerIsTrue, BackIsTrue,
                  MyReactionsAreShown, Shown, Counted, Idle
<1>2. CASE Next
      BY <1>2, ToggleInv, HandleInv, RefuseInv, SettleInv, OtherInv, ReadInv, LookUpInv, HandDownInv DEF Next
<1> QED BY <1>1, <1>2

(* Between requests the bar shows the user's reactions, for any emojis,     *)
(* clicks, refusals, changes elsewhere and summaries however late, unless   *)
(* it was led astray (ReactionBar's onMutate, onError, onSuccess, effect).  *)
THEOREM MyReactionsAreShownHolds == Spec => []MyReactionsAreShown
<1>1. Inv => MyReactionsAreShown
      BY DEF Inv, Mine
<1> QED BY InitInv, NextInv, <1>1, PTL DEF Spec

(* The bar shows what it last had from the server, or during a request that *)
(* with the emoji clicked counted once more or less, unless a refusal has   *)
(* put an older summary in the place of one handed down meanwhile.          *)
THEOREM CountsAreServedHolds == Spec => []CountsAreServed
<1>1. Inv => CountsAreServed
  <2> SUFFICES ASSUME Inv, ~ reverted PROVE CountsAreServed
      BY DEF CountsAreServed
  <2>1. CASE Idle \/ overtaken
        BY <2>1 DEF Inv, Counted, CountsAreServed
  <2>2. CASE ~ Idle /\ ~ overtaken
    <3>1. summary = Toggled(given, mutation.emoji) /\ given \in Summaries(2) /\ mutation.emoji \in Emojis
          BY <2>2 DEF Inv, Types, Counted
    <3> QED BY <2>2, <3>1, ToggledByOne DEF CountsAreServed
  <2> QED BY <2>1, <2>2
<1> QED BY InitInv, NextInv, <1>1, PTL DEF Spec
=============================================================================

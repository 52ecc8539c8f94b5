--------------------------- MODULE SharedDisplays ---------------------------
(***************************************************************************)
(* What pages show in common: the players behind the names, asked for in   *)
(* batches; the item to follow one; how a name is spoken; the history of   *)
(* the world records of a map and the chart of its gaps; the dates.        *)
(***************************************************************************)
EXTENDS Integers, Sequences, FiniteSets, SequencesExt

CONSTANTS
    Queries,      \* what asks for players, by number: [players |-> Seq, scope |-> Nat, timed |-> BOOLEAN]
    MaxBatches,   \* bound on the batches under way
    Changing,     \* players whose profile changes
    WorldRecords,      \* records of a map, oldest first: [id, holder, time, at]
    Clocks,       \* what the clock of the browser may show
    Colours,      \* number of HOLDER_COLORS
    BinWidth, Span, Bins, Medians, Plot, Markers, LabelWidths, Gap, \* the chart of gaps, in pixels and parts of a bin
    Minute, Hour, Day, Now, Ages, \* seconds; the ages may be negative
    Spoken,       \* what is pronounced, by number: whether its id is known
    MaxPolls,     \* of 120
    MaxActs       \* bound on what people do and what goes wrong, of each part

VARIABLES
    part,         \* "names", "follow", "voice" or "chart"
    version, mounted, data, waits, failed, cached, old, aged, inflight, batches, events, \* names
    missed, raced, dropped, wiped, \* history: event lost; answer read before the change; entry dropped; newer promise forgotten
    following, summary, invalid, fetching, menuOpen, sent, elsewhere, overtaken, \* follow
    playback, calls, activeAudio, toast, text, wanted, outdated, \* voice; text: the versions the server speaks; history: last asked for; asked anew while blocked
    listed, now, xAxisMode, highlightedUuid, tip, redrawn, \* chart
    acts

names == <<version, mounted, data, waits, failed, cached, old, aged, inflight, batches, events, missed, raced, dropped, wiped>>
follow == <<following, summary, invalid, fetching, menuOpen, sent, elsewhere, overtaken>>
voice == <<playback, calls, activeAudio, toast, text, wanted, outdated>>
chart == <<listed, now, xAxisMode, highlightedUuid, tip, redrawn>>
vars == <<part, names, follow, voice, chart, acts>>

Acts(p) == part = p /\ acts < MaxActs[p] /\ acts' = acts + 1 /\ UNCHANGED part
Only(p) == part = p /\ UNCHANGED <<part, acts>>
KeepNames == UNCHANGED <<follow, voice, chart>>
KeepFollow == UNCHANGED <<names, voice, chart>>
KeepVoice == UNCHANGED <<names, follow, chart>>
KeepChart == UNCHANGED <<names, follow, voice>>

-----------------------------------------------------------------------------
(* The players.  A key is a player in a scope; a player that was read is    *)
(* its key with the version the server had then.                            *)

Missing == <<0, 0, 0>>
Asking == DOMAIN Queries
KeysOf(q) == [i \in DOMAIN Queries[q].players |-> <<Queries[q].players[i], Queries[q].scope>>]
Keys == UNION {ToSet(KeysOf(q)) : q \in Asking}
Players == {k[1] : k \in Keys}
Slots == 1 .. MaxBatches
NoBatch == [phase |-> "free", keys |-> <<>>, left |-> <<>>, got |-> <<>>]

InPhase(phase) == {s \in Slots : batches[s].phase = phase}
NextBatch == Min(IF InPhase("pending") # {} THEN InPhase("pending") ELSE InPhase("free"))
Fetching(q) == waits[q] # {}
Timed == {q \in mounted : Queries[q].timed}

(* One request per scope, in the order of the first keys.                   *)
BugrequestsByScope(b) == b.left

requestsByScope(b) == SelectSeq(b.left, LAMBDA k : k[2] = b.left[1][2])

uncachedSteamid64s(q, cache, stale) == {k \in ToSet(KeysOf(q)) : cache[k] = Missing \/ k \in stale}

BugqueuePlayerBatchLoad(k) == TRUE

(* Whether a player has to be asked for anew.                               *)
queuePlayerBatchLoad(k) == inflight[k] = 0

Shown(q, cache) == [i \in DOMAIN KeysOf(q) |-> cache[KeysOf(q)[i]]]

(* The queries S call fetchPlayersForDisplay, one after the other.          *)
fetchPlayersForDisplay(S, cache, stale) ==
    LET in(q) == IF q \in S THEN SelectSeq(KeysOf(q), LAMBDA k : k \in uncachedSteamid64s(q, cache, stale) /\ queuePlayerBatchLoad(k))
                 ELSE <<>>
        more(keys, k) == IF k \in ToSet(keys) THEN keys ELSE Append(keys, k)
        flat == FlattenSeq([q \in Asking |-> in(q)])
        new == ToSet(flat)
        keys == FoldLeft(more, batches[NextBatch].keys, flat)
    IN /\ new # {} => InPhase("pending") \cup InPhase("free") # {}
       /\ batches' = (IF new = {} THEN batches
                      ELSE [batches EXCEPT ![NextBatch] = [phase |-> "pending", keys |-> keys, left |-> keys, got |-> <<>>]])
       /\ inflight' = [k \in Keys |-> IF k \in new THEN NextBatch ELSE inflight[k]]
       /\ waits' = [q \in Asking |-> IF q \in S THEN {<<inflight'[k], k>> : k \in uncachedSteamid64s(q, cache, stale)} ELSE waits[q]]
       /\ data' = [q \in Asking |-> IF q \in S /\ waits'[q] = {} THEN Shown(q, cache) ELSE data[q]]

(* A query that is answered at once is as young as the answer.              *)
Anew(S) == UNCHANGED dropped /\ aged' = aged \ {q \in S : waits'[q] = {}}

NamesInit ==
    /\ version = [p \in Players |-> 0] /\ mounted = {} /\ data = [q \in Asking |-> <<>>]
    /\ waits = [q \in Asking |-> {}] /\ failed = {} /\ cached = [k \in Keys |-> Missing] /\ old = {} /\ aged = {}
    /\ inflight = [k \in Keys |-> 0] /\ batches = [s \in Slots |-> NoBatch] /\ events = {}
    /\ missed = {} /\ raced = FALSE /\ dropped = {} /\ wiped = FALSE

(* The queries appear in the order of their numbers, to bound their number. *)
Mount(q) ==
    /\ Only("names") /\ KeepNames /\ q = Cardinality(mounted) + 1 /\ mounted' = mounted \cup {q}
    /\ fetchPlayersForDisplay({q}, cached, old) /\ Anew({q})
    /\ UNCHANGED <<version, failed, cached, old, events, missed, raced, wiped>>

(* A list is asked for again when its page comes back to the front.         *)
Refocus(q) ==
    /\ Acts("names") /\ KeepNames /\ q \in aged /\ ~Fetching(q) /\ q \notin failed
    /\ fetchPlayersForDisplay({q}, cached, old) /\ Anew({q})
    /\ UNCHANGED <<version, mounted, failed, cached, old, events, missed, raced, wiped>>

(* The query library tries again; it gives up after more failures than      *)
(* MaxActs allows for.                                                      *)
Retry(q) ==
    /\ Only("names") /\ KeepNames /\ q \in failed /\ failed' = failed \ {q}
    /\ fetchPlayersForDisplay({q}, cached, old) /\ Anew({q})
    /\ UNCHANGED <<version, mounted, cached, old, events, missed, raced, wiped>>

flushPendingPlayerBatch(s) ==
    /\ Only("names") /\ KeepNames /\ s \in InPhase("pending") /\ batches' = [batches EXCEPT ![s].phase = "asked"]
    /\ UNCHANGED <<version, mounted, data, waits, failed, cached, old, aged, inflight, events, missed, raced, dropped, wiped>>

requestPlayersForDisplay(s) ==
    /\ Only("names") /\ KeepNames /\ s \in InPhase("asked") /\ batches[s].got = <<>>
    /\ LET ids == requestsByScope(batches[s])
       IN batches' = [batches EXCEPT ![s].got = [i \in DOMAIN ids |-> <<ids[i][1], ids[1][2], version[ids[i][1]]>>]]
    /\ UNCHANGED <<version, mounted, data, waits, failed, cached, old, aged, inflight, events, missed, raced, dropped, wiped>>

(* The answer of a request, by position.                                    *)
resolve(s) ==
    LET ids == requestsByScope(batches[s])
        left == SelectSeq(batches[s].left, LAMBDA k : k \notin ToSet(ids))
        cache == [k \in Keys |-> IF k \in ToSet(ids) THEN batches[s].got[CHOOSE i \in DOMAIN ids : ids[i] = k] ELSE cached[k]]
        done == {q \in Asking : Fetching(q) /\ waits[q] \subseteq {<<s, k>> : k \in ToSet(ids)}}
    IN /\ Only("names") /\ KeepNames /\ s \in InPhase("asked") /\ batches[s].got # <<>>
       /\ cached' = cache /\ old' = old \ ToSet(ids)
       /\ inflight' = [k \in Keys |-> IF k \in ToSet(ids) THEN 0 ELSE inflight[k]]
       /\ wiped' = (wiped \/ \E k \in ToSet(ids) : inflight[k] \notin {0, s})
       /\ waits' = [q \in Asking |-> waits[q] \ {<<s, k>> : k \in ToSet(ids)}]
       /\ data' = [q \in Asking |-> IF q \in done THEN Shown(q, cache) ELSE data[q]]
       /\ aged' = aged \ done
       /\ batches' = [batches EXCEPT ![s] = IF left = <<>> THEN NoBatch ELSE [@ EXCEPT !.left = left, !.got = <<>>]]
       /\ UNCHANGED <<version, mounted, failed, events, missed, raced, dropped>>

(* A request fails: all of its batch is given up, the part that was         *)
(* answered already included.                                               *)
reject(s) ==
    LET hit == {q \in Asking : \E w \in waits[q] : w[1] = s}
    IN /\ Acts("names") /\ KeepNames /\ s \in InPhase("asked")
       /\ inflight' = [k \in Keys |-> IF k \in ToSet(batches[s].keys) THEN 0 ELSE inflight[k]]
       /\ wiped' = (wiped \/ \E k \in ToSet(batches[s].keys) : inflight[k] \notin {0, s})
       /\ waits' = [q \in Asking |-> IF q \in hit THEN {} ELSE waits[q]] /\ failed' = failed \cup hit
       /\ batches' = [batches EXCEPT ![s] = NoBatch]
       /\ UNCHANGED <<version, mounted, data, cached, old, aged, events, missed, raced, dropped>>

(* The server has read another name or avatar, and says so.                 *)
ProfileChanges(p) ==
    /\ Acts("names") /\ KeepNames /\ p \in Changing /\ version' = [version EXCEPT ![p] = @ + 1] /\ events' = events \cup {p}
    /\ UNCHANGED <<mounted, data, waits, failed, cached, old, aged, inflight, batches, missed, raced, dropped, wiped>>

(* The connection is down at that moment; what was missed is not sent again.*)
onclose(p) ==
    /\ Only("names") /\ KeepNames /\ p \in events /\ events' = events \ {p} /\ missed' = missed \cup {p}
    /\ UNCHANGED <<version, mounted, data, waits, failed, cached, old, aged, inflight, batches, raced, dropped, wiped>>

BuginvalidateDisplayPlayerCache(p) == cached

invalidateDisplayPlayerCache(p) == [k \in Keys |-> IF k[1] = p THEN Missing ELSE cached[k]]

(* A query that has no data yet is not started again; a list is not asked   *)
(* for at all.                                                              *)
onmessage(p) ==
    LET cache == invalidateDisplayPlayerCache(p)
        again == {q \in Timed : p \in ToSet(Queries[q].players) /\ (data[q] # <<>> \/ ~Fetching(q))}
        read(s) == LET ids == requestsByScope(batches[s])
                   IN batches[s].got # <<>> /\ \E i \in DOMAIN ids : ids[i][1] = p /\ batches[s].got[i][3] # version[p]
        lost == {q \in Asking : Fetching(q) /\ \E k \in ToSet(KeysOf(q)) : k[1] = p /\ \A w \in waits[q] : w[2] # k}
    IN /\ Only("names") /\ KeepNames /\ p \in events /\ events' = events \ {p}
       /\ cached' = cache /\ old' = {k \in old : k[1] # p} /\ failed' = failed \ again
       /\ raced' = (raced \/ \E s \in Slots : read(s))
       /\ fetchPlayersForDisplay(again, cache, old) /\ dropped' = dropped \cup (lost \ again)
       /\ aged' = aged \ again /\ UNCHANGED <<version, mounted, missed, wiped>>

BugrefetchInterval(k) == FALSE

(* Whether an entry of the cache is too old after that time.                *)
refetchInterval(k) == cached[k] # Missing

(* Thirty seconds pass with nothing under way: the names are read again.    *)
HalfMinute ==
    LET stale == {k \in Keys : refetchInterval(k)}
    IN /\ Only("names") /\ KeepNames /\ Timed # {} /\ failed = {} /\ events = {} /\ InPhase("free") = Slots
       /\ old' = stale /\ missed' = {} /\ raced' = FALSE /\ wiped' = FALSE
       /\ fetchPlayersForDisplay(Timed, cached, stale) /\ UNCHANGED dropped /\ aged' = mounted \ Timed
       /\ UNCHANGED <<version, mounted, failed, cached, events>>

-----------------------------------------------------------------------------
(* The item of the menu of a player: "Follow" or "Unfollow".                *)

Unread == "unread"
Word(b) == IF b THEN "following" ELSE "not"
isFollowing == summary = "following"
isLoading == summary = Unread /\ fetching # "no"

FollowInit ==
    /\ following \in BOOLEAN /\ summary = Unread /\ invalid = FALSE /\ fetching = "no" /\ menuOpen = FALSE
    /\ sent = <<>> /\ elsewhere = FALSE /\ overtaken = FALSE

(* What is older than half a minute is read again.                          *)
onContextMenu ==
    /\ Acts("follow") /\ KeepFollow /\ ~menuOpen /\ menuOpen' = TRUE
    /\ fetching' \in (IF fetching # "no" THEN {fetching} ELSE IF summary = Unread \/ invalid THEN {"asked"} ELSE {"no", "asked"})
    /\ UNCHANGED <<following, summary, invalid, sent, elsewhere, overtaken>>

closeMenu ==
    /\ Acts("follow") /\ KeepFollow /\ menuOpen /\ menuOpen' = FALSE
    /\ UNCHANGED <<following, summary, invalid, fetching, sent, elsewhere, overtaken>>

readPlayerFollowSummary ==
    /\ Only("follow") /\ KeepFollow /\ fetching = "asked" /\ fetching' = Word(following) /\ elsewhere' = FALSE /\ overtaken' = FALSE
    /\ UNCHANGED <<following, summary, invalid, menuOpen, sent>>

SummaryArrives ==
    /\ Only("follow") /\ KeepFollow /\ fetching \notin {"no", "asked"}
    /\ summary' = fetching /\ invalid' = FALSE /\ fetching' = "no" /\ UNCHANGED <<following, menuOpen, sent, elsewhere, overtaken>>

(* It is not tried again; what was read before stays.                       *)
SummaryFails ==
    /\ Acts("follow") /\ KeepFollow /\ fetching # "no" /\ fetching' = "no" /\ invalid' = TRUE
    /\ UNCHANGED <<following, summary, menuOpen, sent, elsewhere, overtaken>>

(* The menu closes with the press; opened again, its item does not know of  *)
(* a request under way.                                                     *)
onSelect ==
    /\ Acts("follow") /\ KeepFollow /\ menuOpen /\ ~isLoading /\ menuOpen' = FALSE
    /\ sent' = Append(sent, [want |-> ~isFollowing, done |-> FALSE])
    /\ UNCHANGED <<following, summary, invalid, fetching, elsewhere, overtaken>>

followPlayer(i) ==
    /\ Only("follow") /\ KeepFollow /\ i \in DOMAIN sent /\ ~sent[i].done
    /\ following' = sent[i].want /\ sent' = [sent EXCEPT ![i].done = TRUE]
    /\ UNCHANGED <<summary, invalid, fetching, menuOpen, elsewhere, overtaken>>

BuginvalidateQueries(f) == f

(* The read under way is given up for a new one, if the item is shown; else *)
(* it goes on, and may bring what was before.                               *)
invalidateQueries(f) == IF menuOpen THEN "asked" ELSE f

onSuccess(i) ==
    /\ Only("follow") /\ KeepFollow /\ i \in DOMAIN sent /\ sent[i].done /\ sent' = RemoveAt(sent, i)
    /\ summary' = Word(sent[i].want) /\ fetching' = invalidateQueries(fetching) /\ invalid' = ~menuOpen
    /\ overtaken' = (overtaken \/ (~menuOpen /\ fetching \notin {"no", "asked"})) /\ UNCHANGED <<following, menuOpen, elsewhere>>

(* The answer is lost, or the request; a message is shown, no more.         *)
onError(i) ==
    /\ Acts("follow") /\ KeepFollow /\ i \in DOMAIN sent /\ sent' = RemoveAt(sent, i)
    /\ elsewhere' = (elsewhere \/ sent[i].done) /\ UNCHANGED <<following, summary, invalid, fetching, menuOpen, overtaken>>

FollowElsewhere ==
    /\ Acts("follow") /\ KeepFollow /\ following' = ~following /\ elsewhere' = TRUE
    /\ UNCHANGED <<summary, invalid, fetching, menuOpen, sent, overtaken>>

-----------------------------------------------------------------------------
(* A name is spoken: one press is one call, by number; the last one counts. *)
(* A call may start its audio more than once, when the browser had blocked  *)
(* it, and every start is answered by itself.                               *)

Idle == [key |-> 0, phase |-> "idle"]
NoToast == [kind |-> "none", of |-> 0]
requestVersion == Len(calls)

BugisLast(v) == TRUE

isLast(v) == v = requestVersion

publish(v, phase) == playback' = [key |-> calls[v].key, phase |-> phase]

VoiceInit ==
    /\ playback = Idle /\ calls = <<>> /\ activeAudio = 0 /\ toast = NoToast
    /\ text = [k \in DOMAIN Spoken |-> 0] /\ wanted = [key |-> 0, text |-> 0] /\ outdated = FALSE

BugpauseActive == calls

pauseActive == [v \in DOMAIN calls |-> IF v = activeAudio /\ calls[v].audio = "sounding" THEN [calls[v] EXCEPT !.audio = "silent"] ELSE calls[v]]

startAudio(c, v) == [c EXCEPT ![v].plays = @ + 1]

BugretriesInPlace(k) == activeAudio # 0

retriesInPlace(k) == playback = [key |-> k, phase |-> "blocked"] /\ activeAudio # 0

playPronunciation(k) ==
    IF retriesInPlace(k)
    THEN calls' = startAudio(calls, activeAudio) /\ UNCHANGED <<playback, activeAudio, toast>>
    ELSE /\ calls' = Append(pauseActive, [key |-> k, step |-> IF Spoken[k] THEN "asked" ELSE "map", attempt |-> 0,
                                          audio |-> "none", made |-> 0, plays |-> 0])
         /\ activeAudio' = 0 /\ playback' = [key |-> k, phase |-> "loading"] /\ toast' = [kind |-> "loading", of |-> 0]

loading(k) == playback = [key |-> k, phase |-> "loading"]

(* The button, or the item of a menu, of what is not being fetched.         *)
play(k) ==
    /\ Acts("voice") /\ KeepVoice /\ ~loading(k) /\ playPronunciation(k)
    /\ wanted' = [key |-> k, text |-> text[k]] /\ outdated' = (outdated /\ retriesInPlace(k)) /\ UNCHANGED text

(* An administrator has it spoken anew, and hears it.                       *)
regenerate(k) ==
    /\ Acts("voice") /\ KeepVoice /\ text' = [text EXCEPT ![k] = @ + 1] /\ wanted' = [key |-> k, text |-> text'[k]] /\ playPronunciation(k)
    /\ outdated' = retriesInPlace(k)

Fail(v, c) ==
    /\ calls' = c /\ IF isLast(v) THEN publish(v, "idle") /\ toast' = [kind |-> "failed", of |-> 0] ELSE UNCHANGED <<playback, toast>>
    /\ UNCHANGED activeAudio

Goes(v, step) == calls' = [calls EXCEPT ![v].step = step] /\ UNCHANGED <<playback, activeAudio, toast>>
Over(v) == [calls EXCEPT ![v].step = "over"]

readMaps(v) ==
    /\ Only("voice") /\ KeepVoice /\ UNCHANGED <<text, wanted, outdated>> /\ v \in DOMAIN calls /\ calls[v].step = "map"
    /\ Goes(v, IF isLast(v) THEN "asked" ELSE "over") \/ Fail(v, Over(v))

BuggivesUp(attempt) == FALSE

givesUp(attempt) == attempt >= MaxPolls

(* The job is ready, is under way, or has failed.                           *)
createPronunciation(v) ==
    /\ Only("voice") /\ KeepVoice /\ UNCHANGED <<text, wanted, outdated>> /\ v \in DOMAIN calls /\ calls[v].step = "asked"
    /\ \/ /\ isLast(v) /\ calls' = startAudio([Over(v) EXCEPT ![v].audio = "silent", ![v].made = text[calls[v].key]], v)
          /\ activeAudio' = v /\ UNCHANGED <<playback, toast>>
       \/ ~givesUp(calls[v].attempt) /\ Goes(v, IF isLast(v) THEN "sleep" ELSE "over")
       \/ Fail(v, Over(v))

setTimeoutEnds(v) ==
    /\ Only("voice") /\ KeepVoice /\ UNCHANGED <<playback, activeAudio, toast, text, wanted, outdated>> /\ v \in DOMAIN calls /\ calls[v].step = "sleep"
    /\ calls' = [calls EXCEPT ![v].step = IF isLast(v) THEN "asked" ELSE "over", ![v].attempt = Min({@ + 1, MaxPolls})]

(* What an audio element reports: it plays, the browser does not let it, it *)
(* cannot, it breaks, it is at its end.  All starts succeed or fail at once.*)
Plays(v) ==
    /\ calls[v].plays > 0 /\ calls[v].audio = "silent"
    /\ IF isLast(v) THEN calls' = [calls EXCEPT ![v].plays = 0, ![v].audio = "sounding"] /\ publish(v, "playing") /\ toast' = NoToast
       ELSE calls' = [calls EXCEPT ![v].plays = 0] /\ UNCHANGED <<playback, toast>>

Blocked(v) ==
    /\ calls[v].plays > 0 /\ calls[v].audio = "silent" /\ calls' = [calls EXCEPT ![v].plays = @ - 1]
    /\ IF isLast(v) THEN publish(v, "blocked") /\ toast' = [kind |-> "retry", of |-> v] ELSE UNCHANGED <<playback, toast>>

playReady(v) ==
    /\ Only("voice") /\ KeepVoice /\ UNCHANGED <<text, wanted, outdated>> /\ v \in DOMAIN calls
    /\ \/ (Plays(v) \/ Blocked(v)) /\ UNCHANGED activeAudio
       \/ calls[v].plays > 0 /\ Fail(v, [calls EXCEPT ![v].plays = 0, ![v].audio = "over"])

onAudioError(v) ==
    /\ Only("voice") /\ KeepVoice /\ UNCHANGED <<text, wanted, outdated>> /\ v \in DOMAIN calls
    /\ calls[v].audio \in {"silent", "sounding"} /\ Fail(v, [calls EXCEPT ![v].audio = "over"])

onEnded(v) ==
    /\ Only("voice") /\ KeepVoice /\ UNCHANGED <<activeAudio, toast, text, wanted, outdated>> /\ v \in DOMAIN calls
    /\ calls[v].audio = "sounding" /\ calls' = [calls EXCEPT ![v].audio = "over"]
    /\ IF isLast(v) THEN publish(v, "idle") ELSE UNCHANGED playback

(* The button of the toast; the toast goes with it, or by itself.           *)
onToastAction ==
    /\ Acts("voice") /\ KeepVoice /\ UNCHANGED <<playback, activeAudio, text, wanted, outdated>> /\ toast.kind = "retry" /\ toast' = NoToast
    /\ calls' = IF isLast(toast.of) THEN startAudio(calls, toast.of) ELSE calls

ToastGoes ==
    /\ Only("voice") /\ KeepVoice /\ toast.kind \in {"retry", "failed"} /\ toast' = NoToast
    /\ UNCHANGED <<playback, calls, activeAudio, text, wanted, outdated>>

-----------------------------------------------------------------------------
(* The line of the world records.  Points are places in the rows; the last  *)
(* record is drawn once more, at the present time.                          *)

Ids == {WorldRecords[i].id : i \in DOMAIN WorldRecords}
RowsOf(ids) == SelectSeq(WorldRecords, LAMBDA r : r.id \in ids)
rows == RowsOf(listed)

BugtimeChartRows(r, clock) == r

timeChartRows(r, clock) == IF r = <<>> \/ Last(r).at >= clock THEN r ELSE Append(r, [Last(r) EXCEPT !.at = clock])

BugfirstPoints(i) == <<i + 1>>

firstPoints(i) == <<i, i + 1>>

buildSegments(r) ==
    FoldLeft(LAMBDA segments, i :
                 IF segments # <<>> /\ Last(segments).holderId = r[i].holder
                 THEN [segments EXCEPT ![Len(segments)].rows = Append(@, i + 1)]
                 ELSE Append(segments, [holderId |-> r[i].holder, rows |-> firstPoints(i)]),
             <<>>, [i \in 1 .. Len(r) - 1 |-> i])

(* The holders in the order of their first record, as in the legend.        *)
holders(r) == FoldLeft(LAMBDA seen, row : IF Contains(seen, row.holder) THEN seen ELSE Append(seen, row.holder), <<>>, r)

BuggetHolderColors(r, holder) == (Len(SelectSeq(r, LAMBDA row : row.holder = holder)) - 1) % Colours

getHolderColors(r, holder) == ((CHOOSE i \in DOMAIN holders(r) : holders(r)[i] = holder) - 1) % Colours

BugshowsLabel(r, segment, i) == i <= Len(r)

(* The name is written once, on the line of the holder.                     *)
showsLabel(r, segment, i) == i <= Len(r) /\ segment.holderId = r[i].holder

currentWrTime(r) == Last(r).time
slowestWrTime(r) == Max({r[i].time : i \in DOMAIN r})

BugaxisMax(r) == slowestWrTime(r)

axisMax(r) == IF slowestWrTime(r) > currentWrTime(r) THEN slowestWrTime(r)
              ELSE currentWrTime(r) + Max({currentWrTime(r) \div 10, 1})

(* The rows under the chart, the newest first.                              *)
tableData(r) ==
    Reverse([i \in DOMAIN r |-> [number |-> i, time |-> r[i].time,
                                 previousDelta |-> IF i > 1 THEN r[i].time - r[i - 1].time ELSE 0]])

(* The point that the highlighted record is shown at, if any.               *)
NoTip == <<0, 0>>

tipOf(r, uuid) ==
    LET segments == buildSegments(r)
        with == {s \in DOMAIN segments : \E d \in DOMAIN segments[s].rows : r[segments[s].rows[d]].id = uuid}
        s == Min(with)
    IN IF with = {} THEN NoTip ELSE <<s, Min({d \in DOMAIN segments[s].rows : r[segments[s].rows[d]].id = uuid})>>

ChartInit ==
    /\ listed \in SUBSET Ids /\ now = Min(Clocks) /\ xAxisMode = "time" /\ highlightedUuid = 0 /\ tip = NoTip
    /\ redrawn = FALSE

BughighlightEffect == highlightedUuid' # highlightedUuid

(* The effect runs when the record or the line is another.                  *)
highlightEffect ==
    \/ highlightedUuid' # highlightedUuid
    \/ timeChartRows(RowsOf(listed'), now') # timeChartRows(rows, now)

Effects ==
    /\ tip' = (IF highlightEffect THEN tipOf(timeChartRows(RowsOf(listed'), now'), highlightedUuid') ELSE tip)
    /\ redrawn' = (~highlightEffect /\ (redrawn \/ xAxisMode' # xAxisMode))

HistoryChanges ==
    /\ Acts("chart") /\ KeepChart /\ \E id \in Ids : listed' = IF id \in listed THEN listed \ {id} ELSE listed \cup {id}
    /\ UNCHANGED <<now, xAxisMode, highlightedUuid>> /\ Effects

setNow ==
    /\ Acts("chart") /\ KeepChart /\ \E clock \in Clocks : clock > now /\ now' = clock
    /\ UNCHANGED <<listed, xAxisMode, highlightedUuid>> /\ Effects

setXAxisMode ==
    /\ Acts("chart") /\ KeepChart /\ xAxisMode' = (IF xAxisMode = "time" THEN "record" ELSE "time")
    /\ UNCHANGED <<listed, now, highlightedUuid>> /\ Effects

(* The pointer is over a row of the table or a point of the line, or        *)
(* leaves; a row that is no more does not tell that it was left.            *)
onHighlightedUuidChange ==
    /\ Acts("chart") /\ KeepChart /\ highlightedUuid' \in (listed \cup {0}) \ {highlightedUuid}
    /\ UNCHANGED <<listed, now, xAxisMode>> /\ Effects

-----------------------------------------------------------------------------
(* The chart of the gaps to the record; the axis runs from large to small.  *)

BugroundDownToBinStart(v) == IF v < 0 THEN (0 - ((0 - v) \div BinWidth)) * BinWidth ELSE (v \div BinWidth) * BinWidth

roundDownToBinStart(v) == (v \div BinWidth) * BinWidth

xAxisMin(median) == roundDownToBinStart(median) - Span
xAxisMax(median) == roundDownToBinStart(median) + BinWidth + Span
visibleBins(median) == {b \in Bins : b >= xAxisMin(median) /\ b + BinWidth <= xAxisMax(median)}

BugmarkerX(x) == x

(* What lies beyond the axis is drawn at its end.                           *)
markerX(x) == Max({Min({x, Plot}), 0})

valueToPlotX(value, median) == ((xAxisMax(median) - value) * Plot) \div Max({xAxisMax(median) - xAxisMin(median), 1})

(* Two labels, each right of its marker unless that does not fit: then the  *)
(* left one goes left of its marker, or the right one a row down.           *)
BugplacedLabels(leftX, leftWidth, rightX, rightWidth) ==
    [left |-> Min({leftX + Gap, Plot}), right |-> Min({rightX + Gap, Plot}), row |-> 0]

placedLabels(leftX, leftWidth, rightX, rightWidth) ==
    LET leftStart == Min({leftX + Gap, Plot})
        rightStart == Min({rightX + Gap, Plot})
        moved == Max({leftX - leftWidth - Gap, 0})
    IN IF Min({leftStart + leftWidth, Plot}) + Gap <= rightStart
       THEN [left |-> leftStart, right |-> rightStart, row |-> 0]
       ELSE [left |-> moved, right |-> rightStart, row |-> IF moved + leftWidth + Gap > rightStart THEN 1 ELSE 0]

drawnX(start, width) == Min({start, Plot - width})

NoValue == -1
wrGapBoundToRecordTime(wrTime, gap) == IF wrTime <= 0 THEN NoValue ELSE wrTime * (1 + 2^gap)

BugrecordTimeToWrGap(wrTime, time) == IF wrTime <= 0 THEN NoValue ELSE CHOOSE g \in 0 .. 9 : 2^g >= time \div wrTime

recordTimeToWrGap(wrTime, time) ==
    IF wrTime <= 0 \/ time <= wrTime THEN NoValue ELSE CHOOSE g \in 0 .. 9 : 2^g >= time \div wrTime - 1

-----------------------------------------------------------------------------
(* The dates, in seconds.                                                   *)

RELATIVE_UNITS == <<365 * Day, 30 * Day, 7 * Day, Day, Hour, Minute, 1>>

BuggetRelativeUnit(diff) ==
    LET u == Min({i \in 1 .. 7 : diff > RELATIVE_UNITS[i] \/ i = 7}) IN [unit |-> RELATIVE_UNITS[u], value |-> Max({1, diff \div RELATIVE_UNITS[u]})]

getRelativeUnit(diff) ==
    LET u == Min({i \in 1 .. 7 : diff >= RELATIVE_UNITS[i] \/ i = 7})
    IN [unit |-> RELATIVE_UNITS[u], value |-> Max({1, diff \div RELATIVE_UNITS[u]})]

BugisYesterday(date) == Now - date < 2 * Day

isYesterday(date) == date \div Day = Now \div Day - 1

(* What is said of a date: its kind, and a number of seconds or minutes.    *)
formatContextualRelativeDateTime(date) ==
    LET diff == Now - date
        time == (date % Day) \div Minute
        said(kind, day, n) == [kind |-> kind, day |-> day, n |-> n]
    IN IF diff < 0 THEN said("in", getRelativeUnit(-diff).unit, getRelativeUnit(-diff).value)
       ELSE IF diff < Minute THEN said("seconds", 0, Max({1, diff}))
       ELSE IF diff < Hour THEN said("minutes", 0, diff \div Minute)
       ELSE IF diff < 2 * Hour THEN said("hour", 0, (diff - Hour) \div Minute)
       ELSE IF date \div Day = Now \div Day THEN said("today", 0, time)
       ELSE IF isYesterday(date) THEN said("yesterday", 0, time)
       ELSE said("date", date \div Day, time)

BuggetIsoLikeTime(hours24) == [hours |-> hours24 % 12, meridiem |-> IF hours24 >= 12 THEN "PM" ELSE "AM"]

getIsoLikeTime(hours24) ==
    [hours |-> IF hours24 % 12 = 0 THEN 12 ELSE hours24 % 12, meridiem |-> IF hours24 >= 12 THEN "PM" ELSE "AM"]

-----------------------------------------------------------------------------
Init ==
    /\ part \in {"names", "follow", "voice", "chart"} /\ NamesInit /\ FollowInit /\ VoiceInit /\ ChartInit /\ acts = 0
    /\ part = "follow" \/ ~following
    /\ part = "chart" \/ listed = {}

Next ==
    \/ \E q \in Asking : Mount(q) \/ Refocus(q) \/ Retry(q)
    \/ \E s \in Slots : flushPendingPlayerBatch(s) \/ requestPlayersForDisplay(s) \/ resolve(s) \/ reject(s)
    \/ \E p \in Players : ProfileChanges(p) \/ onclose(p) \/ onmessage(p)
    \/ HalfMinute
    \/ onContextMenu \/ closeMenu \/ readPlayerFollowSummary \/ SummaryArrives \/ SummaryFails \/ onSelect \/ FollowElsewhere
    \/ \E i \in 1 .. MaxActs["follow"] : followPlayer(i) \/ onSuccess(i) \/ onError(i)
    \/ \E k \in DOMAIN Spoken : play(k) \/ regenerate(k)
    \/ \E v \in 1 .. MaxActs["voice"] : readMaps(v) \/ createPronunciation(v) \/ setTimeoutEnds(v) \/ playReady(v) \/ onAudioError(v) \/ onEnded(v)
    \/ onToastAction \/ ToastGoes
    \/ HistoryChanges \/ setNow \/ setXAxisMode \/ onHighlightedUuidChange

(* What happens by itself: timers, answers and messages.                    *)
Progress ==
    \/ \E q \in Asking : Retry(q)
    \/ \E s \in Slots : flushPendingPlayerBatch(s) \/ requestPlayersForDisplay(s) \/ resolve(s)
    \/ \E p \in Players : onmessage(p)
    \/ HalfMinute
    \/ \E v \in 1 .. MaxActs["voice"] : readMaps(v) \/ createPronunciation(v) \/ setTimeoutEnds(v) \/ playReady(v)

Spec == Init /\ [][Next]_vars
FairSpec == Spec /\ WF_vars(Progress)

-----------------------------------------------------------------------------
(* The variables keep their types.                                          *)
TypeOK ==
    /\ part \in {"names", "follow", "voice", "chart"} /\ mounted \subseteq Asking /\ failed \subseteq mounted /\ aged \subseteq mounted
    /\ \A p \in Players : version[p] \in 0 .. MaxActs["names"]
    /\ \A k \in Keys : inflight[k] \in 0 .. MaxBatches
    /\ old \subseteq Keys /\ events \subseteq Players /\ missed \subseteq Players /\ dropped \subseteq Asking
    /\ summary \in {Unread, "following", "not"} /\ fetching \in {"no", "asked", "following", "not"}
    /\ playback.key \in DOMAIN Spoken \cup {0} /\ playback.phase \in {"idle", "loading", "playing", "blocked"} /\ activeAudio \in DOMAIN calls \cup {0}
    /\ toast.kind \in {"none", "loading", "retry", "failed"} /\ toast.of \in DOMAIN calls \cup {0}
    /\ listed \subseteq Ids /\ now \in Clocks /\ xAxisMode \in {"time", "record"} /\ acts \in 0 .. MaxActs[part]

(* However requests of several scopes and players cross, the player under a *)
(* key is the one it names, and a list that is answered has every player,   *)
(* unless one of them changed while the others were asked for.              *)
NamesAreTheirs ==
    /\ \A k \in Keys : cached[k] # Missing => <<cached[k][1], cached[k][2]>> = k
    /\ \A q \in Asking : \A i \in DOMAIN data[q] :
           \/ <<data[q][i][1], data[q][i][2]>> = KeysOf(q)[i]
           \/ data[q][i] = Missing /\ q \in dropped

(* A player is asked for once at a time, however many rows of the page show *)
(* it; a failed batch forgets the newer request of one it had answered.     *)
OneRequestAtATime ==
    \A k \in Keys : wiped \/ Cardinality({s \in Slots : k \in ToSet(batches[s].left)}) <= 1

(* With nothing under way, a name that is kept up to date is the last one   *)
(* the server told of, unless the message was lost or overtook an answer.   *)
NamesAreCurrent ==
    InPhase("free") = Slots /\ events = {} /\ failed = {} =>
        \A q \in Timed : \A i \in DOMAIN data[q] :
            raced \/ Queries[q].players[i] \in missed \/ data[q][i][3] = version[Queries[q].players[i]]

(* A lost message or an overtaken one is made good: in the end the names    *)
(* are those of the server.  A press to hear one is answered: it sounds, is *)
(* blocked or has failed in the end, even if it is never ready.             *)
NamesCatchUp ==
    <>[](/\ \A q \in Timed : \A i \in DOMAIN data[q] : data[q][i][3] = version[Queries[q].players[i]]
         /\ playback.phase # "loading")

(* Once all requests are answered, the item of an open menu says what the   *)
(* server has, in whatever order the server took two presses, unless a read *)
(* failed, an answer was lost, it was changed in another window, or a read  *)
(* begun before the press was answered after it with the menu closed.       *)
FollowIsTrue ==
    part = "follow" /\ menuOpen /\ sent = <<>> /\ fetching = "no" /\ summary # Unread =>
        invalid \/ elsewhere \/ overtaken \/ isFollowing = following

(* Only what was pressed last is heard, however answers, ends and errors of *)
(* earlier presses come in between; the button spins while it is fetched    *)
(* and the toast says so, the button is pressed while it sounds, a toast    *)
(* offers to start only what the browser blocked, and no text is heard that *)
(* is older than the press, unless it was changed while it was blocked.     *)
OnlyTheLastIsHeard ==
    part = "voice" =>
        LET sounding == {v \in DOMAIN calls : calls[v].audio = "sounding"}
            busy == {v \in DOMAIN calls : v = requestVersion /\ calls[v].step # "over"}
        IN /\ sounding \subseteq {requestVersion} /\ (playback.phase = "playing" <=> sounding # {})
           /\ busy # {} => playback.phase = "loading"
           /\ playback.phase = "loading" => busy # {} \/ calls[requestVersion].plays > 0
           /\ playback.phase # "idle" => playback.key = calls[requestVersion].key
           /\ playback.phase = "loading" <=> toast.kind = "loading"
           /\ toast.kind = "retry" => toast.of = activeAudio /\ playback.phase = "blocked"
           /\ \A v \in sounding : calls[v].key = wanted.key /\ (calls[v].made >= wanted.text \/ outdated)

(* The point with the tip and the highlighted row are one record, whatever  *)
(* was listed, drawn again or passed since the pointer came.                *)
TipIsTheRow ==
    part = "chart" /\ ~redrawn =>
        LET r == timeChartRows(rows, now)
            segments == buildSegments(r)
        IN /\ tip # NoTip => /\ tip[1] \in DOMAIN segments /\ tip[2] \in DOMAIN segments[tip[1]].rows
                             /\ r[segments[tip[1]].rows[tip[2]]].id = highlightedUuid
           /\ highlightedUuid \in listed /\ Len(r) > 1 => tip # NoTip

(* The line has no gap, each stretch has the colour of who held the record  *)
(* then, and each record is named once, whoever held it; without the last   *)
(* stretch, up to now, the last holder may be left out.                     *)
LineTellsHolders ==
    part = "chart" /\ acts = 0 => \A clock \in Clocks :
        LET r == timeChartRows(rows, clock)
            segments == buildSegments(r)
            stretches(i) == {s \in DOMAIN segments : \E d \in 1 .. Len(segments[s].rows) - 1 :
                                 segments[s].rows[d] = i /\ segments[s].rows[d + 1] = i + 1}
            labels(i) == {s \in DOMAIN segments : Contains(segments[s].rows, i) /\ showsLabel(rows, segments[s], i)}
        IN /\ \A i \in 1 .. Len(r) - 1 : \E s \in DOMAIN segments : stretches(i) = {s} /\ segments[s].holderId = r[i].holder
           /\ \A i \in DOMAIN rows : Cardinality(labels(i)) = 1 \/ (i = Len(rows) /\ Last(rows).at >= clock)

(* Holders have colours of their own as long as there are enough; the       *)
(* fastest and the slowest record are on the axis; the improvements add up. *)
ChartTellsRecords ==
    part = "chart" /\ acts = 0 /\ rows # <<>> =>
        LET improvements == FoldLeft(LAMBDA sum, row : sum + row.previousDelta, 0, tableData(rows))
        IN /\ Len(holders(rows)) <= Colours =>
                  \A a, b \in ToSet(holders(rows)) : getHolderColors(rows, a) = getHolderColors(rows, b) => a = b
           /\ currentWrTime(rows) < axisMax(rows)
           /\ \A i \in DOMAIN rows : rows[i].time \in currentWrTime(rows) .. axisMax(rows)
           /\ improvements = Last(rows).time - rows[1].time

(* The bin of the median is on the axis, a marker is never outside of the   *)
(* plot, a smaller gap is never left of a larger one, and two labels do not *)
(* cover each other, unless the end of the plot pushed the right one back.  *)
GapsAreOnAxis ==
    part = "chart" /\ acts = 0 /\ listed = {} =>
        /\ \A m \in Medians : /\ roundDownToBinStart(m) \in Bins => roundDownToBinStart(m) \in visibleBins(m)
                              /\ m \in roundDownToBinStart(m) .. roundDownToBinStart(m) + BinWidth - 1
                              /\ \A a, b \in Medians : /\ markerX(valueToPlotX(a, m)) \in 0 .. Plot
                                                       /\ a <= b => valueToPlotX(b, m) <= valueToPlotX(a, m)
        /\ \A x1, x2 \in Markers, w1, w2 \in LabelWidths : x1 <= x2 =>
               LET p == placedLabels(x1, w1, x2, w2)
               IN p.row = 1 \/ p.right > Plot - w2 \/ drawnX(p.left, w1) + w1 <= drawnX(p.right, w2)
        /\ \A wr \in {0, 5}, g \in 0 .. 5 : recordTimeToWrGap(wr, wrGapBoundToRecordTime(wr, g)) = IF wr = 0 THEN NoValue ELSE g
        /\ \A time \in 0 .. 5 : recordTimeToWrGap(5, time) = NoValue

(* What may be meant by what is said of a date.                             *)
Meant(s) ==
    CASE s.kind = "in" -> {d \in Ages : -d >= s.day * s.n /\ -d < s.day * (s.n + 1)}
      [] s.kind = "seconds" -> {d \in Ages : d = s.n \/ (d = 0 /\ s.n = 1)}
      [] s.kind = "minutes" -> {d \in Ages : d \div Minute = s.n}
      [] s.kind = "hour" -> {d \in Ages : (d - Hour) \div Minute = s.n}
      [] s.kind = "today" -> {d \in Ages : (Now - d) \div Minute = ((Now \div Day) * Day) \div Minute + s.n}
      [] s.kind = "yesterday" -> {d \in Ages : (Now - d) \div Minute = ((Now \div Day - 1) * Day) \div Minute + s.n}
      [] OTHER -> {d \in Ages : (Now - d) \div Minute = (s.day * Day) \div Minute + s.n}

(* What is said of a date is true of it, to the minute for one of the past, *)
(* at every turn from seconds to minutes, hours, yesterday and the date;    *)
(* a number of units never reaches the next larger unit it could be told    *)
(* in; and an hour of the clock of twelve is one hour of the day.           *)
DatesTellTruth ==
    part = "chart" /\ acts = 0 /\ listed = {} =>
        /\ \A d \in Ages : d \in Meant(formatContextualRelativeDateTime(Now - d))
        /\ \A d \in Ages : LET u == getRelativeUnit(Max({d, -d}))
                           IN /\ u.unit * u.value <= Max({d, -d, 1}) /\ Max({d, -d}) < u.unit * (u.value + 1)
                              /\ \A i \in 1 .. 7 : RELATIVE_UNITS[i] > u.unit => Max({d, -d}) < RELATIVE_UNITS[i]
        /\ \A h \in 0 .. 23 : LET c == getIsoLikeTime(h)
                              IN c.hours \in 1 .. 12 /\ h = (c.hours % 12) + (IF c.meridiem = "PM" THEN 12 ELSE 0)
=============================================================================

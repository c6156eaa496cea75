---------------------------- MODULE EventStream ----------------------------
(***************************************************************************)
(* The two live views of the daemon.                                       *)
(*                                                                         *)
(* `ezyshield watch` holds a "subscribe" connection: the daemon's event    *)
(* bus copies every published event into the subscriber's bounded channel  *)
(* and the connection's goroutine writes it out. The dashboard polls the   *)
(* audit log instead and pushes what is new to the browser tabs.           *)
(*                                                                         *)
(* Events and audit rows are numbered in the order they are made; events   *)
(* live in memory only, rows survive the daemon.                           *)
(***************************************************************************)
EXTENDS Integers, FiniteSets, SequencesExt

CONSTANTS
  EvWatchers, EvTabs,    \* watch clients; browser tabs
  EvFaces,               \* bound: of "watch", "dash", the views a behaviour exercises
  EvBuf,                 \* subscriberBuf
  EvMaxBack,             \* maxReconnectBackoff, the first wait being 1
  EvLimit,               \* rows one poll asks for
  EvBurst,               \* broadcastBurstCap
  EvQueue,               \* clientSendBuf
  EvMaxRows, EvMaxFaults \* bounds: rows per view; crashes, stalls and closed tabs

EvRefresh == 0           \* the "refresh" message; rows count from 1

ASSUME EvConstants ==
  /\ {EvBuf, EvMaxBack, EvLimit, EvBurst, EvQueue} \subseteq Nat \ {0}
  /\ EvBurst < EvLimit /\ EvFaces \subseteq {"watch", "dash"}
  /\ EvMaxRows \in [EvFaces -> Nat] /\ EvMaxFaults \in Nat

VARIABLES
  evFace,               \* the view this behaviour exercises; never changes
  evUp, evFaults,       \* the daemon runs; faults so far
  evPub, evRows, evOwed,\* events published, rows written, attributions still to write
  evAt,                 \* where a watch client is
  evBack, evNow, evOnce,\* its backoff, connectedThisAttempt, connectedOnce
  evBuf, evGot,         \* its channel, and what it printed on this connection
  evSince, evMissed,    \* history: evPub when it registered; events its full channel missed
  evLast, evFresh,      \* the dashboard bus: lastID (-1 before the seed), rows to broadcast
  evTab,                \* a browser tab: "page" loaded, "open" websocket, "closed"
  evQ,                  \* wsClient.send of its connection: row numbers and EvRefresh
  evKnown,              \* rows the tab shows
  evFrom, evOver        \* history: evLast when it subscribed; its queue dropped a message

evCore == <<evUp, evFaults, evPub, evRows, evOwed>>
evLink == <<evAt, evBack, evNow, evOnce>>
evSubs == <<evBuf, evGot, evSince, evMissed>>
evBus == <<evLast, evFresh>>
evPage == <<evTab, evQ, evKnown, evFrom, evOver>>
evVars == <<evFace, evCore, evLink, evSubs, evBus, evPage>>

EvInit ==
  /\ evFace \in EvFaces /\ evUp = TRUE /\ evFaults = 0
  /\ evPub = 0 /\ evRows = 0 /\ evOwed = 0
  /\ evAt = [w \in EvWatchers |-> "idle"]
  /\ evBack = [w \in EvWatchers |-> 1]
  /\ evNow = [w \in EvWatchers |-> FALSE] /\ evOnce = [w \in EvWatchers |-> FALSE]
  /\ evBuf = [w \in EvWatchers |-> <<>>] /\ evGot = [w \in EvWatchers |-> <<>>]
  /\ evSince = [w \in EvWatchers |-> 0] /\ evMissed = [w \in EvWatchers |-> {}]
  /\ evLast = -1 /\ evFresh = <<>>
  /\ evTab = [t \in EvTabs |-> "page"] /\ evQ = [t \in EvTabs |-> <<>>]
  /\ evKnown = [t \in EvTabs |-> {}] /\ evFrom = [t \in EvTabs |-> 0]
  /\ evOver = [t \in EvTabs |-> FALSE]

-----------------------------------------------------------------------------
(* The daemon's bus and its control socket.                                *)

EvSubscribed(w) == evAt[w] = "on"
EvFull(w) == Len(evBuf[w]) >= EvBuf

\* A fan-out loop that returns at the first full channel instead of going on.
EvTakesUnlessAnyFull(w) ==
  /\ EvSubscribed(w)
  /\ \A v \in EvWatchers : EvSubscribed(v) => ~EvFull(v)

\* publish: the select's send succeeds for a subscriber with room.
EvTakes(w) == EvSubscribed(w) /\ ~EvFull(w)

\* publishActionEvent: nobody registered, nothing built. One bus lock holds the whole loop.
EvPublish ==
  /\ evPub' = evPub + 1
  /\ evBuf' = [w \in EvWatchers |->
                 IF EvTakes(w) THEN Append(evBuf[w], evPub + 1) ELSE evBuf[w]]
  /\ evMissed' = [w \in EvWatchers |-> IF EvSubscribed(w) /\ EvFull(w)
                                       THEN evMissed[w] \cup {evPub + 1} ELSE evMissed[w]]
  /\ UNCHANGED <<evGot, evSince>>

\* The pipeline strikes or bans: a row and an event.
EvAction ==
  /\ evUp /\ evRows < EvMaxRows[evFace]
  /\ evRows' = evRows + 1 /\ EvPublish
  /\ UNCHANGED <<evFace, evUp, evFaults, evOwed, evLink, evBus, evPage>>

\* A mutating verb on the operator socket: its handler writes its row and publishes, and
\* only then does handleConnScoped journal who asked.
EvCommand ==
  /\ evUp /\ evRows < EvMaxRows[evFace] /\ evOwed = 0
  /\ evRows' = evRows + 1 /\ evOwed' = 1 /\ EvPublish
  /\ UNCHANGED <<evFace, evUp, evFaults, evLink, evBus, evPage>>

\* auditSocketCmd: a row that is not an event. A failed write is only logged.
EvAttribute ==
  /\ evUp /\ evOwed > 0
  /\ evOwed' = evOwed - 1
  /\ evRows' \in {evRows, evRows + 1}
  /\ UNCHANGED <<evFace, evUp, evFaults, evPub, evLink, evSubs, evBus, evPage>>

\* A mutating verb on the read-only socket is journalled and refused; nothing else happens.
EvRefused ==
  /\ evUp /\ evRows < EvMaxRows[evFace]
  /\ evRows' = evRows + 1
  /\ UNCHANGED <<evFace, evUp, evFaults, evPub, evOwed, evLink, evSubs, evBus, evPage>>

\* handleSubscribe acknowledges before it registers the channel.
EvAck(w) ==
  /\ evUp /\ evAt[w] = "dialled"
  /\ evAt' = [evAt EXCEPT ![w] = "acked"]
  /\ evOnce' = [evOnce EXCEPT ![w] = TRUE] /\ evNow' = [evNow EXCEPT ![w] = TRUE]
  /\ evBack' = [evBack EXCEPT ![w] = 1]
  /\ UNCHANGED <<evFace, evCore, evSubs, evBus, evPage>>

EvRegister(w) ==
  /\ evUp /\ evAt[w] = "acked"
  /\ evAt' = [evAt EXCEPT ![w] = "on"]
  /\ evSince' = [evSince EXCEPT ![w] = evPub]
  /\ evBuf' = [evBuf EXCEPT ![w] = <<>>] /\ evGot' = [evGot EXCEPT ![w] = <<>>]
  /\ evMissed' = [evMissed EXCEPT ![w] = {}]
  /\ UNCHANGED <<evFace, evCore, evBack, evNow, evOnce, evBus, evPage>>

EvSend(w) ==
  /\ evUp /\ evAt[w] = "on" /\ evBuf[w] # <<>>
  /\ evBuf' = [evBuf EXCEPT ![w] = Tail(@)]
  /\ evGot' = [evGot EXCEPT ![w] = Append(@, Head(evBuf[w]))]
  /\ UNCHANGED <<evFace, evCore, evLink, evSince, evMissed, evBus, evPage>>

-----------------------------------------------------------------------------
(* The watch command.                                                      *)

\* Every failed attempt ends the command, not only those before the first connection.
EvGivesUpAlways(w) == ~evNow[w]

\* runWatch gives up only while it never got through.
EvGivesUp(w) == ~evOnce[w]

EvAfterLoss(w) == IF EvGivesUp(w) THEN "exit" ELSE "wait"

EvDial(w) ==
  /\ evAt[w] = "idle" /\ evUp
  /\ evAt' = [evAt EXCEPT ![w] = "dialled"]
  /\ UNCHANGED <<evFace, evCore, evBack, evNow, evOnce, evSubs, evBus, evPage>>

EvDialRefused(w) ==
  /\ evAt[w] = "idle" /\ ~evUp
  /\ evAt' = [evAt EXCEPT ![w] = EvAfterLoss(w)]
  /\ UNCHANGED <<evFace, evCore, evBack, evNow, evOnce, evSubs, evBus, evPage>>

\* The reader is stuck and the write deadline drops it, or the ack cannot be written.
EvStall(w) ==
  /\ evUp /\ evFaults < EvMaxFaults
  /\ (evAt[w] = "on" /\ evBuf[w] # <<>>) \/ evAt[w] = "dialled"
  /\ evFaults' = evFaults + 1
  /\ evAt' = [evAt EXCEPT ![w] = EvAfterLoss(w)]
  /\ UNCHANGED <<evFace, evUp, evPub, evRows, evOwed, evBack, evNow, evOnce, evSubs, evBus,
                 evPage>>

\* After the wait the backoff doubles unless this attempt had connected.
EvRetry(w) ==
  /\ evAt[w] = "wait"
  /\ evAt' = [evAt EXCEPT ![w] = "idle"] /\ evNow' = [evNow EXCEPT ![w] = FALSE]
  /\ evBack' = [evBack EXCEPT ![w] =
                  IF evNow[w] THEN @ ELSE IF 2 * @ > EvMaxBack THEN EvMaxBack ELSE 2 * @]
  /\ UNCHANGED <<evFace, evCore, evOnce, evSubs, evBus, evPage>>

\* Ctrl-C.
EvInterrupt(w) ==
  /\ evAt[w] \notin {"exit", "quit"} /\ evFaults < EvMaxFaults
  /\ evFaults' = evFaults + 1
  /\ evAt' = [evAt EXCEPT ![w] = "quit"]
  /\ UNCHANGED <<evFace, evUp, evPub, evRows, evOwed, evBack, evNow, evOnce, evSubs, evBus,
                 evPage>>

\* The daemon stops: its connections close, its bus is gone and so is a journal entry that
\* was still to be written.
EvCrash ==
  /\ evUp /\ evFaults < EvMaxFaults
  /\ evFaults' = evFaults + 1 /\ evUp' = FALSE /\ evOwed' = 0
  /\ evAt' = [w \in EvWatchers |-> IF evAt[w] \in {"dialled", "acked", "on"}
                                   THEN EvAfterLoss(w) ELSE evAt[w]]
  /\ UNCHANGED <<evFace, evPub, evRows, evBack, evNow, evOnce, evSubs, evBus, evPage>>

EvRestart ==
  /\ ~evUp /\ evUp' = TRUE
  /\ UNCHANGED <<evFace, evFaults, evPub, evRows, evOwed, evLink, evSubs, evBus, evPage>>

-----------------------------------------------------------------------------
(* The dashboard's bus and the browser tabs.                               *)

\* handleEvents answers with the newest rows, at most EvLimit of them: those above this one.
EvFloor == IF evRows < EvLimit THEN 0 ELSE evRows - EvLimit

\* freshEvents drops those up to lastID and puts the others into chronological order.
EvNewRows == LET from == IF evLast > EvFloor THEN evLast ELSE EvFloor
             IN [k \in 1 .. evRows - from |-> from + k]

\* freshEvents: lastID becomes the last of the rows in chronological order.
EvHead(fresh) == Last(fresh)

\* Run: a seed that fails leaves lastID at 0.
EvSeed ==
  /\ evLast = -1
  /\ evLast' = IF evUp THEN evRows ELSE 0
  /\ UNCHANGED <<evFace, evCore, evLink, evSubs, evFresh, evPage>>

\* tick: a poll that fails, and one with nothing new, change nothing.
EvPoll ==
  /\ evLast >= 0 /\ evFresh = <<>> /\ evUp
  /\ EvNewRows # <<>> /\ evFresh' = EvNewRows /\ evLast' = EvHead(EvNewRows)
  /\ UNCHANGED <<evFace, evCore, evLink, evSubs, evPage>>

\* A burst beyond the cap becomes one "refresh".
EvPayloads(fresh) == IF Len(fresh) > EvBurst THEN <<EvRefresh>> ELSE fresh

\* broadcast: to the clients registered now; a full queue drops the message, not the client.
EvBroadcast ==
  /\ evFresh # <<>> /\ evFresh' = <<>>
  /\ LET out == EvPayloads(evFresh)
         room(t) == EvQueue - Len(evQ[t])
         kept(t) == SubSeq(out, 1, IF Len(out) < room(t) THEN Len(out) ELSE room(t))
     IN /\ evQ' = [t \in EvTabs |-> IF evTab[t] = "open" THEN evQ[t] \o kept(t) ELSE evQ[t]]
        /\ evOver' = [t \in EvTabs |-> evOver[t] \/ (evTab[t] = "open" /\ Len(out) > room(t))]
  /\ UNCHANGED <<evFace, evCore, evLink, evSubs, evLast, evTab, evKnown, evFrom>>

\* handleWebSocket subscribes; the browser ignores the hello.
EvOpen(t) ==
  /\ evTab[t] \in {"page", "closed"} /\ evLast >= 0
  /\ evTab' = [evTab EXCEPT ![t] = "open"] /\ evQ' = [evQ EXCEPT ![t] = <<>>]
  /\ evFrom' = [evFrom EXCEPT ![t] = evLast] /\ evOver' = [evOver EXCEPT ![t] = FALSE]
  /\ UNCHANGED <<evFace, evCore, evLink, evSubs, evBus, evKnown>>

EvPushRow(t) ==
  /\ evTab[t] = "open" /\ evQ[t] # <<>> /\ Head(evQ[t]) # EvRefresh
  /\ evQ' = [evQ EXCEPT ![t] = Tail(@)]
  /\ evKnown' = [evKnown EXCEPT ![t] = @ \cup {Head(evQ[t])}]
  /\ UNCHANGED <<evFace, evCore, evLink, evSubs, evBus, evTab, evFrom, evOver>>

\* The page reloads: its websocket goes, the new page shows the rows there are.
EvReload(t) ==
  /\ evTab[t] = "open" /\ evQ[t] # <<>> /\ Head(evQ[t]) = EvRefresh /\ evUp
  /\ evTab' = [evTab EXCEPT ![t] = "page"] /\ evQ' = [evQ EXCEPT ![t] = <<>>]
  /\ evKnown' = [evKnown EXCEPT ![t] = 1 .. evRows]
  /\ UNCHANGED <<evFace, evCore, evLink, evSubs, evBus, evFrom, evOver>>

\* A ping or a write fails: the handler unsubscribes, the browser will reconnect.
EvTabLost(t) ==
  /\ evTab[t] = "open" /\ evFaults < EvMaxFaults
  /\ evFaults' = evFaults + 1
  /\ evTab' = [evTab EXCEPT ![t] = "closed"] /\ evQ' = [evQ EXCEPT ![t] = <<>>]
  /\ UNCHANGED <<evFace, evUp, evPub, evRows, evOwed, evLink, evSubs, evBus, evKnown, evFrom,
                 evOver>>

-----------------------------------------------------------------------------
EvDaemon == EvAction \/ EvCrash \/ EvRestart
EvJournal == EvCommand \/ EvAttribute \/ EvRefused
EvClient(w) == \/ EvDial(w) \/ EvDialRefused(w) \/ EvAck(w) \/ EvRegister(w) \/ EvSend(w)
               \/ EvRetry(w)
EvWatch == \E w \in EvWatchers : EvClient(w) \/ EvStall(w) \/ EvInterrupt(w)
EvDash == \/ EvSeed \/ EvPoll \/ EvBroadcast
          \/ EvJournal
          \/ \E t \in EvTabs : EvOpen(t) \/ EvPushRow(t) \/ EvReload(t) \/ EvTabLost(t)

EvNext == EvDaemon \/ (evFace = "watch" /\ EvWatch) \/ (evFace = "dash" /\ EvDash)

\* The client's goroutines run, and systemd restarts the daemon.
EvSpec == /\ EvInit /\ [][EvNext]_evVars
          /\ WF_evVars(EvRestart)
          /\ \A w \in EvWatchers : WF_evVars(evFace = "watch" /\ EvClient(w))

-----------------------------------------------------------------------------
(* Properties.                                                             *)

\* Every variable keeps its type, and no channel or queue outgrows its bound.
EvTypeOK ==
  /\ evFace \in EvFaces /\ evUp \in BOOLEAN /\ evFaults \in 0 .. EvMaxFaults
  /\ evPub \in Nat /\ evRows \in Nat /\ evOwed \in 0 .. 1
  /\ evAt \in [EvWatchers -> {"idle", "dialled", "acked", "on", "wait", "exit", "quit"}]
  /\ evBack \in [EvWatchers -> 1 .. EvMaxBack]
  /\ evNow \in [EvWatchers -> BOOLEAN] /\ evOnce \in [EvWatchers -> BOOLEAN]
  /\ \A w \in EvWatchers : /\ evBuf[w] \in Seq(1 .. evPub) /\ Len(evBuf[w]) <= EvBuf
                           /\ evGot[w] \in Seq(1 .. evPub)
                           /\ evSince[w] \in 0 .. evPub /\ evMissed[w] \subseteq 1 .. evPub
  /\ evLast \in -1 .. evRows /\ evFresh \in Seq(1 .. evRows)
  /\ evTab \in [EvTabs -> {"page", "open", "closed"}]
  /\ \A t \in EvTabs : /\ evQ[t] \in Seq({EvRefresh} \cup 1 .. evRows)
                       /\ Len(evQ[t]) <= EvQueue
                       /\ evKnown[t] \subseteq 1 .. evRows
                       /\ evFrom[t] \in 0 .. evRows /\ evOver[t] \in BOOLEAN

EvAscends(s) == \A i, j \in 1 .. Len(s) : i < j => s[i] < s[j]

\* A slow watch client costs itself events and nobody else: what a registered client has
\* printed and what waits in its channel are the events published since it registered, in
\* order, but for those its own full channel missed (eventBus.publish's non-blocking send).
EvExact ==
  \A w \in EvWatchers : evAt[w] = "on" /\ evUp =>
    /\ EvAscends(evGot[w] \o evBuf[w])
    /\ ToSet(evGot[w] \o evBuf[w]) = (evSince[w] + 1 .. evPub) \ evMissed[w]

\* A watch client that got through once comes back after every daemon restart and every
\* dropped connection, unless the operator interrupts it (runWatch's reconnect loop).
EvWatchReturns ==
  \A w \in EvWatchers : <>[](evOnce[w] => evAt[w] \in {"on", "quit"})

\* The poll, the burst cap and the fetch limit together skip no audit row silently: an open
\* tab whose queue never overflowed has every row the bus counted as seen since the tab
\* subscribed on the page, on the way, or covered by a pending refresh (freshEvents,
\* broadcast).
EvNothingSkipped ==
  \A t \in EvTabs : evTab[t] = "open" /\ ~evOver[t] /\ evFresh = <<>> =>
    \A r \in evFrom[t] + 1 .. evLast :
      r \in evKnown[t] \/ r \in ToSet(evQ[t]) \/ EvRefresh \in ToSet(evQ[t])

\* No row is pushed twice over one connection: the rows waiting in a queue ascend, and rows
\* still to be broadcast are newer than all of them (freshEvents' lastID).
EvPushedOnce ==
  /\ EvAscends(evFresh)
  /\ \A t \in EvTabs : evTab[t] = "open" =>
       /\ \A i, j \in 1 .. Len(evQ[t]) :
            i < j /\ evQ[t][j] # EvRefresh => evQ[t][i] < evQ[t][j]
       /\ \A r \in ToSet(evQ[t]), n \in ToSet(evFresh) : r < n

\* The two event streams, with slow readers, full channels and reconnects: types
\* and bounds hold, a slow watcher costs nobody else an event, and the dashboard
\* neither skips nor repeats an audit row.
EvInv == EvTypeOK /\ EvExact /\ EvNothingSkipped /\ EvPushedOnce
=============================================================================

----------------------------- MODULE Supervise -----------------------------
(***************************************************************************)
(* The observation path: collectors under the daemon's supervisor         *)
(* (runCollector, runCollectorOnce, collhealth.go), the channels between   *)
(* them and the pipeline, the in-loop retries of the docker and journald   *)
(* collectors, and the shutdown of Daemon.Run.                             *)
(*                                                                         *)
(* Lines are counted, not distinguished: what matters is where they are.   *)
(* FileTail models how one of these collectors reads its file.             *)
(***************************************************************************)
EXTENDS Integers, FiniteSets

CONSTANTS
  CsColls,       \* the supervised collectors
  CsKinds,       \* of "stream" (file, journald), "tcp" (Engine API, exec watcher), "docker"
  CsBase, CsMaxBackoff,          \* collectorBackoffBase, collectorBackoffMax
  CsAlert,                       \* collectorFailureAlert
  CsConnectMax, CsReconnectMax,  \* maxDockerConnectAttempts, maxDockerReconnectAttempts
  CsMidCap, CsOutCap,            \* capacity of mid and of rawLines
  CsMaxPanics,                   \* bound: panics of a collector or of the pipeline
  CsMaxLines,                    \* bound: lines read
  CsMaxOutages                   \* bound: times a source stops being readable

ASSUME CsConstants ==
  /\ CsKinds \subseteq {"stream", "tcp", "docker"}
  /\ {CsBase, CsMaxBackoff, CsAlert, CsConnectMax, CsReconnectMax} \subseteq Nat \ {0}
  /\ {CsMidCap, CsOutCap, CsMaxLines, CsMaxOutages, CsMaxPanics} \subseteq Nat
  /\ CsConnectMax <= CsReconnectMax /\ CsBase <= CsMaxBackoff

VARIABLES
  csKind,      \* what each collector is; never changes
  csSource,    \* of each source: "up", "down", "denied", or "gone" (no engine socket)
  csOutages, csLines,            \* bounded counters
  csCtx,       \* "run", "drain" (collCtx cancelled), "cancelled" (ctx cancelled)
  csPc,        \* where runCollector stands
  csMode,      \* "api" or "inspect": the path DockerCollector.Run chose
  csReading,   \* the source is being read
  csEver,      \* everConnected
  csTries,     \* failures of the in-loop retry
  csLong,      \* this run survived collectorStableRuntime
  csErr,       \* what Run returned: "nil" or "error"
  csBackoff, csFails,            \* locals of runCollector
  csHealth,    \* collState.degraded
  csAlerts,    \* history: critical alerts since the collector was last healthy
  csMid,       \* lines in mid
  csOrphan,    \* lines in the mids of runs that panicked, still being forwarded
  csOut, csClosed,               \* rawLines
  csPipe,      \* "reading" or "ended"
  csDone,      \* lines the pipeline processed
  csDropped,   \* lines given up by a send that raced the cancellation
  csPanics,    \* panics recovered so far
  csCrashed    \* a goroutine sent on a closed channel

csColl == <<csPc, csMode, csReading, csEver, csTries, csLong, csErr, csBackoff,
            csFails, csHealth, csAlerts>>
csChan == <<csMid, csOrphan, csOut, csClosed, csPipe, csDone, csDropped, csPanics,
            csCrashed>>
csEnv  == <<csKind, csSource, csOutages, csLines, csCtx>>
csVars == <<csEnv, csColl, csChan>>

CsInit ==
  /\ csKind \in [CsColls -> CsKinds]
  /\ csSource = [c \in CsColls |-> "up"] /\ csOutages = 0 /\ csLines = 0
  /\ csCtx = "run"
  /\ csPc = [c \in CsColls |-> "top"] /\ csMode = [c \in CsColls |-> "api"]
  /\ csReading = [c \in CsColls |-> FALSE] /\ csEver = [c \in CsColls |-> FALSE]
  /\ csTries = [c \in CsColls |-> 0] /\ csLong = [c \in CsColls |-> FALSE]
  /\ csErr = [c \in CsColls |-> "nil"] /\ csBackoff = [c \in CsColls |-> CsBase]
  /\ csFails = [c \in CsColls |-> 0] /\ csHealth = [c \in CsColls |-> FALSE]
  /\ csAlerts = [c \in CsColls |-> 0]
  /\ csMid = [c \in CsColls |-> 0] /\ csOrphan = [c \in CsColls |-> 0]
  /\ csOut = 0 /\ csClosed = FALSE /\ csPipe = "reading"
  /\ csDone = 0 /\ csDropped = 0 /\ csPanics = 0 /\ csCrashed = FALSE

CsLeast(a, b) == IF a < b THEN a ELSE b

-----------------------------------------------------------------------------
(* The sources. *)

CsOutage(c) ==
  /\ csOutages < CsMaxOutages
  /\ csSource[c] = "up"
  /\ \E s \in {"down", "denied"} \cup IF csKind[c] = "docker" THEN {"gone"} ELSE {} :
       csSource' = [csSource EXCEPT ![c] = s]
  /\ csOutages' = csOutages + 1
  /\ UNCHANGED <<csKind, csLines, csCtx, csColl, csChan>>

CsRepair(c) ==
  /\ csSource[c] # "up"
  /\ csSource' = [csSource EXCEPT ![c] = "up"]
  /\ UNCHANGED <<csKind, csOutages, csLines, csCtx, csColl, csChan>>

-----------------------------------------------------------------------------
(* A collector's Run. *)

\* runCollector starts a run unless shutdown began; DockerCollector.Run takes
\* the filesystem path when there is no socket.
CsStart(c) ==
  /\ csPc[c] = "top"
  /\ csPc' = [csPc EXCEPT ![c] = IF csCtx = "run" THEN "running" ELSE "done"]
  /\ csMode' = [csMode EXCEPT ![c] = IF csSource[c] = "gone" THEN "inspect" ELSE "api"]
  /\ csReading' = [csReading EXCEPT ![c] = FALSE]
  /\ csEver' = [csEver EXCEPT ![c] = FALSE] /\ csTries' = [csTries EXCEPT ![c] = 0]
  /\ csLong' = [csLong EXCEPT ![c] = FALSE]
  /\ UNCHANGED <<csErr, csBackoff, csFails, csHealth, csAlerts, csEnv, csChan>>

\* Run returns err: mid is closed and runCollectorOnce waits for the forwarder.
CsReturn(c, err) ==
  /\ csPc' = [csPc EXCEPT ![c] = "forward"]
  /\ csErr' = [csErr EXCEPT ![c] = err]
  /\ csReading' = [csReading EXCEPT ![c] = FALSE]
  /\ UNCHANGED <<csMode, csEver, csLong, csBackoff, csFails, csHealth, csAlerts,
                 csEnv, csChan>>

\* The source is opened: a 200 answer, a successful inspect and tail, a child
\* process that started.
CsConnect(c) ==
  /\ csPc[c] = "running" /\ ~csReading[c] /\ csCtx = "run"
  /\ csSource[c] = "up"
  /\ csReading' = [csReading EXCEPT ![c] = TRUE]
  /\ csEver' = [csEver EXCEPT ![c] = TRUE] /\ csTries' = [csTries EXCEPT ![c] = 0]
  /\ UNCHANGED <<csPc, csMode, csLong, csErr, csBackoff, csFails, csHealth,
                 csAlerts, csEnv, csChan>>

\* fatalAPIError: the attempts allowed before the failure is returned.
CsLimit(c) == IF csEver[c] THEN CsReconnectMax ELSE CsConnectMax
CsFatal(c, tries) ==
  csKind[c] = "stream" \/ csSource[c] = "denied" \/ tries >= CsLimit(c)

\* An attempt that never got a stream, and is either retried in the loop of
\* runAPI or ends the run.
CsAttemptFails(c) ==
  /\ csPc[c] = "running" /\ ~csReading[c] /\ csCtx = "run"
  /\ csSource[c] # "up" /\ csMode[c] = "api"
  /\ csTries' = [csTries EXCEPT ![c] = CsLeast(@ + 1, CsReconnectMax)]
  /\ \/ CsFatal(c, csTries[c] + 1) /\ CsReturn(c, "error")
     \/ /\ ~CsFatal(c, csTries[c] + 1)
        /\ UNCHANGED <<csPc, csMode, csReading, csEver, csLong, csErr, csBackoff,
                       csFails, csHealth, csAlerts, csEnv, csChan>>

\* A failed docker inspect: the filesystem path waits and tries again for ever
\* (csTries only counts up to its bound).
CsInspectFails(c) ==
  /\ csPc[c] = "running" /\ ~csReading[c] /\ csCtx = "run"
  /\ csSource[c] # "up" /\ csMode[c] = "inspect"
  /\ csTries' = [csTries EXCEPT ![c] = CsLeast(@ + 1, CsReconnectMax)]
  /\ UNCHANGED <<csPc, csMode, csReading, csEver, csLong, csErr, csBackoff,
                 csFails, csHealth, csAlerts, csEnv, csChan>>

\* The stream that was being read ends: the docker paths reconnect ...
CsStreamEnds(c) ==
  /\ csPc[c] = "running" /\ csReading[c] /\ csCtx = "run"
  /\ csSource[c] # "up" /\ csKind[c] # "stream"
  /\ csReading' = [csReading EXCEPT ![c] = FALSE]
  /\ UNCHANGED <<csPc, csMode, csEver, csTries, csLong, csErr, csBackoff, csFails,
                 csHealth, csAlerts, csEnv, csChan>>

\* ... and the journald collector returns its child's exit as an error.
CsChildExits(c) ==
  /\ csPc[c] = "running" /\ csReading[c] /\ csCtx = "run"
  /\ csSource[c] # "up" /\ csKind[c] = "stream"
  /\ UNCHANGED csTries
  /\ CsReturn(c, "error")

\* The source completed on its own (a bounded file, journalctl exiting 0).
CsCompletes(c) ==
  /\ csPc[c] = "running" /\ csReading[c] /\ csCtx = "run"
  /\ csKind[c] = "stream" /\ csLines = CsMaxLines
  /\ UNCHANGED csTries
  /\ CsReturn(c, "nil")

\* The context is done: Run returns nil.
CsStopped(c) ==
  /\ csPc[c] = "running" /\ csCtx # "run"
  /\ UNCHANGED csTries
  /\ CsReturn(c, "nil")

\* A run that retries against a source it once read, or on the filesystem path,
\* lasts as long as one that reads; three connect attempts do not.
CsSurvives(c) ==
  /\ csPc[c] = "running" /\ ~csLong[c]
  /\ csEver[c] \/ csMode[c] = "inspect"
  /\ csLong' = [csLong EXCEPT ![c] = TRUE]
  /\ UNCHANGED <<csPc, csMode, csReading, csEver, csTries, csErr, csBackoff,
                 csFails, csHealth, csAlerts, csEnv, csChan>>

\* A line is read and sent to mid; the send waits while mid is full ...
CsLine(c) ==
  /\ csPc[c] = "running" /\ csReading[c]
  /\ csLines < CsMaxLines
  /\ csMid[c] < CsMidCap /\ csMid' = [csMid EXCEPT ![c] = @ + 1]
  /\ csLines' = csLines + 1
  /\ UNCHANGED <<csKind, csSource, csOutages, csCtx, csColl, csOrphan, csOut, csClosed,
                 csPipe, csDone, csDropped, csPanics, csCrashed>>

\* ... and is given up once the context is done.
CsLineDropped(c) ==
  /\ csPc[c] = "running" /\ csReading[c]
  /\ csLines < CsMaxLines
  /\ csMid[c] = CsMidCap /\ csCtx # "run" /\ csDropped' = csDropped + 1
  /\ csLines' = csLines + 1
  /\ UNCHANGED <<csKind, csSource, csOutages, csCtx, csColl, csMid, csOrphan, csOut,
                 csClosed, csPipe, csDone, csPanics, csCrashed>>

\* Run panics: recovered into an error, but mid is never closed and its
\* forwarder goroutine is left behind.
CsPanic(c) ==
  /\ csPanics < CsMaxPanics /\ csPanics' = csPanics + 1
  /\ csPc[c] = "running" /\ csReading[c] /\ csCtx = "run"
  /\ csOrphan' = [csOrphan EXCEPT ![c] = @ + csMid[c]]
  /\ csMid' = [csMid EXCEPT ![c] = 0]
  /\ csPc' = [csPc EXCEPT ![c] = "judge"] /\ csErr' = [csErr EXCEPT ![c] = "error"]
  /\ csReading' = [csReading EXCEPT ![c] = FALSE]
  /\ UNCHANGED <<csMode, csEver, csTries, csLong, csBackoff, csFails, csHealth, csAlerts,
                 csEnv, csOut, csClosed, csPipe, csDone, csDropped, csCrashed>>

-----------------------------------------------------------------------------
(* Forwarding and supervision. *)

\* The forwarder sends a line of its mid on rawLines; the send is not raced
\* against any context.
CsSend ==
  /\ ~csClosed /\ csOut < CsOutCap /\ csOut' = csOut + 1
  /\ UNCHANGED <<csClosed, csPipe, csDone, csDropped, csPanics, csCrashed, csColl, csEnv>>

CsForward(c) ==
  /\ csMid[c] > 0 /\ CsSend
  /\ csMid' = [csMid EXCEPT ![c] = @ - 1]
  /\ UNCHANGED csOrphan

CsForwardOrphan(c) ==
  /\ csOrphan[c] > 0 /\ CsSend
  /\ csOrphan' = [csOrphan EXCEPT ![c] = @ - 1]
  /\ UNCHANGED csMid

\* A send on the closed channel panics, and nobody recovers it.
CsSendPanics(c) ==
  /\ csClosed /\ csMid[c] + csOrphan[c] > 0
  /\ csCrashed' = TRUE
  /\ UNCHANGED <<csMid, csOrphan, csOut, csClosed, csPipe, csDone, csDropped, csPanics,
                 csColl, csEnv>>

\* <-fwdDone
CsFwdDone(c) == csMid[c] = 0

CsForwarded(c) ==
  /\ csPc[c] = "forward"
  /\ CsFwdDone(c)
  /\ csPc' = [csPc EXCEPT ![c] = "judge"]
  /\ UNCHANGED <<csMode, csReading, csEver, csTries, csLong, csErr, csBackoff,
                 csFails, csHealth, csAlerts, csEnv, csChan>>

\* What a long run resets, and what recordCollectorHealthy clears.
CsFresh(c) == csLong[c]

\* The failure streak only matters up to the alert threshold.
CsFailsNow(c) == CsLeast((IF CsFresh(c) THEN 0 ELSE csFails[c]) + 1, CsAlert + 1)

\* recordCollectorFailure: degraded at the threshold, and until it is healthy.
CsDegradedNow(c) ==
  CsFailsNow(c) >= CsAlert \/ (csHealth[c] /\ ~CsFresh(c))

\* The one-shot alert.
CsAlertsNow(c) ==
  (IF CsFresh(c) THEN 0 ELSE csAlerts[c]) + (IF CsFailsNow(c) = CsAlert THEN 1 ELSE 0)

\* runCollector judges the run that ended: shutdown and a nil return end
\* supervision, an error is recorded and backed off.
CsEnds(c) ==
  /\ csPc[c] = "judge"
  /\ csCtx # "run" \/ csErr[c] = "nil"
  /\ csPc' = [csPc EXCEPT ![c] = "done"]
  /\ csHealth' = [csHealth EXCEPT ![c] = @ /\ ~(csCtx = "run" /\ csLong[c])]
  /\ csAlerts' = [csAlerts EXCEPT ![c] = IF csCtx = "run" /\ csLong[c] THEN 0 ELSE @]
  /\ UNCHANGED <<csMode, csReading, csEver, csTries, csLong, csErr, csBackoff,
                 csFails, csEnv, csChan>>

CsFailsGivesUp(c) ==
  /\ csPc[c] = "judge"
  /\ csCtx = "run" /\ csErr[c] = "error"
  /\ csPc' = [csPc EXCEPT ![c] = IF CsFailsNow(c) >= CsAlert THEN "done" ELSE "backoff"]
  /\ csBackoff' = [csBackoff EXCEPT ![c] = IF CsFresh(c) THEN CsBase ELSE @]
  /\ csFails' = [csFails EXCEPT ![c] = CsFailsNow(c)]
  /\ csHealth' = [csHealth EXCEPT ![c] = CsDegradedNow(c)]
  /\ csAlerts' = [csAlerts EXCEPT ![c] = CsAlertsNow(c)]
  /\ UNCHANGED <<csMode, csReading, csEver, csTries, csLong, csErr, csEnv, csChan>>

CsFails(c) ==
  /\ csPc[c] = "judge"
  /\ csCtx = "run" /\ csErr[c] = "error"
  /\ csPc' = [csPc EXCEPT ![c] = "backoff"]
  /\ csBackoff' = [csBackoff EXCEPT ![c] = IF CsFresh(c) THEN CsBase ELSE @]
  /\ csFails' = [csFails EXCEPT ![c] = CsFailsNow(c)]
  /\ csHealth' = [csHealth EXCEPT ![c] = CsDegradedNow(c)]
  /\ csAlerts' = [csAlerts EXCEPT ![c] = CsAlertsNow(c)]
  /\ UNCHANGED <<csMode, csReading, csEver, csTries, csLong, csErr, csEnv, csChan>>

\* The backoff elapses; it doubles up to its cap.
CsRestart(c) ==
  /\ csPc[c] = "backoff" /\ csCtx = "run"
  /\ csPc' = [csPc EXCEPT ![c] = "top"]
  /\ csBackoff' = [csBackoff EXCEPT ![c] = CsLeast(2 * @, CsMaxBackoff)]
  /\ UNCHANGED <<csMode, csReading, csEver, csTries, csLong, csErr, csFails, csHealth,
                 csAlerts, csEnv, csChan>>

CsWaitCancelled(c) ==
  /\ csPc[c] = "backoff" /\ csCtx # "run"
  /\ csPc' = [csPc EXCEPT ![c] = "done"]
  /\ UNCHANGED <<csMode, csReading, csEver, csTries, csLong, csErr, csBackoff, csFails,
                 csHealth, csAlerts, csEnv, csChan>>

-----------------------------------------------------------------------------
(* The pipeline and the shutdown of Daemon.Run. *)

\* collWg.Wait(): rawLines is closed once every supervisor returned.
CsClose ==
  /\ ~csClosed /\ \A c \in CsColls : csPc[c] = "done"
  /\ csClosed' = TRUE
  /\ UNCHANGED <<csMid, csOrphan, csOut, csPipe, csDone, csDropped, csPanics, csCrashed, csColl, csEnv>>

CsProcessAny ==
  /\ csPipe = "reading" /\ csOut > 0
  /\ csOut' = csOut - 1
  /\ IF csCtx # "run" THEN csPipe' = "ended" /\ UNCHANGED csDone
                      ELSE csDone' = csDone + 1 /\ UNCHANGED csPipe
  /\ UNCHANGED <<csMid, csOrphan, csClosed, csDropped, csPanics, csCrashed, csColl, csEnv>>

\* runPipeline takes a line; it returns instead once ctx is cancelled.
CsProcess ==
  /\ csPipe = "reading" /\ csOut > 0
  /\ csOut' = csOut - 1
  /\ IF csCtx = "cancelled" THEN csPipe' = "ended" /\ UNCHANGED csDone
                            ELSE csDone' = csDone + 1 /\ UNCHANGED csPipe
  /\ UNCHANGED <<csMid, csOrphan, csClosed, csDropped, csPanics, csCrashed, csColl, csEnv>>

CsPipeEnds ==
  /\ csPipe = "reading" /\ csClosed /\ csOut = 0
  /\ csPipe' = "ended"
  /\ UNCHANGED <<csMid, csOrphan, csOut, csClosed, csDone, csDropped, csPanics, csCrashed, csColl, csEnv>>

\* processRaw panics: recovered, but runPipeline returns.
CsPipePanics ==
  /\ csPanics < CsMaxPanics /\ csPanics' = csPanics + 1
  /\ csPipe = "reading" /\ csOut > 0
  /\ csOut' = csOut - 1 /\ csPipe' = "ended"
  /\ UNCHANGED <<csMid, csOrphan, csClosed, csDone, csDropped, csCrashed, csColl, csEnv>>

\* SIGTERM cancels the collectors and waits for the pipeline; SIGINT and the
\* drain timeout cancel everything.
CsSigterm ==
  /\ csCtx = "run" /\ csCtx' = "drain"
  /\ UNCHANGED <<csKind, csSource, csOutages, csLines, csColl, csChan>>
CsDrained ==
  /\ csCtx = "drain" /\ csPipe = "ended" /\ csCtx' = "cancelled"
  /\ UNCHANGED <<csKind, csSource, csOutages, csLines, csColl, csChan>>
CsSigint ==
  /\ csCtx = "run" /\ csCtx' = "cancelled"
  /\ UNCHANGED <<csKind, csSource, csOutages, csLines, csColl, csChan>>
CsDrainTimeout ==
  /\ csCtx = "drain" /\ csCtx' = "cancelled"
  /\ UNCHANGED <<csKind, csSource, csOutages, csLines, csColl, csChan>>

\* What a goroutine of the daemon does by itself.
CsStep(c) ==
  \/ CsStart(c) \/ CsConnect(c) \/ CsAttemptFails(c) \/ CsInspectFails(c)
  \/ CsStreamEnds(c) \/ CsChildExits(c) \/ CsStopped(c)
  \/ CsForwarded(c) \/ CsEnds(c) \/ CsFails(c) \/ CsRestart(c) \/ CsWaitCancelled(c)
CsForwards(c) == CsForward(c) \/ CsForwardOrphan(c) \/ CsSendPanics(c)
CsPipeline == CsProcess \/ CsPipeEnds

CsNext ==
  \/ \E c \in CsColls : CsStep(c) \/ CsForwards(c) \/ CsLine(c) \/ CsLineDropped(c)
                        \/ CsSurvives(c) \/ CsCompletes(c) \/ CsPanic(c) \/ CsOutage(c) \/ CsRepair(c)
  \/ CsClose \/ CsPipeline \/ CsPipePanics
  \/ CsSigterm \/ CsDrained \/ CsSigint \/ CsDrainTimeout

\* Goroutines that can run do; timers fire; signals, faults and the drain
\* timeout need not happen.
CsFairness ==
  /\ \A c \in CsColls : WF_csVars(CsStep(c)) /\ WF_csVars(CsForwards(c))
  /\ WF_csVars(CsPipeline) /\ WF_csVars(CsClose)

CsSpec == CsInit /\ [][CsNext]_csVars /\ CsFairness

-----------------------------------------------------------------------------
\* Types of the variables.
CsTypeOK ==
  /\ csSource \in [CsColls -> {"up", "down", "denied", "gone"}]
  /\ csCtx \in {"run", "drain", "cancelled"}
  /\ csPc \in [CsColls -> {"top", "running", "forward", "judge", "backoff", "done"}]
  /\ csMode \in [CsColls -> {"api", "inspect"}]
  /\ csTries \in [CsColls -> 0 .. CsReconnectMax]
  /\ csBackoff \in [CsColls -> CsBase .. CsMaxBackoff]
  /\ csFails \in [CsColls -> 0 .. CsAlert + 1]
  /\ csMid \in [CsColls -> 0 .. CsMidCap] /\ csOut \in 0 .. CsOutCap
  /\ csPipe \in {"reading", "ended"}

\* Nothing is sent on rawLines after it is closed, however a forwarder, the
\* supervisors' exits and the close interleave, as long as no collector has
\* panicked: the send would panic in a goroutine nobody recovers.
CsNoSendAfterClose == csCrashed => csPanics > 0

\* A graceful shutdown that waited for the pipeline lost no line a collector had
\* handed over.
CsDrainComplete ==
  csCtx = "drain" /\ csPipe = "ended" /\ csPanics = 0 =>
    csLines = csDone + csDropped

\* Status and notification tell the same story: a collector reported DEGRADED
\* was announced exactly once since it was last healthy, and one that was
\* announced is still reported.
CsOneStory == \A c \in CsColls : csAlerts[c] = IF csHealth[c] THEN 1 ELSE 0

\* A failing source never holds its collector for good: once it is readable for
\* good it is read again, unless the daemon shuts down or the source completed.
CsReadsAgain ==
  \A c \in CsColls :
    <>[](csSource[c] = "up") => <>[](csReading[c] \/ csCtx # "run" \/ (csPc[c] = "done" /\ csErr[c] = "nil"))

\* A source that stays unreadable ends up DEGRADED in status instead of being
\* retried in silence, on every path but the filesystem fallback.
CsOutageSurfaces ==
  \A c \in CsColls :
    <>[](csSource[c] # "up") =>
      <>[](csHealth[c] \/ csCtx # "run" \/ csMode[c] = "inspect" \/ csPc[c] = "done")

\* After SIGTERM, or after the daemon's context is cancelled, the pipeline ends
\* by itself, unless a panic came first.
CsDrainEnds == <>[](csCtx # "run" => csPipe = "ended" \/ csPanics > 0)

\* Shutdown and health of the collectors, however panics, fatal errors, retries
\* and the two ways to stop interleave: types hold, nothing is sent on a closed
\* channel, a graceful stop drains what was handed over, and status and
\* notification agree (superviseCollector, forward, drainAndClose, collHealth).
CsInv == CsTypeOK /\ CsNoSendAfterClose /\ CsDrainComplete /\ CsOneStory

\* What supervision promises in the end: a source that comes back is read, one
\* that does not is reported, and a shutdown ends.
CsLive == CsReadsAgain /\ CsOutageSurfaces /\ CsDrainEnds
=============================================================================

------------------------------- MODULE Notify -------------------------------
(***************************************************************************)
(* What the operator is told: the notification dispatcher (dedup window,   *)
(* per-channel quotas, the quota reserved for criticals), the channels     *)
(* behind it, the folding of repeated notify_only and ban_ineffective      *)
(* notifications, and the health of enforcement and of the hardening       *)
(* checks whose transitions are reported through it.                       *)
(*                                                                         *)
(* A notification is its dedup key and its severity.  Sends are made by    *)
(* the goroutine that has something to say, so several can be under way at *)
(* once and one may take longer than a window.                             *)
(***************************************************************************)
EXTENDS Integers, FiniteSetsExt, SequencesExt

CONSTANTS
  NtChannels,     \* sequence of channels: [kind, severities, recipients]
  NtQuota, NtCritQuota,          \* rate_limit_per_minute, CriticalRateLimitPerMinute
  NtMinute, NtDedup,             \* limiter window, dedup_window_sec
  NtSupWindow, NtIneffWindow,    \* notify_only window, defaultIneffNotifyWindow
  NtFlip,                        \* enfThrottleFlipStreak
  NtCasts,                       \* bound: [from, max], which sources report in one behaviour
                                 \* and how many things worth reporting happen
  NtMaxTime,                     \* bound: the clock
  NtMaxFaults                    \* bound: sends that fail

NtTimes == 0 .. NtMaxTime
NtNever == -1
NtKeys == {"ban", "scan", "ban failed", "degraded ban", "degraded sync",
           "ineffective", "check degraded", "check recovered"}
NtSeverities == {"info", "warn", "critical"}
NtThreads == {"pipeline", "retry", "probe", "flush", "check"}
NtSources == {"ban", "retry", "probe", "check", "scan", "flush", "ineffective", "operator"}
NtResults == {"ok", "throttle", "fail", "refused"}

ASSUME NtConstants ==
  /\ {NtQuota, NtCritQuota, NtMinute, NtDedup, NtSupWindow, NtIneffWindow, NtFlip}
       \subseteq Nat \ {0}
  /\ {NtMaxTime, NtMaxFaults} \subseteq Nat
  /\ Len(NtChannels) \in Nat /\ DOMAIN NtChannels = 1 .. Len(NtChannels)
  /\ \A x \in NtCasts : x.from \subseteq NtSources /\ x.max \in Nat
  /\ \A c \in DOMAIN NtChannels :
       /\ NtChannels[c].kind \in {"telegram", "email", "post"}
       /\ NtChannels[c].severities \subseteq NtSeverities

VARIABLES
  ntCast,       \* the sources of this behaviour; never changes
  ntNow, ntInputs, ntFaults,     \* clock and bounded counters
  ntStamp,      \* Dispatcher.dedup
  ntHistory,    \* of each channel, the history of its two limiters
  ntTodo,       \* of each goroutine, what it has left to do
  ntSend,       \* of each goroutine, the Send it is in
  ntArmed,      \* policy.IsArmed
  ntDegraded, ntStreak,          \* enfHealth
  ntHealthy,    \* selfCheckHealthy
  ntSup,        \* notifySuppressor: start and suppressed of the one stream
  ntIneff,      \* ineffDedup: windowStart and suppressed
  ntSaid,       \* history: per key, the latest claim under which it was delivered
  ntOwed,       \* history: the DEGRADED alert of the current outage, or none
  ntCrits,      \* history: per channel, criticals handed to it
  ntSince,      \* history: failures and throttles since the last success
  ntCount       \* history: notify_only and ban_ineffective events, and where they went

ntHealth == <<ntArmed, ntDegraded, ntStreak, ntHealthy, ntOwed, ntSince>>
ntFold   == <<ntSup, ntIneff, ntCount>>
ntWire   == <<ntStamp, ntHistory, ntSend, ntSaid, ntCrits>>
ntVars   == <<ntCast, ntNow, ntInputs, ntFaults, ntTodo, ntHealth, ntFold, ntWire>>

NtIdle == [key |-> "none", sev |-> "info", at |-> 0, claim |-> NtNever, delivered |-> FALSE]
NtMsg(key, sev) == [do |-> "send", key |-> key, sev |-> sev]
NtRec(op, err) == [do |-> "record", op |-> op, err |-> err]
NtClosed == [start |-> NtNever, n |-> 0]

NtInit ==
  /\ ntCast \in NtCasts /\ ntNow = 0 /\ ntInputs = 0 /\ ntFaults = 0
  /\ ntStamp = [k \in NtKeys |-> NtNever]
  /\ ntHistory = [c \in DOMAIN NtChannels |-> [normal |-> <<>>, critical |-> <<>>]]
  /\ ntTodo = [t \in NtThreads |-> <<>>]
  /\ ntSend = [t \in NtThreads |-> NtIdle]
  /\ ntArmed = TRUE /\ ntDegraded = FALSE /\ ntStreak = 0 /\ ntHealthy = TRUE
  /\ ntSup = NtClosed /\ ntIneff = NtClosed
  /\ ntSaid = [k \in NtKeys |-> NtNever]
  /\ ntOwed = [key |-> "none", at |-> 0]
  /\ ntCrits = [c \in DOMAIN NtChannels |-> 0]
  /\ ntSince = [fails |-> 0, throttles |-> 0]
  /\ ntCount = [scans |-> 0, fresh |-> 0, folded |-> 0, fired |-> 0, alerts |-> 0, carried |-> 0]

NtQuiet(t) == ntTodo[t] = <<>> /\ ntSend[t] = NtIdle
NtInput(src, t) == /\ src \in ntCast.from /\ ntInputs < ntCast.max /\ NtQuiet(t)
                   /\ ntInputs' = ntInputs + 1

---------------------------------------------------------------------------
(* The dispatcher: Send, one step per lock or call it makes.               *)

\* claimDedup: the window is free
NtFree(key) == ntStamp[key] = NtNever \/ ntNow - ntStamp[key] >= NtDedup

\* the stamp is taken before anything is sent
NtStampedLater(key) == ntStamp
NtStamped(key) == [ntStamp EXCEPT ![key] = ntNow]

NtClaim(t) ==
  /\ ntSend[t] = NtIdle /\ ntTodo[t] # <<>> /\ Head(ntTodo[t]).do = "send"
  /\ LET m == Head(ntTodo[t]) IN
       /\ NtFree(m.key)
       /\ ntStamp' = NtStamped(m.key)
       /\ ntSend' = [ntSend EXCEPT ![t] = [key |-> m.key, sev |-> m.sev, at |-> 1,
                                           claim |-> ntNow, delivered |-> FALSE]]
  /\ ntTodo' = [ntTodo EXCEPT ![t] = Tail(@)]
  /\ UNCHANGED <<ntCast, ntNow, ntInputs, ntFaults, ntHealth, ntFold, ntHistory, ntSaid, ntCrits>>

NtDuplicate(t) ==
  /\ ntSend[t] = NtIdle /\ ntTodo[t] # <<>> /\ Head(ntTodo[t]).do = "send"
  /\ ~NtFree(Head(ntTodo[t]).key)
  /\ ntTodo' = [ntTodo EXCEPT ![t] = Tail(@)]
  /\ UNCHANGED <<ntCast, ntNow, ntInputs, ntFaults, ntHealth, ntFold, ntWire>>

NtAccepts(c, sev) == NtChannels[c].severities = {} \/ sev \in NtChannels[c].severities
NtAcceptsCritical == \E c \in DOMAIN NtChannels : NtAccepts(c, "critical")

NtAtChannel(t) == ntSend[t] # NtIdle /\ ntSend[t].at \in DOMAIN NtChannels

NtSkip(t) ==
  /\ NtAtChannel(t) /\ ~NtAccepts(ntSend[t].at, ntSend[t].sev)
  /\ ntSend' = [ntSend EXCEPT ![t].at = @ + 1]
  /\ UNCHANGED <<ntCast, ntNow, ntInputs, ntFaults, ntTodo, ntHealth, ntFold, ntStamp, ntHistory,
                 ntSaid, ntCrits>>

\* which limiter a severity is held to
NtLimiter(sev) == IF sev = "critical" THEN "critical" ELSE "normal"
NtMaxN(sev) == IF NtLimiter(sev) = "critical" THEN NtCritQuota ELSE NtQuota

\* the window slides before Allow counts: the leading entries before the cutoff go
NtSlid(c, sev) ==
  LET h == ntHistory[c][NtLimiter(sev)]
      old == {i \in DOMAIN h : \A j \in 1 .. i : h[j] < ntNow - NtMinute}
  IN SubSeq(h, Cardinality(old) + 1, Len(h))

NtLimited(t) ==
  /\ NtAtChannel(t)
  /\ LET c == ntSend[t].at  sev == ntSend[t].sev IN
       /\ NtAccepts(c, sev) /\ Len(NtSlid(c, sev)) >= NtMaxN(sev)
       /\ ntHistory' = [ntHistory EXCEPT ![c][NtLimiter(sev)] = NtSlid(c, sev)]
  /\ ntSend' = [ntSend EXCEPT ![t].at = @ + 1]
  /\ UNCHANGED <<ntCast, ntNow, ntInputs, ntFaults, ntTodo, ntHealth, ntFold, ntStamp, ntSaid, ntCrits>>

\* What a channel's Send may return, and whom the message then reached:
\* telegram posts to every chat and reports any failure; email reaches every
\* recipient or none, and can fail after the server took the message.
NtTelegram(R) == {[ok |-> TRUE, got |-> R]} \cup {[ok |-> FALSE, got |-> g] : g \in SUBSET R}
NtEmail(R) == {[ok |-> TRUE, got |-> R], [ok |-> FALSE, got |-> R], [ok |-> FALSE, got |-> {}]}
NtPost(R) == {[ok |-> TRUE, got |-> R], [ok |-> FALSE, got |-> R], [ok |-> FALSE, got |-> {}]}
NtOutcomes(c) ==
  LET R == NtChannels[c].recipients IN
    CASE NtChannels[c].kind = "telegram" -> NtTelegram(R)
      [] NtChannels[c].kind = "email" -> NtEmail(R)
      [] NtChannels[c].kind = "post" -> NtPost(R)

NtChannelSend(t) ==
  /\ NtAtChannel(t)
  /\ LET c == ntSend[t].at  sev == ntSend[t].sev IN
       /\ NtAccepts(c, sev) /\ Len(NtSlid(c, sev)) < NtMaxN(sev)
       /\ ntHistory' = [ntHistory EXCEPT ![c][NtLimiter(sev)] = Append(NtSlid(c, sev), ntNow)]
       /\ ntCrits' = [ntCrits EXCEPT ![c] = @ + (IF sev = "critical" THEN 1 ELSE 0)]
       /\ \E o \in NtOutcomes(c) :
            /\ ntFaults + (IF o.ok THEN 0 ELSE 1) <= NtMaxFaults
            /\ ntFaults' = ntFaults + (IF o.ok THEN 0 ELSE 1)
            /\ ntSend' = [ntSend EXCEPT ![t].at = @ + 1, ![t].delivered = @ \/ o.ok]
            /\ ntSaid' = IF ~o.ok THEN ntSaid ELSE [ntSaid EXCEPT ![ntSend[t].key] = Max({@, ntSend[t].claim})]
  /\ UNCHANGED <<ntCast, ntNow, ntInputs, ntTodo, ntHealth, ntFold, ntStamp>>

\* releaseDedup, when no channel delivered
NtReleased(t) ==
  IF ~ntSend[t].delivered /\ ntStamp[ntSend[t].key] = ntSend[t].claim
  THEN [ntStamp EXCEPT ![ntSend[t].key] = NtNever] ELSE ntStamp

NtSent(t) ==
  /\ ntSend[t] # NtIdle /\ ntSend[t].at > Len(NtChannels)
  /\ ntStamp' = NtReleased(t)
  /\ ntSend' = [ntSend EXCEPT ![t] = NtIdle]
  /\ UNCHANGED <<ntCast, ntNow, ntInputs, ntFaults, ntTodo, ntHealth, ntFold, ntHistory, ntSaid, ntCrits>>

---------------------------------------------------------------------------
(* Enforcement health.                                                     *)

\* dispatch and the deferred retry, after the enforcer answered
NtFailureMsg(err) == IF err \in {"fail", "throttle"}
                     THEN <<NtMsg("ban failed", "critical")>> ELSE <<>>

NtBanDispatched(err) ==
  /\ NtInput("ban", "pipeline")
  /\ ntTodo' = [ntTodo EXCEPT !["pipeline"] =
                  NtFailureMsg(err) \o <<NtRec("ban", err), NtMsg("ban", "warn")>>]
  /\ UNCHANGED <<ntCast, ntNow, ntFaults, ntHealth, ntFold, ntWire>>

NtBanRetried(err) ==
  /\ NtInput("retry", "retry") /\ err # "refused"
  /\ ntTodo' = [ntTodo EXCEPT !["retry"] = NtFailureMsg(err) \o <<NtRec("ban", err)>>]
  /\ UNCHANGED <<ntCast, ntNow, ntFaults, ntHealth, ntFold, ntWire>>

NtProbed(err) ==
  /\ NtInput("probe", "probe")
  /\ ntTodo' = [ntTodo EXCEPT !["probe"] = <<NtRec("sync", err)>>]
  /\ UNCHANGED <<ntCast, ntNow, ntFaults, ntHealth, ntFold, ntWire>>

\* enfHealth after a result
NtStreakNow(err) ==
  CASE err = "refused" -> ntStreak
    [] err = "throttle" -> ntStreak + 1
    [] OTHER -> 0
NtDegradedNow(err) ==
  CASE err = "ok" -> FALSE
    [] err = "refused" -> ntDegraded
    [] err = "throttle" -> ntDegraded \/ NtStreakNow(err) >= NtFlip
    [] err = "fail" -> TRUE

NtAlertKey(op) == IF op = "ban" THEN "degraded ban" ELSE "degraded sync"

\* recordEnforceResult: the health under its lock, then the alert of a transition
NtRecord(t) ==
  /\ ntSend[t] = NtIdle /\ ntTodo[t] # <<>> /\ Head(ntTodo[t]).do = "record"
  /\ LET r == Head(ntTodo[t])
         alert == ~ntDegraded /\ NtDegradedNow(r.err) /\ ntArmed
     IN /\ ntDegraded' = NtDegradedNow(r.err)
        /\ ntStreak' = NtStreakNow(r.err)
        /\ ntTodo' = [ntTodo EXCEPT ![t] =
                        (IF alert THEN <<NtMsg(NtAlertKey(r.op), "critical")>> ELSE <<>>) \o Tail(@)]
        /\ ntOwed' = IF alert THEN [key |-> NtAlertKey(r.op), at |-> ntNow]
                     ELSE IF NtDegradedNow(r.err) THEN ntOwed ELSE [key |-> "none", at |-> 0]
        /\ ntSince' = CASE r.err = "ok" -> [fails |-> 0, throttles |-> 0]
                        [] r.err = "fail" -> [ntSince EXCEPT !.fails = @ + 1]
                        [] r.err = "throttle" -> [ntSince EXCEPT !.throttles = @ + 1]
                        [] r.err = "refused" -> ntSince
  /\ UNCHANGED <<ntCast, ntNow, ntInputs, ntFaults, ntArmed, ntHealthy, ntFold, ntWire>>

\* selfCheckPass: only a change of health is reported
NtSelfCheck(ok) ==
  /\ NtInput("check", "check") /\ ok # ntHealthy
  /\ ntHealthy' = ok
  /\ ntTodo' = [ntTodo EXCEPT !["check"] =
                  <<IF ok THEN NtMsg("check recovered", "info") ELSE NtMsg("check degraded", "critical")>>]
  /\ UNCHANGED <<ntCast, ntNow, ntFaults, ntArmed, ntDegraded, ntStreak, ntOwed, ntSince, ntFold, ntWire>>

\* arm and disarm (module ArmWindow)
NtArmChanges ==
  /\ "operator" \in ntCast.from /\ ntInputs < ntCast.max /\ ntInputs' = ntInputs + 1
  /\ ntArmed' = ~ntArmed
  /\ UNCHANGED <<ntCast, ntNow, ntFaults, ntTodo, ntDegraded, ntStreak, ntHealthy, ntOwed, ntSince,
                 ntFold, ntWire>>

---------------------------------------------------------------------------
(* Folding of repeats.                                                     *)

NtOpen(w, window) == w.start # NtNever /\ ntNow - w.start < window

\* admit: counted inside the window; after it, a summary of the last window
\* is sent before the fresh notification
NtScanFolded ==
  /\ NtInput("scan", "pipeline") /\ NtOpen(ntSup, NtSupWindow)
  /\ ntSup' = [ntSup EXCEPT !.n = @ + 1]
  /\ ntCount' = [ntCount EXCEPT !.scans = @ + 1]
  /\ UNCHANGED <<ntCast, ntNow, ntFaults, ntTodo, ntHealth, ntIneff, ntWire>>

NtScanFresh ==
  /\ NtInput("scan", "pipeline") /\ ~NtOpen(ntSup, NtSupWindow)
  /\ ntSup' = [start |-> ntNow, n |-> 0]
  /\ ntTodo' = [ntTodo EXCEPT !["pipeline"] =
                  (IF ntSup.n > 0 THEN <<NtMsg("scan", "info")>> ELSE <<>>) \o <<NtMsg("scan", "info")>>]
  /\ ntCount' = [ntCount EXCEPT !.scans = @ + 1, !.fresh = @ + 1, !.folded = @ + ntSup.n]
  /\ UNCHANGED <<ntCast, ntNow, ntFaults, ntHealth, ntIneff, ntWire>>

\* flush: closed windows are summarised and forgotten
NtFlushable == ntSup.start # NtNever /\ ~NtOpen(ntSup, NtSupWindow)
NtFlush ==
  /\ "flush" \in ntCast.from /\ NtQuiet("flush") /\ NtFlushable
  /\ ntSup' = NtClosed
  /\ ntTodo' = [ntTodo EXCEPT !["flush"] = IF ntSup.n > 0 THEN <<NtMsg("scan", "info")>> ELSE <<>>]
  /\ ntCount' = [ntCount EXCEPT !.folded = @ + ntSup.n]
  /\ UNCHANGED <<ntCast, ntNow, ntInputs, ntFaults, ntHealth, ntIneff, ntWire>>

\* BanIneffective: one systemic alert per window, the others carried to it
NtCarried == ntIneff.n
NtFires ==
  /\ NtInput("ineffective", "pipeline")
  /\ \/ /\ NtOpen(ntIneff, NtIneffWindow)
        /\ ntIneff' = [ntIneff EXCEPT !.n = @ + 1]
        /\ ntCount' = [ntCount EXCEPT !.fired = @ + 1]
        /\ UNCHANGED ntTodo
     \/ /\ ~NtOpen(ntIneff, NtIneffWindow)
        /\ ntIneff' = [start |-> ntNow, n |-> 0]
        /\ ntTodo' = [ntTodo EXCEPT !["pipeline"] = <<NtMsg("ineffective", "critical")>>]
        /\ ntCount' = [ntCount EXCEPT !.fired = @ + 1, !.alerts = @ + 1, !.carried = @ + NtCarried]
  /\ UNCHANGED <<ntCast, ntNow, ntFaults, ntHealth, ntSup, ntWire>>

NtTick == /\ ntNow < NtMaxTime /\ ntNow' = ntNow + 1
          /\ UNCHANGED <<ntCast, ntInputs, ntFaults, ntTodo, ntHealth, ntFold, ntWire>>

NtSending(t) == \/ NtClaim(t) \/ NtDuplicate(t) \/ NtSkip(t) \/ NtLimited(t)
                \/ NtChannelSend(t) \/ NtSent(t) \/ NtRecord(t)

NtNext ==
  \/ \E t \in NtThreads : NtSending(t)
  \/ \E err \in NtResults : NtBanDispatched(err) \/ NtBanRetried(err) \/ NtProbed(err)
  \/ \E ok \in BOOLEAN : NtSelfCheck(ok)
  \/ NtArmChanges \/ NtScanFolded \/ NtScanFresh \/ NtFlush \/ NtFires \/ NtTick

NtSpec == NtInit /\ [][NtNext]_ntVars

---------------------------------------------------------------------------
\* Every variable holds values of its type and the clock stays in its bound.
NtTypeOK ==
  /\ ntNow \in NtTimes /\ ntInputs \in 0 .. ntCast.max /\ ntFaults \in 0 .. NtMaxFaults
  /\ ntStamp \in [NtKeys -> NtTimes \cup {NtNever}]
  /\ \A c \in DOMAIN NtChannels : Len(ntHistory[c].normal) <= NtQuota
                                  /\ Len(ntHistory[c].critical) <= NtCritQuota
  /\ \A t \in NtThreads : ntSend[t].claim \in NtTimes \cup {NtNever}
  /\ {ntArmed, ntDegraded, ntHealthy} \subseteq BOOLEAN /\ ntStreak \in 0 .. ntCast.max

\* A notification is never repeated inside the dedup window: when a goroutine
\* takes the window of a key (claimDedup), nobody delivered that key under a
\* claim less than a window old, and nobody is delivering one.
NtNoRepeat == [][
  \A t \in NtThreads : ntSend[t] = NtIdle /\ ntSend'[t] # NtIdle =>
    LET k == ntSend'[t].key IN
      /\ ntSaid[k] # NtNever => ntNow - ntSaid[k] >= NtDedup
      /\ \A u \in NtThreads \ {t} :
           ntSend[u].key = k => ntNow - ntSend[u].claim >= NtDedup]_ntVars

\* A window that is closed to a key means the operator got that notification
\* or is being sent it: a claim whose send nobody received was given back.
NtStampHonest ==
  \A k \in NtKeys : ntStamp[k] # NtNever =>
    \/ ntSaid[k] = ntStamp[k]
    \/ \E t \in NtThreads : ntSend[t].key = k /\ ntSend[t].claim = ntStamp[k]

\* An armed daemon that turned DEGRADED and is still so has told the operator
\* once every send has ended: the alert was delivered within the window before
\* or after the transition, unless a channel failed or was already handed its
\* reserved quota of criticals.  Warnings and infos never stand in its way.
NtDegradedTold ==
  (ntOwed.key # "none" /\ (\A t \in NtThreads : NtQuiet(t)) /\ NtAcceptsCritical) =>
    \/ ntSaid[ntOwed.key] # NtNever /\ ntOwed.at - ntSaid[ntOwed.key] < NtDedup
    \/ ntFaults > 0
    \/ \A c \in DOMAIN NtChannels : NtAccepts(c, "critical") => ntCrits[c] >= NtCritQuota

\* DEGRADED means just this: since the last success an enforcer operation
\* failed, or NtFlip of them in a row were throttled by the edge.  A gate
\* refusal counts for nothing.
NtHealthHonest ==
  ntDegraded <=> (ntSince.fails > 0 \/ ntSince.throttles >= NtFlip)

\* No event is lost by folding: every notify_only event was notified, was
\* counted in a summary or is counted in the open window, and every
\* ban_ineffective firing was an alert, was carried to one or still will be.
NtNothingLost ==
  /\ ntCount.scans = ntCount.fresh + ntCount.folded + ntSup.n
  /\ ntCount.fired = ntCount.alerts + ntCount.carried + ntIneff.n

\* Claims, quotas, folding and health with several senders at once: nothing is
\* told twice in a window, a closed window was really told, a DEGRADED daemon is
\* announced, the health state has a reason, and folding keeps the counts.
NtSafe == /\ [](NtTypeOK /\ NtStampHonest /\ NtDegradedTold /\ NtHealthHonest /\ NtNothingLost)
          /\ NtNoRepeat
=============================================================================

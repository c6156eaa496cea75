------------------------------ MODULE Ladder ------------------------------
(***************************************************************************)
(* The decision engine's own state (internal/decision/engine.go and        *)
(* notifyedge.go, with the tables of internal/store it works on): the      *)
(* strike ladder, the active-ban guard, the cap on bans per minute with    *)
(* its exemption, the ban_ineffective diagnostic with its counters on the  *)
(* ban row, and the rising-edge audit of notify_only.                      *)
(*                                                                         *)
(* The callers of Decide (the pipeline and the SSH re-check) run beside    *)
(* the operator's verbs, the expiry sweep and restarts.  Every call of the *)
(* store is a step.  Scores are abstracted to the band they fall in; the   *)
(* checks before the strike lock are in BanLifecycle.                      *)
(***************************************************************************)
EXTENDS Naturals, Sequences, FiniteSets

CONSTANTS LdIPs, LdRules,   \* addresses, and rules of the observe band
          LdCallers,        \* goroutines that call Decide
          LdTTLs,           \* policy.Strikes: the rungs; 0 is permanent
          LdWindow,         \* the minute of MaxBansPerMinute
          LdExempt,         \* EscalationExemptWindow
          LdGrace,          \* BanIneffectiveGrace
          LdMinCfg,         \* ban_ineffective_min_events as configured
          LdFloor,          \* DefaultBanIneffectiveMinEvents, its least value
          LdMinIn,          \* ban_ineffective_min_events_in_grace; 0: off
          LdRearm,          \* IneffectiveRearmAfter
          LdEdgeWindow, LdEdgeCap,    \* notifyEdgeWindow, notifyEdgeMaxEntries
          LdScenes,         \* who acts in a behaviour, under which MaxBansPerMinute, for how
                            \* long, with how many faults
          LdNever,          \* a time after every other
          LdMaxStrikes, LdMaxCount   \* bounds: strikes, suppressed events of a ban

ASSUME LdAssumption ==
    /\ LdTTLs \in Seq(Nat) /\ LdTTLs # <<>>
    /\ LdIPs # {} /\ IsFiniteSet(LdIPs) /\ "none" \notin LdRules
    /\ LdFloor \in Nat \ {0, 1} /\ LdEdgeCap \in Nat \ {0}
    /\ LdScenes \subseteq [ips : SUBSET LdIPs, callers : SUBSET LdCallers, env : SUBSET {"verbs", "strike", "notify"},
                           cap : Nat \ {0}, time : 0..LdNever, faults : Nat]
    /\ \A s \in LdScenes, k \in DOMAIN LdTTLs : s.time + LdTTLs[k] < LdNever
    /\ {LdWindow, LdExempt, LdGrace, LdMinCfg, LdMinIn, LdRearm, LdEdgeWindow, LdNever, LdMaxStrikes, LdMaxCount}
          \subseteq Nat

VARIABLES
    ldScene,    \* the scene of this behaviour; never changes
    ldNow, ldArmed,
    ldRow,      \* bans_active: a row per address, or LdNoRow
    ldKnown,    \* addresses with an offenders row
    ldStrikes,  \* offenders.total_strikes
    ldHad,      \* offenders.had_ineffective
    ldLast,     \* the newest row of strikes: its time and TTL, or LdNoStrike
    ldWin,      \* windowStart and bansInWin
    ldEdges,    \* notifyEdges: the last audited rule of an address, or LdNoEdge
    ldTrail,    \* audit_log: when a notify_only of (address, rule) was last written
    ldCall,     \* what each caller is doing
    ldVerb,     \* addresses whose manual ban is authorised and not yet recorded
    ldFaults,
    ldLeaky,    \* history: addresses that had a ban diagnosed as ineffective
    ldBlind,    \* history: addresses whose offender row was not written or read
    ldPasses    \* history: the bans the cap let through in the last minute, each
                \* with its window, its number there and its time

ldStore == <<ldRow, ldKnown, ldStrikes, ldHad, ldLast, ldTrail>>
ldEngine == <<ldWin, ldEdges, ldPasses>>
ldWorld == <<ldNow, ldArmed, ldFaults>>
ldVars == <<ldScene, ldWorld, ldStore, ldEngine, ldCall, ldVerb, ldLeaky, ldBlind>>

LdNoRow == [at |-> 0, until |-> 0, strike |-> 0, dry |-> FALSE, total |-> 0, after |-> 0, fired |-> FALSE,
            last |-> LdNever]
LdNoStrike == [at |-> LdNever, ttl |-> 0]
LdNoEdge == [rule |-> "none", at |-> 0]
LdIdle == [at |-> "idle", ip |-> CHOOSE i \in LdIPs : TRUE, rule |-> "none", since |-> 0, n |-> 0, phase |-> "none",
           strike |-> 0, ttl |-> 0, dry |-> FALSE, says |-> {}]
LdAts == {"idle", "guard", "track", "mark", "bump", "count", "rate", "had", "record", "clear", "audit", "unaudited",
          "return", "quiet"}

LdTypeOK ==
    /\ ldNow \in 0..ldScene.time /\ ldArmed \in BOOLEAN /\ ldFaults \in 0..ldScene.faults
    /\ ldKnown \cup ldHad \cup ldVerb \cup ldLeaky \cup ldBlind \subseteq LdIPs
    /\ \A i \in LdIPs : /\ ldStrikes[i] \in 0..LdMaxStrikes /\ ldRow[i].after <= ldRow[i].total
                        /\ ldEdges[i].rule \in LdRules \cup {"none"}
    /\ ldTrail \in [LdIPs -> [LdRules -> 0..ldScene.time \cup {LdNever}]]
    /\ \A c \in LdCallers : ldCall[c].at \in LdAts /\ ldCall[c].says \subseteq {"leak", "permanent"}
    /\ Cardinality({i \in LdIPs : ldEdges[i] # LdNoEdge}) <= LdEdgeCap

LdInit ==
    /\ ldScene \in LdScenes /\ ldNow = 0 /\ ldArmed = TRUE /\ ldFaults = 0
    /\ ldRow = [i \in LdIPs |-> LdNoRow] /\ ldKnown = {} /\ ldStrikes = [i \in LdIPs |-> 0]
    /\ ldHad = {} /\ ldLast = [i \in LdIPs |-> LdNoStrike] /\ ldTrail = [i \in LdIPs |-> [r \in LdRules |-> LdNever]]
    /\ ldWin = [start |-> 0, n |-> 0] /\ ldEdges = [i \in LdIPs |-> LdNoEdge]
    /\ ldCall = [c \in LdCallers |-> LdIdle] /\ ldVerb = {} /\ ldLeaky = {} /\ ldBlind = {} /\ ldPasses = {}

\* GetBanInfo's notion of active: a row past its end is not, though the sweep
\* has not removed it yet.
LdActive(i) == ldRow[i] # LdNoRow /\ (ldRow[i].until = LdNever \/ ldRow[i].until > ldNow)
LdRow(ttl, strike, dry) ==
    [LdNoRow EXCEPT !.at = ldNow, !.until = IF ttl = 0 THEN LdNever ELSE ldNow + ttl, !.strike = strike, !.dry = dry]

LdGoes(c, rec) == ldCall' = [ldCall EXCEPT ![c] = rec]
LdTo(c, at) == LdGoes(c, [ldCall[c] EXCEPT !.at = at])
LdIp(c) == ldCall[c].ip
LdFails == ldFaults < ldScene.faults /\ ldFaults' = ldFaults + 1
LdPure == UNCHANGED <<ldWorld, ldStore, ldEngine, ldLeaky, ldBlind>>

---------------------------------------------------------------------------
(* Decide, from the strike lock on.                                        *)

\* Mutant: the section is not serialised per address.
LdLockFreeAlways(i) == TRUE

LdLockFree(i) == \A c \in LdCallers : ldCall[c].at \in {"idle", "audit", "unaudited", "quiet"} \/ LdIp(c) # i
LdLock(c, i) ==
    /\ ldCall[c] = LdIdle /\ LdLockFree(i)
    /\ ldStrikes[i] < LdMaxStrikes /\ ldRow[i].total < LdMaxCount   \* bounds
    /\ LdGoes(c, [LdIdle EXCEPT !.at = "guard", !.ip = i]) /\ LdPure

\* The active-ban guard.  An armed engine looks through a simulated ban; a
\* failing read falls through to the strike.
LdGuard(c) ==
    /\ ldCall[c].at = "guard"
    /\ LET r == ldRow[LdIp(c)]
       IN  IF LdActive(LdIp(c)) /\ ~(ldArmed /\ r.dry)
           THEN LdGoes(c, [ldCall[c] EXCEPT !.at = "track", !.since = r.at])
           ELSE LdTo(c, "count")
    /\ LdPure
LdGuardFails(c) ==
    /\ ldCall[c].at = "guard" /\ LdFails /\ LdTo(c, "count")
    /\ UNCHANGED <<ldNow, ldArmed, ldStore, ldEngine, ldLeaky, ldBlind>>

\* Mutant: the floor under ban_ineffective_min_events is gone.
LdMinEventsAsConfigured == LdMinCfg

\* Policy.applyDefaults: the configured value, not below its floor.
LdMinEvents == IF LdMinCfg < LdFloor THEN LdFloor ELSE LdMinCfg

\* RecordSuppressed: a ban that fired and has been quiet is a new case; then
\* the event is counted.  Nothing happens when the row is gone.
LdCounted(r, after) ==
    LET rearmed == r.fired /\ (r.last = LdNever \/ r.last + LdRearm < ldNow)
        base == IF rearmed THEN [r EXCEPT !.fired = FALSE, !.after = 0] ELSE r
    IN  IF r = LdNoRow THEN r
        ELSE [base EXCEPT !.total = @ + 1, !.after = @ + (IF after THEN 1 ELSE 0), !.last = ldNow]

\* trackSuppressedEvent: by time after the grace, by volume within it; the
\* age of the ban is the one the guard read.
LdPhase(r, after) ==
    IF ~ldArmed \/ r.fired THEN "none"
    ELSE IF after /\ r.after >= LdMinEvents THEN "post_grace"
    ELSE IF ~after /\ LdMinIn > 0 /\ r.total - r.after >= LdMinIn THEN "in_grace" ELSE "none"
LdTrack(c) ==
    LET after == ldNow >= ldCall[c].since + LdGrace
        r == LdCounted(ldRow[LdIp(c)], after)
    IN  /\ ldCall[c].at = "track" /\ ldRow' = [ldRow EXCEPT ![LdIp(c)] = r]
        /\ LdGoes(c, [ldCall[c] EXCEPT !.n = r.total, !.phase = LdPhase(r, after),
                                       !.at = IF LdPhase(r, after) = "none" THEN "bump" ELSE "mark"])
        /\ UNCHANGED <<ldWorld, ldKnown, ldStrikes, ldHad, ldLast, ldTrail, ldEngine, ldLeaky, ldBlind>>

\* MarkBanIneffective: fire once, and remember it on the offender's row if
\* there is one, in one transaction.
LdMark(c) ==
    LET i == LdIp(c)
        fires == ldRow[i] # LdNoRow /\ ~ldRow[i].fired
    IN  /\ ldCall[c].at = "mark"
        /\ ldRow' = IF fires THEN [ldRow EXCEPT ![i].fired = TRUE] ELSE ldRow
        /\ ldHad' = ldHad \cup (IF fires THEN {i} \cap ldKnown ELSE {})
        /\ ldLeaky' = ldLeaky \cup (IF fires THEN {i} ELSE {})
        /\ LdGoes(c, [ldCall[c] EXCEPT !.at = "bump", !.says = IF fires THEN @ \cup {"leak"} ELSE @])
        /\ UNCHANGED <<ldWorld, ldKnown, ldStrikes, ldLast, ldTrail, ldEngine, ldBlind>>

\* A failing RecordSuppressed or MarkBanIneffective ends the diagnosis only.
LdDiagFails(c) ==
    /\ ldCall[c].at \in {"track", "mark"} /\ LdFails /\ LdTo(c, "bump")
    /\ UNCHANGED <<ldNow, ldArmed, ldStore, ldEngine, ldLeaky, ldBlind>>

\* BumpLastSeen creates the offender's row when a manual ban had none.
LdBump(c) ==
    /\ ldCall[c].at = "bump" /\ LdTo(c, "return") /\ ldKnown' = ldKnown \cup {LdIp(c)}
    /\ UNCHANGED <<ldWorld, ldRow, ldStrikes, ldHad, ldLast, ldTrail, ldEngine, ldLeaky, ldBlind>>
LdBumpFails(c) ==
    /\ ldCall[c].at = "bump" /\ LdFails /\ LdTo(c, "return") /\ ldBlind' = ldBlind \cup {LdIp(c)}
    /\ UNCHANGED <<ldNow, ldArmed, ldStore, ldEngine, ldLeaky>>

\* GetStrikeCount, the rung, and the armed flag as it is now.
LdRung(strike) == LdTTLs[IF strike > Len(LdTTLs) THEN Len(LdTTLs) ELSE strike]
LdCount(c) ==
    /\ ldCall[c].at = "count"
    /\ LET s == ldStrikes[LdIp(c)] + 1
       IN  LdGoes(c, [ldCall[c] EXCEPT !.at = "rate", !.strike = s, !.ttl = LdRung(s), !.dry = ~ldArmed])
    /\ LdPure

\* escalationExempt: the last ban had an end, and that is not long ago.
LdExempted(i) ==
    ldLast[i] # LdNoStrike /\ ldLast[i].ttl > 0 /\ ldNow <= ldLast[i].at + ldLast[i].ttl + LdExempt

\* Mutant: a new window does not begin when the old one has passed.
LdWindowNowStuck == IF ldNow > ldWin.start + LdWindow THEN [ldWin EXCEPT !.n = 0] ELSE ldWin

\* checkRateLimit: one counter, reset when the minute has passed.
LdWindowNow == IF ldNow > ldWin.start + LdWindow THEN [start |-> ldNow, n |-> 0] ELSE ldWin
LdPaced(c) == LdTo(c, IF ldCall[c].ttl = 0 THEN "had" ELSE "record")
LdRateExempt(c) ==
    /\ ldCall[c].at = "rate" /\ ldCall[c].strike > 1 /\ LdExempted(LdIp(c)) /\ LdPaced(c) /\ LdPure
LdCounts ==      \* counting on past the cap would change nothing
    /\ ldWin' = [LdWindowNow EXCEPT !.n = IF @ > ldScene.cap THEN @ ELSE @ + 1]
    /\ ldPasses' = ldPasses \cup (IF ldWin'.n > ldScene.cap THEN {}
                                 ELSE {[win |-> ldWin'.start, nth |-> ldWin'.n, at |-> ldNow]})
LdRateCount(c) ==
    /\ LdCounts /\ IF ldWin'.n <= ldScene.cap THEN LdPaced(c) ELSE LdTo(c, "return")
    /\ UNCHANGED <<ldStore, ldEdges, ldLeaky, ldBlind>>
LdRate(c) ==
    /\ ldCall[c].at = "rate" /\ ~(ldCall[c].strike > 1 /\ LdExempted(LdIp(c))) /\ LdRateCount(c)
    /\ UNCHANGED ldWorld
LdRateFails(c) ==   \* LastStrike fails: not exempt
    /\ ldCall[c].at = "rate" /\ ldCall[c].strike > 1 /\ LdFails /\ LdRateCount(c) /\ UNCHANGED <<ldNow, ldArmed>>

\* Before a permanent ban: was an earlier one ineffective?
LdHadRead(c) ==
    /\ ldCall[c].at = "had"
    /\ LdGoes(c, [ldCall[c] EXCEPT !.at = "record", !.says = IF LdIp(c) \in ldHad THEN @ \cup {"permanent"} ELSE @])
    /\ LdPure
LdHadFails(c) ==
    /\ ldCall[c].at = "had" /\ LdFails /\ LdTo(c, "record") /\ ldBlind' = ldBlind \cup {LdIp(c)}
    /\ UNCHANGED <<ldNow, ldArmed, ldStore, ldEngine, ldLeaky>>

\* RecordStrike: offender, strike and ban row in one transaction.
LdRecord(c) ==
    LET i == LdIp(c) call == ldCall[c]
    IN  /\ call.at = "record" /\ LdTo(c, "clear")
        /\ ldKnown' = ldKnown \cup {i} /\ ldStrikes' = [ldStrikes EXCEPT ![i] = @ + 1]
        /\ ldLast' = [ldLast EXCEPT ![i] = [at |-> ldNow, ttl |-> call.ttl]]
        /\ ldRow' = [ldRow EXCEPT ![i] = LdRow(call.ttl, call.strike, call.dry)]
        /\ UNCHANGED <<ldWorld, ldHad, ldTrail, ldEngine, ldLeaky, ldBlind>>
LdClear(c) ==
    /\ ldCall[c].at \in {"clear", "unaudited"} /\ LdTo(c, IF ldCall[c].at = "clear" THEN "return" ELSE "quiet")
    /\ ldEdges' = [ldEdges EXCEPT ![LdIp(c)] = LdNoEdge]
    /\ UNCHANGED <<ldWorld, ldStore, ldWin, ldPasses, ldLeaky, ldBlind>>

\* GetStrikeCount or RecordStrike fails: Decide returns the error.
LdStoreFails(c) ==
    /\ ldCall[c].at \in {"count", "record"} /\ LdFails /\ LdTo(c, "return")
    /\ UNCHANGED <<ldNow, ldArmed, ldStore, ldEngine, ldLeaky, ldBlind>>

\* The deferred function: unlock, then deliver what the call has to say.
LdReturn(c) == ldCall[c].at \in {"return", "quiet"} /\ LdGoes(c, LdIdle) /\ LdPure

---------------------------------------------------------------------------
(* The observe band.                                                       *)

\* notifyEdgeRising under notifyMu; at capacity the expired edges go, or, if
\* there are none, an arbitrary one.
LdEdgeOld(i) == ldEdges[i] # LdNoEdge /\ ldNow >= ldEdges[i].at + LdEdgeWindow
LdEvicts ==
    LET used == {i \in LdIPs : ldEdges[i] # LdNoEdge}
        old == {i \in used : LdEdgeOld(i)}
    IN  IF Cardinality(used) < LdEdgeCap THEN {{}} ELSE IF old # {} THEN {old} ELSE {{i} : i \in used}
LdRising(c, i, r) ==
    /\ ldCall[c] = LdIdle
    /\ IF ldEdges[i].rule = r /\ ~LdEdgeOld(i)
       THEN LdGoes(c, [LdIdle EXCEPT !.at = "quiet", !.ip = i, !.rule = r]) /\ UNCHANGED ldEdges
       ELSE /\ LdGoes(c, [LdIdle EXCEPT !.at = "audit", !.ip = i, !.rule = r])
            /\ \E gone \in (IF ldEdges[i] # LdNoEdge THEN {{}} ELSE LdEvicts) :
                  ldEdges' = [j \in LdIPs |-> IF j = i THEN [rule |-> r, at |-> ldNow]
                                              ELSE IF j \in gone THEN LdNoEdge ELSE ldEdges[j]]
    /\ UNCHANGED <<ldWorld, ldStore, ldWin, ldPasses, ldLeaky, ldBlind>>
LdAudit(c) ==
    /\ ldCall[c].at = "audit" /\ LdTo(c, "quiet")
    /\ ldTrail' = [ldTrail EXCEPT ![LdIp(c)][ldCall[c].rule] = ldNow]
    /\ UNCHANGED <<ldWorld, ldRow, ldKnown, ldStrikes, ldHad, ldLast, ldEngine, ldLeaky, ldBlind>>
LdAuditFails(c) ==  \* the edge is cleared next, so that the next evaluation writes the row
    /\ ldCall[c].at = "audit" /\ LdFails /\ LdTo(c, "unaudited")
    /\ UNCHANGED <<ldNow, ldArmed, ldStore, ldEngine, ldLeaky, ldBlind>>

---------------------------------------------------------------------------
(* Everybody else.                                                         *)

LdOthers(row) == /\ ldRow' = row
                 /\ UNCHANGED <<ldWorld, ldKnown, ldStrikes, ldHad, ldLast, ldTrail, ldEngine, ldCall, ldLeaky, ldBlind>>

\* Unban, ExpireBans (strictly past the end) and RecordManualBan, which takes
\* no strike lock, resets the counters and keeps the rung of the row.
LdUnban(i) == ldRow[i] # LdNoRow /\ LdOthers([ldRow EXCEPT ![i] = LdNoRow]) /\ UNCHANGED ldVerb
LdExpire ==
    LET over == {i \in LdIPs : ldRow[i] # LdNoRow /\ ldRow[i].until < ldNow}
    IN  over # {} /\ UNCHANGED ldVerb /\ LdOthers([i \in LdIPs |-> IF i \in over THEN LdNoRow ELSE ldRow[i]])
LdManualBan(i, ttl) ==
    /\ i \in ldVerb /\ ldVerb' = ldVerb \ {i}
    /\ LdOthers([ldRow EXCEPT ![i] = LdRow(ttl, IF ldRow[i] = LdNoRow THEN 1 ELSE ldRow[i].strike, ~ldArmed)])

\* AuthorizeManualBan counts against the same minute; handleBan then waits for
\* enforceMu, and ends there when the enforcer fails.
LdAuthorize(i) ==
    /\ i \notin ldVerb /\ LdCounts /\ ldVerb' = IF ldWin'.n <= ldScene.cap THEN ldVerb \cup {i} ELSE ldVerb
    /\ UNCHANGED <<ldWorld, ldStore, ldEdges, ldCall, ldLeaky, ldBlind>>
LdBanFails(i) ==
    /\ i \in ldVerb /\ ldVerb' = ldVerb \ {i}
    /\ UNCHANGED <<ldWorld, ldStore, ldEngine, ldCall, ldLeaky, ldBlind>>
LdSetArmed == ldArmed' = ~ldArmed /\ UNCHANGED <<ldNow, ldFaults, ldStore, ldEngine, ldCall, ldVerb, ldLeaky, ldBlind>>
LdTick ==
    /\ ldNow < ldScene.time /\ ldNow' = ldNow + 1
    /\ ldPasses' = {p \in ldPasses : p.at + LdWindow >= ldNow'}
    /\ UNCHANGED <<ldArmed, ldFaults, ldStore, ldWin, ldEdges, ldCall, ldVerb, ldLeaky, ldBlind>>

\* The daemon dies anywhere; New begins with an empty window and no edges.
LdRestart ==
    /\ LdFails /\ ldCall' = [c \in LdCallers |-> LdIdle] /\ ldVerb' = {}
    /\ ldWin' = [start |-> ldNow, n |-> 0] /\ ldEdges' = [i \in LdIPs |-> LdNoEdge] /\ ldPasses' = {}
    /\ ldBlind' = ldBlind \cup {LdIp(c) : c \in {d \in LdCallers : ldCall[d].at \in {"track", "mark", "bump"}}}
    /\ UNCHANGED <<ldNow, ldArmed, ldStore, ldLeaky>>

LdDecide(c) ==
    \/ "strike" \in ldScene.env /\ \E i \in ldScene.ips : LdLock(c, i)
    \/ "notify" \in ldScene.env /\ \E i \in ldScene.ips, r \in LdRules : LdRising(c, i, r)
    \/ LdGuard(c) \/ LdTrack(c) \/ LdMark(c) \/ LdBump(c) \/ LdCount(c) \/ LdRateExempt(c) \/ LdRate(c)
    \/ LdHadRead(c) \/ LdRecord(c) \/ LdClear(c) \/ LdAudit(c) \/ LdReturn(c)
LdDecideFails(c) ==
    \/ LdGuardFails(c) \/ LdDiagFails(c) \/ LdBumpFails(c) \/ LdRateFails(c) \/ LdHadFails(c) \/ LdStoreFails(c)
    \/ LdAuditFails(c)
LdOperator ==
    \/ \E i \in ldScene.ips :
         \/ LdUnban(i) \/ LdAuthorize(i) \/ LdBanFails(i) \/ \E t \in {0, LdTTLs[1]} : LdManualBan(i, t)
    \/ LdSetArmed
LdNext ==
    /\ \/ (\E c \in ldScene.callers : LdDecide(c) \/ LdDecideFails(c)) /\ UNCHANGED ldVerb
       \/ "verbs" \in ldScene.env /\ LdOperator
       \/ LdExpire \/ LdTick \/ LdRestart
    /\ UNCHANGED ldScene

LdSpec == LdInit /\ [][LdNext]_ldVars

---------------------------------------------------------------------------
(* Properties.                                                             *)

\* Two evaluations of one address, in the pipeline and in the re-check, never
\* give the same rung twice or skip one: the ban row a strike writes carries
\* the number of strikes on record, and the TTL of that rung.
LdRungs ==
    [][\A i \in LdIPs : ldStrikes'[i] # ldStrikes[i] =>
            /\ ldRow'[i].strike = ldStrikes'[i]
            /\ ldRow'[i].until = (IF LdRung(ldStrikes'[i]) = 0 THEN LdNever ELSE ldNow + LdRung(ldStrikes'[i]))]_ldVars

\* Whatever the windows, refusals and exemptions, no minute sees more than
\* twice the cap of bans that count against it: a fixed window that is full at
\* its end and the next one full at its start (checkRateLimit).
LdPaceHolds == Cardinality(ldPasses) <= 2 * ldScene.cap

\* A ban is diagnosed as ineffective only for what happened under it: the
\* age the guard read may be that of an earlier ban which the operator has
\* replaced since, and the floor under the count absorbs that event.  A row
\* replaced after the count was read is the one exception.
LdAlarmsTrue ==
    [][\A c \in LdCallers :
        LET r == ldRow[LdIp(c)]
        IN  (ldCall[c].at = "mark" /\ "leak" \in ldCall'[c].says /\ r.total = ldCall[c].n) =>
                /\ ldCall[c].phase = "post_grace" => ldNow >= r.at + LdGrace
                /\ ldCall[c].phase = "in_grace" => r.total >= LdMinIn]_ldVars

\* The one case that must never pass silently (ADR-0009): the ladder makes the
\* ban of an address permanent that had an ineffective ban, across expiry,
\* unbans, restarts and re-arming; unless a call on its offender row failed.
LdPermanentLoud ==
    [][\A c \in LdCallers : LET i == LdIp(c) IN
        (ldCall[c].at = "record" /\ ldStrikes'[i] # ldStrikes[i] /\ ldRow'[i].until = LdNever
            /\ i \in ldLeaky \ ldBlind) => "permanent" \in ldCall[c].says]_ldVars

\* A notify_only that leaves no audit row is covered by one of its rule not a
\* window old, or by a caller that is about to write one or to clear the edge.
LdNothingUnaudited ==
    [][\A c \in LdCallers : LET call == ldCall'[c] IN
        (call.at = "quiet" /\ ldCall[c].at = "idle") =>
            \/ ldTrail[call.ip][call.rule] # LdNever /\ ldNow < ldTrail[call.ip][call.rule] + LdEdgeWindow
            \/ \E d \in LdCallers : ldCall[d].at \in {"audit", "unaudited"} /\ ldCall[d].ip = call.ip]_ldVars

\* The decision engine under concurrent calls, operators, failures and restarts.
LdSafe == [](LdTypeOK /\ LdPaceHolds) /\ LdRungs /\ LdAlarmsTrue /\ LdPermanentLoud /\ LdNothingUnaudited
==========================================================================

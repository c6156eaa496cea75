------------------------------- MODULE Detect -------------------------------
(***************************************************************************)
(* From an event to a strike: the in-memory sliding-window aggregator, the *)
(* persistent hourly counters behind the rules whose window is longer than *)
(* an hour, the rule set merged from its layers, and what a strike         *)
(* consumes.                                                               *)
(*                                                                         *)
(* The pipeline adds an event, judges the address and dispatches the       *)
(* decision; the asynchronous layers strike on their own; the flush ticker *)
(* trims both stores; the daemon may crash anywhere. Time is a counter in  *)
(* which an hour is DtHour. A rule matches kinds of events and, when it is *)
(* field-level, only the events whose field hits.                          *)
(***************************************************************************)
EXTENDS Integers, FiniteSetsExt, SequencesExt

CONSTANTS
  DtIPs,
  DtTypes,        \* per address, its possible events: [kind, hits], hits a set of rule names
  DtBase,         \* the embedded rules: sequence of [name, kinds, field, window, threshold]
  DtOverlays,     \* the drop-in directories considered: sequences of files, in lexical order
  DtHour, DtCutoff,    \* an hour; LongWindowCutoff
  DtBucket,       \* the overflow bucket's width
  DtMaxSamp, DtMaxIPs, \* the sample cap, the LRU cap
  DtSkew,         \* how late a line's own timestamp may be
  DtMaxTime, DtMaxEvents, DtMaxFaults   \* bounds: clock; events; crashes,
                                        \* store errors and asynchronous strikes

\* validateRule, for the parts the model tells apart.
DtValid(r) == r.kinds # {} /\ r.threshold > 0 /\ r.window > 0

ASSUME DtConstants ==
  /\ {DtHour, DtCutoff, DtBucket, DtMaxSamp, DtMaxIPs} \subseteq Nat \ {0}
  /\ {DtSkew, DtMaxTime, DtMaxEvents, DtMaxFaults} \subseteq Nat
  /\ \A i \in DOMAIN DtBase : DtValid(DtBase[i])

VARIABLES
  dtRules,      \* Engine.rules
  dtNow, dtEvents, dtFaults,   \* the clock and the bounded counters
  dtRaw,        \* ipBucket.entries: sequence of [at, keys]
  dtOver,       \* ipBucket.overflow: sequence of [at: the slot's start, keys]
  dtLast,       \* ipBucket.lastSeen; -1 where there is no bucket
  dtCount,      \* events_agg: for each ip a sequence of [key, hour], one per increment
  dtMark,       \* events_consumed: ip -> (<<window, key>> -> [n, at])
  dtPc,         \* the pipeline: [at, ip, long, fired]
  dtAi,         \* addresses an asynchronous layer struck and has yet to dispatch
  dtTrue,       \* history: the events of an ip since its last recorded strike
  dtFloor,      \* history: how many of those the in-memory half lost for a stated reason
  dtOwed,       \* history: addresses with a strike whose long-window evidence was not marked
  dtLost        \* history: addresses with an increment the store refused

dtMem == <<dtRaw, dtOver, dtLast>>
dtStore == <<dtCount, dtMark>>
dtHist == <<dtTrue, dtFloor, dtOwed, dtLost>>
dtBounds == <<dtNow, dtEvents, dtFaults>>
dtVars == <<dtRules, dtBounds, dtMem, dtStore, dtPc, dtAi, dtHist>>

-----------------------------------------------------------------------------
(* The rule set.                                                           *)

\* applyDropins, one entry: it replaces the rule of that name where it stands, or is appended.
DtMergeOne(rules, r) ==
  IF \E i \in DOMAIN rules : rules[i].name = r.name
  THEN [i \in DOMAIN rules |-> IF rules[i].name = r.name THEN r ELSE rules[i]]
  ELSE Append(rules, r)

DtMerged(files) == FoldLeft(DtMergeOne, DtBase, FlattenSeq(files))

\* New: an invalid rule anywhere in the merged set and the daemon does not start.
DtLoads(rules) == \A i \in DOMAIN rules : DtValid(rules[i])

DtRuleSet == ToSet(dtRules)
DtLong(r) == r.window > DtCutoff
DtMatches(r, e) == e.kind \in r.kinds /\ (r.field => r.name \in e.hits)

\* The key a rule reads: its own counter when it is field-level, else its kinds.
DtReads(r) == IF r.field THEN {r.name} ELSE r.kinds

DtWindows == {r.window : r \in {s \in DtRuleSet : ~DtLong(s)}}
DtLongWindows == {r.window : r \in {s \in DtRuleSet : DtLong(s)}}
DtMaxWindow == Max(DtWindows)
DtLongKeys(w) == UNION {DtReads(r) : r \in {s \in DtRuleSet : DtLong(s) /\ s.window = w}}

\* Aggregator.Add's keys: the kind, and the counters the classifier assigns.
DtMemKeys(e) ==
  {e.kind} \cup {r.name : r \in {s \in DtRuleSet : s.field /\ ~DtLong(s) /\ DtMatches(s, e)}}

\* processRaw's persistent keys: a kind some long rule reads, and the long field rules hit.
DtLongHits(e) ==
  ({e.kind} \cap UNION {DtLongKeys(w) : w \in DtLongWindows})
    \cup {r.name : r \in {s \in DtRuleSet : s.field /\ DtLong(s) /\ DtMatches(s, e)}}

-----------------------------------------------------------------------------
(* The aggregator.                                                         *)

DtFloorTo(t, step) == (t \div step) * step
DtWithout(f, ip) == [f EXCEPT ![ip] = <<>>]

\* trimBefore: the prefix of old entries goes, and the slots that start before the cutoff;
\* with no entry left no counter is kept either.
DtTrimRaw(raw, cutoff) ==
  LET keep == {i \in DOMAIN raw : \E j \in 1 .. i : raw[j].at >= cutoff}
  IN IF keep = {} THEN <<>> ELSE SubSeq(raw, Min(keep), Len(raw))
DtTrimOver(raw, over, cutoff) ==
  IF raw = <<>> THEN <<>> ELSE SelectSeq(over, LAMBDA s : s.at >= cutoff)

\* evictLRU: the least recently seen bucket once there are too many; ties in map order.
DtVictims(last) ==
  LET held == {ip \in DtIPs : last[ip] >= 0}
  IN IF Cardinality(held) <= DtMaxIPs THEN {{}}
     ELSE {{ip} : ip \in {i \in held : \A j \in held : last[i] <= last[j]}}

\* The surplus is counted under the bucket each event falls in.
DtFolded(raw, n) ==
  [i \in 1 .. n |-> [at |-> DtFloorTo(raw[i].at, DtBucket), keys |-> raw[i].keys]]

\* Aggregator.Add: append, trim to the horizon, fold the oldest surplus into the overflow.
DtAdd(ip, at, keys) ==
  LET cutoff == at - DtMaxWindow
      raw == DtTrimRaw(Append(dtRaw[ip], [at |-> at, keys |-> keys]), cutoff)
      over == DtTrimOver(raw, dtOver[ip], cutoff)
      n == IF Len(raw) > DtMaxSamp THEN Len(raw) - DtMaxSamp ELSE 0
      last == [dtLast EXCEPT ![ip] = at]
  IN \E out \in DtVictims(last) :
       /\ dtRaw' = [i \in DtIPs |-> IF i \in out THEN <<>>
                                    ELSE IF i = ip THEN SubSeq(raw, n + 1, Len(raw)) ELSE dtRaw[i]]
       /\ dtOver' = [i \in DtIPs |-> IF i \in out THEN <<>>
                                     ELSE IF i = ip THEN over \o DtFolded(raw, n) ELSE dtOver[i]]
       /\ dtLast' = [i \in DtIPs |-> IF i \in out THEN -1 ELSE last[i]]
       /\ dtFloor' = [i \in DtIPs |-> IF i \in out THEN Len(dtTrue'[i]) ELSE dtFloor[i]]

DtTally(recs, keys, cutoff) ==
  FoldLeft(LAMBDA n, s : n + Cardinality(s.keys \cap keys), 0,
           SelectSeq(recs, LAMBDA s : s.at >= cutoff))

\* Aggregate and countMatches: the raw entries in the window and the slots wholly inside it.
DtMemCount(ip, r) ==
  DtTally(dtRaw[ip] \o dtOver[ip], DtReads(r), dtNow - r.window)

-----------------------------------------------------------------------------
(* The persistent counters.                                                *)

\* SumEventCounts over the buckets since the window's start, one key at a time.
DtSum(ip, key, w) ==
  Len(SelectSeq(dtCount[ip], LAMBDA c : c.key = key /\ c.hour >= DtFloorTo(dtNow - w, DtHour)))

\* The watermark expires to the second although its bucket still counts.
DtMarkLivePrecise(m, w) == m.at >= dtNow - w

\* ConsumedEventCounts: the watermark lives as long as the bucket of its strike.
DtMarkLive(m, w) == m.at >= DtFloorTo(dtNow - w, DtHour)

DtConsumed(ip, key, w) ==
  IF <<w, key>> \in DOMAIN dtMark[ip] /\ DtMarkLive(dtMark[ip][<<w, key>>], w)
  THEN dtMark[ip][<<w, key>>].n ELSE 0

\* evaluateLongRules: each key less what the last strike consumed, never below zero.
DtLongCount(ip, r) ==
  LET fresh(k) == DtSum(ip, k, r.window) - DtConsumed(ip, k, r.window)
  IN FoldSet(LAMBDA k, n : IF fresh(k) > 0 THEN n + fresh(k) ELSE n, 0, DtReads(r))

DtRawCount(ip, r) == FoldSet(LAMBDA k, n : n + DtSum(ip, k, r.window), 0, DtReads(r))

\* ConsumeEventCounts: what every window has now; a key with nothing loses its watermark.
DtMarks(ip) ==
  LET pairs == {p \in UNION {{w} \X DtLongKeys(w) : w \in DtLongWindows} :
                  DtSum(ip, p[2], p[1]) > 0}
  IN [p \in pairs |-> [n |-> DtSum(ip, p[2], p[1]), at |-> dtNow]]

-----------------------------------------------------------------------------
(* The pipeline.                                                           *)

DtIdle == [at |-> "idle"]

DtInit ==
  /\ dtRules \in {rs \in {DtMerged(o) : o \in DtOverlays} : DtLoads(rs)}
  /\ dtNow = DtSkew /\ dtEvents = 0 /\ dtFaults = 0
  /\ dtRaw = [ip \in DtIPs |-> <<>>] /\ dtOver = [ip \in DtIPs |-> <<>>]
  /\ dtLast = [ip \in DtIPs |-> -1]
  /\ dtCount = [ip \in DtIPs |-> <<>>] /\ dtMark = [ip \in DtIPs |-> <<>>]
  /\ dtPc = DtIdle /\ dtAi = {}
  /\ dtTrue = [ip \in DtIPs |-> <<>>] /\ dtFloor = [ip \in DtIPs |-> 0]
  /\ dtOwed = {} /\ dtLost = {}

\* The pipeline handles an event well within one unit of time.
DtTick ==
  /\ dtPc = DtIdle /\ dtAi = {}
  /\ dtNow < DtMaxTime /\ dtNow' = dtNow + 1
  /\ UNCHANGED <<dtRules, dtEvents, dtFaults, dtMem, dtStore, dtPc, dtAi, dtHist>>

\* processRaw up to evaluateRules: the aggregator takes the line's own time, then the
\* persistent counters the daemon's clock. A failed increment is only logged.
DtEvent(ip, e, at) ==
  /\ dtPc = DtIdle /\ dtEvents < DtMaxEvents
  /\ dtEvents' = dtEvents + 1
  /\ dtTrue' = [dtTrue EXCEPT ![ip] =
       Append(@, [at |-> at, seen |-> dtNow, kind |-> e.kind, hits |-> e.hits])]
  /\ DtAdd(ip, at, DtMemKeys(e))
  /\ \/ /\ dtCount' = [dtCount EXCEPT ![ip] = @ \o SetToSeq(
             {[key |-> k, hour |-> DtFloorTo(dtNow, DtHour)] : k \in DtLongHits(e)})]
        /\ UNCHANGED <<dtFaults, dtLost>>
     \/ /\ DtLongHits(e) # {} /\ dtFaults < DtMaxFaults
        /\ dtFaults' = dtFaults + 1 /\ dtLost' = dtLost \cup {ip}
        /\ UNCHANGED dtCount
  /\ dtPc' = [at |-> "added", ip |-> ip, long |-> DtLongHits(e) # {}]
  /\ UNCHANGED <<dtRules, dtNow, dtMark, dtAi, dtOwed>>

\* evaluateRules: every in-memory window; the long ones only after a relevant event.
DtJudge ==
  /\ dtPc.at = "added"
  /\ dtPc' = [at |-> "judged", ip |-> dtPc.ip,
              fired |-> {r \in DtRuleSet :
                           IF DtLong(r) THEN dtPc.long /\ DtLongCount(dtPc.ip, r) >= r.threshold
                           ELSE DtMemCount(dtPc.ip, r) >= r.threshold}]
  /\ UNCHANGED <<dtRules, dtBounds, dtMem, dtStore, dtAi, dtHist>>

\* The store answers no query of evaluateLongRules, or only the sums: then nothing counts as
\* consumed.
DtJudgeBlind ==
  /\ dtPc.at = "added" /\ dtPc.long /\ dtFaults < DtMaxFaults
  /\ dtFaults' = dtFaults + 1
  /\ \E sums \in BOOLEAN :
       dtPc' = [at |-> "judged", ip |-> dtPc.ip,
                fired |-> {r \in DtRuleSet :
                             IF DtLong(r) THEN sums /\ DtRawCount(dtPc.ip, r) >= r.threshold
                             ELSE DtMemCount(dtPc.ip, r) >= r.threshold}]
  /\ UNCHANGED <<dtRules, dtNow, dtEvents, dtMem, dtStore, dtAi, dtHist>>

\* Nothing fired, the address is allowed, already banned, rate limited or only notified.
DtNoStrike ==
  /\ dtPc.at = "judged" /\ dtPc' = DtIdle
  /\ UNCHANGED <<dtRules, dtBounds, dtMem, dtStore, dtAi, dtHist>>

\* Decide records the strike.
DtStrike ==
  /\ dtPc.at = "judged" /\ dtPc.fired # {}
  /\ dtPc' = [at |-> "struck", ip |-> dtPc.ip]
  /\ dtTrue' = DtWithout(dtTrue, dtPc.ip) /\ dtFloor' = [dtFloor EXCEPT ![dtPc.ip] = 0]
  /\ dtOwed' = dtOwed \cup {dtPc.ip}
  /\ UNCHANGED <<dtRules, dtBounds, dtMem, dtStore, dtAi, dtLost>>

\* dispatch: the aggregator forgets the address, then the watermark is written.
DtConsume(ip) ==
  /\ dtRaw' = DtWithout(dtRaw, ip) /\ dtOver' = DtWithout(dtOver, ip)
  /\ dtLast' = [dtLast EXCEPT ![ip] = -1]
  /\ dtFloor' = [dtFloor EXCEPT ![ip] = Len(dtTrue[ip])]
  /\ \/ dtMark' = [dtMark EXCEPT ![ip] = DtMarks(ip)] /\ dtOwed' = dtOwed \ {ip}
        /\ UNCHANGED dtFaults
     \/ dtFaults < DtMaxFaults /\ dtFaults' = dtFaults + 1 /\ UNCHANGED <<dtMark, dtOwed>>
  /\ UNCHANGED <<dtRules, dtNow, dtEvents, dtCount, dtTrue, dtLost>>

DtDispatch == dtPc.at = "struck" /\ DtConsume(dtPc.ip) /\ dtPc' = DtIdle /\ UNCHANGED dtAi

\* An asynchronous verdict or a re-check strikes, concurrently with the pipeline.
DtAiStrike(ip) ==
  /\ dtTrue[ip] # <<>> /\ dtAi = {} /\ dtFaults < DtMaxFaults
  /\ dtFaults' = dtFaults + 1 /\ dtAi' = {ip}
  /\ dtTrue' = DtWithout(dtTrue, ip) /\ dtFloor' = [dtFloor EXCEPT ![ip] = 0]
  /\ dtOwed' = dtOwed \cup {ip}
  /\ UNCHANGED <<dtRules, dtNow, dtEvents, dtMem, dtStore, dtPc, dtLost>>

DtAiDispatch == \E ip \in dtAi : DtConsume(ip) /\ dtAi' = dtAi \ {ip} /\ UNCHANGED dtPc

-----------------------------------------------------------------------------
(* The flush ticker and the crash.                                         *)

\* flushAggregates: no rule can see an event older than the longest window.
DtHorizon == dtNow - DtMaxWindow

\* One more hour than the longest window keeps the boundary bucket whole.
DtPruneAt == DtFloorTo(dtNow - Max(DtLongWindows) - DtHour, DtHour)

DtFlush ==
  LET raw == [ip \in DtIPs |-> DtTrimRaw(dtRaw[ip], DtHorizon)]
      before == IF DtLongWindows = {} THEN 0 ELSE DtPruneAt
  IN /\ dtRaw' = raw
     /\ dtOver' = [ip \in DtIPs |-> DtTrimOver(raw[ip], dtOver[ip], DtHorizon)]
     /\ dtLast' = [ip \in DtIPs |-> IF raw[ip] = <<>> THEN -1 ELSE dtLast[ip]]
     /\ dtMark' = [ip \in DtIPs |-> Restrict(dtMark[ip],
                     {p \in DOMAIN dtMark[ip] : dtMark[ip][p].at >= before})]
     /\ dtCount' = [ip \in DtIPs |-> SelectSeq(dtCount[ip], LAMBDA c : c.hour >= before)]
     /\ UNCHANGED <<dtRules, dtBounds, dtPc, dtAi, dtHist>>

\* A crash loses the aggregator and whatever was being dispatched.
DtCrash ==
  /\ dtFaults < DtMaxFaults /\ dtFaults' = dtFaults + 1
  /\ dtRaw' = [ip \in DtIPs |-> <<>>] /\ dtOver' = [ip \in DtIPs |-> <<>>]
  /\ dtLast' = [ip \in DtIPs |-> -1] /\ dtPc' = DtIdle /\ dtAi' = {}
  /\ dtFloor' = [ip \in DtIPs |-> Len(dtTrue[ip])]
  /\ UNCHANGED <<dtRules, dtNow, dtEvents, dtStore, dtTrue, dtOwed, dtLost>>

DtNext ==
  \/ DtTick \/ DtJudge \/ DtJudgeBlind \/ DtNoStrike \/ DtStrike \/ DtDispatch \/ DtAiDispatch
  \/ DtFlush \/ DtCrash
  \/ \E ip \in DtIPs : DtAiStrike(ip) \/ \E e \in DtTypes[ip], lag \in 0 .. DtSkew : DtEvent(ip, e, dtNow - lag)

DtSpec == DtInit /\ [][DtNext]_dtVars

-----------------------------------------------------------------------------
(* Properties.                                                             *)

\* Every variable keeps its type; an address holds no more raw events than the sample cap,
\* no more slots than its horizon has, and no more addresses are held than the LRU cap.
DtTypeOK ==
  /\ dtNow \in 0 .. DtMaxTime /\ dtEvents \in 0 .. DtMaxEvents /\ dtFaults \in 0 .. DtMaxFaults
  /\ dtPc.at \in {"idle", "added", "judged", "struck"} /\ dtAi \subseteq DtIPs
  /\ dtOwed \subseteq DtIPs /\ dtFloor \in [DtIPs -> 0 .. DtMaxEvents]
  /\ \A ip \in DtIPs :
       /\ dtLast[ip] \in -1 .. dtNow /\ dtLast[ip] = -1 => dtRaw[ip] = <<>>
       /\ Len(dtRaw[ip]) <= DtMaxSamp
       /\ Cardinality({s.at : s \in ToSet(dtOver[ip])}) <= DtMaxWindow \div DtBucket + 1
  /\ Cardinality({ip \in DtIPs : dtLast[ip] >= 0}) <= DtMaxIPs

DtMatching(ip, r, from, Recent(_)) ==
  Cardinality({i \in from + 1 .. Len(dtTrue[ip]) :
                 DtMatches(r, dtTrue[ip][i]) /\ Recent(dtTrue[ip][i])})
DtInOrder(ip) == \A i, j \in DOMAIN dtTrue[ip] : i < j => dtTrue[ip][i].at <= dtTrue[ip][j].at
DtJudges == dtPc.at = "added" /\ dtPc'.at = "judged" /\ dtFaults' = dtFaults

\* Evidence earns one strike: when a rule fires, at least its threshold of matching events
\* came after the address's last strike and inside the window, one hour of slack for the
\* counters' buckets. Exempt are an address an asynchronous strike has yet to dispatch and,
\* for long windows, one with a strike whose watermark a crash or a store error lost
\* (dispatch's Reset and ConsumeEventCounts, ConsumedEventCounts' cutoff, Aggregate's
\* whole-bucket rule).
DtNewEvidence ==
  [][DtJudges => \A r \in dtPc'.fired :
       IF DtLong(r)
       THEN \/ dtPc.ip \in dtOwed
            \/ DtMatching(dtPc.ip, r, 0, LAMBDA v : v.seen >= DtFloorTo(dtNow - r.window, DtHour))
                 >= r.threshold
       ELSE \/ dtPc.ip \in dtAi
            \/ DtMatching(dtPc.ip, r, 0, LAMBDA v : v.at >= dtNow - r.window) >= r.threshold]_dtVars

\* No attacker hides behind its own traffic: whatever the sample cap evicted and whenever the
\* flush ran, a rule fires once its threshold of events lies in the window less one bucket.
\* Only an LRU eviction, a restart or a strike may have discarded any, and lines whose
\* timestamps run backwards are not covered (Aggregator.Add, trimBefore, flushAggregates).
DtNothingHidden ==
  [][DtJudges => \A r \in DtRuleSet :
       /\ ~DtLong(r) /\ DtInOrder(dtPc.ip)
       /\ DtMatching(dtPc.ip, r, dtFloor[dtPc.ip], LAMBDA v : v.at >= dtNow - r.window + DtBucket)
            >= r.threshold
       => r \in dtPc'.fired]_dtVars

\* Low and slow is still seen: an address with no watermark has every matching event of the
\* window in its long counters, across crashes, evictions and prunes, so the rule fires at its
\* threshold (IncrEventCount, PruneEventCounts' extra hour).
DtSlowSeen ==
  [][DtJudges /\ dtPc.long => \A r \in DtRuleSet :
       /\ DtLong(r) /\ dtMark[dtPc.ip] = <<>> /\ dtPc.ip \notin dtLost
       /\ DtMatching(dtPc.ip, r, 0, LAMBDA v : v.seen >= dtNow - r.window) >= r.threshold
       => r \in dtPc'.fired]_dtVars

\* What a window rule may conclude: it convicts on new evidence only, and neither
\* the sample cap, the flush, a prune nor a restart hides evidence from it.
DtSafe == []DtTypeOK /\ DtNewEvidence /\ DtNothingHidden /\ DtSlowSeen
=============================================================================
